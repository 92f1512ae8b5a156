---------------------------- MODULE KubernetesJob ----------------------------
(***************************************************************************)
(* A deployment Job from its creation on: Kubernetes gives it a Pod, or    *)
(* another one, the Pod runs JobExecution, and JobMonitor watches from the *)
(* agent.  The cluster is external; it is modelled from what               *)
(* kubernetesjob/client.go reads of it.                                    *)
(***************************************************************************)
EXTENDS JobExecution, JobMonitor

CONSTANTS
  MaxPods,     \* Pods of the Job, one after the other
  WatchedJobs  \* Jobs whose monitor is followed; the agent of any other one
               \* restarts right after it acknowledged the command

ASSUME PodsAssumption == MaxPods \in Nat \ {0} /\ WatchedJobs \subseteq JobChoices

VARIABLES
  pods,       \* Pods created so far
  sinceRead   \* history: a Pod started, or came back into sight, since the
              \* round at hand read the Pod

vars == <<execVars, clusterVars, monitorVars, pods, sinceRead>>

Started == run # "none"

Init ==
  /\ ExecInit /\ MonitorInit(job \in WatchedJobs)
  /\ jobStatus = "active" /\ pod = "none" /\ warned = {}
  /\ pods = 0 /\ sinceRead = FALSE

-----------------------------------------------------------------------------
(* Cluster: external *)

\* The Job controller creates a Pod, again after a lost or a failed one.
CreatePod ==
  /\ jobStatus # "gone" /\ pods < MaxPods
  /\ \/ pod = "none" /\ jobStatus # "finished"
     \/ pod = "over" /\ jobStatus = "finished" /\ exit # "zero"
  /\ pod' = "pending" /\ pods' = pods + 1
  /\ warned' = warned \ {"pod"}
  /\ UNCHANGED <<execVars, jobStatus, monitorVars, sinceRead>>

\* A Pod that cannot be created, placed, supplied with images and volumes, or
\* reached.
Warn ==
  /\ \E o \in {"job", "pod"} \ warned :
        /\ o = "pod" => pod \in {"pending", "unknown"}
        /\ warned' = warned \cup {o}
  /\ UNCHANGED <<execVars, jobStatus, pod, monitorVars, pods, sinceRead>>

StartPod ==
  /\ pod = "pending"
  /\ pod' = "running" /\ sinceRead' = TRUE
  /\ StartRun
  /\ UNCHANGED <<jobStatus, warned, monitorVars, pods>>

\* The node of a running Pod cannot be reached; the program may go on.
LosePod ==
  /\ pod = "running"
  /\ pod' = "unknown"
  /\ UNCHANGED <<execVars, jobStatus, warned, monitorVars, pods, sinceRead>>

FindPod ==
  /\ pod = "unknown"
  /\ pod' = "running" /\ sinceRead' = TRUE
  /\ UNCHANGED <<execVars, jobStatus, warned, monitorVars, pods>>

PodEnds ==
  /\ pod = "running" /\ run \in {"ended", "killed"}
  /\ pod' = "over"
  /\ UNCHANGED <<execVars, jobStatus, warned, monitorVars, pods, sinceRead>>

\* The Job's status follows its Pod.
SyncStatus ==
  /\ \/ jobStatus = "active" /\ pod = "running" /\ jobStatus' = "ready"
     \/ jobStatus \in {"active", "ready"} /\ pod = "over" /\ jobStatus' = "finished"
     \/ jobStatus = "ready" /\ pod \in {"none", "pending", "unknown"} /\ jobStatus' = "active"
  /\ UNCHANGED <<execVars, pod, warned, monitorVars, pods, sinceRead>>

\* A Pod is removed: evicted, drained, or after it was counted.
RemovePod ==
  /\ \/ pod \in {"running", "unknown"} /\ (IF run = "ended" THEN UNCHANGED execVars ELSE KillRun)
     \/ pod = "over" /\ jobStatus = "finished" /\ UNCHANGED execVars
  /\ pod' = "none"
  /\ UNCHANGED <<jobStatus, warned, monitorVars, pods, sinceRead>>

\* The Job is removed some time after it finished.
RemoveJob ==
  /\ jobStatus = "finished" /\ pod \in {"none", "over"}
  /\ jobStatus' = "gone" /\ pod' = "none"
  /\ UNCHANGED <<execVars, warned, monitorVars, pods, sinceRead>>

Cluster == CreatePod \/ Warn \/ StartPod \/ LosePod \/ FindPod \/ PodEnds \/ SyncStatus \/ RemovePod \/ RemoveJob

-----------------------------------------------------------------------------
(* Composition *)

Program(A) ==
  /\ A /\ pod \in {"running", "unknown"}
  /\ UNCHANGED <<clusterVars, monitorVars, pods, sinceRead>>

Monitor(A) ==
  /\ A
  /\ sinceRead' = (mon \notin {"waiting", "pod"} /\ sinceRead)
  /\ UNCHANGED <<execVars, clusterVars, pods>>

Next ==
  \/ Cluster
  \/ Program(Execute) \/ Program(Signal) \/ Program(KillRun)
  \/ Monitor(MonitorWakes) \/ Monitor(Round) \/ Monitor(NextRound)
  \/ Monitor(MonitorTimesOut) \/ Monitor(AgentRestarts) \/ Monitor(Tick)

\* The program and the goroutine run, the tool's commands end, time passes.
Fairness ==
  /\ WF_vars(Program(Execute))
  /\ WF_vars(Monitor(MonitorWakes)) /\ WF_vars(Monitor(Round)) /\ WF_vars(Monitor(NextRound))
  /\ WF_vars(Monitor(Tick))

Spec == Init /\ [][Next]_vars /\ Fairness

-----------------------------------------------------------------------------
(* Properties *)

\* Every variable has its type.
TypeOK ==
  /\ ExecTypeOK /\ MonitorTypeOK
  /\ pods \in 0..MaxPods /\ sinceRead \in BOOLEAN

\* The infrastructure only changes in a deployment, through the plan this very
\* process made, or in a destroy, and either way after the downloaded modules
\* were checked against the manifest: a plan or an observation changes
\* nothing, and an artifact that does not verify ends the run before anything
\* of it is applied.  Whatever fails, is killed or is signalled in between.
ChangeOnlyByVerifiedPlan ==
  [][infra' # infra =>
       /\ verified
       /\ \/ job.mode = "deploy" /\ plan = "own" /\ infra' \in {"applied", "partial"}
          \/ job.mode = "destroy" /\ infra' \in {"destroyed", "partial"}]_vars

\* A success is reported for what was done only: the deployment is applied or
\* destroyed, a plan or an observation has left the infrastructure alone.  An
\* observation's success comes with its plan file removed, and a process that
\* ends by itself leaves none behind, nor its ssh agent, unless the removal
\* failed.  Exit code 0 says that a success is stored or spooled, and a
\* success that is stored or spooled gives it, unless the logs key is unusable.
ResultIsTrue ==
  /\ result.status = "success" =>
       CASE job.mode = "deploy" -> infra = "applied"
         [] job.mode = "destroy" -> infra = "destroyed"
         [] job.mode = "plan" -> infra = "untouched"
         [] job.mode = "observe" -> infra = "untouched" /\ planDir = "removed"
         [] OTHER -> FALSE
  /\ run = "ended" => agent # "listening" /\ (planDir = "present" => badCleanups > 0)
  /\ LET told == result.status = "success" /\ posted \in {"stored", "spooled"} IN
     /\ exit = "zero" => told
     /\ run = "ended" /\ told => exit = "zero" \/ job.badLogsKey

\* monitorJobScheduling: when the terminal error is published while the Pod
\* runs or has ended, the Pod started, or came back into sight, after this very
\* round had read it.  An old Warning does not turn into an error for a Pod that
\* runs, and what one round saw is never published in a later one; the two reads
\* and the publication of one round are the whole of the window.
ErrorNotForSeenPod ==
  [][reported' # reported => pod \in {"none", "pending", "unknown"} \/ sinceRead]_vars

\* A Job whose Pod never starts, with a Warning that says why, is reported,
\* although reads and publications may fail: unless the agent restarted, the
\* timeout came first, or a first Pod did start.
Stuck ==
  /\ jobStatus = "active"
  /\ \/ pod = "none" /\ "job" \in warned
     \/ pod = "pending" /\ "pod" \in warned
StuckReported == <>[]Stuck => <>(reported \/ mon \in {"lost", "expired"} \/ Started)

\* A program that runs comes to its end, by itself or killed; after SIGTERM an
\* ordinary command's children may hold it back, never an observation's.
RunEnds ==
  run \notin {"none", "ended", "killed"} ~>
    (run \in {"none", "ended", "killed"} \/ (lingering /\ ~Observing))
=============================================================================
