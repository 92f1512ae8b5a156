----------------------------- MODULE JobMonitor -----------------------------
(***************************************************************************)
(* The goroutine that watches whether the Pod of a created Job starts:     *)
(* monitorJobScheduling and jobSchedulingState of                          *)
(* executor/remote_executor.go with kubernetesjob/client.go.               *)
(*                                                                         *)
(* A round makes up to three reads of the cluster, each at a moment of its *)
(* own, and may end in a terminal error event for the deployment.          *)
(***************************************************************************)
EXTENDS Integers

CONSTANTS
  Delay,     \* PodSchedulingDelay, in ticks
  Interval,  \* jobSchedulingMonitorInterval
  Timeout,   \* jobSchedulingMonitorTimeout
  MaxFaults  \* failing reads and publications

ASSUME MonitorAssumption ==
  /\ {Delay, Interval, Timeout} \subseteq Nat \ {0}
  /\ MaxFaults \in Nat

VARIABLES
  \* the cluster, as it is
  jobStatus,  \* status of the Job object, behind the Pod
  pod,        \* the Pod of the Job; "over" stands for Succeeded and Failed
  warned,     \* objects that have Warning events
  \* the goroutine
  mon,        \* where it is
  object,     \* objectName
  wait,       \* time until its timer or ticker fires
  left,       \* time until its timeout fires
  reported,   \* the terminal error is published
  faults

clusterVars == <<jobStatus, pod, warned>>
timers == <<wait, left>>
monitorVars == <<mon, object, wait, left, reported, faults>>

Fault == faults < MaxFaults /\ faults' = faults + 1

-----------------------------------------------------------------------------
\* The delay is over: ticker and timeout start, and the first round begins.
MonitorWakes ==
  /\ mon = "delayed" /\ wait = 0
  /\ mon' = "status"
  /\ wait' = Interval /\ left' = Timeout
  /\ UNCHANGED <<object, reported, faults>>

\* monitorJobScheduling returns, and stops its timers.
Stop == wait' = 0 /\ left' = 0

\* A read fails: the round is over, the next one tries again.
ReadFails ==
  /\ Fault
  /\ mon' = "waiting"
  /\ UNCHANGED <<object, reported, timers>>

\* CheckJobStatus: a Job that is gone is an error like any other.
ReadStatus ==
  /\ mon = "status"
  /\ \/ /\ mon' = CASE jobStatus = "gone" -> "waiting"
                    [] jobStatus \in {"ready", "finished"} -> "ended"
                    [] OTHER -> "pod"
        /\ IF mon' = "ended" THEN Stop ELSE UNCHANGED timers
        /\ UNCHANGED <<object, reported, faults>>
     \/ ReadFails

\* Mutant: the phase of the Pod is not looked at.
ReadPodNameOnly ==
  /\ mon = "pod"
  /\ \/ /\ mon' = "events"
        /\ object' = IF pod = "none" THEN "job" ELSE "pod"
        /\ UNCHANGED <<reported, timers, faults>>
     \/ ReadFails

\* GetPodJob: without a Pod, the events of the Job are looked at.  A Pod in any
\* phase but Pending and Unknown has started, and the monitor is done.
ReadPod ==
  /\ mon = "pod"
  /\ \/ /\ mon' = IF pod \in {"none", "pending", "unknown"} THEN "events" ELSE "ended"
        /\ object' = IF pod = "none" THEN "job" ELSE "pod"
        /\ IF mon' = "ended" THEN Stop ELSE UNCHANGED timers
        /\ UNCHANGED <<reported, faults>>
     \/ ReadFails

\* GetObjectWarningEvents: any Warning the object ever had is reported.
ReadEvents ==
  /\ mon = "events"
  /\ \/ /\ mon' = IF object \in warned THEN "publishing" ELSE "waiting"
        /\ UNCHANGED <<object, reported, timers, faults>>
     \/ ReadFails

\* Mutant: the monitor returns although the publication failed.
PublishErrorOnce ==
  /\ mon = "publishing"
  /\ mon' = "ended"
  /\ \/ reported' = TRUE /\ UNCHANGED faults
     \/ Fault /\ UNCHANGED reported
  /\ Stop
  /\ UNCHANGED object

\* publishRunnerError: only a published error ends the monitor.
PublishError ==
  /\ mon = "publishing"
  /\ \/ mon' = "ended" /\ reported' = TRUE /\ Stop /\ UNCHANGED <<object, faults>>
     \/ ReadFails

\* The ticker: a tick that came during the round starts the next one at once.
NextRound ==
  /\ mon = "waiting" /\ wait = 0
  /\ mon' = "status"
  /\ wait' = Interval
  /\ UNCHANGED <<object, left, reported, faults>>

\* The timeout is looked at between rounds only.
MonitorTimesOut ==
  /\ mon = "waiting" /\ left = 0
  /\ mon' = "expired"
  /\ Stop
  /\ UNCHANGED <<object, reported, faults>>

\* The agent stops or restarts: the command is acknowledged, nothing resumes
\* the monitor.
AgentRestarts ==
  /\ mon \notin {"ended", "expired", "lost"}
  /\ mon' = "lost"
  /\ Stop
  /\ UNCHANGED <<object, reported, faults>>

\* Mutant: a timer runs on below zero.
LessUnlimited(t) == t - 1

Less(t) == IF t = 0 THEN 0 ELSE t - 1

Tick ==
  /\ wait' = Less(wait)
  /\ left' = Less(left)
  /\ UNCHANGED <<mon, object, reported, faults>>

MonitorInit(alive) ==
  /\ mon = (IF alive THEN "delayed" ELSE "lost")
  /\ object = "job"
  /\ wait = (IF alive THEN Delay ELSE 0)
  /\ left = 0
  /\ reported = FALSE
  /\ faults = 0

Round == ReadStatus \/ ReadPod \/ ReadEvents \/ PublishError

-----------------------------------------------------------------------------
MonitorTypeOK ==
  /\ jobStatus \in {"active", "ready", "finished", "gone"}
  /\ pod \in {"none", "pending", "running", "unknown", "over"}
  /\ warned \subseteq {"job", "pod"}
  /\ mon \in {"delayed", "status", "pod", "events", "publishing", "waiting", "ended", "expired", "lost"}
  /\ object \in {"job", "pod"}
  /\ wait \in 0..(Delay + Interval) /\ left \in 0..Timeout
  /\ reported \in BOOLEAN
  /\ faults \in 0..MaxFaults
=============================================================================
