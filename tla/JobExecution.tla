---------------------------- MODULE JobExecution ----------------------------
(***************************************************************************)
(* The program of a deployment Job: standard mode of cmd/runner/main.go,   *)
(* the executor (executor/standard_executor.go, observation.go), the       *)
(* infrastructure-as-code runner it drives (runner/base_runner.go,         *)
(* observation.go, runner_factory.go) and the ssh agent beside it.         *)
(*                                                                         *)
(* An execution is the sequence of steps of its mode; the first that fails *)
(* ends it.  Commands of the tool run as processes of their own, which may *)
(* be under way when SIGTERM cancels the context.  What tool and gateway   *)
(* answer is chosen freely.                                                *)
(***************************************************************************)
EXTENDS Naturals, Sequences

CONSTANTS
  JobChoices,  \* configurations: mode and observation, an encrypting key, an
               \* outbox directory, a logs key that is no age recipient
  MaxCleanups  \* plan directories that cannot be removed

Modes == {"deploy", "destroy", "plan", "observe", "other"}

Jobs == [mode : Modes, key : BOOLEAN, edge : BOOLEAN, badLogsKey : BOOLEAN]

ASSUME JobAssumption ==
  /\ JobChoices \subseteq Jobs
  /\ MaxCleanups \in Nat

VARIABLES
  job,        \* the configuration of the Job
  \* the process
  run,        \* what the process is doing
  todo,       \* steps left
  signalled,  \* SIGTERM came: the context is cancelled
  lingering,  \* children of a killed command keep its output open
  result,     \* what ExecuteStandardMode returned
  posted,     \* what became of the result
  exit,       \* exit code
  \* what the steps leave behind
  verified,   \* verifyArtifactManifest accepted what this process initialized
  plan,       \* plan file of this process
  planDir,    \* directory of the observation's plan file
  agent,      \* the ssh agent's socket
  infra,      \* the infrastructure the state backend knows of
  badCleanups

leftVars == <<verified, plan, planDir, agent, infra, badCleanups>>
execVars == <<job, run, todo, signalled, lingering, result, posted, exit, leftVars>>

NoResult == [status |-> "none", code |-> "none"]

-----------------------------------------------------------------------------
(* Steps *)

\* ExecuteStandardMode until the modes part.
Prepare == <<"factory", "folder", "agent", "main.tf", "version", "init", "verify">>

\* Apply, and what the result of a deployment needs of it.
DeployOutputs(key) == <<"metadata", "decode">> \o (IF key THEN <<"output", "encrypt">> ELSE <<>>)

\* Observe between the creation and the removal of its directory.
Observe == <<"mkdir", "init", "verify", "plan", "show", "parse">>

\* executeObservation has its own order and no ordinary entry point.
ExecuteObservation == <<"factory", "folder", "main.tf", "agent">> \o Observe

Steps(j) ==
  CASE j.mode = "deploy"  -> Prepare \o <<"plan", "show", "summary", "apply", "summary">> \o DeployOutputs(j.key)
    [] j.mode = "destroy" -> Prepare \o <<"destroy", "summary">>
    [] j.mode = "plan"    -> Prepare \o <<"plan", "show", "summary">> \o (IF j.key THEN <<"encrypt">> ELSE <<>>)
    [] j.mode = "observe" -> ExecuteObservation
    [] OTHER              -> <<"unsupported">>

\* Steps that run the tool.
Commands == {"version", "init", "plan", "show", "apply", "destroy", "metadata", "output"}
Observing == job.mode = "observe"

\* getIaCErrorCode, and the codes the executor itself gives: a diagnostic of
\* the tool, an artifact that is not as the manifest says, or an error
\* without a code.
Codes(s) ==
  IF Observing THEN {"OBSERVATION_UNAVAILABLE"}
  ELSE CASE s \in {"init", "plan", "apply", "destroy", "metadata", "output"} -> {"TF_DIAGNOSTIC_ERROR", "IAC_COMMAND_ERROR"}
         [] s = "verify" -> {"ARTIFACT", "IAC_COMMAND_ERROR"}
         [] s \in {"version", "show", "summary"} -> {"IAC_COMMAND_ERROR"}
         [] OTHER -> {"RUNNER"}

Step == Head(todo)

\* The process is between two steps, and s is next.
At(s) == run = "executing" /\ todo # <<>> /\ Step = s

Failure(code) == [status |-> "failure", code |-> code]
Success == [status |-> "success", code |-> "none"]

\* The deferred functions of ExecuteStandardMode.
CloseAgent == agent' = IF agent = "listening" THEN "closed" ELSE agent

\* Mutant: the directory of the plan is only removed after a success.
EndObserveOnSuccess(outcome) ==
  /\ planDir' = IF planDir = "present" /\ outcome = Success THEN "removed" ELSE planDir
  /\ result' = outcome
  /\ UNCHANGED badCleanups

\* The deferred removal in Observe: if it fails, so does the observation.
EndObserve(outcome) ==
  \/ /\ planDir' = IF planDir = "present" THEN "removed" ELSE planDir
     /\ result' = outcome
     /\ UNCHANGED badCleanups
  \/ /\ planDir = "present" /\ badCleanups < MaxCleanups
     /\ badCleanups' = badCleanups + 1
     /\ result' = Failure("OBSERVATION_UNAVAILABLE")
     /\ UNCHANGED planDir

\* ExecuteStandardMode returns.
Return(outcome) ==
  /\ run' = "posting"
  /\ todo' = <<>>
  /\ EndObserve(outcome)
  /\ CloseAgent

\* The step is done; after the last one the execution has succeeded, unless
\* it is an observation and the context is cancelled.
Done ==
  IF Tail(todo) # <<>>
  THEN run' = "executing" /\ todo' = Tail(todo) /\ UNCHANGED <<result, planDir, agent, badCleanups>>
  ELSE Return(IF Observing /\ signalled THEN Failure("OBSERVATION_UNAVAILABLE") ELSE Success)

Failed == \E code \in Codes(Step) : Return(Failure(code))

-----------------------------------------------------------------------------
(* Actions *)

\* The container starts with an empty folder: main, and mainInner up to the
\* configuration; an invalid one ends the program without a result.
StartRun ==
  /\ \/ run' = "executing" /\ todo' = Steps(job) /\ exit' = "none"
     \/ run' = "ended" /\ todo' = <<>> /\ exit' = "one"
  /\ signalled' = FALSE /\ lingering' = FALSE
  /\ result' = NoResult /\ posted' = "no"
  /\ verified' = FALSE /\ plan' = "none" /\ planDir' = "none" /\ agent' = "none"
  /\ UNCHANGED <<job, infra, badCleanups>>

\* A step without a process that does not look at the context: CreateRunner,
\* the checks of files and outputs, the encryption.
LocalStep ==
  /\ run = "executing" /\ todo # <<>>
  /\ Step \notin Commands \cup {"folder", "agent", "verify", "mkdir", "unsupported"}
  /\ Done \/ Failed
  /\ UNCHANGED <<job, signalled, lingering, posted, exit, verified, plan, infra>>

\* getBundle of the gateway: a token that is refused, no such object, or its
\* content, which ends early without an error when the copy fails.
ServeBundle == {"unauthorized", "not found", "short", "whole"}

\* Client.GetBundle with that answer.
GetBundle(answer) == IF signalled \/ answer \in {"unauthorized", "not found"} THEN "error" ELSE answer

\* Only a whole archive can be extracted.
CreateIaCFolder ==
  /\ At("folder")
  /\ \/ \E answer \in ServeBundle : GetBundle(answer) = "whole" /\ Done
     \/ Failed
  /\ UNCHANGED <<job, signalled, lingering, posted, exit, verified, plan, infra>>

\* sshagent.Launch: bad keys or a socket that cannot be opened fail.
LaunchAgent ==
  /\ At("agent")
  /\ \/ agent' = "listening" /\ run' = run /\ todo' = Tail(todo) /\ UNCHANGED <<result, planDir, badCleanups>>
     \/ Failed
  /\ UNCHANGED <<job, signalled, lingering, posted, exit, verified, plan, infra>>

\* Mutant: modules that were not downloaded are let through.
VerifyArtifactsAnyway ==
  /\ At("verify")
  /\ Done
  /\ verified' \in BOOLEAN
  /\ UNCHANGED <<job, signalled, lingering, posted, exit, plan, infra>>

\* verifyArtifactManifest, at the end of init and in Observe.
VerifyArtifacts ==
  /\ At("verify")
  /\ \/ Done /\ verified' = TRUE
     \/ Failed /\ UNCHANGED verified
  /\ UNCHANGED <<job, signalled, lingering, posted, exit, plan, infra>>

\* Observe creates the directory of its plan.
MakePlanDir ==
  /\ At("mkdir")
  /\ \/ planDir' = "present" /\ run' = run /\ todo' = Tail(todo) /\ UNCHANGED <<result, agent, badCleanups>>
     \/ Failed
  /\ UNCHANGED <<job, signalled, lingering, posted, exit, verified, plan, infra>>

\* A mode the executor does not know.
Unsupported ==
  /\ At("unsupported")
  /\ Failed
  /\ UNCHANGED <<job, signalled, lingering, posted, exit, verified, plan, infra>>

\* runCmd and observationCommand start the tool, unless the context is
\* cancelled already.
StartCommand ==
  /\ run = "executing" /\ todo # <<>> /\ Step \in Commands
  /\ IF signalled
     THEN Failed
     ELSE run' = "command" /\ UNCHANGED <<todo, result, planDir, agent, badCleanups>>
  /\ UNCHANGED <<job, signalled, lingering, posted, exit, verified, plan, infra>>

\* What a command that ran to its end did.
Effect ==
  /\ plan' = IF Step = "plan" THEN "own" ELSE plan
  /\ infra' = IF Step = "apply" THEN "applied" ELSE IF Step = "destroy" THEN "destroyed" ELSE infra

\* What a command that failed or was killed may have done.
PartialEffect ==
  /\ UNCHANGED plan
  /\ infra' \in IF Step \in {"apply", "destroy"} THEN {infra, "partial"} ELSE {infra}

\* The tool ends.
CommandEnds ==
  /\ run = "command"
  /\ \/ Effect /\ Done
     \/ PartialEffect /\ Failed
  /\ UNCHANGED <<job, signalled, lingering, posted, exit, verified>>

\* SIGTERM: signal.NotifyContext cancels the context, which kills a command
\* that runs; its children may live on.
Signal ==
  /\ run \in {"executing", "command", "posting"} /\ ~signalled
  /\ signalled' = TRUE
  /\ IF run = "command"
     THEN run' = "reaping" /\ PartialEffect /\ lingering' \in BOOLEAN
     ELSE UNCHANGED <<run, plan, infra, lingering>>
  /\ UNCHANGED <<job, todo, result, posted, exit, verified, planDir, agent, badCleanups>>

\* Mutant: observationCommand waits for the children too.
CommandReapedLate ==
  /\ run = "reaping"
  /\ ~lingering
  /\ Failed
  /\ UNCHANGED <<job, signalled, lingering, posted, exit, verified, plan, infra>>

\* The killed command is waited for: observationCommand gives up on open
\* output after WaitDelay, runCmd waits until the children close it.
CommandReaped ==
  /\ run = "reaping"
  /\ lingering => Observing
  /\ Failed
  /\ UNCHANGED <<job, signalled, lingering, posted, exit, verified, plan, infra>>

\* publishDeploymentResultToGateway, see ResultUpload: the cancelled context
\* fails the direct call.
PostResult ==
  /\ run = "posting"
  /\ posted' \in {"failed"} \cup (IF signalled THEN {} ELSE {"stored"}) \cup (IF job.edge THEN {"spooled"} ELSE {})
  /\ run' = "uploading"
  /\ UNCHANGED <<job, todo, signalled, lingering, result, exit, leftVars>>

\* An error of the log upload does not count; then main exits: an unpublished
\* result or a failed execution gives 1.  A logs key is parsed only here, and
\* one that is no recipient makes the encryption panic.
Exit ==
  /\ run = "uploading"
  /\ run' = "ended"
  /\ \/ exit' = IF posted = "failed" \/ result.status = "failure" THEN "one" ELSE "zero"
     \/ job.badLogsKey /\ exit' = "panic"
  /\ UNCHANGED <<job, todo, signalled, lingering, result, posted, leftVars>>

\* The container is killed, at the end of the termination period or by a
\* lost node; nothing deferred runs.
KillRun ==
  /\ run \notin {"none", "ended", "killed"}
  /\ run' = "killed"
  /\ IF run = "command" THEN PartialEffect ELSE UNCHANGED <<plan, infra>>
  /\ UNCHANGED <<job, todo, signalled, lingering, result, posted, exit, verified, planDir, agent, badCleanups>>

ExecInit ==
  /\ job \in JobChoices
  /\ run = "none" /\ todo = <<>>
  /\ signalled = FALSE /\ lingering = FALSE
  /\ result = NoResult /\ posted = "no" /\ exit = "none"
  /\ verified = FALSE /\ plan = "none" /\ planDir = "none" /\ agent = "none"
  /\ infra = "untouched" /\ badCleanups = 0

Execute ==
  \/ LocalStep \/ CreateIaCFolder \/ LaunchAgent \/ VerifyArtifacts \/ MakePlanDir \/ Unsupported
  \/ StartCommand \/ CommandEnds \/ CommandReaped \/ PostResult \/ Exit

-----------------------------------------------------------------------------
(* Properties *)

ExecTypeOK ==
  /\ job \in Jobs
  /\ run \in {"none", "executing", "command", "reaping", "posting", "uploading", "ended", "killed"}
  /\ \E n \in 0..Len(Steps(job)) : todo = SubSeq(Steps(job), n + 1, Len(Steps(job)))
  /\ signalled \in BOOLEAN /\ lingering \in BOOLEAN
  /\ result.status \in {"none", "success", "failure"}
  /\ posted \in {"no", "stored", "spooled", "failed"}
  /\ exit \in {"none", "zero", "one", "panic"}
  /\ verified \in BOOLEAN
  /\ plan \in {"none", "own"}
  /\ planDir \in {"none", "present", "removed"}
  /\ agent \in {"none", "listening", "closed"}
  /\ infra \in {"untouched", "partial", "applied", "destroyed"}
  /\ badCleanups \in 0..MaxCleanups
=============================================================================
