---------------------------- MODULE StartupRules ----------------------------
(***************************************************************************)
(* How a process of the runner is chosen, reads its settings and what it   *)
(* builds from them (mainInner, internal/config, CreateRunner, runGateway, *)
(* RunExporter, RunImporter), and what the agent writes into the           *)
(* specification of a Job (injectJobGatewayConfiguration).                 *)
(* An environment is a function from settings to values, "" when unset.    *)
(***************************************************************************)
EXTENDS Reading

CONSTANTS
  DefaultWait,                       \* defaultFetchWait, in seconds
  StandardSettings, GatewaySettings, \* environments of a Job's process, of the gateway
  ProcessSettings,                   \* and of any process
  CommandLines,                      \* arguments of the program, and its flag
  Variables,                         \* variables of a container, without a place
  OwnVolumes                         \* volumes and mounts of a command's own

ASSUME StartupAssumption ==
  /\ DefaultWait \in Nat /\ DefaultWait > 10
  /\ \A conf \in GatewaySettings : {conf.port, conf.maxLogBytes, conf.fetchWait} \subseteq Int
  /\ \A conf \in ProcessSettings :
       conf = [n \in DOMAIN conf |-> conf[n]] /\ {"url", "ca", "cert"} \subseteq DOMAIN conf
  /\ OwnVolumes \subseteq [volumes : Seq(STRING), mounts : Seq(STRING)]

-----------------------------------------------------------------------------
(* A Job's process *)

validateMode(mode) == mode \in {"deploy", "destroy", "plan_only"}
validateIaCBackend(backend) == backend \in {"opentofu", "terraform"}

\* Mutant: the protocol is not tied to plan_only.
ValidateObservationProtocolAnyMode(conf) == conf.protocol \in {"", "v1"}

ValidateObservationProtocol(conf) ==
  conf.protocol # "" => conf.protocol = "v1" /\ conf.mode = "plan_only"

IsObservation(conf) == conf.mode = "plan_only" /\ conf.protocol = "v1"

\* "ids" stands for the required ORG_ID, RUNNER_ID and TOKEN.
GetStandardModeConfiguration(conf) ==
  /\ conf.ids # "" /\ conf.mode # "" /\ conf.deployment # ""
  /\ conf.url # ""
  /\ validateMode(conf.mode)
  /\ ValidateObservationProtocol(conf)
  /\ validateIaCBackend(conf.backend)
  /\ conf.deployment = "uuid"
  /\ conf.key \in {"", "recipient"}

\* gatewayTLSConfig: the certificates, and a key without a certificate.
gatewayTLSConfig(conf) == conf.ca \in {"", "pem"} /\ conf.cert \in {"", "pair"}

NewClient(conf) == conf.url = "https" /\ gatewayTLSConfig(conf)

\* << >> for an error.
CreateRunner(conf) ==
  IF ~ValidateObservationProtocol(conf) \/ ~validateMode(conf.mode) \/ ~NewClient(conf)
     \/ ~validateIaCBackend(conf.backend)
  THEN <<>>
  ELSE <<[tool |-> conf.backend, observationOnly |-> IsObservation(conf),
          recipient |-> conf.key = "recipient"]>>

-----------------------------------------------------------------------------
(* The agent *)

\* << >> for an error; --gateway-url comes before the environment.
GetRemoteModeConfiguration(conf, flag) ==
  LET url == IF flag # "" THEN flag ELSE conf.url
  IN  IF conf.ids = "" \/ url = "" THEN <<>> ELSE <<[conf EXCEPT !.url = url]>>

-----------------------------------------------------------------------------
(* The gateway *)

MaxPort == 65535

GetGatewayModeConfiguration(conf) ==
  LET usesControlPlane == conf.controlPlane # ""
      static == {conf.staticOrg, conf.staticRunner, conf.staticFile}
  IN  /\ conf.receiptKey # "" /\ conf.salt # "" /\ conf.nats # ""
      /\ usesControlPlane # (static # {""})
      /\ static # {""} => "" \notin static
      /\ conf.port \in 1..MaxPort
      /\ conf.maxLogBytes >= 1

\* The resolver: an absolute HTTP URL, or a file that can be read.
PublicKeys(conf) ==
  IF conf.controlPlane # "" THEN conf.controlPlane = "https" ELSE conf.staticFile = "readable"

\* decodeGatewayKey: the first encoding that decodes the text decides.
decodeGatewayKey(receiptKey) == receiptKey \in {"raw32", "padded32"}

newReceiptCipher(receiptKey) == receiptKey \in {"raw32", "padded32"}

\* << >> for an error.  A base path is empty, or begins with a slash, or not.
NewServer(conf) ==
  IF ~newReceiptCipher(conf.receiptKey) \/ conf.salt = "" \/ conf.basePath \notin {"", "slash"} THEN <<>>
  ELSE <<[fetchWait |-> IF conf.fetchWait <= 0 THEN DefaultWait ELSE conf.fetchWait]>>

\* The connection to NATS: "nats" is the server's URL, and "server" what is
\* there: nothing, a bare server, or one with the streams and buckets.
Connect(conf) ==
  conf.nats # "" /\ conf.natsCA \in {"", "pem"} /\ conf.natsCert \in {"", "pair"} /\ conf.server # "none"

NewNATSBackend(conf) == conf.server = "provisioned"

\* << >> for an error.
runGateway(conf) ==
  IF ~Connect(conf) \/ ~NewNATSBackend(conf) \/ ~PublicKeys(conf) \/ ~decodeGatewayKey(conf.receiptKey)
     \/ NewServer(conf) = <<>>
  THEN <<>>
  ELSE <<[wait |-> NewServer(conf)[1].fetchWait, writeTimeout |-> conf.fetchWait + 10]>>

-----------------------------------------------------------------------------
(* The flusher, the relays of the diode and the choice of the process *)

GetOutboxModeConfiguration(conf) == conf.ids # "" /\ conf.url # "" /\ conf.outbox # ""

\* A diode's place is "absolute" or "relative"; "" is relative to IsAbs.
requireAbsolutePaths(paths) == paths = {"absolute"}

\* The signing or the verification key: a PEM block with an Ed25519 key.
loadKey(conf) == conf.diodeKey = "ed25519"

NewBoundConsumer(conf) == conf.stream # "" /\ conf.server = "provisioned"

RunExporter(conf) ==
  requireAbsolutePaths({conf.place}) /\ loadKey(conf) /\ Connect(conf) /\ NewBoundConsumer(conf)

\* The quarantine is optional.
RunImporter(conf) ==
  /\ requireAbsolutePaths({conf.place} \union ({conf.quarantine} \ {""}))
  /\ loadKey(conf) /\ Connect(conf)

\* The mode that the arguments and the flag choose, "" for an error.
Mode(args, flag) ==
  LET mode == IF args = <<>> THEN "standard" ELSE args[1]
  IN  IF \/ Len(args) > 1
         \/ mode = "standard" /\ flag # ""
         \/ mode \notin {"standard", "remote", "diode-export", "diode-import", "outbox-flush", "gateway"}
      THEN "" ELSE mode

\* mainInner: whether the process gets to its work.
mainInner(args, flag, conf) ==
  CASE Mode(args, flag) = ""             -> FALSE
    [] Mode(args, flag) = "standard"     -> GetStandardModeConfiguration(conf)
    [] Mode(args, flag) = "remote"       -> LET read == GetRemoteModeConfiguration(conf, flag)
                                            IN  read # <<>> /\ NewClient(read[1])
    [] Mode(args, flag) = "diode-export" -> RunExporter(conf)
    [] Mode(args, flag) = "diode-import" -> RunImporter(conf)
    [] Mode(args, flag) = "outbox-flush" -> GetOutboxModeConfiguration(conf) /\ NewClient(conf)
    [] Mode(args, flag) = "gateway"      -> GetGatewayModeConfiguration(conf) /\ runGateway(conf) # <<>>

-----------------------------------------------------------------------------
(* The specification of a Job: the environment of a container is a sequence  *)
(* of [pos, name, value], where Kubernetes takes the last of several of one  *)
(* name.  The agent's own variables have no place among the command's.  A    *)
(* mount is known by its path; an agent's has the name of its volume.        *)

Agents == [ids : {"", "set"}, url : {"", "https"}, outboxPVC : BOOLEAN, caSecret : BOOLEAN]

\* Set replaces the first entry of that name, or appends one.
Set(env, variable) ==
  LET at == {i \in DOMAIN env : env[i].name = variable.name}
  IN  IF at = {} THEN Append(env, variable) ELSE [env EXCEPT ![First(at)] = variable]

Common(agent) ==
  LET var(name, value) == [pos |-> 0, name |-> name, value |-> value]
  IN  <<var("URL", agent.url), var("ORG", "agent"), var("RUNNER", "agent")>>
      \o (IF agent.outboxPVC THEN <<var("OUTBOX", "mounted")>> ELSE <<>>)
      \o (IF agent.caSecret THEN <<var("CA", "mounted")>> ELSE <<>>)

\* The volumes appended to those of the Pod, and to the mounts of each of its
\* containers.
Volumes(agent) == (IF agent.outboxPVC THEN <<"outbox">> ELSE <<>>) \o (IF agent.caSecret THEN <<"ca">> ELSE <<>>)

\* A command has a container with these variables.
CommandVariable ==
  /\ subject = "job" /\ state.next = 0
  /\ \E v \in Variables : Take([pos |-> Len(document) + 1, name |-> v.name, value |-> v.value], state)

\* The agent begins to write into it.
injectJobGatewayConfiguration ==
  /\ subject = "job" /\ state.next = 0
  /\ IF state.agent.url = ""
     THEN Compute([state EXCEPT !.env = document, !.next = Len(Common(state.agent)) + 1])
     ELSE Compute([state EXCEPT !.env = document, !.next = 1,
                                !.volumes = @ \o Volumes(state.agent), !.mounts = @ \o Volumes(state.agent)])

\* One variable of the loop over common.
InjectVariable ==
  /\ subject = "job" /\ state.next \in DOMAIN Common(state.agent)
  /\ Compute([state EXCEPT !.env = Set(@, Common(state.agent)[state.next]), !.next = @ + 1])

-----------------------------------------------------------------------------

StartupInit ==
  \/ subject = "standard" /\ document \in StandardSettings /\ state = <<>>
  \/ subject = "gateway" /\ document \in GatewaySettings /\ state = <<>>
  \/ subject = "process" /\ document \in ProcessSettings /\ state = <<>>
  \/ /\ subject = "job" /\ document = <<>>
     /\ \E conf \in Agents, flag \in {"", "flag"}, own \in OwnVolumes :
          LET agent == GetRemoteModeConfiguration(conf, flag)
          IN  /\ agent # <<>>
              /\ state = [agent |-> agent[1], flag |-> flag, own |-> own, next |-> 0, env |-> <<>>,
                          volumes |-> own.volumes, mounts |-> own.mounts]

StartupNext == CommandVariable \/ injectJobGatewayConfiguration \/ InjectVariable

-----------------------------------------------------------------------------
(* What these rules are for *)

\* A Job whose settings were accepted builds its runner unless the gateway's
\* URL or certificates cannot be used; the runner only observes exactly when
\* the protocol was asked for, and encrypts exactly when a key was given, so
\* the parse error that CreateRunner ignores cannot happen.
RunnerAsConfigured(conf) ==
  GetStandardModeConfiguration(conf) =>
    LET runner == CreateRunner(conf)
    IN  /\ runner = <<>> <=> ~NewClient(conf)
        /\ runner # <<>> =>
             /\ runner[1].tool = conf.backend
             /\ runner[1].observationOnly = (conf.protocol # "")
             /\ runner[1].recipient = (conf.key # "")
             /\ runner[1].observationOnly => conf.mode \notin {"deploy", "destroy"}

\* A gateway that starts has exactly one complete source of keys.  A poll can
\* be answered at its end, before the write timeout of its connection, unless
\* the wait is set to nothing or less: the poll waits for the default then, the
\* timeout goes by the setting.  Ten seconds less than nothing is no timeout.
GatewayAsConfigured(conf) ==
  GetGatewayModeConfiguration(conf) /\ runGateway(conf) # <<>> =>
    /\ conf.controlPlane = "" <=> "" \notin {conf.staticOrg, conf.staticRunner, conf.staticFile}
    /\ conf.controlPlane # "" => conf.staticFile = ""
    /\ runGateway(conf)[1].wait > 0
    /\ (runGateway(conf)[1].writeTimeout <= 0 \/ runGateway(conf)[1].wait < runGateway(conf)[1].writeTimeout)
         <=> (conf.fetchWait > 0 \/ conf.fetchWait <= -10)

\* A process works with the servers and files that its mode needs and no half
\* of a setting: a client of the gateway has its URL, from the command line
\* only for the agent, the spool's flusher a directory, a client of NATS its
\* URL and no certificate without its key, a relay only absolute places.
ProcessAsConfigured(args, flag, conf) ==
  mainInner(args, flag, conf) =>
    LET mode == IF args = <<>> THEN "standard" ELSE args[1]
    IN  /\ mode \in {"standard", "outbox-flush"} => conf.url # ""
        /\ mode = "standard" => flag = ""
        /\ mode = "outbox-flush" => conf.outbox # "" /\ conf.url = "https"
        /\ mode = "remote" => "https" \in {flag, conf.url}
        /\ mode \in {"remote", "outbox-flush"} => conf.ca # "other" /\ conf.cert # "half"
        /\ mode \in {"gateway", "diode-export", "diode-import"} =>
             conf.nats # "" /\ conf.natsCert # "half" /\ conf.server # "none"
        /\ mode \in {"diode-export", "diode-import"} => conf.place = "absolute" /\ conf.diodeKey = "ed25519"
        /\ mode = "diode-import" => conf.quarantine # "relative"

\* The value a container's process sees.
Effective(env, name) ==
  LET at == {i \in DOMAIN env : env[i].name = name} IN IF at = {} THEN "" ELSE env[Last(at)].value

\* Some two of these names are the same.
Repeats(names) == \E i, j \in DOMAIN names : i # j /\ names[i] = names[j]

\* A Job runs with the gateway and identity of the agent that created it,
\* whatever the command said, except for a variable that the command names
\* twice or more: of that one the command's last value is seen.  The other
\* variables keep their values and order, a file that the agent names is
\* mounted, and two volumes or two mounts collide, so that Kubernetes refuses
\* the Job, exactly if the command's collide or have a name of the agent's.
JobRunsAsAgent(variables, job) ==
  LET common == Common(job.agent)
      names == {common[i].name : i \in DOMAIN common}
      others(env) == {i \in DOMAIN env : env[i].name \notin names}
      named(name) == {j \in DOMAIN variables : variables[j].name = name}
      added == Range(Volumes(job.agent))
  IN  job.next > Len(common) =>
        /\ \A i \in DOMAIN common :
             LET mine == named(common[i].name)
             IN  Effective(job.env, common[i].name) = IF \A j, k \in mine : j = k THEN common[i].value
                                                      ELSE variables[Last(mine)].value
        /\ job.flag \in {"", job.agent.url}
        /\ \A k \in DOMAIN job.env : job.env[k].pos = 0 =>
             /\ job.env[k].name = "OUTBOX" => "outbox" \in Range(job.mounts) \intersect Range(job.volumes)
             /\ job.env[k].name = "CA" => "ca" \in Range(job.mounts) \intersect Range(job.volumes)
        /\ Kept(job.env, others(job.env), {variables[i] : i \in others(variables)})
        /\ Repeats(job.volumes) <=> Repeats(job.own.volumes) \/ Range(job.own.volumes) \intersect added # {}
        /\ Repeats(job.mounts) <=> Repeats(job.own.mounts) \/ Range(job.own.mounts) \intersect added # {}

\* What a process builds is what its settings say, and a Job runs with those
\* of its agent (mainInner, GetStandardModeConfiguration and CreateRunner,
\* GetGatewayModeConfiguration and runGateway, injectJobGatewayConfiguration).
SettingsRight ==
  /\ subject = "standard" => RunnerAsConfigured(document)
  /\ subject = "gateway" => GatewayAsConfigured(document)
  /\ subject = "process" => \A line \in CommandLines : ProcessAsConfigured(line[1], line[2], document)
  /\ subject = "job" => JobRunsAsAgent(document, state)
=============================================================================
