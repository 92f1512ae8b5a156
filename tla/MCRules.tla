------------------------------ MODULE MCRules ------------------------------
(***************************************************************************)
(* An instance of Documents: two findings of one advisory to be reviewed,  *)
(* a module "s" inside the directory of "m", a declared module "d", and    *)
(* settings that are missing, right or wrong.                              *)
(***************************************************************************)
EXTENDS Documents

MCChunks == {<<>>, <<1>>, <<2, 3>>, <<1, 2, 3>>}

MCActionLists == {<<"no-op">>, <<"create">>, <<"delete", "create">>, <<"create", "create">>, <<>>}

MCPaths == {<<>>, <<"a">>, <<"n", "a">>, <<"n", "b">>, <<"n", "m", "a">>}

MCDownloads ==
  [source : {<<"registry", "">>}, version : {"1"}, dir : BOOLEAN]
  \union [source : {<<"registry", "">>}, version : {"2"}, dir : {TRUE}]
  \union [source : {<<"git", "1">>, <<"file", "1">>}, version : {""}, dir : {TRUE}]

MCNames == {<<"a">>, <<"d">>, <<"d", "a">>, <<"..", "a">>, <<>>}

MCReviewed == <<[osv |-> "v", tuple |-> "1"], [osv |-> "v", tuple |-> "2"]>>

MCInside(m, n) == m = "m" /\ n = "s"

MCWant == [module |-> "right", moduleSum |-> "right"]

MCForced == <<[pos |-> 0, name |-> "GOOS", value |-> "linux"], [pos |-> 0, name |-> "GOFLAGS", value |-> ""]>>

MCEnviron == [name : {"GOOS", "GOFLAGS", "HOME"}, value : {"linux", ""}]

MCVariables == [name : {"URL", "ORG", "CA", "OTHER"}, value : {"command", "other"}]

MCOwnVolumes ==
  {[volumes |-> <<>>, mounts |-> <<>>], [volumes |-> <<"v">>, mounts |-> <<"v", "ca">>],
   [volumes |-> <<"outbox">>, mounts |-> <<>>], [volumes |-> <<"v", "v">>, mounts |-> <<"v">>]}

MCStandardSettings ==
  [ids : {"", "set"}, mode : {"", "deploy", "destroy", "plan_only", "other"}, protocol : {"", "v1", "other"},
   backend : {"opentofu", "terraform", "other"}, key : {"", "recipient", "other"},
   url : {"", "https", "other"}, deployment : {"", "uuid", "other"},
   ca : {"", "pem", "other"}, cert : {"", "pair", "half"}]

MCGatewaySettings ==
  [nats : {"", "set"}, salt : {"", "set"}, controlPlane : {"", "https", "other"}, staticOrg : {"", "set"},
   staticRunner : {"", "set"}, staticFile : {"", "readable", "missing"},
   receiptKey : {"", "raw32", "padded32", "raw16"}, port : {0, 1, 65535, 65536}, maxLogBytes : {0, 1},
   fetchWait : {-10, -9, 0, 25}, basePath : {"", "slash", "bare"}, natsCA : {"pem"}, natsCert : {"pair"}, server : {"provisioned"}]

MCProcessSettings ==
  [url : {"", "https", "other"}, ids : {"", "set"}, outbox : {"", "dir"}, ca : {"", "pem", "other"},
   cert : {"", "pair", "half"}, nats : {"", "set"}, natsCA : {"pem", "other"}, natsCert : {"", "pair", "half"},
   server : {"none", "bare", "provisioned"}, place : {"absolute", "relative"}, diodeKey : {"ed25519", "other"},
   quarantine : {"", "absolute", "relative"}, stream : {"", "set"},
   mode : {"deploy"}, protocol : {""}, backend : {"opentofu"}, key : {""}, deployment : {"uuid"},
   receiptKey : {"raw32"}, salt : {"set"}, controlPlane : {"https"}, staticOrg : {""}, staticRunner : {""},
   staticFile : {""}, port : {1}, maxLogBytes : {1}, fetchWait : {25}, basePath : {"slash"}]

MCCommandLines ==
  ({<<>>, <<"other">>, <<"remote", "standard">>}
   \union {<<m>> : m \in {"standard", "remote", "diode-export", "diode-import", "outbox-flush", "gateway"}})
  \X {"", "https"}

\* Long enough for a document that is accepted, and one piece more.
MCMaxLen(about) ==
  CASE about = "manifest" -> 2
    [] about = "job" -> 3
    [] about \in {"plan", "bundle", "provenance", "environment", "changes"} -> 4
    [] about = "notices" -> 5
    [] about \in {"output", "log", "report", "show"} -> 6
    [] about \in {"json", "upload"} -> 8
=============================================================================
