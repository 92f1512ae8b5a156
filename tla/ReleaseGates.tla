---------------------------- MODULE ReleaseGates ----------------------------
(***************************************************************************)
(* The two programs that stop a release: scripts/vendorcheck, which reads  *)
(* the scanner's report on the OpenTofu executable and accepts only the    *)
(* findings that were reviewed, and scripts/noticecheck, which compares    *)
(* the bundle of licence notices with the modules the runner is built of.  *)
(***************************************************************************)
EXTENDS Reading

CONSTANTS
  Osvs, Tuples,    \* advisories, and what else a finding says
  Reviewed,        \* the policy's findings, a sorted sequence of [osv, tuple]
  Scalars,         \* strings in the JSON of a report
  MaxNesting,      \* the nesting bound of uniqueValue, 64
  Modules,         \* module paths of the runner's build (without its own)
  Declared,        \* those of them in declared-licenses.tsv
  Inside(_, _),    \* Inside(m, n): module n lies in the directory of module m
  Want,            \* the fields of a provenance, from Go's module metadata
  FieldNames, FieldValues,   \* what a provenance may have
  Forced,          \* the variables that the go command is given
  Environ          \* those that the program may have, without a place

ASSUME GatesAssumption ==
  /\ Reviewed \in Seq([osv : Osvs, tuple : Tuples])
  /\ MaxNesting \in Nat
  /\ Scalars \intersect {"object", "endObject", "array", "endArray"} = {}
  /\ Declared \subseteq Modules
  /\ IsFiniteSet(DOMAIN Want) /\ "endObject" \notin DOMAIN Want \union FieldNames
  /\ \A n \in DOMAIN Want : Want[n] \notin {"", "number"}
  /\ Forced \in Seq([pos : {0}, name : STRING, value : STRING])
  /\ \A i, j \in DOMAIN Forced : Forced[i].name = Forced[j].name => i = j

Advisories == {Reviewed[i].osv : i \in DOMAIN Reviewed}

-----------------------------------------------------------------------------
(* vendorcheck: a report is a sequence of messages of one kind each, which   *)
(* are well-formed or not: an object with one known kind, no key twice, its  *)
(* fields as the policy and the kind want them.                              *)

Messages ==
  [kind : {"config", "SBOM", "progress", "unknown"}, good : BOOLEAN, osv : {"none"}, tuple : {"none"}]
  \union [kind : {"finding"}, good : BOOLEAN, osv : Osvs, tuple : Tuples]
  \union [kind : {"osv"}, good : BOOLEAN, osv : Osvs, tuple : {"none"}]

Start == [rejected |-> FALSE, configs |-> 0, sboms |-> 0, ids |-> {}, osvs |-> {}, findings |-> <<>>]

Reject(s) == [s EXCEPT !.rejected = TRUE]

Config(s, message) ==
  IF s.configs # 0 \/ s.sboms # 0 \/ s.findings # <<>> \/ ~message.good
  THEN Reject(s) ELSE [s EXCEPT !.configs = @ + 1]

\* Mutant: a second SBOM is not refused.
SBOMAgain(s, message) ==
  IF s.configs # 1 \/ ~message.good THEN Reject(s) ELSE [s EXCEPT !.sboms = 1]

SBOM(s, message) ==
  IF s.configs # 1 \/ s.sboms # 0 \/ ~message.good
  THEN Reject(s) ELSE [s EXCEPT !.sboms = @ + 1]

Finding(s, message) ==
  IF ~message.good \/ s.configs # 1 \/ s.sboms # 1 THEN Reject(s)
  ELSE [s EXCEPT !.ids = @ \union {message.osv},
                 !.findings = Append(@, [osv |-> message.osv, tuple |-> message.tuple])]

OSV(s, message) ==
  IF ~message.good THEN Reject(s) ELSE [s EXCEPT !.osvs = @ \union {message.osv}]

\* One message of the loop of checkReport.
Message(s, message) ==
  IF s.configs = 0 /\ message.kind # "config" THEN Reject(s)
  ELSE CASE message.kind = "config"                     -> Config(s, message)
         [] message.kind = "SBOM"                       -> SBOM(s, message)
         [] message.kind = "finding"                    -> Finding(s, message)
         [] message.kind = "osv"                        -> OSV(s, message)
         [] message.kind = "progress" /\ message.good   -> s
         [] OTHER                                       -> Reject(s)

\* The hash over the sorted findings: in some order they are those reviewed.
SameInventory(findings) ==
  \E order \in Bijection(DOMAIN Reviewed, DOMAIN findings) :
    \A i \in DOMAIN Reviewed : findings[order[i]] = Reviewed[i]

checkReport(s) ==
  /\ ~s.rejected
  /\ s.configs = 1 /\ s.sboms = 1
  /\ Len(s.findings) = Len(Reviewed)
  /\ Cardinality(s.ids) = Cardinality(Advisories)
  /\ \A id \in Advisories : id \in s.ids /\ id \in s.osvs
  /\ SameInventory(s.findings)

\* What else the program is given, each with a test of its own: the release,
\* the executable (its platform and its hash) and the scanner's text report.
Inputs == {"reviewed", "otherRelease", "otherExecutable", "otherStatus"}

check(inputs, s) == inputs = "reviewed" /\ checkReport(s)

ReadMessage ==
  subject = "report" /\ ~state.rejected /\ \E message \in Messages : Take(message, Message(state, message))

-----------------------------------------------------------------------------
(* The JSON of a report: the tokens that the decoder returns.  A frame is a  *)
(* call of uniqueValue that reads an object or an array: where that began,   *)
(* the keys of the map so far and the key whose value is being read.         *)

Top(stack) == stack[Len(stack)]

\* What a string is, and where: in an object that waits for a key, it is one.
AtKey(stack) == stack # <<>> /\ Top(stack).type = "object" /\ Top(stack).key = <<>>

\* The decoder returns no token that its grammar does not allow.
Follows(stack) ==
  IF AtKey(stack) THEN Scalars \union {"endObject"}
  ELSE Scalars \union {"object", "array"} \union
       (IF stack # <<>> /\ Top(stack).type = "array" THEN {"endArray"} ELSE {})

Role(stack, token) ==
  IF token \in {"endObject", "endArray"} THEN "close" ELSE IF AtKey(stack) THEN "key" ELSE "value"

\* A token with its place, what it is, the number of calls that wait for it and
\* the place of the object or array that it is in.
Token(stack, token) ==
  [pos |-> Len(document) + 1, token |-> token, role |-> Role(stack, token), depth |-> Len(stack),
   in |-> IF stack = <<>> THEN 0 ELSE Top(stack).at]

\* A value that has been read is entered under its key.
Enter(stack) ==
  IF stack = <<>> \/ Top(stack).key = <<>> THEN stack
  ELSE LET top == Top(stack)
       IN  [stack EXCEPT ![Len(stack)] = [top EXCEPT !.keys = top.keys \union {top.key[1]}, !.key = <<>>]]

\* One token of uniqueValue.
uniqueValue(s, t) ==
  IF \/ t.role = "value" /\ t.depth > MaxNesting
     \/ t.role = "key" /\ t.token \in Top(s.stack).keys
  THEN [s EXCEPT !.failed = TRUE]
  ELSE CASE t.role = "value" /\ t.token \in {"object", "array"} ->
              [s EXCEPT !.stack = Append(@, [type |-> t.token, at |-> t.pos, keys |-> {}, key |-> <<>>])]
         [] t.role = "value" /\ t.token \notin {"object", "array"} -> [s EXCEPT !.stack = Enter(@)]
         [] t.role = "key" -> [s EXCEPT !.stack[Len(s.stack)].key = <<t.token>>]
         [] OTHER -> [s EXCEPT !.stack = Enter(SubSeq(@, 1, Len(@) - 1))]

ReadToken ==
  /\ subject = "json" /\ ~state.failed
  /\ \E token \in Follows(state.stack) :
       LET t == Token(state.stack, token) IN Take(t, uniqueValue(state, t))

-----------------------------------------------------------------------------
(* noticecheck: a bundle is a sequence of files, a later one of the same    *)
(* path replacing an earlier one                                            *)

Notices ==
  [module : Modules, name : {"LICENSE"}, content : {"declared", "other", "symlink"}]
  \union [module : Declared, name : {"LICENSE.provenance"}, content : {"exact", "other"}]
  \union [module : Modules, name : {"NOTICE"}, content : {"other", "symlink"}]
  \union [module : {"frame"}, name : {"frame"}, content : {"same", "other"}]

Content(bundle, module, name) ==
  LET at == {i \in DOMAIN bundle : bundle[i].module = module /\ bundle[i].name = name}
  IN  IF at = {} THEN "missing" ELSE bundle[Last(at)].content

\* WalkDir over a module's directory meets the modules inside it too.  The
\* provenance's name begins with "LICENSE".
Walked(m) ==
  [module : {n \in Modules : n = m \/ Inside(m, n)}, name : {"LICENSE", "LICENSE.provenance", "NOTICE"}]

Found(bundle, m) ==
  /\ \A f \in Walked(m) : Content(bundle, f.module, f.name) # "symlink"
  /\ \E f \in Walked(m) : f.name # "NOTICE" /\ Content(bundle, f.module, f.name) # "missing"

\* A declared module's licence has the declared bytes, and its provenance the
\* fields, once each, that Go's module metadata gives.
DeclaredNotice(bundle, m) ==
  Content(bundle, m, "LICENSE") = "declared" /\ Content(bundle, m, "LICENSE.provenance") = "exact"

\* "frame" stands for the files with one authoritative source: the
\* application's, Go's and OpenTofu's notices, the target and modules.txt.
checkNotices(bundle) ==
  /\ Content(bundle, "frame", "frame") = "same"
  /\ \A m \in Modules : Found(bundle, m) /\ (m \in Declared => DeclaredNotice(bundle, m))

AddNotice == subject = "notices" /\ \E notice \in Notices : Take(notice, state)

-----------------------------------------------------------------------------
(* The provenance of a declared module: its fields, and the end *)

\* One field of the loop of receipt, and what follows the loop.
receipt(s, field) ==
  IF s.ended \/ field[1] \in DOMAIN s.result \/ field[2] = "number" THEN [s EXCEPT !.failed = TRUE]
  ELSE IF field[1] = "endObject" THEN [s EXCEPT !.ended = TRUE]
  ELSE [s EXCEPT !.result = [n \in DOMAIN @ \union {field[1]} |-> IF n = field[1] THEN field[2] ELSE @[n]]]

\* The size of the map, and a field it does not have read as the empty string.
ExactProvenance(s) ==
  /\ s.ended /\ ~s.failed
  /\ Cardinality(DOMAIN s.result) = Cardinality(DOMAIN Want)
  /\ \A n \in DOMAIN Want : Want[n] = IF n \in DOMAIN s.result THEN s.result[n] ELSE ""

ReadField ==
  /\ subject = "provenance" /\ ~state.failed
  /\ \E field \in (FieldNames \X FieldValues) \union {<<"endObject", "none">>} : Take(field, receipt(state, field))

-----------------------------------------------------------------------------
(* The environment of the go command that gives the metadata: each forced    *)
(* variable replaces those of its name.                                      *)

AddVariable ==
  /\ subject = "environment" /\ state.item = 0
  /\ \E v \in Environ : Take([pos |-> Len(document) + 1, name |-> v.name, value |-> v.value], state)

BeginCommand ==
  /\ subject = "environment" /\ state.item = 0
  /\ Compute([env |-> document, filtered |-> <<>>, read |-> 0, item |-> 1])

\* One variable of the inner loop, which reads env and writes filtered.
Filter(s) ==
  LET old == s.env[s.read + 1]
  IN  [s EXCEPT !.read = @ + 1,
                !.filtered = IF old.name = Forced[s.item].name THEN @ ELSE Append(@, old)]

\* One item of the outer loop.
command ==
  /\ subject = "environment" /\ state.item \in DOMAIN Forced
  /\ IF state.read < Len(state.env) THEN Compute(Filter(state))
     ELSE Compute([env |-> Append(state.filtered, Forced[state.item]), filtered |-> <<>>,
                   read |-> 0, item |-> state.item + 1])

-----------------------------------------------------------------------------

GateInit ==
  /\ document = <<>>
  /\ \/ subject = "report" /\ state = Start
     \/ subject = "json" /\ state = [failed |-> FALSE, stack |-> <<>>]
     \/ subject = "notices" /\ state = <<>>
     \/ subject = "provenance" /\ state = [result |-> [n \in {} |-> n], ended |-> FALSE, failed |-> FALSE]
     \/ subject = "environment" /\ state = [env |-> <<>>, filtered |-> <<>>, read |-> 0, item |-> 0]

GateNext ==
  ReadMessage \/ ReadToken \/ AddNotice \/ ReadField \/ AddVariable \/ BeginCommand \/ command

-----------------------------------------------------------------------------
(* What the gates are for *)

\* A report is accepted exactly when it is one whole reviewed scan of the
\* reviewed executable: one configuration, which comes first, one SBOM before
\* any finding, the reviewed findings one for one, a record of every advisory,
\* and nothing malformed.
ReportReviewed(inputs, report, s) ==
  LET at(kind) == {i \in DOMAIN report : report[i].kind = kind}
  IN  check(inputs, s) <=>
        /\ inputs = "reviewed"
        /\ at("config") = {1} /\ at("unknown") = {}
        /\ \E sbom \in DOMAIN report : at("SBOM") = {sbom} /\ \A i \in at("finding") : sbom < i
        /\ \A i \in DOMAIN report : report[i].good
        /\ \E order \in Bijection(DOMAIN Reviewed, at("finding")) : \A i \in DOMAIN Reviewed :
             report[order[i]].osv = Reviewed[i].osv /\ report[order[i]].tuple = Reviewed[i].tuple
        /\ \A id \in Advisories : \E i \in at("osv") : report[i].osv = id

\* The JSON of a report is refused if and only if an object of it has a key
\* twice or a value of it lies deeper than the bound.
ReportUnambiguous(tokens, s) ==
  s.failed <=>
    \/ \E i \in DOMAIN tokens : tokens[i].role = "value" /\ tokens[i].depth > MaxNesting
    \/ \E i, j \in DOMAIN tokens :
         /\ i # j /\ tokens[i].role = "key" /\ tokens[j].role = "key"
         /\ tokens[i].in = tokens[j].in /\ tokens[i].token = tokens[j].token

\* A provenance is accepted if and only if it has each wanted field once, with
\* its value, and nothing else.
ProvenanceExact(fields, s) ==
  LET last == Len(fields)
  IN  ExactProvenance(s) <=>
        /\ last # 0 /\ fields[last][1] = "endObject"
        /\ \E order \in Bijection(1..(last - 1), DOMAIN Want) :
             \A i \in 1..(last - 1) : fields[i] = <<order[i], Want[order[i]]>>

\* The go command sees each forced variable once, with the forced value, and
\* the others as they were.  The filtered variables overwrite only what has
\* been read of those that they share an array with.
MetadataTrusted(variables, s) ==
  LET forced == {Forced[i].name : i \in DOMAIN Forced}
      others(env) == {i \in DOMAIN env : env[i].name \notin forced}
  IN  /\ Len(s.filtered) <= s.read
      /\ s.item > Len(Forced) =>
           /\ \A i \in DOMAIN Forced : \E k \in DOMAIN s.env :
                s.env[k] = Forced[i] /\ \A l \in DOMAIN s.env : s.env[l].name = Forced[i].name => l = k
           /\ Kept(s.env, others(s.env), {variables[i] : i \in others(variables)})

\* An accepted bundle has a licence of every module, its own or one of a
\* module inside its directory, no link in its place, and for a declared
\* module the declared bytes.
NoticesComplete(bundle) ==
  checkNotices(bundle) =>
    /\ \A m \in Modules : \E i \in DOMAIN bundle :
         /\ bundle[i].module = m \/ Inside(m, bundle[i].module)
         /\ bundle[i].name # "NOTICE" /\ bundle[i].content # "symlink"
    /\ \A m \in Declared : \E i \in DOMAIN bundle :
         bundle[i].module = m /\ bundle[i].name = "LICENSE" /\ bundle[i].content = "declared"

\* A release is let through exactly for the reviewed findings (vendorcheck),
\* read from JSON with one meaning, and only with the notices and the
\* provenance of every module (noticecheck).
GatesRight ==
  /\ subject = "report" => \A inputs \in Inputs : ReportReviewed(inputs, document, state)
  /\ subject = "json" => ReportUnambiguous(document, state)
  /\ subject = "notices" => NoticesComplete(document)
  /\ subject = "provenance" => ProvenanceExact(document, state)
  /\ subject = "environment" => MetadataTrusted(document, state)
=============================================================================
