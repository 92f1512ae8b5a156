----------------------------- MODULE PlanRules -----------------------------
(***************************************************************************)
(* Algorithms over the documents of a run: the observation plan            *)
(* (parseObservationPlan, sanitizeObservationChanges), the planned outputs *)
(* (OutputChange.Compact), the module artifact manifest                    *)
(* (verifyArtifactManifest) and the bundle's archive                       *)
(* (unarchiveBundleToFolder).                                              *)
(***************************************************************************)
EXTENDS Reading

CONSTANTS
  MaxChanges,   \* maxObservationChanges
  MaxOutputs,   \* the most outputs of an observed plan
  ActionLists,  \* lists of actions of a change
  Paths,        \* places in a planned output, sequences of keys
  References,   \* what may stand behind the "@" of a module's source
  Downloads,    \* modules that the tool may have downloaded
  Names,        \* cleaned names of an archive's entries, split into their parts
  Contents      \* contents of files

ASSUME PlanAssumption ==
  /\ MaxChanges \in Nat /\ MaxOutputs \in Nat
  /\ ActionLists \subseteq Seq(STRING) /\ Paths \subseteq Seq(STRING) /\ Names \subseteq Seq(STRING)
  /\ \A d \in Downloads : d.dir \in BOOLEAN

-----------------------------------------------------------------------------
(* Observation plans: the fields of a JSON object, whose name is written as  *)
(* in the tool's format or with other letters in upper case.  "base" stands  *)
(* for the format, the tool's version, the configuration and the planned     *)
(* values, which have rules of their own; a list is valid if its loop below  *)
(* accepts it.                                                               *)

PlanFields ==
  LET field(keys, values) == [key : keys, value : values, spelling : {"exact", "other"}]
  IN  field({"base"}, {"good", "bad"}) \union field({"errored", "complete"}, {"true", "false", "null"})
      \union field({"deferred_changes"}, {"none", "some"}) \union field({"checks"}, {"pass", "fail"})
      \union field({"resource_drift", "resource_changes", "output_changes"}, {"valid", "invalid"})

\* json.Unmarshal, which ignores the case of names and takes the last of several
\* fields, except that it merges objects: two lists of outputs, which are taken
\* to name different ones, are both read.
Field(fields, key) ==
  LET at == {i \in DOMAIN fields : fields[i].key = key}
  IN  CASE at = {} -> "null"
        [] key = "output_changes" /\ (\E i \in at : fields[i].value = "invalid") -> "invalid"
        [] OTHER -> fields[Last(at)].value

\* Mutant: a second field of the same name is not noticed.
DuplicateKeysIgnored(fields) == FALSE

\* validateObservationJSON, to which names in different case are different.
DuplicateKeys(fields) ==
  \E i, j \in DOMAIN fields : i # j /\ fields[i].key = fields[j].key /\ fields[i].spelling = fields[j].spelling

parseObservationPlan(fields, tool) ==
  /\ ~DuplicateKeys(fields)
  /\ Field(fields, "base") = "good"
  /\ Field(fields, "errored") = "false"
  /\ tool = "terraform" => Field(fields, "complete") # "null"
  /\ Field(fields, "complete") # "false"
  /\ Field(fields, "deferred_changes") # "some"
  /\ Field(fields, "checks") # "fail"
  /\ \A list \in {"resource_drift", "resource_changes", "output_changes"} : Field(fields, list) # "invalid"

\* A field is not read behind one that is refused.
PlanField ==
  subject = "plan" /\ ~DuplicateKeys(document) /\ \E field \in PlanFields : Take(field, state)

-----------------------------------------------------------------------------
(* The changes of a plan: "unsupported" stands for a resource type that is   *)
(* not a name, a missing change and an import.                               *)

validObservationActions(actions) ==
  \/ actions \in {<<"create", "delete">>, <<"delete", "create">>}
  \/ Len(actions) = 1 /\ actions[1] \in {"create", "read", "update", "delete", "no-op", "forget"}

\* One element of the loop of sanitizeObservationChanges.
AppendChange(result, change) ==
  IF result.invalid \/ change.unsupported \/ ~validObservationActions(change.actions)
  THEN [result EXCEPT !.invalid = TRUE]
  ELSE IF change.actions = <<"no-op">> THEN result
  ELSE [result EXCEPT !.list = Append(@, [id |-> Len(@) + 1, change |-> change])]

\* The list that is reported, << >> for an error.
sanitizeObservationChanges(changes, result) ==
  IF Len(changes) > MaxChanges \/ result.invalid THEN <<>> ELSE <<result.list>>

\* One element of the loop of parseObservationPlan over the outputs.
CountOutput(outputs, actions) ==
  IF outputs.invalid \/ ~validObservationActions(actions) THEN [outputs EXCEPT !.invalid = TRUE]
  ELSE IF actions = <<"no-op">> THEN outputs ELSE [outputs EXCEPT !.count = @ + 1]

\* The count that is reported, << >> for an error.
OutputChangeCount(changes, outputs) ==
  IF Len(changes) > MaxOutputs \/ outputs.invalid THEN <<>> ELSE <<outputs.count>>

PlanChange ==
  /\ subject = "changes"
  /\ \E actions \in ActionLists, unsupported \in BOOLEAN :
       LET change == [pos |-> Len(document) + 1, actions |-> actions, unsupported |-> unsupported]
       IN  Take(change, [result  |-> AppendChange(state.result, change),
                         outputs |-> CountOutput(state.outputs, actions)])

-----------------------------------------------------------------------------
(* Planned outputs: a value is a function from places to "leaf", "map" and   *)
(* "list", with null where it has no place; what is unknown of it one to     *)
(* "true", "false", "map" and "list".  The keys below a list stand for its   *)
(* positions.                                                                *)

At(value, path) == IF path \in DOMAIN value THEN value[path] ELSE "null"

Put(value, path, v) == [q \in DOMAIN value \union {path} |-> IF q = path THEN v ELSE value[q]]

\* The places in which there has to be an object or a list.
Objects(paths) == UNION {{SubSeq(p, 1, i) : i \in 0..(Len(p) - 1)} : p \in paths}

\* The places at a position of a list.
Positions(paths, lists) == {p \in paths : p # <<>> /\ SubSeq(p, 1, Len(p) - 1) \in lists}

\* What the tool writes of an output with these leaves, of which it does not
\* know some yet: an object leaves those out, a list has a null in their place.
After(known, pending, lists) ==
  LET objects == Objects(known \union pending)
  IN  [p \in known \union objects \union Positions(pending, lists) |->
        IF p \in known THEN "leaf" ELSE IF p \in lists THEN "list" ELSE IF p \in objects THEN "map" ELSE "null"]

\* And what it writes of the unknown: false if there is none, else objects
\* without the known leaves and lists with a false in their place.
AfterUnknown(known, pending, lists) ==
  IF pending = {} THEN [p \in {<<>>} |-> "false"]
  ELSE [p \in pending \union Objects(known \union pending) \union Positions(known, lists) |->
         IF p \in pending THEN "true" ELSE IF p \in lists THEN "list" ELSE IF p \in known THEN "false" ELSE "map"]

\* One call of compactUnknowns, for a place: it ends with a value, or makes a
\* call for every key of the unknown map or position of the unknown list, which
\* the list of the value has to have.  Each call returns a copy, so the order
\* of the calls does not matter.
compactUnknowns(s, p) ==
  LET below == {q \in DOMAIN s.unknown : Len(q) = Len(p) + 1 /\ SubSeq(q, 1, Len(p)) = p}
      after == At(s.after, p)
  IN  CASE after \in {"map", "list"} /\ At(s.unknown, p) = after ->
             [s EXCEPT !.calls = (@ \ {p}) \union below,
                       !.panicked = IF after = "list" /\ ~(below \subseteq DOMAIN s.after) THEN TRUE ELSE @]
        [] after \notin {"map", "list"} /\ At(s.unknown, p) = "true" ->
             [s EXCEPT !.calls = @ \ {p}, !.shown = Put(@, p, "pending")]
        [] OTHER ->
             [s EXCEPT !.calls = @ \ {p}, !.shown = Put(@, p, after)]

\* Compact, up to the first call; "pending" is "(known after apply)".
Compact(first, known, pending, lists) ==
  LET after == After(known, pending, lists)
  IN  [first |-> first, known |-> known, pending |-> pending, lists |-> lists,
       after |-> after, unknown |-> AfterUnknown(known, pending, lists),
       shown |-> CASE first = "none"   -> [p \in {<<>>} |-> "pending"]
                   [] first = "delete" -> [p \in {<<>>} |-> "null"]
                   [] OTHER            -> after,
       calls |-> IF first \in {"none", "no-op", "delete"} THEN {} ELSE {<<>>},
       panicked |-> FALSE]

OutputCall == subject = "outputs" /\ \E p \in state.calls : Compute(compactUnknowns(state, p))

-----------------------------------------------------------------------------
(* Module artifact manifest *)

\* A source is a place and the text behind its last "@".
Requirements ==
  [source : [place : {"inline", "registry", "git", "path"}, ref : References],
   claim : {"none", "sha256", "malformed"}, legacy : BOOLEAN, semver : BOOLEAN]

\* splitRegistrySource, and the file URL of an absolute path: only a registry
\* address has a version there.
splitRegistrySource(source) ==
  CASE source.place = "registry" -> [source |-> <<"registry", "">>, version |-> source.ref]
    [] source.place = "git"      -> [source |-> <<"git", source.ref>>, version |-> ""]
    [] OTHER                     -> [source |-> <<"file", source.ref>>, version |-> ""]

\* The root module (an empty key) is not among those downloaded.
artifactDirectories(source, downloaded) ==
  LET split == splitRegistrySource(source)
  IN  {m \in downloaded : m.source = split.source /\ split.version \in {"", m.version} /\ m.dir}

\* The answer for one requirement.
Requirement(r, downloaded) ==
  IF \/ r.legacy /\ (r.semver \/ r.claim # "none")
     \/ r.source.place = "inline" /\ r.claim # "none"
     \/ r.claim = "malformed"
  THEN "ARTIFACT_MANIFEST_INVALID"
  ELSE IF r.source.place # "inline" /\ artifactDirectories(r.source, downloaded) = {}
  THEN "ARTIFACT_UNAVAILABLE" ELSE "met"

\* The manifest is not there, cannot be read or decoded, has another version
\* or the right one; the tool's modules.json is not there, cannot be read or
\* decoded, or lists what was downloaded.
ManifestFiles == {"absent", "unreadable", "malformed", "unsupported", "v1"}
ModulesFiles == {"absent", "unreadable", "malformed", "read"}

\* verifyArtifactManifest up to its loop.
OpenManifest(file, modules) ==
  IF file = "absent" \/ (file = "v1" /\ modules \in {"absent", "read"}) THEN "met" ELSE "error"

\* One requirement of its loop, which returns the first error.
verifyArtifactManifest ==
  /\ subject = "manifest" /\ state.file = "v1" /\ state.answer # "error"
  /\ \E r \in Requirements :
       Take(r, IF state.answer # "met" THEN state
               ELSE [state EXCEPT !.answer = Requirement(r, state.downloaded)])

-----------------------------------------------------------------------------
(* Archive of the bundle *)

Escapes(name) == name = <<>> \/ name[1] \in {"..", "/"}
Parents(name) == {SubSeq(name, 1, i) : i \in 1..(Len(name) - 1)}

\* MkdirAll: every directory down to the last one, unless a file is in the way.
MkdirAll(folder, names) ==
  IF folder.failed \/ names \intersect DOMAIN folder.files # {} THEN [folder EXCEPT !.failed = TRUE]
  ELSE [folder EXCEPT !.dirs = @ \union names]

OpenAndCopy(folder, name, content) ==
  IF folder.failed \/ name \in folder.dirs THEN [folder EXCEPT !.failed = TRUE]
  ELSE [folder EXCEPT !.files = Put(@, name, content)]

\* One entry of the loop; entries of other types are passed over.
Extract(folder, entry) ==
  IF Escapes(entry.name) THEN [folder EXCEPT !.failed = TRUE]
  ELSE CASE entry.type = "dir"  -> MkdirAll(folder, Parents(entry.name) \union {entry.name})
         [] entry.type = "file" -> OpenAndCopy(MkdirAll(folder, Parents(entry.name)), entry.name, entry.content)
         [] OTHER               -> folder

unarchiveBundleToFolder ==
  /\ subject = "bundle" /\ ~state.failed
  /\ \E entry \in [name : Names, type : {"dir", "file", "link"}, content : Contents] :
       Take(entry, Extract(state, entry))

-----------------------------------------------------------------------------

PlanInit ==
  /\ document = <<>>
  /\ \/ subject = "plan" /\ state = <<>>
     \/ /\ subject = "changes"
        /\ state = [result |-> [invalid |-> FALSE, list |-> <<>>], outputs |-> [invalid |-> FALSE, count |-> 0]]
     \/ /\ subject = "outputs"
        /\ \E first \in {"none", "no-op", "delete", "update"}, known, pending \in SUBSET Paths :
             /\ known \intersect pending = {}
             /\ (known \union pending) \intersect Objects(known \union pending) = {}
             /\ \E lists \in SUBSET Objects(known \union pending) : state = Compact(first, known, pending, lists)
     \/ /\ subject = "manifest"
        /\ \E file \in ManifestFiles, modules \in ModulesFiles, downloaded \in SUBSET Downloads :
             /\ modules # "read" => downloaded = {}
             /\ state = [file |-> file, modules |-> modules, downloaded |-> downloaded,
                         answer |-> OpenManifest(file, modules)]
     \/ subject = "bundle" /\ state = [failed |-> FALSE, dirs |-> {}, files |-> [n \in {} |-> n]]

PlanNext == PlanField \/ PlanChange \/ OutputCall \/ verifyArtifactManifest \/ unarchiveBundleToFolder

-----------------------------------------------------------------------------
(* What the algorithms are for *)

\* Some fields say that the plan is complete, and none of them that it is not.
SaysComplete(fields, at, tool) ==
  LET said(key, value) == \E i \in at : fields[i].key = key /\ fields[i].value = value
  IN  /\ said("base", "good") /\ ~said("base", "bad")
      /\ said("errored", "false") /\ ~said("errored", "true")
      /\ tool = "terraform" => said("complete", "true")
      /\ ~said("complete", "false") /\ ~said("deferred_changes", "some") /\ ~said("checks", "fail")
      /\ \A list \in {"resource_drift", "resource_changes", "output_changes"} : ~said(list, "invalid")

\* A field is overridden by a later one whose name is in different case.
Overridden(fields, i) ==
  /\ fields[i].key # "output_changes"
  /\ \E j \in DOMAIN fields : j > i /\ fields[j].key = fields[i].key /\ fields[j].spelling # fields[i].spelling

\* An observation is reported complete only if no field of the plan says that
\* it is not, except one that a name in different case overrides.
ObservationComplete(fields, tool) ==
  parseObservationPlan(fields, tool) => SaysComplete(fields, {i \in DOMAIN fields : ~Overridden(fields, i)}, tool)

\* It lists the changes that do something, in the plan's order, numbered from
\* one without a gap, unless one of all cannot be reported or there are too
\* many; and it counts the outputs that change, with a bound of their own.
ChangesListed(changes, s) ==
  LET doing == {i \in DOMAIN changes : changes[i].actions # <<"no-op">>}
      valid == \A i \in DOMAIN changes : validObservationActions(changes[i].actions)
      listed == sanitizeObservationChanges(changes, s.result)
      counted == OutputChangeCount(changes, s.outputs)
  IN  /\ listed # <<>> <=> valid /\ Len(changes) <= MaxChanges /\ \A i \in DOMAIN changes : ~changes[i].unsupported
      /\ listed # <<>> => /\ Kept([k \in DOMAIN listed[1] |-> listed[1][k].change], DOMAIN listed[1],
                                  {changes[i] : i \in doing})
                          /\ \A k \in DOMAIN listed[1] : listed[1][k].id = k
      /\ counted = IF valid /\ Len(changes) <= MaxOutputs THEN <<Cardinality(doing)>> ELSE <<>>

\* In a planned output exactly the leaves that the tool does not know yet are
\* replaced by the text that says so, in objects and in lists, and no position
\* outside a list is asked for.
OutputsShown(s) ==
  /\ ~s.panicked
  /\ s.calls = {} /\ s.first \notin {"none", "no-op", "delete"} =>
       \A p \in DOMAIN s.shown \union DOMAIN s.after \union s.pending :
         At(s.shown, p) = IF p \in s.pending THEN "pending" ELSE At(s.after, p)

\* A manifest that is there and verified could be read, with the list of the
\* modules, and has for every external module a downloaded directory of that
\* source and version, wherever in the list it stands; the error of another is
\* that of its first requirement that is not met.  A bundle without a manifest
\* is verified too.
ManifestVerified(requirements, s) ==
  LET met(r) == r.source.place = "inline" \/ \E m \in s.downloaded :
                  /\ m.dir
                  /\ r.source.place = "registry" => m.source[1] = "registry" /\ r.source.ref \in {"", m.version}
                  /\ r.source.place # "registry" => m.source[2] = r.source.ref
      honest(r) == r.claim # "malformed" /\ (r.legacy => r.claim = "none" /\ ~r.semver)
  IN  /\ s.answer = "met" /\ s.file # "absent" =>
           /\ s.file = "v1" /\ s.modules \in {"absent", "read"}
           /\ \A i \in DOMAIN requirements : met(requirements[i]) /\ honest(requirements[i])
      /\ s.answer \notin {"met", "error"} => \E i \in DOMAIN requirements :
           /\ Requirement(requirements[i], s.downloaded) = s.answer
           /\ \A j \in 1..(i - 1) : Requirement(requirements[j], s.downloaded) = "met"

\* An extracted bundle holds the last content of every file of the archive,
\* and nothing outside its folder; it fails exactly on a name that leaves the
\* folder or that is a file in one place and a directory in another.
BundleExtracted(entries, folder) ==
  LET of(type) == {i \in DOMAIN entries : entries[i].type = type}
      names(at) == {entries[i].name : i \in at}
      files == names(of("file"))
      dirs  == names(of("dir")) \union UNION {Parents(n) : n \in names(of("dir") \union of("file"))}
  IN  /\ folder.failed <=> (\E i \in DOMAIN entries : Escapes(entries[i].name)) \/ files \intersect dirs # {}
      /\ ~folder.failed =>
           /\ DOMAIN folder.files = files /\ folder.dirs = dirs
           /\ \A i \in of("file") : \/ folder.files[entries[i].name] = entries[i].content
                                    \/ \E j \in of("file") : j > i /\ entries[j].name = entries[i].name

\* A plan, a manifest or a bundle is accepted only if it says and holds what
\* the run relies on, and what is reported of it is what it says
\* (parseObservationPlan, sanitizeObservationChanges, Compact,
\* verifyArtifactManifest, unarchiveBundleToFolder).
RunDocumentsRight ==
  /\ subject = "plan" => \A tool \in {"terraform", "opentofu"} : ObservationComplete(document, tool)
  /\ subject = "changes" => ChangesListed(document, state)
  /\ subject = "outputs" => OutputsShown(state)
  /\ subject = "manifest" => ManifestVerified(document, state)
  /\ subject = "bundle" => BundleExtracted(document, state)

\* What the comment at observation.go:143 gives as the reason to refuse a
\* second field of one name: none may hide that a plan is partial, so that a
\* plan is reported complete only if no field at all says that it is not
\* (parseObservationPlan, validateObservationJSON).
NoFieldHidden ==
  subject = "plan" =>
    \A tool \in {"terraform", "opentofu"} :
      parseObservationPlan(document, tool) => SaysComplete(document, DOMAIN document, tool)
=============================================================================
