----------------------------- MODULE RunProofs -----------------------------
(***************************************************************************)
(* Proofs that the algorithms of PlanRules and of StartupRules do what     *)
(* they are for: RunDocumentsRight, for plans, outputs, manifests and      *)
(* archives of any length, and SettingsRight, for the settings a process   *)
(* starts with and commands that set any number of variables, of the same  *)
(* name or not.  There is one invariant for each subject.                  *)
(***************************************************************************)
EXTENDS DocumentProofs, FiniteSetTheorems

-----------------------------------------------------------------------------
(* The fields of an observation plan *)

\* The parts of a pair.
LEMMA Pair == ASSUME NEW t, NEW a, NEW b, t = <<a, b>> PROVE t[1] = a /\ t[2] = b
  OBVIOUS

\* A field that no other overrides gives its name its value; a list of outputs
\* that is not valid does so in any case.
LEMMA FieldHeard ==
  ASSUME NEW fields \in Seq(PlanFields), ~DuplicateKeys(fields), NEW i \in DOMAIN fields, ~Overridden(fields, i),
         fields[i].key # "output_changes" \/ fields[i].value = "invalid"
  PROVE  Field(fields, fields[i].key) = fields[i].value
<1> DEFINE at == {j \in DOMAIN fields : fields[j].key = fields[i].key}
<1>1. Len(fields) \in Nat /\ at \in SUBSET (1..Len(fields)) /\ i \in at
  OBVIOUS
<1>2. CASE fields[i].key = "output_changes"
  <2>1. fields[i].value = "invalid" /\ at # {}
    BY ZenonT(40), <1>1, <1>2
  <2>2. Field(fields, fields[i].key) = "invalid"
    BY ZenonT(40), <1>1, <1>2, <2>1 DEF Field
  <2> QED
    BY ZenonT(40), <2>1, <2>2
<1>3. CASE fields[i].key # "output_changes"
  <2>1. Field(fields, fields[i].key) = fields[Last(at)].value
    BY ZenonT(40), <1>1, <1>3 DEF Field
  <2>2. Last(at) \in at /\ \A j \in at : j <= Last(at)
    <3> HIDE DEF at
    <3> QED
      BY ZenonT(40), <1>1, LastPlace
  <2>3. PICK l : l = Last(at)
    OBVIOUS
  <2>4. l \in DOMAIN fields /\ fields[l].key = fields[i].key /\ i <= l /\ i \in Nat /\ l \in Nat
    <3>1. \A j \in 1..Len(fields) : j \in Nat
      BY SMTT(40), <1>1
    <3> QED
      BY ZenonT(40), <1>1, <2>2, <2>3, <3>1
  <2>5. ~(l > i)
    <3>1. l > i => l # i
      BY SMTT(40), <2>4
    <3> QED
      BY ZenonT(40), <1>3, <2>4, <3>1 DEF Overridden, DuplicateKeys
  <2>6. l = i
    BY SMTT(40), <2>4, <2>5
  <2> QED
    BY ZenonT(40), <2>1, <2>3, <2>6
<1> QED
  BY ZenonT(40), <1>2, <1>3

\* A name has a value only where a field says so that no other overrides.
LEMMA FieldThere ==
  ASSUME NEW fields \in Seq(PlanFields), NEW key, key # "output_changes", Field(fields, key) # "null"
  PROVE  \E i \in DOMAIN fields : fields[i].key = key /\ fields[i].value = Field(fields, key) /\ ~Overridden(fields, i)
<1> DEFINE at == {i \in DOMAIN fields : fields[i].key = key}
<1>1. Len(fields) \in Nat /\ at \in SUBSET (1..Len(fields))
  OBVIOUS
<1>2. at # {} /\ Field(fields, key) = fields[Last(at)].value
  BY ZenonT(40) DEF Field
<1>3. Last(at) \in at /\ \A j \in at : j <= Last(at)
  <2> HIDE DEF at
  <2> QED
    BY ZenonT(40), <1>1, <1>2, LastPlace
<1>4. PICK l : l = Last(at)
  OBVIOUS
<1>5. l \in DOMAIN fields /\ fields[l].key = key /\ l \in Nat /\ \A j \in DOMAIN fields : fields[j].key = key => j <= l
  <2>1. \A j \in 1..Len(fields) : j \in Nat
    BY SMTT(40), <1>1
  <2> QED
    BY ZenonT(40), <1>1, <1>3, <1>4, <2>1
<1>6. \A j \in DOMAIN fields : fields[j].key = key => ~(j > l)
  BY SMTT(40), <1>5
<1>7. ~Overridden(fields, l)
  BY ZenonT(40), <1>5, <1>6 DEF Overridden
<1> QED
  BY ZenonT(40), <1>2, <1>4, <1>5, <1>7

\* No field is overridden but by a name in different case.
LEMMA PlanIsComplete ==
  ASSUME NEW fields \in Seq(PlanFields), NEW tool
  PROVE  ObservationComplete(fields, tool)
<1> DEFINE at == {i \in DOMAIN fields : ~Overridden(fields, i)}
           said(key, value) == \E i \in at : fields[i].key = key /\ fields[i].value = value
<1> SUFFICES ASSUME parseObservationPlan(fields, tool)
             PROVE  /\ said("base", "good") /\ ~said("base", "bad")
                    /\ said("errored", "false") /\ ~said("errored", "true")
                    /\ tool = "terraform" => said("complete", "true")
                    /\ ~said("complete", "false") /\ ~said("deferred_changes", "some") /\ ~said("checks", "fail")
                    /\ \A list \in {"resource_drift", "resource_changes", "output_changes"} : ~said(list, "invalid")
  BY ZenonT(40) DEF ObservationComplete, SaysComplete
<1>1. ~DuplicateKeys(fields)
  BY ZenonT(40) DEF parseObservationPlan
<1>2. \A key, value : said(key, value) /\ (key # "output_changes" \/ value = "invalid") => Field(fields, key) = value
  BY ZenonT(40), <1>1, FieldHeard
<1>3. \A key : key # "output_changes" /\ Field(fields, key) # "null" => said(key, Field(fields, key))
  BY ZenonT(40), FieldThere
<1>4. \A value : said("complete", value) => value \in {"true", "false", "null"}
  <2>1. ASSUME NEW f \in PlanFields, f.key = "complete" PROVE f.value \in {"true", "false", "null"}
    BY SMTT(40), <2>1 DEF PlanFields
  <2>2. \A i \in DOMAIN fields : fields[i] \in PlanFields
    OBVIOUS
  <2> QED
    BY ZenonT(40), <2>1, <2>2
<1> HIDE DEF said, at
<1>5. said("base", "good") /\ said("errored", "false") /\ (tool = "terraform" => said("complete", "true"))
  <2>1. Field(fields, "base") = "good" /\ Field(fields, "errored") = "false"
    BY ZenonT(40) DEF parseObservationPlan
  <2>2. /\ "good" # "null" /\ "false" # "null"
        /\ "base" # "output_changes" /\ "errored" # "output_changes" /\ "complete" # "output_changes"
    OBVIOUS
  <2>3. said("base", "good") /\ said("errored", "false")
    BY ZenonT(40), <1>3, <2>1, <2>2
  <2>4. ASSUME tool = "terraform" PROVE said("complete", "true")
    <3>1. Field(fields, "complete") # "null" /\ Field(fields, "complete") # "false"
      BY ZenonT(40), <2>4 DEF parseObservationPlan
    <3>2. said("complete", Field(fields, "complete"))
      BY ZenonT(40), <1>3, <2>2, <3>1
    <3>3. Field(fields, "complete") = "true"
      BY ZenonT(40), <1>4, <3>1, <3>2
    <3> QED
      BY ZenonT(40), <3>2, <3>3
  <2> QED
    BY ZenonT(40), <2>3, <2>4
<1>6. /\ ~said("base", "bad") /\ ~said("errored", "true") /\ ~said("complete", "false")
      /\ ~said("deferred_changes", "some") /\ ~said("checks", "fail")
  BY ZenonT(40), <1>2 DEF parseObservationPlan
<1>7. \A list \in {"resource_drift", "resource_changes", "output_changes"} : ~said(list, "invalid")
  BY ZenonT(40), <1>2 DEF parseObservationPlan
<1> QED
  BY ZenonT(40), <1>5, <1>6, <1>7

-----------------------------------------------------------------------------
(* The manifest *)

\* The answer is the first requirement's that is not met, if the files could be
\* read.
ManifestInv(requirements, s) ==
  /\ requirements \in Seq(Requirements)
  /\ s = [file |-> s.file, modules |-> s.modules, downloaded |-> s.downloaded, answer |-> s.answer]
  /\ s.answer = "met" /\ s.file # "absent" =>
       /\ s.file = "v1" /\ s.modules \in {"absent", "read"}
       /\ \A i \in 1..Len(requirements) : Requirement(requirements[i], s.downloaded) = "met"
  /\ s.answer \notin {"met", "error"} => \E i \in 1..Len(requirements) :
       /\ Requirement(requirements[i], s.downloaded) = s.answer
       /\ \A j \in 1..(i - 1) : Requirement(requirements[j], s.downloaded) = "met"

\* The loop has the answer of the first requirement that is not met.
LEMMA ManifestStep ==
  ASSUME NEW requirements, NEW s, ManifestInv(requirements, s), NEW r \in Requirements,
         s.file = "v1", s.answer # "error"
  PROVE  ManifestInv(Append(requirements, r),
                     IF s.answer # "met" THEN s ELSE [s EXCEPT !.answer = Requirement(r, s.downloaded)])
<1> DEFINE next == Append(requirements, r)
           new == IF s.answer # "met" THEN s ELSE [s EXCEPT !.answer = Requirement(r, s.downloaded)]
<1> USE DEF ManifestInv
<1>1. /\ next \in Seq(Requirements) /\ Len(next) = Len(requirements) + 1 /\ next[Len(requirements) + 1] = r
      /\ Len(requirements) \in Nat /\ \A i \in 1..Len(requirements) : next[i] = requirements[i]
  OBVIOUS
<1>2. /\ new.file = s.file /\ new.modules = s.modules /\ new.downloaded = s.downloaded
      /\ new = [file |-> new.file, modules |-> new.modules, downloaded |-> new.downloaded, answer |-> new.answer]
      /\ new.answer = IF s.answer # "met" THEN s.answer ELSE Requirement(r, s.downloaded)
  OBVIOUS
<1> HIDE DEF next, new
<1>3. CASE s.answer # "met"
  <2>1. new.answer = s.answer
    BY ZenonT(40), <1>2, <1>3
  <2>2. ManifestInv(next, new)
    BY SMTT(40), <1>1, <1>2, <1>3, <2>1
  <2> QED
    BY ZenonT(40), <2>2 DEF next, new
<1>4. CASE s.answer = "met"
  <2>1. new.answer = Requirement(r, s.downloaded)
    BY ZenonT(40), <1>2, <1>4
  <2>2. /\ s.modules \in {"absent", "read"}
        /\ \A i \in 1..Len(requirements) : Requirement(next[i], s.downloaded) = "met"
    <3>1. "v1" # "absent"
      OBVIOUS
    <3> QED
      BY ZenonT(40), <1>1, <1>4, <3>1
  <2>3. ManifestInv(next, new)
    <3>1. \A i \in 1..Len(next) : i \in 1..Len(requirements) \/ i = Len(requirements) + 1
      BY SMTT(40), <1>1
    <3>2. \A j \in 1..((Len(requirements) + 1) - 1) : j \in 1..Len(requirements)
      BY SMTT(40), <1>1
    <3>3. Len(requirements) + 1 \in 1..Len(next)
      BY SMTT(40), <1>1
    <3> QED
      BY ZenonT(40), <1>1, <1>2, <2>1, <2>2, <3>1, <3>2, <3>3
  <2> QED
    BY ZenonT(40), <2>3 DEF next, new
<1> QED
  BY ZenonT(40), <1>3, <1>4

\* The directory that was found for a requirement has its source and version.
LEMMA RequirementMet ==
  ASSUME NEW r \in Requirements, NEW downloaded, Requirement(r, downloaded) = "met"
  PROVE  /\ r.claim # "malformed" /\ (r.legacy => r.claim = "none" /\ ~r.semver)
         /\ \/ r.source.place = "inline"
            \/ \E m \in downloaded :
                 /\ m.dir
                 /\ r.source.place = "registry" => m.source[1] = "registry" /\ r.source.ref \in {"", m.version}
                 /\ r.source.place # "registry" => m.source[2] = r.source.ref
<1>1. "met" # "ARTIFACT_MANIFEST_INVALID" /\ "met" # "ARTIFACT_UNAVAILABLE"
  OBVIOUS
<1>2. /\ r.claim # "malformed" /\ (r.legacy => r.claim = "none" /\ ~r.semver)
      /\ (r.source.place = "inline" \/ artifactDirectories(r.source, downloaded) # {})
  BY ZenonT(40), <1>1 DEF Requirement
<1>3. CASE r.source.place = "inline"
  BY ZenonT(40), <1>2, <1>3
<1>4. CASE r.source.place # "inline"
  <2> DEFINE split == splitRegistrySource(r.source)
  <2>1. PICK m \in downloaded : m.source = split.source /\ split.version \in {"", m.version} /\ m.dir
    BY ZenonT(40), <1>2, <1>4 DEF artifactDirectories
  <2>2. r.source.place \in {"registry", "git", "path"}
    BY ZenonT(40), <1>4 DEF Requirements
  <2>3. CASE r.source.place = "registry"
    <3>1. split.source = <<"registry", "">> /\ split.version = r.source.ref
      BY ZenonT(40), <2>3 DEF splitRegistrySource
    <3>2. m.source = <<"registry", "">> /\ r.source.ref \in {"", m.version}
      BY ZenonT(40), <2>1, <3>1
    <3>3. m.source[1] = "registry"
      BY ZenonT(40), <3>2, Pair
    <3> QED
      BY ZenonT(40), <1>2, <2>1, <2>3, <3>2, <3>3
  <2>4. CASE r.source.place # "registry"
    <3>1. CASE r.source.place = "git"
      <4>1. split.source = <<"git", r.source.ref>>
        BY ZenonT(40), <2>4, <3>1 DEF splitRegistrySource
      <4>2. m.source[2] = r.source.ref
        <5>1. m.source = <<"git", r.source.ref>>
          BY ZenonT(40), <2>1, <4>1
        <5> QED
          BY ZenonT(40), <5>1, Pair
      <4> QED
        BY ZenonT(40), <1>2, <2>1, <2>4, <4>2
    <3>2. CASE r.source.place = "path"
      <4>1. "path" # "git" /\ "path" # "registry"
        OBVIOUS
      <4>2. split.source = <<"file", r.source.ref>>
        BY ZenonT(40), <3>2, <4>1 DEF splitRegistrySource
      <4>3. m.source[2] = r.source.ref
        <5>1. m.source = <<"file", r.source.ref>>
          BY ZenonT(40), <2>1, <4>2
        <5> QED
          BY ZenonT(40), <5>1, Pair
      <4> QED
        BY ZenonT(40), <1>2, <2>1, <2>4, <4>3
    <3> QED
      BY ZenonT(40), <2>2, <2>4, <3>1, <3>2
  <2> QED
    BY ZenonT(40), <2>3, <2>4
<1> QED
  BY ZenonT(40), <1>3, <1>4

\* The invariant says that the manifest is verified.
LEMMA ManifestIsVerified ==
  ASSUME NEW requirements, NEW s, ManifestInv(requirements, s)
  PROVE  ManifestVerified(requirements, s)
<1>1. DOMAIN requirements = 1..Len(requirements) /\ \A i \in 1..Len(requirements) : requirements[i] \in Requirements
  BY SMTT(40) DEF ManifestInv
<1>2. CASE s.answer = "met" /\ s.file # "absent"
  <2>1. /\ s.file = "v1" /\ s.modules \in {"absent", "read"}
        /\ \A i \in DOMAIN requirements :
             requirements[i] \in Requirements /\ Requirement(requirements[i], s.downloaded) = "met"
    BY ZenonT(40), <1>1, <1>2 DEF ManifestInv
  <2> QED
    BY ZenonT(40), <1>2, <2>1, RequirementMet DEF ManifestVerified
<1>3. CASE s.answer \notin {"met", "error"}
  <2>1. PICK i \in DOMAIN requirements :
          /\ Requirement(requirements[i], s.downloaded) = s.answer
          /\ \A j \in 1..(i - 1) : Requirement(requirements[j], s.downloaded) = "met"
    BY ZenonT(40), <1>1, <1>3 DEF ManifestInv
  <2> QED
    BY ZenonT(40), <1>3, <2>1 DEF ManifestVerified
<1>4. CASE s.answer \in {"met", "error"} /\ ~(s.answer = "met" /\ s.file # "absent")
  BY ZenonT(40), <1>4 DEF ManifestVerified
<1> QED
  BY ZenonT(40), <1>2, <1>3, <1>4

-----------------------------------------------------------------------------
(* The changes of a plan *)

\* A change of a plan.
Change == [pos : Nat, actions : ActionLists, unsupported : BOOLEAN]

\* The places of the changes that do something.
Doing(changes) == {i \in 1..Len(changes) : changes[i].actions # <<"no-op">>}

\* A change that may be listed.
Reportable(change) == ~change.unsupported /\ validObservationActions(change.actions)

\* The list has the changes that do something, in their order.
Listed(changes, list) ==
  /\ \A k \in 1..Len(list) : /\ list[k].id = k
                             /\ list[k].change.pos \in Doing(changes)
                             /\ list[k].change = changes[list[k].change.pos]
  /\ \A i \in Doing(changes) : \E k \in 1..Len(list) : list[k].change = changes[i]
  /\ \A j, k \in 1..Len(list) : j < k => list[j].change.pos < list[k].change.pos

\* What the loop over the resource changes has collected.
ChangesInv(changes, result) ==
  /\ changes \in Seq(Change) /\ \A i \in 1..Len(changes) : changes[i].pos = i
  /\ result \in [invalid : BOOLEAN, list : Seq([id : Nat, change : Change])]
  /\ result.invalid <=> \E i \in 1..Len(changes) : ~Reportable(changes[i])
  /\ ~result.invalid => Listed(changes, result.list)

\* What the loop over the outputs has counted.
CountInv(changes, outputs) ==
  /\ outputs \in [invalid : BOOLEAN, count : Nat]
  /\ outputs.invalid <=> \E i \in 1..Len(changes) : ~validObservationActions(changes[i].actions)
  /\ IsFiniteSet(Doing(changes))
  /\ ~outputs.invalid => outputs.count = Cardinality(Doing(changes))

\* One more change is one more place, if it does something.
LEMMA OneMoreChange ==
  ASSUME NEW changes \in Seq(Change), NEW change \in Change
  PROVE  LET next == Append(changes, change)
         IN  /\ next \in Seq(Change) /\ Len(next) = Len(changes) + 1 /\ Len(changes) \in Nat
             /\ next[Len(changes) + 1] = change /\ \A i \in 1..Len(changes) : next[i] = changes[i]
             /\ change.actions = <<"no-op">> => Doing(next) = Doing(changes)
             /\ change.actions # <<"no-op">> => Doing(next) = Doing(changes) \union {Len(changes) + 1}
             /\ Len(changes) + 1 \notin Doing(changes)
<1> DEFINE next == Append(changes, change)
           n == Len(changes)
<1>1. /\ next \in Seq(Change) /\ Len(next) = n + 1 /\ n \in Nat
      /\ next[n + 1] = change /\ \A i \in 1..n : next[i] = changes[i]
  OBVIOUS
<1> HIDE DEF next, n
<1>2. 1..Len(next) = 1..n \union {n + 1} /\ n + 1 \notin 1..n
  BY SMTT(40), <1>1
<1>3. n + 1 \notin Doing(changes)
  BY ZenonT(40), <1>2 DEF Doing, n
<1>4. change.actions = <<"no-op">> => Doing(next) = Doing(changes)
  BY ZenonT(40), <1>1, <1>2 DEF Doing, n
<1>5. change.actions # <<"no-op">> => Doing(next) = Doing(changes) \union {n + 1}
  BY ZenonT(40), <1>1, <1>2 DEF Doing, n
<1> QED
  BY ZenonT(40), <1>1, <1>3, <1>4, <1>5 DEF next, n

\* A change that does something is listed behind the others.
LEMMA ListedStep ==
  ASSUME NEW changes \in Seq(Change), NEW list \in Seq([id : Nat, change : Change]), Listed(changes, list),
         NEW change \in Change, change.pos = Len(changes) + 1
  PROVE  LET next == Append(changes, change)
         IN  /\ change.actions = <<"no-op">> => Listed(next, list)
             /\ change.actions # <<"no-op">> =>
                  /\ Listed(next, Append(list, [id |-> Len(list) + 1, change |-> change]))
                  /\ Append(list, [id |-> Len(list) + 1, change |-> change]) \in Seq([id : Nat, change : Change])
<1> DEFINE n == Len(changes)
           next == Append(changes, change)
           entry == [id |-> Len(list) + 1, change |-> change]
           longer == Append(list, entry)
<1>1. /\ next \in Seq(Change) /\ Len(next) = n + 1 /\ n \in Nat
      /\ next[n + 1] = change /\ \A i \in 1..n : next[i] = changes[i]
      /\ change.actions = <<"no-op">> => Doing(next) = Doing(changes)
      /\ change.actions # <<"no-op">> => Doing(next) = Doing(changes) \union {n + 1}
  BY ZenonT(40), OneMoreChange
<1>2. Doing(changes) \in SUBSET (1..n)
  BY ZenonT(40) DEF Doing
<1>3. entry \in [id : Nat, change : Change] /\ entry.id = Len(list) + 1 /\ entry.change = change
  OBVIOUS
<1> HIDE DEF entry
<1>4. /\ longer \in Seq([id : Nat, change : Change]) /\ Len(longer) = Len(list) + 1 /\ Len(list) \in Nat
      /\ longer[Len(list) + 1] = entry /\ \A k \in 1..Len(list) : longer[k] = list[k]
  BY SMTT(40), <1>3
<1>5. 1..Len(longer) = 1..Len(list) \union {Len(list) + 1} /\ \A k \in 1..Len(list) : k < Len(list) + 1
  BY SMTT(40), <1>4
<1> HIDE DEF next, longer, n
<1>8. \A i \in Doing(changes) : next[i] = changes[i]
  BY ZenonT(40), <1>1, <1>2
<1>9. \A k \in 1..Len(list) : /\ list[k].id = k
                             /\ list[k].change.pos \in Doing(changes)
                             /\ list[k].change = next[list[k].change.pos]
  BY ZenonT(40), <1>8 DEF Listed
<1>10. \A i \in Doing(changes) : \E k \in 1..Len(list) : list[k].change = next[i]
  BY ZenonT(40), <1>8 DEF Listed
<1>6. CASE change.actions = <<"no-op">>
  <2>1. Doing(next) = Doing(changes)
    BY ZenonT(40), <1>1, <1>6
  <2>2. Listed(next, list)
    BY ZenonT(40), <1>9, <1>10, <2>1 DEF Listed
  <2> QED
    BY ZenonT(40), <1>6, <2>2 DEF next
<1>7. CASE change.actions # <<"no-op">>
  <2>1. Doing(next) = Doing(changes) \union {n + 1}
    BY ZenonT(40), <1>1, <1>7
  <2>2. ASSUME NEW k \in 1..Len(longer)
        PROVE  /\ longer[k].id = k /\ longer[k].change.pos \in Doing(next)
               /\ longer[k].change = next[longer[k].change.pos]
    <3>1. CASE k \in 1..Len(list)
      BY ZenonT(40), <1>4, <1>9, <2>1, <3>1
    <3>2. CASE k = Len(list) + 1
      BY ZenonT(40), <1>1, <1>3, <1>4, <2>1, <3>2 DEF n
    <3> QED
      BY ZenonT(40), <1>5, <3>1, <3>2
  <2>3. ASSUME NEW i \in Doing(next) PROVE \E k \in 1..Len(longer) : longer[k].change = next[i]
    <3>1. CASE i \in Doing(changes)
      BY ZenonT(40), <1>4, <1>5, <1>10, <3>1
    <3>2. CASE i = n + 1
      BY ZenonT(40), <1>1, <1>3, <1>4, <1>5, <3>2
    <3> QED
      BY ZenonT(40), <2>1, <3>1, <3>2
  <2>4. ASSUME NEW j \in 1..Len(longer), NEW k \in 1..Len(longer), j < k
        PROVE  longer[j].change.pos < longer[k].change.pos
    <3>1. j \in 1..Len(list)
      BY SMTT(40), <1>4, <2>4
    <3>2. CASE k \in 1..Len(list)
      BY ZenonT(40), <1>4, <2>4, <3>1, <3>2 DEF Listed
    <3>3. CASE k = Len(list) + 1
      <4>1. longer[j].change.pos \in 1..n
        BY ZenonT(40), <1>2, <1>4, <3>1 DEF Listed
      <4>2. longer[k].change.pos = n + 1
        BY ZenonT(40), <1>3, <1>4, <3>3 DEF n
      <4> QED
        BY SMTT(40), <1>1, <4>1, <4>2
    <3> QED
      BY ZenonT(40), <1>5, <3>2, <3>3
  <2>5. Listed(next, longer)
    BY ZenonT(40), <2>2, <2>3, <2>4 DEF Listed
  <2> QED
    BY ZenonT(40), <1>4, <1>7, <2>5 DEF next, longer, entry
<1> QED
  BY ZenonT(40), <1>6, <1>7

\* A change is listed, passed over or refused.
LEMMA ChangesStep ==
  ASSUME NEW changes, NEW result, ChangesInv(changes, result), NEW change \in Change, change.pos = Len(changes) + 1
  PROVE  ChangesInv(Append(changes, change), AppendChange(result, change))
<1> DEFINE n == Len(changes)
           next == Append(changes, change)
           new == AppendChange(result, change)
           L == Seq([id : Nat, change : Change])
           longer == Append(result.list, [id |-> Len(result.list) + 1, change |-> change])
<1>0. /\ changes \in Seq(Change) /\ \A i \in 1..n : changes[i].pos = i
      /\ result \in [invalid : BOOLEAN, list : L]
      /\ result.invalid <=> \E i \in 1..n : ~Reportable(changes[i])
  BY ZenonT(40) DEF ChangesInv
<1>1. /\ next \in Seq(Change) /\ Len(next) = n + 1 /\ n \in Nat
      /\ next[n + 1] = change /\ \A i \in 1..n : next[i] = changes[i]
  BY ZenonT(40), <1>0, OneMoreChange
<1>2. 1..(n + 1) = 1..n \union {n + 1}
  <2> HIDE DEF n
  <2> QED
    BY SMTT(40), <1>1
<1>3. \A i \in 1..Len(next) : next[i].pos = i
  <2> HIDE DEF next, n
  <2> QED
    <3>1. change.pos = n + 1
      BY ZenonT(40) DEF n
    <3>2. ASSUME NEW i \in 1..Len(next) PROVE next[i].pos = i
      <4>1. CASE i \in 1..n
        BY ZenonT(40), <1>0, <1>1, <4>1
      <4>2. CASE i = n + 1
        BY ZenonT(40), <1>1, <3>1, <4>2
      <4> QED
        BY ZenonT(40), <1>1, <1>2, <4>1, <4>2
    <3> QED
      BY ZenonT(40), <3>2
<1>4. (\E i \in 1..Len(next) : ~Reportable(next[i])) <=> result.invalid \/ ~Reportable(change)
  BY ZenonT(40), <1>0, <1>1, <1>2
<1> HIDE DEF L, longer
<1>5. /\ new.invalid <=> result.invalid \/ ~Reportable(change)
      /\ new.list = IF result.invalid \/ ~Reportable(change) \/ change.actions = <<"no-op">> THEN result.list ELSE longer
      /\ ~new.invalid /\ change.actions # <<"no-op">> => longer \in L
      /\ new \in [invalid : BOOLEAN, list : L]
      /\ ~new.invalid => Listed(next, new.list)
  <2>1. result.list \in L
    BY ZenonT(40), <1>0
  <2>2. CASE result.invalid \/ ~Reportable(change)
    <3>1. new = [result EXCEPT !.invalid = TRUE]
      BY ZenonT(40), <2>2 DEF AppendChange, Reportable
    <3> HIDE DEF new, next
    <3> QED
      BY ZenonT(40), <1>0, <2>2, <3>1
  <2>3. CASE ~result.invalid /\ Reportable(change)
    <3>1. Listed(changes, result.list)
      BY ZenonT(40), <2>3 DEF ChangesInv
    <3>2. /\ change.actions = <<"no-op">> => Listed(next, result.list)
          /\ change.actions # <<"no-op">> => Listed(next, longer) /\ longer \in L
      BY ZenonT(40), <1>0, <2>1, <3>1, ListedStep DEF L, longer
    <3>3. CASE change.actions = <<"no-op">>
      <4>1. new = result
        BY ZenonT(40), <2>3, <3>3 DEF AppendChange, Reportable
      <4> HIDE DEF new, next
      <4> QED
        BY ZenonT(40), <1>0, <2>3, <3>2, <3>3, <4>1
    <3>4. CASE change.actions # <<"no-op">>
      <4>1. new = [result EXCEPT !.list = longer]
        BY ZenonT(40), <2>3, <3>4 DEF AppendChange, Reportable, longer
      <4> HIDE DEF new, next
      <4> QED
        BY ZenonT(40), <1>0, <2>3, <3>2, <3>4, <4>1
    <3> QED
      BY ZenonT(40), <3>3, <3>4
  <2> QED
    BY ZenonT(40), <2>2, <2>3
<1>6. ChangesInv(next, new)
  BY ZenonT(40), <1>1, <1>3, <1>4, <1>5 DEF ChangesInv, L
<1> QED
  BY ZenonT(40), <1>6

\* A change of an output is counted, passed over or refused.
LEMMA CountStep ==
  ASSUME NEW changes \in Seq(Change), NEW outputs, CountInv(changes, outputs), NEW change \in Change
  PROVE  CountInv(Append(changes, change), CountOutput(outputs, change.actions))
<1> DEFINE n == Len(changes)
           next == Append(changes, change)
           new == CountOutput(outputs, change.actions)
<1>0. /\ outputs \in [invalid : BOOLEAN, count : Nat] /\ IsFiniteSet(Doing(changes))
      /\ outputs.invalid <=> \E i \in 1..n : ~validObservationActions(changes[i].actions)
      /\ ~outputs.invalid => outputs.count = Cardinality(Doing(changes))
  BY ZenonT(40) DEF CountInv
<1>1. /\ next \in Seq(Change) /\ Len(next) = n + 1 /\ n \in Nat
      /\ next[n + 1] = change /\ \A i \in 1..n : next[i] = changes[i]
      /\ change.actions = <<"no-op">> => Doing(next) = Doing(changes)
      /\ change.actions # <<"no-op">> => Doing(next) = Doing(changes) \union {n + 1}
      /\ n + 1 \notin Doing(changes)
  BY ZenonT(40), <1>0, OneMoreChange
<1>2. 1..(n + 1) = 1..n \union {n + 1}
  <2> HIDE DEF n
  <2> QED
    BY SMTT(40), <1>1
<1>3. (\E i \in 1..Len(next) : ~validObservationActions(next[i].actions)) <=>
        outputs.invalid \/ ~validObservationActions(change.actions)
  BY ZenonT(40), <1>0, <1>1, <1>2
<1>4. /\ IsFiniteSet(Doing(changes) \union {n + 1})
      /\ Cardinality(Doing(changes) \union {n + 1}) = Cardinality(Doing(changes)) + 1
  BY ZenonT(40), <1>0, <1>1, FS_AddElement
<1>5. /\ new \in [invalid : BOOLEAN, count : Nat]
      /\ new.invalid <=> outputs.invalid \/ ~validObservationActions(change.actions)
      /\ ~new.invalid => new.count = IF change.actions = <<"no-op">> THEN outputs.count ELSE outputs.count + 1
  <2> DEFINE valid == validObservationActions(change.actions)
  <2>1. CASE outputs.invalid \/ ~valid
    <3>1. new = [outputs EXCEPT !.invalid = TRUE]
      BY ZenonT(40), <2>1 DEF CountOutput
    <3> HIDE DEF new
    <3> QED
      BY ZenonT(40), <1>0, <2>1, <3>1
  <2>2. CASE ~outputs.invalid /\ valid
    <3>1. new = IF change.actions = <<"no-op">> THEN outputs ELSE [outputs EXCEPT !.count = outputs.count + 1]
      BY ZenonT(40), <2>2 DEF CountOutput
    <3> HIDE DEF new
    <3> QED
      BY SMTT(40), <1>0, <2>2, <3>1
  <2> QED
    BY ZenonT(40), <2>1, <2>2
<1>6. CountInv(next, new)
  <2> HIDE DEF next, new
  <2> QED
    BY ZenonT(40), <1>0, <1>1, <1>3, <1>4, <1>5 DEF CountInv
<1> QED
  BY ZenonT(40), <1>6

\* What was listed and counted is what the observation is to say.
LEMMA ChangesAreListed ==
  ASSUME NEW changes, NEW s, ChangesInv(changes, s.result), CountInv(changes, s.outputs)
  PROVE  ChangesListed(changes, s)
<1> DEFINE doing == {i \in DOMAIN changes : changes[i].actions # <<"no-op">>}
           valid == \A i \in DOMAIN changes : validObservationActions(changes[i].actions)
           fit == valid /\ Len(changes) <= MaxChanges /\ \A i \in DOMAIN changes : ~changes[i].unsupported
           listed == sanitizeObservationChanges(changes, s.result)
           list == s.result.list
<1>0. /\ changes \in Seq(Change) /\ Len(changes) \in Nat /\ DOMAIN changes = 1..Len(changes)
      /\ list \in Seq([id : Nat, change : Change]) /\ DOMAIN list = 1..Len(list)
      /\ MaxChanges \in Nat
  BY SMTT(40), PlanAssumption DEF ChangesInv
<1>1. doing = Doing(changes)
  BY ZenonT(40), <1>0 DEF Doing
<1>2. s.result.invalid <=> ~(valid /\ \A i \in DOMAIN changes : ~changes[i].unsupported)
  BY ZenonT(40), <1>0 DEF ChangesInv, Reportable
<1>3. listed = IF Len(changes) > MaxChanges \/ s.result.invalid THEN <<>> ELSE <<list>>
  BY ZenonT(40) DEF sanitizeObservationChanges
<1>4. listed # <<>> <=> fit
  <2>1. <<list>> # <<>>
    <3> HIDE DEF list
    <3> QED
      OBVIOUS
  <2>2. Len(changes) <= MaxChanges <=> ~(Len(changes) > MaxChanges)
    BY SMTT(40), <1>0
  <2> HIDE DEF list, listed, valid
  <2> QED
    BY ZenonT(40), <1>2, <1>3, <2>1, <2>2
<1>5. listed # <<>> => ~s.result.invalid /\ listed[1] = list
  <2>1. <<list>>[1] = list
    <3> HIDE DEF list
    <3> QED
      OBVIOUS
  <2> HIDE DEF list, listed
  <2> QED
    BY ZenonT(40), <1>3, <2>1
<1>6. ASSUME ~s.result.invalid
      PROVE  /\ Kept([k \in DOMAIN list |-> list[k].change], DOMAIN list, {changes[i] : i \in doing})
             /\ \A k \in DOMAIN list : list[k].id = k
  <2>1. Listed(changes, list)
    BY ZenonT(40), <1>6 DEF ChangesInv
  <2> DEFINE at == [k \in DOMAIN list |-> list[k].change]
  <2> HIDE DEF list
  <2>2. \A k \in DOMAIN list : at[k] = list[k].change
    BY ZenonT(40)
  <2> HIDE DEF at
  <2>3. {at[k] : k \in DOMAIN list} = {changes[i] : i \in doing}
    <3> HIDE DEF doing
    <3>1. ASSUME NEW k \in DOMAIN list PROVE \E i \in doing : at[k] = changes[i]
      <4>1. list[k].change.pos \in doing /\ list[k].change = changes[list[k].change.pos]
        BY ZenonT(40), <1>0, <1>1, <2>1 DEF Listed
      <4> QED
        BY ZenonT(40), <2>2, <4>1
    <3>2. ASSUME NEW i \in doing PROVE \E k \in DOMAIN list : at[k] = changes[i]
      <4>1. PICK k \in DOMAIN list : list[k].change = changes[i]
        BY ZenonT(40), <1>0, <1>1, <2>1 DEF Listed
      <4> QED
        BY ZenonT(40), <2>2, <4>1
    <3> QED
      BY SMTT(40), <3>1, <3>2
  <2>4. \A j, k \in DOMAIN list : j < k => at[j].pos < at[k].pos
    BY SMTT(40), <1>0, <2>1, <2>2 DEF Listed
  <2>5. \A k \in DOMAIN list : list[k].id = k
    BY ZenonT(40), <1>0, <2>1 DEF Listed
  <2> QED
    BY ZenonT(40), <2>3, <2>4, <2>5 DEF Kept, at
<1>7. listed # <<>> => /\ Kept([k \in DOMAIN listed[1] |-> listed[1][k].change], DOMAIN listed[1], {changes[i] : i \in doing})
                       /\ \A k \in DOMAIN listed[1] : listed[1][k].id = k
  <2> HIDE DEF list, listed, doing
  <2> QED
    BY ZenonT(40), <1>5, <1>6
<1>8. OutputChangeCount(changes, s.outputs) =
        IF valid /\ Len(changes) <= MaxOutputs THEN <<Cardinality(doing)>> ELSE <<>>
  <2>1. s.outputs.invalid <=> ~valid
    BY ZenonT(40), <1>0 DEF CountInv
  <2>2. Len(changes) > MaxOutputs <=> ~(Len(changes) <= MaxOutputs)
    <3>1. Len(changes) \in Nat /\ MaxOutputs \in Nat
      BY SMTT(40), PlanAssumption DEF ChangesInv
    <3> QED
      BY SMTT(40), <3>1
  <2> HIDE DEF doing, valid
  <2> QED
    BY ZenonT(40), <1>1, <2>1, <2>2 DEF CountInv, OutputChangeCount
<1> HIDE DEF list
<1> QED
  BY ZenonT(40), <1>4, <1>7, <1>8 DEF ChangesListed

-----------------------------------------------------------------------------
(* Planned outputs *)

\* A path leads to another.
Prefix(p, q) == Len(p) <= Len(q) /\ SubSeq(q, 1, Len(p)) = p

\* The leaves, objects and lists of an output.
Shape(known, pending, lists) ==
  /\ known \in SUBSET Seq(STRING) /\ pending \in SUBSET Seq(STRING)
  /\ known \intersect pending = {}
  /\ (known \union pending) \intersect Objects(known \union pending) = {}
  /\ lists \in SUBSET Objects(known \union pending)

\* A call is open for every leaf that is unknown and not yet shown as such, and
\* the rest is shown as it is.
OutputsInv(s) ==
  /\ Shape(s.known, s.pending, s.lists)
  /\ s = [first |-> s.first, known |-> s.known, pending |-> s.pending, lists |-> s.lists,
          after |-> After(s.known, s.pending, s.lists), unknown |-> AfterUnknown(s.known, s.pending, s.lists),
          shown |-> s.shown, calls |-> s.calls, panicked |-> s.panicked]
  /\ ~s.panicked
  /\ s.calls \in SUBSET Seq(STRING)
  /\ s.first \notin {"none", "no-op", "delete"} =>
       /\ \A p : p \notin s.pending => At(s.shown, p) = At(s.after, p)
       /\ \A p \in s.pending : At(s.shown, p) = "pending" \/ \E c \in s.calls : Prefix(c, p)
  /\ s.first \in {"none", "no-op", "delete"} => s.calls = {}

\* The objects are the proper beginnings.
LEMMA ObjectsFacts ==
  ASSUME NEW S \in SUBSET Seq(STRING)
  PROVE  /\ Objects(S) \in SUBSET Seq(STRING)
         /\ \A q \in S : \A p \in Seq(STRING) : Prefix(p, q) /\ p # q => p \in Objects(S)
         /\ \A T \in SUBSET S : Objects(T) \subseteq Objects(S)
<1>0. \A T, x : x \in Objects(T) <=> \E p \in T : \E i \in 0..(Len(p) - 1) : x = SubSeq(p, 1, i)
  BY SMTT(40) DEF Objects
<1>1. ASSUME NEW p \in S, NEW i \in 0..(Len(p) - 1) PROVE SubSeq(p, 1, i) \in Seq(STRING)
  OBVIOUS
<1>2. Objects(S) \in SUBSET Seq(STRING)
  <2>1. ASSUME NEW x \in Objects(S) PROVE x \in Seq(STRING)
    <3>1. PICK p \in S : \E i \in 0..(Len(p) - 1) : x = SubSeq(p, 1, i)
      BY SMTT(40), <1>0
    <3> QED
      BY ZenonT(40), <1>1, <3>1
  <2> QED
    BY ZenonT(40), <2>1
<1>3. ASSUME NEW q \in S, NEW p \in Seq(STRING), Prefix(p, q), p # q PROVE p \in Objects(S)
  <2>1. Len(p) \in 0..(Len(q) - 1)
    <3>1. Len(p) # Len(q)
      BY SMTT(40), <1>3 DEF Prefix
    <3> QED
      BY SMTT(40), <1>3, <3>1 DEF Prefix
  <2>2. p = SubSeq(q, 1, Len(p))
    BY ZenonT(40), <1>3 DEF Prefix
  <2> QED
    BY ZenonT(40), <1>0, <2>1, <2>2
<1>4. \A T \in SUBSET S : Objects(T) \subseteq Objects(S)
  BY SMTT(40) DEF Objects
<1> QED
  BY ZenonT(40), <1>2, <1>3, <1>4

\* Only one place of a value is written.
LEMMA PutFacts ==
  ASSUME NEW new, NEW value, NEW p, NEW v, new = Put(value, p, v)
  PROVE  At(new, p) = v /\ \A q : q # p => At(new, q) = At(value, q)
  BY ZenonT(40) DEF At, Put

\* A leaf below a place that is not one itself is below the next place too.
LEMMA PrefixStep ==
  ASSUME NEW p \in Seq(STRING), NEW q \in Seq(STRING), Prefix(p, q), p # q
  PROVE  LET r == SubSeq(q, 1, Len(p) + 1)
         IN  /\ r \in Seq(STRING) /\ Prefix(r, q) /\ Len(r) = Len(p) + 1 /\ SubSeq(r, 1, Len(p)) = p
<1> DEFINE r == SubSeq(q, 1, Len(p) + 1)
<1>1. Len(p) \in Nat /\ Len(q) \in Nat /\ Len(p) < Len(q)
  <2>1. Len(p) # Len(q)
    BY SMTT(40) DEF Prefix
  <2> QED
    BY SMTT(40), <2>1 DEF Prefix
<1>2. /\ r \in Seq(STRING) /\ Len(r) = Len(p) + 1 /\ \A i \in 1..(Len(p) + 1) : r[i] = q[i]
  BY SMTT(40), <1>1
<1> HIDE DEF r
<1>3. SubSeq(r, 1, Len(p)) = SubSeq(q, 1, Len(p))
  BY SMTT(40), <1>1, <1>2
<1>4. SubSeq(r, 1, Len(p)) = p
  BY ZenonT(40), <1>3 DEF Prefix
<1>5. Prefix(r, q)
  BY SMTT(40), <1>1, <1>2 DEF Prefix, r
<1> QED
  BY ZenonT(40), <1>2, <1>4, <1>5 DEF r

\* What the tool writes in each place.
Written(known, pending, lists, after, unknown) ==
  /\ \A q \in lists : At(after, q) = "list"
  /\ \A q \in Objects(known \union pending) : q \notin lists => At(after, q) = "map"
  /\ \A q : q \notin Objects(known \union pending) => At(after, q) \notin {"map", "list"}
  /\ \A q \in pending : At(unknown, q) = "true"
  /\ \A q \in Objects(pending) : At(unknown, q) = At(after, q)
  /\ \A q : q \notin pending => At(unknown, q) # "true"
  /\ pending \union Objects(pending) \subseteq DOMAIN unknown
  /\ DOMAIN unknown \subseteq Seq(STRING)
  /\ \A p \in lists : \A q \in DOMAIN unknown :
       Len(q) = Len(p) + 1 /\ SubSeq(q, 1, Len(p)) = p => q \in DOMAIN after

\* The two values have the places of the output's leaves, objects and lists.
LEMMA ValueFacts ==
  ASSUME NEW known, NEW pending, NEW lists, Shape(known, pending, lists)
  PROVE  Written(known, pending, lists, After(known, pending, lists), AfterUnknown(known, pending, lists))
<1> DEFINE all == known \union pending
           after == After(known, pending, lists)
           unknown == AfterUnknown(known, pending, lists)
           O == Objects(all)
           Q == Objects(pending)
<1>1. /\ known \in SUBSET Seq(STRING) /\ pending \in SUBSET Seq(STRING) /\ all \in SUBSET Seq(STRING)
      /\ known \intersect pending = {} /\ all \intersect O = {} /\ lists \in SUBSET O
  BY ZenonT(40) DEF Shape
<1>2. O \in SUBSET Seq(STRING) /\ Q \subseteq O
  <2>1. pending \in SUBSET all
    OBVIOUS
  <2> HIDE DEF all
  <2> QED
    BY ZenonT(40), <1>1, <2>1, ObjectsFacts
<1>3. pending = {} => Q = {}
  BY SMTT(40) DEF Objects
<1>4. \A q \in known \union pending : q \notin O /\ q \notin lists
  BY ZenonT(40), <1>1
<1>5. /\ DOMAIN after = known \union O \union Positions(pending, lists)
      /\ \A q \in DOMAIN after :
           after[q] = IF q \in known THEN "leaf" ELSE IF q \in lists THEN "list" ELSE IF q \in O THEN "map" ELSE "null"
  BY ZenonT(40) DEF After
<1>6. pending = {} => DOMAIN unknown = {<<>>} /\ \A q \in DOMAIN unknown : unknown[q] = "false"
  BY ZenonT(40) DEF AfterUnknown
<1>7. pending # {} =>
        /\ DOMAIN unknown = pending \union O \union Positions(known, lists)
        /\ \A q \in DOMAIN unknown :
             unknown[q] = IF q \in pending THEN "true" ELSE IF q \in lists THEN "list"
                          ELSE IF q \in known THEN "false" ELSE "map"
  BY ZenonT(40) DEF AfterUnknown
<1>8. \A set : Positions(set, lists) \subseteq set
  BY ZenonT(40) DEF Positions
<1>9. <<>> \in Seq(STRING) /\ Len(<<>>) = 0
  OBVIOUS
<1> HIDE DEF all, after, unknown, O, Q
<1>10. /\ \A q \in lists : At(after, q) = "list"
       /\ \A q \in O : q \notin lists => At(after, q) = "map"
       /\ \A q : q \notin O => At(after, q) \notin {"map", "list"}
  <2>1. \A q \in lists : q \in O /\ q \notin known
    BY ZenonT(40), <1>1, <1>4
  <2>2. \A q \in O : q \in DOMAIN after /\ q \notin known
    BY ZenonT(40), <1>4, <1>5
  <2>3. "leaf" \notin {"map", "list"} /\ "null" \notin {"map", "list"}
    OBVIOUS
  <2> QED
    BY ZenonT(40), <1>1, <1>5, <2>1, <2>2, <2>3 DEF At
<1>11. \A q \in pending : At(unknown, q) = "true"
  BY ZenonT(40), <1>7 DEF At
<1>12. \A q \in Q : At(unknown, q) = At(after, q)
  <2> SUFFICES ASSUME NEW q \in Q PROVE At(unknown, q) = At(after, q)
    BY ZenonT(40)
  <2>1. pending # {} /\ q \in O /\ q \notin pending /\ q \notin known /\ q \in DOMAIN unknown
    BY ZenonT(40), <1>2, <1>3, <1>4, <1>7
  <2>2. At(unknown, q) = IF q \in lists THEN "list" ELSE "map"
    BY ZenonT(40), <1>7, <2>1 DEF At
  <2> QED
    BY ZenonT(40), <1>10, <2>1, <2>2
<1>13. \A q : q \notin pending => At(unknown, q) # "true"
  <2>1. "list" # "true" /\ "false" # "true" /\ "map" # "true" /\ "null" # "true"
    OBVIOUS
  <2> QED
    BY ZenonT(40), <1>6, <1>7, <2>1 DEF At
<1>14. pending \union Q \subseteq DOMAIN unknown
  BY ZenonT(40), <1>2, <1>3, <1>7
<1>15. DOMAIN unknown \subseteq Seq(STRING)
  BY ZenonT(40), <1>1, <1>2, <1>6, <1>7, <1>8, <1>9
<1>16. ASSUME NEW p \in lists, NEW q \in DOMAIN unknown, Len(q) = Len(p) + 1, SubSeq(q, 1, Len(p)) = p
       PROVE  q \in DOMAIN after
  <2>1. p \in Seq(STRING) /\ q \in Seq(STRING)
    BY ZenonT(40), <1>1, <1>2, <1>15
  <2>2. q # <<>> /\ SubSeq(q, 1, Len(q) - 1) = p
    BY SMTT(40), <1>16, <2>1
  <2>3. q \in pending => q \in Positions(pending, lists)
    BY ZenonT(40), <2>2 DEF Positions
  <2>4. q \in pending \/ q \in O \/ q \in known
    BY ZenonT(40), <1>6, <1>7, <1>8, <2>2
  <2> QED
    BY ZenonT(40), <1>5, <2>3, <2>4
<1> QED
  BY ZenonT(40), <1>10, <1>11, <1>12, <1>13, <1>14, <1>15, <1>16 DEF Written, all, after, unknown, O, Q

\* What is left of an output after a call.
LEMMA CompactRecord ==
  ASSUME NEW s, NEW first, NEW known, NEW pending, NEW lists, NEW after, NEW unknown, NEW shown, NEW calls, NEW panicked,
         s = [first |-> first, known |-> known, pending |-> pending, lists |-> lists, after |-> after,
              unknown |-> unknown, shown |-> shown, calls |-> calls, panicked |-> panicked],
         NEW c, NEW v, NEW x
  PROVE  /\ [[s EXCEPT !.calls = c] EXCEPT !.panicked = x] =
               [first |-> first, known |-> known, pending |-> pending, lists |-> lists, after |-> after,
                unknown |-> unknown, shown |-> shown, calls |-> c, panicked |-> x]
         /\ [[s EXCEPT !.calls = c] EXCEPT !.shown = v] =
               [first |-> first, known |-> known, pending |-> pending, lists |-> lists, after |-> after,
                unknown |-> unknown, shown |-> v, calls |-> c, panicked |-> panicked]
<1>1. [s EXCEPT !.calls = c] =
        [first |-> first, known |-> known, pending |-> pending, lists |-> lists, after |-> after,
         unknown |-> unknown, shown |-> shown, calls |-> c, panicked |-> panicked]
  OBVIOUS
<1>2. PICK t : t = [s EXCEPT !.calls = c]
  OBVIOUS
<1>3. t = [first |-> first, known |-> known, pending |-> pending, lists |-> lists, after |-> after,
           unknown |-> unknown, shown |-> shown, calls |-> c, panicked |-> panicked]
  BY ZenonT(40), <1>1, <1>2
<1>4. [t EXCEPT !.panicked = x] =
        [first |-> first, known |-> known, pending |-> pending, lists |-> lists, after |-> after,
         unknown |-> unknown, shown |-> shown, calls |-> c, panicked |-> x]
  BY <1>3
<1>5. [t EXCEPT !.shown = v] =
        [first |-> first, known |-> known, pending |-> pending, lists |-> lists, after |-> after,
         unknown |-> unknown, shown |-> v, calls |-> c, panicked |-> panicked]
  BY <1>3
<1> QED
  BY ZenonT(40), <1>2, <1>4, <1>5

\* A call passes the leaves below it on, or shows the one it is for.
LEMMA OutputsStep ==
  ASSUME NEW s, OutputsInv(s), NEW p \in s.calls
  PROVE  OutputsInv(compactUnknowns(s, p))
<1> DEFINE new == compactUnknowns(s, p)
           below == {q \in DOMAIN s.unknown : Len(q) = Len(p) + 1 /\ SubSeq(q, 1, Len(p)) = p}
           all == s.known \union s.pending
           a == At(s.after, p)
           u == At(s.unknown, p)
           outside == a = "list" /\ ~(below \subseteq DOMAIN s.after)
           Made(shown, calls) ==
             [first |-> s.first, known |-> s.known, pending |-> s.pending, lists |-> s.lists, after |-> s.after,
              unknown |-> s.unknown, shown |-> shown, calls |-> calls, panicked |-> s.panicked]
<1>1. /\ s.after = After(s.known, s.pending, s.lists) /\ s.unknown = AfterUnknown(s.known, s.pending, s.lists)
      /\ s = Made(s.shown, s.calls)
  <2>1. s = [first |-> s.first, known |-> s.known, pending |-> s.pending, lists |-> s.lists,
             after |-> After(s.known, s.pending, s.lists), unknown |-> AfterUnknown(s.known, s.pending, s.lists),
             shown |-> s.shown, calls |-> s.calls, panicked |-> s.panicked]
    BY ZenonT(40) DEF OutputsInv
  <2>2. s.after = After(s.known, s.pending, s.lists) /\ s.unknown = AfterUnknown(s.known, s.pending, s.lists)
    BY SMTT(40), <2>1
  <2> QED
    BY ZenonT(40), <2>1, <2>2
<1>2. /\ Shape(s.known, s.pending, s.lists) /\ s.calls \in SUBSET Seq(STRING) /\ ~s.panicked
      /\ s.pending \in SUBSET Seq(STRING)
      /\ s.first \notin {"none", "no-op", "delete"}
      /\ \A q : q \notin s.pending => At(s.shown, q) = At(s.after, q)
      /\ \A q \in s.pending : At(s.shown, q) = "pending" \/ \E c \in s.calls : Prefix(c, q)
  BY ZenonT(40) DEF OutputsInv, Shape
<1>3. /\ \A q \in s.lists : At(s.after, q) = "list"
      /\ \A q \in Objects(all) : q \notin s.lists => At(s.after, q) = "map"
      /\ \A q : q \notin Objects(all) => At(s.after, q) \notin {"map", "list"}
      /\ \A q \in s.pending : At(s.unknown, q) = "true"
      /\ \A q \in Objects(s.pending) : At(s.unknown, q) = At(s.after, q)
      /\ \A q : q \notin s.pending => At(s.unknown, q) # "true"
      /\ s.pending \union Objects(s.pending) \subseteq DOMAIN s.unknown
      /\ DOMAIN s.unknown \subseteq Seq(STRING)
      /\ \A l \in s.lists : \A q \in DOMAIN s.unknown :
           Len(q) = Len(l) + 1 /\ SubSeq(q, 1, Len(l)) = l => q \in DOMAIN s.after
  <2>1. Written(s.known, s.pending, s.lists, s.after, s.unknown)
    <3>1. Written(s.known, s.pending, s.lists, After(s.known, s.pending, s.lists),
                  AfterUnknown(s.known, s.pending, s.lists))
      BY ZenonT(40), <1>2, ValueFacts
    <3> QED
      BY ZenonT(40), <1>1, <3>1
  <2> QED
    BY ZenonT(40), <2>1 DEF Written
<1>4. /\ \A q \in s.pending : q \notin Objects(all)
      /\ Objects(s.pending) \subseteq Objects(all)
      /\ \A q \in s.pending : \A o \in Seq(STRING) : Prefix(o, q) /\ o # q => o \in Objects(s.pending)
      /\ s.lists \in SUBSET Objects(all)
  <2>1. all \in SUBSET Seq(STRING) /\ s.pending \in SUBSET all /\ all \intersect Objects(all) = {}
    BY ZenonT(40), <1>2 DEF Shape
  <2>2. s.lists \in SUBSET Objects(all)
    BY ZenonT(40), <1>2 DEF Shape
  <2> HIDE DEF all
  <2> QED
    BY ZenonT(40), <1>2, <2>1, <2>2, ObjectsFacts
<1>5. p \in Seq(STRING)
  BY ZenonT(40), <1>2
<1> HIDE DEF all
<1> DEFINE open == a \in {"map", "list"} /\ u = a
           leaf == a \notin {"map", "list"} /\ u = "true"
<1>6. /\ open => p \in Objects(all) /\ p \notin s.pending /\ ~outside
      /\ leaf => p \in s.pending
      /\ ~open /\ ~leaf => p \notin s.pending /\ p \notin Objects(s.pending)
  <2>1. ASSUME open PROVE p \in Objects(all) /\ p \notin s.pending /\ ~outside
    <3>1. p \in Objects(all)
      BY ZenonT(40), <1>3, <2>1
    <3>2. a = "list" => p \in s.lists
      <4>1. "map" # "list"
        OBVIOUS
      <4> QED
        BY ZenonT(40), <1>3, <3>1, <4>1
    <3>3. a = "list" => below \subseteq DOMAIN s.after
      BY ZenonT(40), <1>3, <3>2
    <3> QED
      BY ZenonT(40), <1>4, <3>1, <3>3
  <2>2. leaf => p \in s.pending
    BY ZenonT(40), <1>3
  <2>3. p \in s.pending => leaf
    BY ZenonT(40), <1>3, <1>4
  <2>4. p \in Objects(s.pending) => open
    <3>1. ASSUME p \in Objects(s.pending) PROVE open
      <4>1. p \in Objects(all) /\ u = a
        BY ZenonT(40), <1>3, <1>4, <3>1
      <4>2. a \in {"map", "list"}
        BY ZenonT(40), <1>3, <4>1
      <4> QED
        BY ZenonT(40), <4>1, <4>2
    <3> QED
      BY ZenonT(40), <3>1
  <2> QED
    BY ZenonT(40), <2>1, <2>2, <2>3, <2>4
<1>7. /\ open => new = [[s EXCEPT !.calls = (s.calls \ {p}) \union below] EXCEPT !.panicked = IF outside THEN TRUE ELSE s.panicked]
      /\ leaf => new = [[s EXCEPT !.calls = s.calls \ {p}] EXCEPT !.shown = Put(s.shown, p, "pending")]
      /\ ~open /\ ~leaf => new = [[s EXCEPT !.calls = s.calls \ {p}] EXCEPT !.shown = Put(s.shown, p, a)]
  <2>1. ~(open /\ leaf)
    BY ZenonT(40)
  <2> QED
    BY ZenonT(40), <2>1 DEF compactUnknowns
<1> DEFINE shown == IF open THEN s.shown ELSE IF leaf THEN Put(s.shown, p, "pending") ELSE Put(s.shown, p, a)
           calls == IF open THEN (s.calls \ {p}) \union below ELSE s.calls \ {p}
<1>8. new = Made(shown, calls)
  <2> HIDE DEF new, below, open, leaf, a, outside
  <2>1. CASE open
    <3>1. new = [[s EXCEPT !.calls = calls] EXCEPT !.panicked = s.panicked] /\ shown = s.shown
      BY ZenonT(40), <1>6, <1>7, <2>1
    <3> HIDE DEF shown, calls
    <3> QED
      BY ZenonT(40), <1>1, <3>1, CompactRecord
  <2>2. CASE ~open
    <3>1. new = [[s EXCEPT !.calls = calls] EXCEPT !.shown = shown]
      BY ZenonT(40), <1>7, <2>2
    <3> HIDE DEF shown, calls
    <3> QED
      BY ZenonT(40), <1>1, <3>1, CompactRecord
  <2> QED
    BY ZenonT(40), <2>1, <2>2
<1> HIDE DEF new, shown, calls, a, u, outside, open, leaf
<1>9. /\ new.first = s.first /\ new.known = s.known /\ new.pending = s.pending /\ new.lists = s.lists
      /\ new.after = s.after /\ new.unknown = s.unknown /\ new.shown = shown /\ new.calls = calls
      /\ new.panicked = s.panicked
  BY ZenonT(40), <1>8
<1>10. calls \in SUBSET Seq(STRING)
  BY ZenonT(40), <1>2, <1>3 DEF calls
<1>11. ASSUME NEW q, q \notin s.pending PROVE At(shown, q) = At(s.after, q)
  <2>1. CASE open
    BY ZenonT(40), <1>2, <1>11, <2>1 DEF shown
  <2>2. CASE ~open
    <3>1. PICK v : shown = Put(s.shown, p, v) /\ (~leaf => v = a)
      <4>1. CASE leaf
        BY ZenonT(40), <2>2, <4>1 DEF shown
      <4>2. CASE ~leaf
        BY ZenonT(40), <2>2, <4>2 DEF shown
      <4> QED
        BY ZenonT(40), <4>1, <4>2
    <3>2. At(shown, p) = v /\ \A o : o # p => At(shown, o) = At(s.shown, o)
      <4>1. shown = Put(s.shown, p, v)
        BY ZenonT(40), <3>1
      <4> QED
        BY SMTT(40), <4>1, PutFacts
    <3>3. CASE q = p
      <4>1. ~leaf
        BY ZenonT(40), <1>6, <1>11, <3>3
      <4> QED
        BY ZenonT(40), <3>1, <3>2, <3>3, <4>1 DEF a
    <3>4. CASE q # p
      BY ZenonT(40), <1>2, <1>11, <3>2, <3>4
    <3> QED
      BY ZenonT(40), <3>3, <3>4
  <2> QED
    BY ZenonT(40), <2>1, <2>2
<1>12. ASSUME NEW q \in s.pending PROVE At(shown, q) = "pending" \/ \E c \in calls : Prefix(c, q)
  <2>0. q \in Seq(STRING)
    BY ZenonT(40), <1>2
  <2>1. CASE \E c \in s.calls : c # p /\ Prefix(c, q)
    BY ZenonT(40), <2>1 DEF calls
  <2>2. CASE open
    <3>1. CASE At(s.shown, q) = "pending"
      BY ZenonT(40), <2>2, <3>1 DEF shown
    <3>2. CASE Prefix(p, q)
      <4> DEFINE o == SubSeq(q, 1, Len(p) + 1)
      <4>1. p # q
        BY ZenonT(40), <1>6, <2>2
      <4>2. o \in Seq(STRING) /\ Prefix(o, q) /\ Len(o) = Len(p) + 1 /\ SubSeq(o, 1, Len(p)) = p
        BY ZenonT(40), <1>5, <2>0, <3>2, <4>1, PrefixStep
      <4> HIDE DEF o
      <4>3. o \in DOMAIN s.unknown
        BY ZenonT(40), <1>3, <1>4, <4>2
      <4>4. o \in below
        BY ZenonT(40), <4>2, <4>3
      <4> QED
        BY ZenonT(40), <2>2, <4>2, <4>4 DEF calls
    <3> QED
      BY ZenonT(40), <1>2, <2>1, <3>1, <3>2
  <2>3. CASE ~open
    <3>1. PICK v : shown = Put(s.shown, p, v) /\ (leaf => v = "pending")
      <4>1. CASE leaf
        BY ZenonT(40), <2>3, <4>1 DEF shown
      <4>2. CASE ~leaf
        BY ZenonT(40), <2>3, <4>2 DEF shown
      <4> QED
        BY ZenonT(40), <4>1, <4>2
    <3>2. At(shown, p) = v /\ \A o : o # p => At(shown, o) = At(s.shown, o)
      <4>1. shown = Put(s.shown, p, v)
        BY ZenonT(40), <3>1
      <4> QED
        BY SMTT(40), <4>1, PutFacts
    <3>3. CASE q = p
      BY ZenonT(40), <1>6, <2>3, <3>1, <3>2, <3>3
    <3>4. CASE q # p /\ At(s.shown, q) = "pending"
      BY ZenonT(40), <3>2, <3>4
    <3>5. CASE q # p /\ Prefix(p, q)
      <4>1. p \in Objects(s.pending)
        BY ZenonT(40), <1>4, <1>5, <3>5
      <4>2. p \notin s.pending
        BY ZenonT(40), <1>4, <4>1
      <4> QED
        BY ZenonT(40), <1>6, <2>3, <4>1, <4>2
    <3> QED
      BY ZenonT(40), <1>2, <2>1, <3>3, <3>4, <3>5
  <2> QED
    BY ZenonT(40), <2>2, <2>3
<1>13. OutputsInv(new)
  <2>1. new = [first |-> new.first, known |-> new.known, pending |-> new.pending, lists |-> new.lists,
               after |-> After(new.known, new.pending, new.lists),
               unknown |-> AfterUnknown(new.known, new.pending, new.lists),
               shown |-> new.shown, calls |-> new.calls, panicked |-> new.panicked]
    BY ZenonT(40), <1>1, <1>8, <1>9
  <2>2. ~new.panicked
    BY ZenonT(40), <1>2, <1>9
  <2> QED
    BY ZenonT(40), <1>2, <1>9, <1>10, <1>11, <1>12, <2>1, <2>2 DEF OutputsInv
<1> QED
  BY ZenonT(40), <1>13 DEF new

\* When no call is open, every unknown leaf is shown as such.
LEMMA OutputsAreShown ==
  ASSUME NEW s, OutputsInv(s)
  PROVE  OutputsShown(s)
  BY ZenonT(40) DEF OutputsInv, OutputsShown

\* Before the first call the value is shown as it is.
LEMMA OutputsStart ==
  ASSUME NEW first \in {"none", "no-op", "delete", "update"}, NEW known \in SUBSET Paths, NEW pending \in SUBSET Paths,
         known \intersect pending = {}, (known \union pending) \intersect Objects(known \union pending) = {},
         NEW lists \in SUBSET Objects(known \union pending)
  PROVE  OutputsInv(Compact(first, known, pending, lists))
<1> DEFINE s == Compact(first, known, pending, lists)
           after == After(known, pending, lists)
           unknown == AfterUnknown(known, pending, lists)
           shown == CASE first = "none"   -> [p \in {<<>>} |-> "pending"]
                      [] first = "delete" -> [p \in {<<>>} |-> "null"]
                      [] OTHER            -> after
           calls == IF first \in {"none", "no-op", "delete"} THEN {} ELSE {<<>>}
<1>1. s = [first |-> first, known |-> known, pending |-> pending, lists |-> lists, after |-> after,
           unknown |-> unknown, shown |-> shown, calls |-> calls, panicked |-> FALSE]
  BY ZenonT(40) DEF Compact
<1>2. first \notin {"none", "no-op", "delete"} => shown = after
  BY ZenonT(40)
<1>3. known \in SUBSET Seq(STRING) /\ pending \in SUBSET Seq(STRING)
  BY ZenonT(40), PlanAssumption
<1>4. <<>> \in Seq(STRING) /\ \A q \in Seq(STRING) : Prefix(<<>>, q)
  BY SMTT(40) DEF Prefix
<1>5. Shape(known, pending, lists)
  BY ZenonT(40), <1>3 DEF Shape
<1> HIDE DEF shown, calls, after, unknown, s
<1>6. /\ s.first = first /\ s.known = known /\ s.pending = pending /\ s.lists = lists /\ s.after = after
      /\ s.unknown = unknown /\ s.shown = shown /\ s.calls = calls /\ ~s.panicked
  BY ZenonT(40), <1>1
<1>7. calls \in SUBSET {<<>>} /\ (first \notin {"none", "no-op", "delete"} => <<>> \in calls)
      /\ (first \in {"none", "no-op", "delete"} => calls = {})
  BY ZenonT(40) DEF calls
<1>8. OutputsInv(s)
  <2>1. s = [first |-> s.first, known |-> s.known, pending |-> s.pending, lists |-> s.lists,
             after |-> After(s.known, s.pending, s.lists), unknown |-> AfterUnknown(s.known, s.pending, s.lists),
             shown |-> s.shown, calls |-> s.calls, panicked |-> s.panicked]
    <3>1. s.panicked = FALSE
      BY ZenonT(40), <1>1
    <3> QED
      BY ZenonT(40), <1>1, <1>6, <3>1 DEF after, unknown
  <2>2. ASSUME s.first \notin {"none", "no-op", "delete"}
        PROVE  /\ \A p : p \notin s.pending => At(s.shown, p) = At(s.after, p)
               /\ \A p \in s.pending : At(s.shown, p) = "pending" \/ \E c \in s.calls : Prefix(c, p)
    BY ZenonT(40), <1>2, <1>3, <1>4, <1>6, <1>7, <2>2
  <2>3. s.calls \in SUBSET Seq(STRING)
    BY ZenonT(40), <1>4, <1>6, <1>7
  <2>4. s.first \in {"none", "no-op", "delete"} => s.calls = {}
    BY ZenonT(40), <1>6, <1>7
  <2>5. Shape(s.known, s.pending, s.lists)
    BY ZenonT(40), <1>5, <1>6
  <2> QED
    BY ZenonT(40), <1>6, <2>1, <2>2, <2>3, <2>4, <2>5 DEF OutputsInv
<1> QED
  BY ZenonT(40), <1>8 DEF s

-----------------------------------------------------------------------------
(* The archive *)

\* An entry of an archive.
ArchiveEntry == [name : Names, type : {"dir", "file", "link"}, content : Contents]

\* The entries of a type, and the names, files and directories of some entries.
Of(entries, type) == {i \in DOMAIN entries : entries[i].type = type}
NamesAt(entries, at) == {entries[i].name : i \in at}
FilesOf(entries) == NamesAt(entries, Of(entries, "file"))
DirsOf(entries) ==
  NamesAt(entries, Of(entries, "dir"))
  \union UNION {Parents(n) : n \in NamesAt(entries, Of(entries, "dir") \union Of(entries, "file"))}

\* The entries read so far cannot be extracted.
Bad(entries) == (\E i \in DOMAIN entries : Escapes(entries[i].name)) \/ FilesOf(entries) \intersect DirsOf(entries) # {}

\* A file has the content of its last entry.
LastContent(entries, files) ==
  \A i \in Of(entries, "file") : \/ files[entries[i].name] = entries[i].content
                                 \/ \E j \in Of(entries, "file") : j > i /\ entries[j].name = entries[i].name

\* The folder has failed where the archive has, or has its files and directories.
BundleInv(entries, folder) ==
  /\ entries \in Seq(ArchiveEntry)
  /\ folder = [failed |-> folder.failed, dirs |-> folder.dirs, files |-> folder.files]
  /\ folder.failed \in BOOLEAN
  /\ folder.failed <=> Bad(entries)
  /\ ~folder.failed => /\ DOMAIN folder.files = FilesOf(entries) /\ folder.dirs = DirsOf(entries)
                       /\ LastContent(entries, folder.files)

\* What is a file or a directory of an archive.
LEMMA InArchive ==
  ASSUME NEW entries \in Seq(ArchiveEntry)
  PROVE  /\ \A n : n \in FilesOf(entries) <=> \E i \in 1..Len(entries) : entries[i].type = "file" /\ entries[i].name = n
         /\ \A n : n \in DirsOf(entries) <=> \E i \in 1..Len(entries) :
              \/ entries[i].type = "dir" /\ entries[i].name = n
              \/ entries[i].type \in {"dir", "file"} /\ n \in Parents(entries[i].name)
<1>1. DOMAIN entries = 1..Len(entries)
  OBVIOUS
<1>2. ASSUME NEW n
      PROVE  n \in FilesOf(entries) <=> \E i \in 1..Len(entries) : entries[i].type = "file" /\ entries[i].name = n
  BY ZenonT(40), <1>1 DEF FilesOf, NamesAt, Of
<1>3. ASSUME NEW n, n \in DirsOf(entries)
      PROVE  \E i \in 1..Len(entries) :
               \/ entries[i].type = "dir" /\ entries[i].name = n
               \/ entries[i].type \in {"dir", "file"} /\ n \in Parents(entries[i].name)
  <2>1. CASE n \in NamesAt(entries, Of(entries, "dir"))
    BY ZenonT(40), <1>1, <2>1 DEF NamesAt, Of
  <2>2. CASE n \in UNION {Parents(m) : m \in NamesAt(entries, Of(entries, "dir") \union Of(entries, "file"))}
    <3>1. PICK m \in NamesAt(entries, Of(entries, "dir") \union Of(entries, "file")) : n \in Parents(m)
      BY ZenonT(40), <2>2
    <3>2. PICK i \in Of(entries, "dir") \union Of(entries, "file") : m = entries[i].name
      BY ZenonT(40), <3>1 DEF NamesAt
    <3> QED
      BY ZenonT(40), <1>1, <3>1, <3>2 DEF Of
  <2> QED
    BY ZenonT(40), <1>3, <2>1, <2>2 DEF DirsOf
<1>4. ASSUME NEW n, NEW i \in 1..Len(entries),
             \/ entries[i].type = "dir" /\ entries[i].name = n
             \/ entries[i].type \in {"dir", "file"} /\ n \in Parents(entries[i].name)
      PROVE  n \in DirsOf(entries)
  <2>1. CASE entries[i].type = "dir" /\ entries[i].name = n
    BY ZenonT(40), <1>1, <2>1 DEF DirsOf, NamesAt, Of
  <2>2. CASE entries[i].type \in {"dir", "file"} /\ n \in Parents(entries[i].name)
    <3>1. i \in Of(entries, "dir") \union Of(entries, "file")
      BY ZenonT(40), <1>1, <2>2 DEF Of
    <3>2. entries[i].name \in NamesAt(entries, Of(entries, "dir") \union Of(entries, "file"))
      BY ZenonT(40), <3>1 DEF NamesAt
    <3> QED
      BY ZenonT(40), <2>2, <3>2 DEF DirsOf
  <2> QED
    BY ZenonT(40), <1>4, <2>1, <2>2
<1> QED
  BY ZenonT(40), <1>2, <1>3, <1>4

\* What one entry adds.
LEMMA OneMoreEntry ==
  ASSUME NEW entries \in Seq(ArchiveEntry), NEW entry \in ArchiveEntry
  PROVE  LET next == Append(entries, entry)
         IN  /\ next \in Seq(ArchiveEntry) /\ Len(next) = Len(entries) + 1 /\ Len(entries) \in Nat
             /\ next[Len(entries) + 1] = entry /\ \A i \in 1..Len(entries) : next[i] = entries[i]
             /\ DOMAIN next = 1..Len(entries) \union {Len(entries) + 1} /\ DOMAIN entries = 1..Len(entries)
             /\ \A n : n \in FilesOf(next) <=> n \in FilesOf(entries) \/ (entry.type = "file" /\ n = entry.name)
             /\ \A n : n \in DirsOf(next) <=> \/ n \in DirsOf(entries)
                                              \/ entry.type = "dir" /\ n = entry.name
                                              \/ entry.type \in {"dir", "file"} /\ n \in Parents(entry.name)
<1> DEFINE next == Append(entries, entry)
           l == Len(entries)
<1>1. /\ next \in Seq(ArchiveEntry) /\ Len(next) = l + 1 /\ l \in Nat
      /\ next[l + 1] = entry /\ \A i \in 1..l : next[i] = entries[i]
      /\ DOMAIN next = 1..Len(next) /\ DOMAIN entries = 1..l
  OBVIOUS
<1> HIDE DEF next, l
<1>2. 1..Len(next) = 1..l \union {l + 1}
  BY SMTT(40), <1>1
<1>3. /\ \A n : n \in FilesOf(entries) <=> \E i \in 1..l : entries[i].type = "file" /\ entries[i].name = n
      /\ \A n : n \in DirsOf(entries) <=> \E i \in 1..l :
           \/ entries[i].type = "dir" /\ entries[i].name = n
           \/ entries[i].type \in {"dir", "file"} /\ n \in Parents(entries[i].name)
  BY ZenonT(40), InArchive DEF l
<1>4. /\ \A n : n \in FilesOf(next) <=> \E i \in 1..Len(next) : next[i].type = "file" /\ next[i].name = n
      /\ \A n : n \in DirsOf(next) <=> \E i \in 1..Len(next) :
           \/ next[i].type = "dir" /\ next[i].name = n
           \/ next[i].type \in {"dir", "file"} /\ n \in Parents(next[i].name)
  BY ZenonT(40), <1>1, InArchive
<1>5. \A n : n \in FilesOf(next) <=> n \in FilesOf(entries) \/ (entry.type = "file" /\ n = entry.name)
  BY SMTT(40), <1>1, <1>2, <1>3, <1>4
<1>6. \A n : n \in DirsOf(next) <=> \/ n \in DirsOf(entries)
                                    \/ entry.type = "dir" /\ n = entry.name
                                    \/ entry.type \in {"dir", "file"} /\ n \in Parents(entry.name)
  BY SMTT(40), <1>1, <1>2, <1>3, <1>4
<1> QED
  BY ZenonT(40), <1>1, <1>2, <1>5, <1>6 DEF next, l

\* A file's content is replaced, and others stay.
LEMMA ContentStep ==
  ASSUME NEW entries \in Seq(ArchiveEntry), NEW entry \in ArchiveEntry, NEW files, NEW new,
         LastContent(entries, files), DOMAIN files = FilesOf(entries),
         IF entry.type = "file" THEN new = Put(files, entry.name, entry.content) ELSE new = files
  PROVE  LastContent(Append(entries, entry), new)
<1> DEFINE next == Append(entries, entry)
           l == Len(entries)
<1>1. /\ l \in Nat /\ next[l + 1] = entry /\ \A i \in 1..l : next[i] = entries[i]
      /\ DOMAIN next = 1..l \union {l + 1} /\ DOMAIN entries = 1..l
  BY ZenonT(40), OneMoreEntry
<1> HIDE DEF next, l
<1>2. \A i \in 1..l : l + 1 > i
  BY SMTT(40), <1>1
<1>3. \A i \in Of(entries, "file") : i \in 1..l /\ i \in Of(next, "file") /\ next[i] = entries[i]
  BY ZenonT(40), <1>1 DEF Of
<1>4. SUFFICES ASSUME NEW i \in Of(next, "file")
               PROVE  \/ new[next[i].name] = next[i].content
                      \/ \E j \in Of(next, "file") : j > i /\ next[j].name = next[i].name
  BY ZenonT(40) DEF LastContent, next
<1>5. CASE i = l + 1
  <2>1. entry.type = "file" /\ next[i] = entry
    BY ZenonT(40), <1>1, <1>5 DEF Of
  <2>2. new[entry.name] = entry.content
    BY ZenonT(40), <2>1 DEF Put
  <2> QED
    BY ZenonT(40), <2>1, <2>2
<1>6. CASE i \in 1..l
  <2>1. i \in Of(entries, "file") /\ next[i] = entries[i]
    BY ZenonT(40), <1>1, <1>6 DEF Of
  <2>2. CASE \E j \in Of(entries, "file") : j > i /\ entries[j].name = entries[i].name
    <3>1. PICK j \in Of(entries, "file") : j > i /\ entries[j].name = entries[i].name
      BY ZenonT(40), <2>2
    <3> QED
      BY ZenonT(40), <1>3, <2>1, <3>1
  <2>3. CASE files[entries[i].name] = entries[i].content
    <3>1. entries[i].name \in DOMAIN files
      BY ZenonT(40), <2>1 DEF FilesOf, NamesAt
    <3>2. CASE entry.type = "file" /\ entry.name = entries[i].name
      <4>1. l + 1 \in Of(next, "file")
        BY ZenonT(40), <1>1, <3>2 DEF Of
      <4> QED
        BY ZenonT(40), <1>1, <1>2, <1>6, <2>1, <3>2, <4>1
    <3>3. CASE entry.type = "file" /\ entry.name # entries[i].name
      <4>1. new[entries[i].name] = files[entries[i].name]
        BY ZenonT(40), <3>1, <3>3 DEF Put
      <4> QED
        BY ZenonT(40), <2>1, <2>3, <4>1
    <3>4. CASE entry.type # "file"
      BY ZenonT(40), <2>1, <2>3, <3>4
    <3> QED
      BY ZenonT(40), <3>2, <3>3, <3>4
  <2> QED
    BY ZenonT(40), <2>1, <2>2, <2>3 DEF LastContent
<1> QED
  BY ZenonT(40), <1>1, <1>5, <1>6 DEF Of

\* The state of an extraction.
Folder(failed, dirs, files) == [failed |-> failed, dirs |-> dirs, files |-> files]

\* The directories that an entry needs.
Made(entry) == IF entry.type = "dir" THEN Parents(entry.name) \union {entry.name} ELSE Parents(entry.name)

\* What is to become of a folder with one entry.
Extracted(dirs, files, entry, new) ==
  /\ Escapes(entry.name) => new = Folder(TRUE, dirs, files)
  /\ ~Escapes(entry.name) /\ entry.type = "link" => new = Folder(FALSE, dirs, files)
  /\ ~Escapes(entry.name) /\ entry.type \in {"dir", "file"} /\ Made(entry) \intersect DOMAIN files # {} =>
       new = Folder(TRUE, dirs, files)
  /\ ~Escapes(entry.name) /\ entry.type = "dir" /\ Made(entry) \intersect DOMAIN files = {} =>
       new = Folder(FALSE, dirs \union Made(entry), files)
  /\ ~Escapes(entry.name) /\ entry.type = "file" /\ Made(entry) \intersect DOMAIN files = {} =>
       new = IF entry.name \in dirs \union Made(entry) THEN Folder(TRUE, dirs \union Made(entry), files)
             ELSE Folder(FALSE, dirs \union Made(entry), Put(files, entry.name, entry.content))

\* One entry, read into a folder that has not failed.
LEMMA ExtractResult ==
  ASSUME NEW dirs, NEW files, NEW entry \in ArchiveEntry
  PROVE  Extracted(dirs, files, entry, Extract(Folder(FALSE, dirs, files), entry))
<1> DEFINE folder == Folder(FALSE, dirs, files)
           new == Extract(folder, entry)
           made == Made(entry)
           failure == Folder(TRUE, dirs, files)
           first == MkdirAll(folder, made)
           wider == Folder(FALSE, dirs \union made, files)
<1>0. folder.failed = FALSE /\ folder.dirs = dirs /\ folder.files = files
  BY ZenonT(40) DEF Folder
<1>1. [folder EXCEPT !.failed = TRUE] = failure /\ [folder EXCEPT !.dirs = dirs \union made] = wider
  <2> DEFINE no == FALSE
             yes == TRUE
             more == dirs \union made
  <2> HIDE DEF no, yes, more
  <2>1. [Folder(no, dirs, files) EXCEPT !.failed = yes] = Folder(yes, dirs, files)
    BY SMTT(40) DEF Folder
  <2>2. [Folder(no, dirs, files) EXCEPT !.dirs = more] = Folder(no, more, files)
    BY SMTT(40) DEF Folder
  <2> QED
    BY ZenonT(40), <2>1, <2>2 DEF no, yes, more
<1>2. Escapes(entry.name) => new = failure
  BY ZenonT(40), <1>1 DEF Extract
<1>3. "link" # "dir" /\ "link" # "file" /\ "dir" # "file"
  OBVIOUS
<1>4. ~Escapes(entry.name) /\ entry.type = "link" => new = folder
  BY ZenonT(40), <1>3 DEF Extract
<1>5. ~Escapes(entry.name) /\ entry.type = "dir" => new = first
  BY ZenonT(40), <1>3 DEF Extract, Made
<1>6. ~Escapes(entry.name) /\ entry.type = "file" => new = OpenAndCopy(first, entry.name, entry.content)
  BY ZenonT(40), <1>3 DEF Extract, Made
<1>7. made \intersect DOMAIN files # {} => first = failure
  <2> HIDE DEF folder, made, failure
  <2> QED
    BY ZenonT(40), <1>0, <1>1 DEF MkdirAll
<1>8. made \intersect DOMAIN files = {} => first = wider
  <2> HIDE DEF folder, made, failure, wider
  <2>1. folder.dirs \union made = dirs \union made
    BY ZenonT(40), <1>0
  <2> QED
    BY ZenonT(40), <1>0, <1>1, <2>1 DEF MkdirAll
<1>9. OpenAndCopy(failure, entry.name, entry.content) = failure
  <2>1. failure.failed = TRUE /\ [failure EXCEPT !.failed = TRUE] = failure
    <3>1. failure.failed = TRUE
      BY ZenonT(40) DEF Folder
    <3>2. [failure EXCEPT !.failed = TRUE] = failure
      <4> DEFINE yes == TRUE
      <4> HIDE DEF yes
      <4>1. [Folder(yes, dirs, files) EXCEPT !.failed = yes] = Folder(yes, dirs, files)
        BY SMTT(40) DEF Folder
      <4> QED
        BY ZenonT(40), <4>1 DEF yes
    <3> QED
      BY ZenonT(40), <3>1, <3>2
  <2> HIDE DEF failure
  <2> QED
    BY ZenonT(40), <2>1 DEF OpenAndCopy
<1>10. OpenAndCopy(wider, entry.name, entry.content)
         = IF entry.name \in dirs \union made THEN Folder(TRUE, dirs \union made, files)
           ELSE Folder(FALSE, dirs \union made, Put(files, entry.name, entry.content))
  <2>1. wider.failed = FALSE /\ wider.dirs = dirs \union made /\ wider.files = files
    BY ZenonT(40) DEF Folder
  <2>2. /\ [wider EXCEPT !.failed = TRUE] = Folder(TRUE, dirs \union made, files)
        /\ [wider EXCEPT !.files = Put(files, entry.name, entry.content)]
             = Folder(FALSE, dirs \union made, Put(files, entry.name, entry.content))
    <3> DEFINE no == FALSE
               yes == TRUE
               more == dirs \union made
               put == Put(files, entry.name, entry.content)
    <3> HIDE DEF no, yes, more, put
    <3>1. [Folder(no, more, files) EXCEPT !.failed = yes] = Folder(yes, more, files)
      BY SMTT(40) DEF Folder
    <3>2. [Folder(no, more, files) EXCEPT !.files = put] = Folder(no, more, put)
      BY SMTT(40) DEF Folder
    <3> QED
      BY ZenonT(40), <3>1, <3>2 DEF no, yes, more, put
  <2> HIDE DEF wider, made
  <2> QED
    BY ZenonT(40), <2>1, <2>2 DEF OpenAndCopy
<1> HIDE DEF first, new, folder, made, failure, wider
<1>11. entry.type \in {"dir", "file"} /\ ~Escapes(entry.name) /\ made \intersect DOMAIN files # {} => new = failure
  BY ZenonT(40), <1>5, <1>6, <1>7, <1>9
<1>12. entry.type = "file" /\ ~Escapes(entry.name) /\ made \intersect DOMAIN files = {} =>
         new = IF entry.name \in dirs \union made THEN Folder(TRUE, dirs \union made, files)
               ELSE Folder(FALSE, dirs \union made, Put(files, entry.name, entry.content))
  BY ZenonT(40), <1>6, <1>8, <1>10
<1>13. entry.type = "dir" /\ ~Escapes(entry.name) /\ made \intersect DOMAIN files = {} => new = wider
  BY ZenonT(40), <1>5, <1>8
<1>14. Extracted(dirs, files, entry, new)
  BY ZenonT(40), <1>2, <1>4, <1>11, <1>12, <1>13 DEF Extracted, made, failure, folder, wider
<1> QED
  BY ZenonT(40), <1>14 DEF new, folder

\* An entry fails exactly where the archive is bad with it.
LEMMA BundleStep ==
  ASSUME NEW entries, NEW folder, BundleInv(entries, folder), ~folder.failed, NEW entry \in ArchiveEntry
  PROVE  BundleInv(Append(entries, entry), Extract(folder, entry))
<1> DEFINE next == Append(entries, entry)
           l == Len(entries)
           new == Extract(folder, entry)
           dirs == folder.dirs
           files == folder.files
           made == Made(entry)
<1>0. /\ entries \in Seq(ArchiveEntry) /\ ~Bad(entries) /\ DOMAIN files = FilesOf(entries) /\ dirs = DirsOf(entries)
      /\ LastContent(entries, files) /\ folder = [failed |-> FALSE, dirs |-> dirs, files |-> files]
  <2>1. folder.failed = FALSE
    BY ZenonT(40) DEF BundleInv
  <2> QED
    BY ZenonT(40), <2>1 DEF BundleInv
<1>1. /\ next \in Seq(ArchiveEntry) /\ Len(next) = l + 1 /\ l \in Nat
      /\ next[l + 1] = entry /\ \A i \in 1..l : next[i] = entries[i]
      /\ DOMAIN next = 1..l \union {l + 1} /\ DOMAIN entries = 1..l
      /\ \A n : n \in FilesOf(next) <=> n \in FilesOf(entries) \/ (entry.type = "file" /\ n = entry.name)
      /\ \A n : n \in DirsOf(next) <=> \/ n \in DirsOf(entries)
                                       \/ entry.type = "dir" /\ n = entry.name
                                       \/ entry.type \in {"dir", "file"} /\ n \in Parents(entry.name)
  BY ZenonT(40), <1>0, OneMoreEntry
<1>2. Extracted(dirs, files, entry, new)
  <2>1. folder = Folder(FALSE, dirs, files)
    BY ZenonT(40), <1>0 DEF Folder
  <2>2. Extracted(dirs, files, entry, Extract(Folder(FALSE, dirs, files), entry))
    BY ZenonT(40), ExtractResult
  <2> QED
    BY ZenonT(40), <2>1, <2>2
<1>3. entry.type \in {"dir", "file", "link"}
  BY ZenonT(40) DEF ArchiveEntry
<1>4. entry.type \in {"dir", "file"} => made \subseteq DirsOf(next)
  BY ZenonT(40), <1>1 DEF Made
<1>5. entry.type \in {"dir", "file"} => DirsOf(next) = dirs \union made
  BY ZenonT(40), <1>0, <1>1 DEF Made
<1>6. entry.type # "file" => FilesOf(next) = FilesOf(entries)
  BY ZenonT(40), <1>1
<1>7. entry.type = "file" => FilesOf(next) = FilesOf(entries) \union {entry.name}
  BY ZenonT(40), <1>1
<1>8. (\A i \in DOMAIN next : ~Escapes(next[i].name)) <=> ~Escapes(entry.name)
  BY ZenonT(40), <1>0, <1>1 DEF Bad
<1>9. FilesOf(entries) \intersect dirs = {}
  BY ZenonT(40), <1>0 DEF Bad
<1> HIDE DEF next, l, new, made
<1>10. ASSUME NEW d, NEW f, new = Folder(TRUE, d, f), Bad(next)
       PROVE  BundleInv(next, new)
  <2>1. new.failed = TRUE /\ new.dirs = d /\ new.files = f
    BY ZenonT(40), <1>10 DEF Folder
  <2> QED
    BY ZenonT(40), <1>1, <1>10, <2>1 DEF BundleInv, Folder
<1>11. ASSUME NEW d, NEW f, new = Folder(FALSE, d, f), ~Bad(next),
              DOMAIN f = FilesOf(next), d = DirsOf(next), LastContent(next, f)
       PROVE  BundleInv(next, new)
  <2>1. new.failed = FALSE /\ new.dirs = d /\ new.files = f
    BY ZenonT(40), <1>11 DEF Folder
  <2> QED
    BY ZenonT(40), <1>1, <1>11, <2>1 DEF BundleInv, Folder
<1>12. IF entry.type = "file" THEN LastContent(next, Put(files, entry.name, entry.content)) ELSE LastContent(next, files)
  BY ZenonT(40), <1>0, ContentStep DEF next
<1>13. CASE Escapes(entry.name)
  <2>1. Bad(next)
    BY ZenonT(40), <1>8, <1>13 DEF Bad
  <2> QED
    BY ZenonT(40), <1>2, <1>10, <1>13, <2>1 DEF next, new, made, Extracted
<1>14. CASE ~Escapes(entry.name) /\ entry.type = "link"
  <2>1. DirsOf(next) = dirs
    <3>1. "link" \notin {"dir", "file"}
      OBVIOUS
    <3> QED
      BY ZenonT(40), <1>0, <1>1, <1>14, <3>1
  <2>2. entry.type # "file"
    BY ZenonT(40), <1>14
  <2>3. ~Bad(next)
    BY ZenonT(40), <1>6, <1>8, <1>9, <1>14, <2>1, <2>2 DEF Bad
  <2> QED
    BY ZenonT(40), <1>0, <1>2, <1>6, <1>11, <1>12, <1>14, <2>1, <2>2, <2>3 DEF next, new, made, Extracted
<1>15. CASE ~Escapes(entry.name) /\ entry.type \in {"dir", "file"} /\ made \intersect DOMAIN files # {}
  <2>1. FilesOf(entries) \subseteq FilesOf(next)
    BY ZenonT(40), <1>1
  <2>2. FilesOf(next) \intersect DirsOf(next) # {}
    BY ZenonT(40), <1>0, <1>5, <1>15, <2>1
  <2> QED
    BY ZenonT(40), <1>2, <1>10, <1>15, <2>2 DEF next, new, made, Bad, Extracted
<1>16. CASE ~Escapes(entry.name) /\ entry.type = "dir" /\ made \intersect DOMAIN files = {}
  <2>1. entry.type # "file" /\ entry.type \in {"dir", "file"}
    BY ZenonT(40), <1>16
  <2>2. FilesOf(next) \intersect DirsOf(next) = {}
    BY ZenonT(40), <1>0, <1>5, <1>6, <1>9, <1>16, <2>1
  <2>3. ~Bad(next)
    BY ZenonT(40), <1>8, <1>16, <2>2 DEF Bad
  <2> QED
    BY ZenonT(40), <1>0, <1>2, <1>5, <1>6, <1>11, <1>12, <1>16, <2>1, <2>3 DEF next, new, made, Extracted
<1>17. CASE ~Escapes(entry.name) /\ entry.type = "file" /\ made \intersect DOMAIN files = {}
  <2>1. CASE entry.name \in dirs \union made
    <3>1. FilesOf(next) \intersect DirsOf(next) # {}
      BY ZenonT(40), <1>5, <1>7, <1>17, <2>1
    <3> QED
      BY ZenonT(40), <1>2, <1>10, <1>17, <2>1, <3>1 DEF next, new, made, Bad, Extracted
  <2>2. CASE entry.name \notin dirs \union made
    <3>1. FilesOf(next) \intersect DirsOf(next) = {}
      BY ZenonT(40), <1>0, <1>5, <1>7, <1>9, <1>17, <2>2
    <3>2. ~Bad(next)
      BY ZenonT(40), <1>8, <1>17, <3>1 DEF Bad
    <3>3. DOMAIN Put(files, entry.name, entry.content) = FilesOf(next)
      BY ZenonT(40), <1>0, <1>7, <1>17 DEF Put
    <3> QED
      BY ZenonT(40), <1>2, <1>5, <1>11, <1>12, <1>17, <2>2, <3>2, <3>3 DEF next, new, made, Extracted
  <2> QED
    BY ZenonT(40), <2>1, <2>2
<1> QED
  BY ZenonT(40), <1>3, <1>13, <1>14, <1>15, <1>16, <1>17

\* The invariant says that the bundle is extracted.
LEMMA BundleIsExtracted ==
  ASSUME NEW entries, NEW folder, BundleInv(entries, folder)
  PROVE  BundleExtracted(entries, folder)
  BY ZenonT(40) DEF BundleInv, BundleExtracted, Bad, FilesOf, DirsOf, NamesAt, Of, LastContent

-----------------------------------------------------------------------------
(* The documents of a run *)

\* What has been made of a document, by its subject.
PlanInv ==
  /\ subject = "plan" => document \in Seq(PlanFields)
  /\ subject = "changes" => /\ state = [result |-> state.result, outputs |-> state.outputs]
                            /\ ChangesInv(document, state.result) /\ CountInv(document, state.outputs)
  /\ subject = "outputs" => OutputsInv(state)
  /\ subject = "manifest" => ManifestInv(document, state)
  /\ subject = "bundle" => BundleInv(document, state)

\* Nothing of a plan is listed before it is read.
LEMMA NoChanges ==
  /\ ChangesInv(<<>>, [invalid |-> FALSE, list |-> <<>>])
  /\ CountInv(<<>>, [invalid |-> FALSE, count |-> 0])
<1>1. Doing(<<>>) = {}
  BY SMTT(40) DEF Doing
<1>2. IsFiniteSet({}) /\ Cardinality({}) = 0
  BY ZenonT(40), FS_EmptySet
<1>3. Listed(<<>>, <<>>)
  BY SMTT(40), <1>1 DEF Listed
<1>4. ChangesInv(<<>>, [invalid |-> FALSE, list |-> <<>>])
  BY SMTT(40), <1>3 DEF ChangesInv
<1>5. CountInv(<<>>, [invalid |-> FALSE, count |-> 0])
  <2> DEFINE o == [invalid |-> FALSE, count |-> 0]
  <2>1. o \in [invalid : BOOLEAN, count : Nat] /\ ~o.invalid /\ o.count = 0
    OBVIOUS
  <2>2. 1..Len(<<>>) = {}
    OBVIOUS
  <2> HIDE DEF o
  <2>3. CountInv(<<>>, o)
    BY ZenonT(40), <1>1, <1>2, <2>1, <2>2 DEF CountInv
  <2> QED
    BY ZenonT(40), <2>3 DEF o
<1> QED
  BY ZenonT(40), <1>4, <1>5

\* The empty archive leaves an empty folder.
LEMMA NoEntries == BundleInv(<<>>, [failed |-> FALSE, dirs |-> {}, files |-> [n \in {} |-> n]])
<1> DEFINE files == [n \in {} |-> n]
           none == {}
           folder == Folder(FALSE, none, files)
<1>1. <<>> \in Seq(ArchiveEntry) /\ DOMAIN <<>> = {} /\ DOMAIN files = {}
  OBVIOUS
<1>2. FilesOf(<<>>) = {} /\ DirsOf(<<>>) = {} /\ LastContent(<<>>, files)
  BY ZenonT(40), <1>1 DEF FilesOf, DirsOf, NamesAt, Of, LastContent
<1>3. ~Bad(<<>>)
  BY ZenonT(40), <1>1, <1>2 DEF Bad
<1> HIDE DEF files
<1>4. folder.failed = FALSE /\ folder.dirs = none /\ folder.files = files
  BY ZenonT(40) DEF Folder
<1>5. BundleInv(<<>>, folder)
  <2>1. folder = [failed |-> folder.failed, dirs |-> folder.dirs, files |-> folder.files]
    BY ZenonT(40), <1>4 DEF Folder
  <2> QED
    BY ZenonT(40), <1>1, <1>2, <1>3, <1>4, <2>1 DEF BundleInv
<1> QED
  BY ZenonT(40), <1>5 DEF Folder, files

\* The empty manifest is met.
LEMMA NoRequirements ==
  ASSUME NEW file, NEW modules, NEW downloaded
  PROVE  ManifestInv(<<>>, [file |-> file, modules |-> modules, downloaded |-> downloaded,
                            answer |-> OpenManifest(file, modules)])
<1> DEFINE answer == OpenManifest(file, modules)
           s == [file |-> file, modules |-> modules, downloaded |-> downloaded, answer |-> answer]
<1>1. /\ s.file = file /\ s.modules = modules /\ s.answer = answer
      /\ s = [file |-> s.file, modules |-> s.modules, downloaded |-> s.downloaded, answer |-> s.answer]
  BY ZenonT(40)
<1>2. answer \in {"met", "error"} /\ (answer = "met" /\ file # "absent" => file = "v1" /\ modules \in {"absent", "read"})
  <2>1. "error" # "met"
    OBVIOUS
  <2> QED
    BY ZenonT(40), <2>1 DEF OpenManifest
<1>3. <<>> \in Seq(Requirements) /\ \A i : i \notin 1..Len(<<>>)
  BY SMTT(40)
<1> HIDE DEF s, answer
<1>4. ManifestInv(<<>>, s)
  BY ZenonT(40), <1>1, <1>2, <1>3 DEF ManifestInv
<1> QED
  BY ZenonT(40), <1>4 DEF s, answer

\* The invariant holds before anything is read.
LEMMA PlanInvInit == Init => PlanInv
<1>1. ASSUME StreamInit \/ GateInit \/ StartupInit PROVE subject \notin PlanSubjects
  <2>1. ASSUME StreamInit PROVE subject \in StreamSubjects
    BY ZenonT(40), <2>1 DEF StreamInit, StreamSubjects
  <2>2. ASSUME GateInit PROVE subject \in GateSubjects
    BY ZenonT(40), <2>2 DEF GateInit, GateSubjects
  <2>3. ASSUME StartupInit PROVE subject \in StartupSubjects
    BY ZenonT(40), <2>3 DEF StartupInit, StartupSubjects
  <2> QED
    BY ZenonT(40), <1>1, <2>1, <2>2, <2>3 DEF StreamSubjects, PlanSubjects, GateSubjects, StartupSubjects
<1>2. ASSUME subject \notin PlanSubjects PROVE PlanInv
  BY ZenonT(40), <1>2 DEF PlanInv, PlanSubjects
<1>3. ASSUME PlanInit PROVE PlanInv
  <2>0. document = <<>>
    BY ZenonT(40), <1>3 DEF PlanInit
  <2>1. CASE subject = "plan"
    <3>1. document \in Seq(PlanFields)
      BY SMTT(40), <2>0
    <3>2. subject \notin {"changes", "outputs", "manifest", "bundle"}
      BY ZenonT(40), <2>1
    <3> QED
      BY ZenonT(40), <3>1, <3>2 DEF PlanInv
  <2>2. CASE subject = "changes"
    <3>1. subject \notin {"plan", "outputs", "manifest", "bundle"}
      BY ZenonT(40), <2>2
    <3> DEFINE r == [invalid |-> FALSE, list |-> <<>>]
               o == [invalid |-> FALSE, count |-> 0]
    <3>2. state = [result |-> r, outputs |-> o]
      BY ZenonT(40), <1>3, <2>2, <3>1 DEF PlanInit
    <3>3. ChangesInv(<<>>, r) /\ CountInv(<<>>, o)
      BY ZenonT(40), NoChanges
    <3> HIDE DEF r, o
    <3>4. state.result = r /\ state.outputs = o
      BY ZenonT(40), <3>2
    <3> QED
      BY ZenonT(40), <2>0, <3>1, <3>2, <3>3, <3>4 DEF PlanInv
  <2>3. CASE subject = "outputs"
    <3>1. subject \notin {"plan", "changes", "manifest", "bundle"}
      BY ZenonT(40), <2>3
    <3>2. PICK first \in {"none", "no-op", "delete", "update"}, known \in SUBSET Paths, pending \in SUBSET Paths :
            /\ known \intersect pending = {}
            /\ (known \union pending) \intersect Objects(known \union pending) = {}
            /\ \E lists \in SUBSET Objects(known \union pending) : state = Compact(first, known, pending, lists)
      BY ZenonT(40), <1>3, <2>3, <3>1 DEF PlanInit
    <3>3. OutputsInv(state)
      BY ZenonT(40), <3>2, OutputsStart
    <3> QED
      BY ZenonT(40), <3>1, <3>3 DEF PlanInv
  <2>4. CASE subject = "manifest"
    <3>1. subject \notin {"plan", "changes", "outputs", "bundle"}
      BY ZenonT(40), <2>4
    <3>2. PICK file \in ManifestFiles, modules \in ModulesFiles, downloaded \in SUBSET Downloads :
            state = [file |-> file, modules |-> modules, downloaded |-> downloaded,
                     answer |-> OpenManifest(file, modules)]
      BY ZenonT(40), <1>3, <2>4, <3>1 DEF PlanInit
    <3>3. ManifestInv(document, state)
      BY ZenonT(40), <2>0, <3>2, NoRequirements
    <3> QED
      BY ZenonT(40), <3>1, <3>3 DEF PlanInv
  <2>5. CASE subject = "bundle"
    <3>1. subject \notin {"plan", "changes", "outputs", "manifest"}
      BY ZenonT(40), <2>5
    <3>2. state = [failed |-> FALSE, dirs |-> {}, files |-> [n \in {} |-> n]]
      BY ZenonT(40), <1>3, <2>5, <3>1 DEF PlanInit
    <3>3. BundleInv(document, state)
      BY ZenonT(40), <2>0, <3>2, NoEntries
    <3> QED
      BY ZenonT(40), <3>1, <3>3 DEF PlanInv
  <2> QED
    BY ZenonT(40), <1>3, <2>1, <2>2, <2>3, <2>4, <2>5 DEF PlanInit
<1> QED
  BY ZenonT(40), <1>1, <1>2, <1>3 DEF Init

\* Every step keeps it.
LEMMA PlanInvNext == PlanInv /\ [Next]_vars => PlanInv'
<1> SUFFICES ASSUME PlanInv, [Next]_vars PROVE PlanInv'
  OBVIOUS
<1>0. UNCHANGED subject
  BY ZenonT(40), StreamSubject, PlanSubject, GateSubject, StartupSubject DEF Next, vars
<1>1. CASE subject \notin PlanSubjects
  BY ZenonT(40), <1>0, <1>1 DEF PlanInv, PlanSubjects
<1>2. CASE UNCHANGED vars
  BY ZenonT(40), <1>2 DEF PlanInv, vars
<1>3. ASSUME StreamNext \/ GateNext \/ StartupNext PROVE subject \notin PlanSubjects
  BY ZenonT(40), <1>3, StreamSubject, GateSubject, StartupSubject DEF StreamSubjects, PlanSubjects, GateSubjects, StartupSubjects
<1>4. CASE PlanField
  <2>1. subject = "plan" /\ \E field \in PlanFields : document' = Append(document, field)
    BY ZenonT(40), <1>4 DEF PlanField, Take
  <2>2. subject \notin {"changes", "outputs", "manifest", "bundle"}
    BY ZenonT(40), <2>1
  <2>3. document \in Seq(PlanFields)
    BY ZenonT(40), <2>1 DEF PlanInv
  <2>4. document' \in Seq(PlanFields)
    BY SMTT(40), <2>1, <2>3
  <2> QED
    BY ZenonT(40), <1>0, <2>2, <2>4 DEF PlanInv
<1>5. CASE PlanChange
  <2>1. PICK actions \in ActionLists, unsupported \in BOOLEAN :
          LET change == [pos |-> Len(document) + 1, actions |-> actions, unsupported |-> unsupported]
          IN  Take(change, [result  |-> AppendChange(state.result, change),
                            outputs |-> CountOutput(state.outputs, actions)])
    BY ZenonT(40), <1>5 DEF PlanChange
  <2> DEFINE change == [pos |-> Len(document) + 1, actions |-> actions, unsupported |-> unsupported]
             r == AppendChange(state.result, change)
             o == CountOutput(state.outputs, actions)
  <2>2. subject = "changes" /\ subject \notin {"plan", "outputs", "manifest", "bundle"}
    BY ZenonT(40), <1>5 DEF PlanChange
  <2>3. ChangesInv(document, state.result) /\ CountInv(document, state.outputs) /\ document \in Seq(Change)
    BY ZenonT(40), <2>2 DEF PlanInv, ChangesInv
  <2>4. Len(document) + 1 \in Nat
    BY SMTT(40), <2>3
  <2>5. change \in Change /\ change.pos = Len(document) + 1 /\ change.actions = actions
    BY ZenonT(40), <2>4 DEF Change
  <2>6. document' = Append(document, change) /\ state' = [result |-> r, outputs |-> o]
    BY ZenonT(40), <2>1 DEF Take
  <2> HIDE DEF change
  <2>7. ChangesInv(Append(document, change), r)
    BY ZenonT(40), <2>3, <2>5, ChangesStep
  <2>8. CountInv(Append(document, change), o)
    <3>1. CountInv(Append(document, change), CountOutput(state.outputs, change.actions))
      BY ZenonT(40), <2>3, <2>5, CountStep
    <3> QED
      BY ZenonT(40), <2>5, <3>1
  <2> HIDE DEF r, o
  <2>9. state'.result = r /\ state'.outputs = o
    BY ZenonT(40), <2>6
  <2> QED
    BY ZenonT(40), <1>0, <2>2, <2>6, <2>7, <2>8, <2>9 DEF PlanInv
<1>6. CASE OutputCall
  <2>1. subject = "outputs" /\ subject \notin {"plan", "changes", "manifest", "bundle"}
    BY ZenonT(40), <1>6 DEF OutputCall
  <2>2. PICK p \in state.calls : state' = compactUnknowns(state, p)
    BY ZenonT(40), <1>6 DEF OutputCall, Compute
  <2>3. OutputsInv(state')
    BY ZenonT(40), <2>1, <2>2, OutputsStep DEF PlanInv
  <2> QED
    BY ZenonT(40), <1>0, <2>1, <2>3 DEF PlanInv
<1>7. CASE verifyArtifactManifest
  <2>1. /\ subject = "manifest" /\ subject \notin {"plan", "changes", "outputs", "bundle"}
        /\ state.file = "v1" /\ state.answer # "error"
    BY ZenonT(40), <1>7 DEF verifyArtifactManifest
  <2>2. PICK r \in Requirements :
          /\ document' = Append(document, r)
          /\ state' = IF state.answer # "met" THEN state ELSE [state EXCEPT !.answer = Requirement(r, state.downloaded)]
    BY ZenonT(40), <1>7 DEF verifyArtifactManifest, Take
  <2>3. ManifestInv(document', state')
    BY ZenonT(40), <2>1, <2>2, ManifestStep DEF PlanInv
  <2> QED
    BY ZenonT(40), <1>0, <2>1, <2>3 DEF PlanInv
<1>8. CASE unarchiveBundleToFolder
  <2>1. subject = "bundle" /\ ~state.failed /\ subject \notin {"plan", "changes", "outputs", "manifest"}
    BY ZenonT(40), <1>8 DEF unarchiveBundleToFolder
  <2>2. PICK entry \in ArchiveEntry : document' = Append(document, entry) /\ state' = Extract(state, entry)
    BY ZenonT(40), <1>8 DEF unarchiveBundleToFolder, Take, ArchiveEntry
  <2>3. BundleInv(document', state')
    BY ZenonT(40), <2>1, <2>2, BundleStep DEF PlanInv
  <2> QED
    BY ZenonT(40), <1>0, <2>1, <2>3 DEF PlanInv
<1> QED
  BY ZenonT(40), <1>1, <1>2, <1>3, <1>4, <1>5, <1>6, <1>7, <1>8 DEF Next, PlanNext

\* It says that the documents of a run are read right.
LEMMA PlanInvRight == PlanInv => RunDocumentsRight
<1> SUFFICES ASSUME PlanInv PROVE RunDocumentsRight
  OBVIOUS
<1>1. subject = "plan" => \A tool \in {"terraform", "opentofu"} : ObservationComplete(document, tool)
  BY ZenonT(40), PlanIsComplete DEF PlanInv
<1>2. subject = "changes" => ChangesListed(document, state)
  BY ZenonT(40), ChangesAreListed DEF PlanInv
<1>3. subject = "outputs" => OutputsShown(state)
  BY ZenonT(40), OutputsAreShown DEF PlanInv
<1>4. subject = "manifest" => ManifestVerified(document, state)
  BY ZenonT(40), ManifestIsVerified DEF PlanInv
<1>5. subject = "bundle" => BundleExtracted(document, state)
  BY ZenonT(40), BundleIsExtracted DEF PlanInv
<1> QED
  BY ZenonT(40), <1>1, <1>2, <1>3, <1>4, <1>5 DEF RunDocumentsRight

\* Whatever a plan, an output, a manifest or an archive holds, it is accepted
\* only if it says and holds what the run relies on, and what is reported of it
\* is what it says.  Of a plan's field that is repeated in different case only
\* the last counts, and a bundle without a manifest needs nothing.
THEOREM RunDocumentsAreRight == Spec => []RunDocumentsRight
  BY PlanInvInit, PlanInvNext, PlanInvRight, PTL DEF Spec

-----------------------------------------------------------------------------
(* The variables of a Job's container *)

\* The names of the variables that the agent writes itself.
OwnNames == {"URL", "ORG", "RUNNER", "OUTBOX", "CA"}

\* A variable of a container, with its place in the command, 0 for the agent's.
Entry ==
  [pos : Nat, name : {v.name : v \in Variables} \union OwnNames,
   value : {v.value : v \in Variables} \union {"https", "flag", "agent", "mounted"}]

\* An agent that has been configured has a URL.
Configured == [ids : {"", "set"}, url : {"https", "flag"}, outboxPVC : BOOLEAN, caSecret : BOOLEAN]

\* The first entry of the name of a variable is that variable.
FirstIs(env, v) ==
  \E k \in 1..Len(env) : env[k] = v /\ \A j \in 1..Len(env) : env[j].name = v.name => k <= j

\* No two entries have the same name.
NamesDiffer(env) == \A i, j \in 1..Len(env) : env[i].name = env[j].name => i = j

\* A sequence with one element more, from its elements.
LEMMA Joined ==
  ASSUME NEW T, NEW s \in Seq(T), NEW t \in Seq(T), NEW e \in T,
         Len(t) = Len(s) + 1, t[Len(t)] = e, \A i \in 1..Len(s) : t[i] = s[i]
  PROVE  s \o <<e>> = t
  OBVIOUS

\* The tuples that Common joins.
LEMMA JoinedTuples ==
  ASSUME NEW T, NEW a \in T, NEW b \in T, NEW c \in T, NEW d \in T, NEW e \in T
  PROVE  /\ <<a, b, c>> \o <<>> = <<a, b, c>>
         /\ <<a, b, c>> \o <<d>> = <<a, b, c, d>>
         /\ <<a, b, c, d>> \o <<>> = <<a, b, c, d>>
         /\ <<a, b, c, d>> \o <<e>> = <<a, b, c, d, e>>
<1>1. PICK r, s, t : r = <<a, b, c>> /\ s = <<a, b, c, d>> /\ t = <<a, b, c, d, e>>
  OBVIOUS
<1>2. r \in Seq(T) /\ s \in Seq(T) /\ t \in Seq(T)
  BY SMTT(40), <1>1
<1>3. Len(s) = Len(r) + 1 /\ s[Len(s)] = d /\ \A i \in 1..Len(r) : s[i] = r[i]
  BY SMTT(40), <1>1
<1>4. Len(t) = Len(s) + 1 /\ t[Len(t)] = e /\ \A i \in 1..Len(s) : t[i] = s[i]
  BY SMTT(40), <1>1
<1>5. r \o <<d>> = s
  BY ZenonT(40), <1>2, <1>3, Joined
<1>6. s \o <<e>> = t
  BY ZenonT(40), <1>2, <1>4, Joined
<1>7. r \o <<>> = r /\ s \o <<>> = s
  BY SMTT(40), <1>2
<1> QED
  BY ZenonT(40), <1>1, <1>5, <1>6, <1>7

\* What the agent writes has one variable of each name.
LEMMA CommonFacts ==
  ASSUME NEW agent \in Configured
  PROVE  /\ Common(agent) \in Seq(Entry) /\ Len(Common(agent)) >= 3
         /\ NamesDiffer(Common(agent))
         /\ Common(agent)[1] = [pos |-> 0, name |-> "URL", value |-> agent.url]
         /\ \A i \in 1..Len(Common(agent)) :
              /\ Common(agent)[i].pos = 0
              /\ Common(agent)[i].name = "OUTBOX" => agent.outboxPVC
              /\ Common(agent)[i].name = "CA" => agent.caSecret
<1> DEFINE var(name, value) == [pos |-> 0, name |-> name, value |-> value]
           own == <<var("URL", agent.url), var("ORG", "agent"), var("RUNNER", "agent")>>
           outbox == var("OUTBOX", "mounted")
           ca == var("CA", "mounted")
           list == Common(agent)
<1>1. /\ var("URL", agent.url) \in Entry /\ var("ORG", "agent") \in Entry /\ var("RUNNER", "agent") \in Entry
      /\ outbox \in Entry /\ ca \in Entry
  BY ZenonT(40) DEF Entry, OwnNames, Configured
<1>2. agent.outboxPVC \in BOOLEAN /\ agent.caSecret \in BOOLEAN
  BY ZenonT(40) DEF Configured
<1>3. list = own \o (IF agent.outboxPVC THEN <<outbox>> ELSE <<>>) \o (IF agent.caSecret THEN <<ca>> ELSE <<>>)
  BY ZenonT(40) DEF Common
<1> DEFINE x == var("URL", agent.url)
           y == var("ORG", "agent")
           z == var("RUNNER", "agent")
<1>8. /\ own \o <<>> = <<x, y, z>> /\ own \o <<outbox>> = <<x, y, z, outbox>> /\ <<x, y, z>> \o <<ca>> = <<x, y, z, ca>>
      /\ <<x, y, z, outbox>> \o <<>> = <<x, y, z, outbox>> /\ <<x, y, z, outbox>> \o <<ca>> = <<x, y, z, outbox, ca>>
  <2>1. own = <<x, y, z>>
    OBVIOUS
  <2> HIDE DEF x, y, z, outbox, ca, own
  <2>2. x \in Entry /\ y \in Entry /\ z \in Entry /\ outbox \in Entry /\ ca \in Entry
    BY ZenonT(40), <1>1 DEF x, y, z
  <2>3. /\ <<x, y, z>> \o <<>> = <<x, y, z>> /\ <<x, y, z>> \o <<ca>> = <<x, y, z, ca>>
        /\ <<x, y, z, ca>> \o <<>> = <<x, y, z, ca>>
        /\ <<x, y, z, ca>> \o <<ca>> = <<x, y, z, ca, ca>>
    BY SMTT(40), <2>2, JoinedTuples
  <2>4. /\ <<x, y, z>> \o <<>> = <<x, y, z>> /\ <<x, y, z>> \o <<outbox>> = <<x, y, z, outbox>>
        /\ <<x, y, z, outbox>> \o <<>> = <<x, y, z, outbox>>
        /\ <<x, y, z, outbox>> \o <<ca>> = <<x, y, z, outbox, ca>>
    BY SMTT(40), <2>2, JoinedTuples
  <2> QED
    BY ZenonT(40), <2>1, <2>3, <2>4
<1>4. CASE agent.outboxPVC /\ agent.caSecret
  <2>1. list = <<x, y, z, outbox, ca>>
    <3> HIDE DEF outbox, ca, list, own, x, y, z
    <3> QED
      BY ZenonT(40), <1>3, <1>4, <1>8
  <2>2. list \in Seq(Entry) /\ Len(list) = 5 /\ list[1] = var("URL", agent.url)
    BY SMTT(40), <1>1, <2>1
  <2>3. /\ list[1].name = "URL" /\ list[2].name = "ORG" /\ list[3].name = "RUNNER"
        /\ list[4].name = "OUTBOX" /\ list[5].name = "CA"
    BY SMTT(40), <2>1
  <2>4. \A i \in 1..Len(list) : list[i].pos = 0
    BY SMTT(40), <2>1
  <2> HIDE DEF list
  <2>5. /\ NamesDiffer(list)
        /\ \A i \in 1..Len(list) : /\ list[i].name = "OUTBOX" => agent.outboxPVC
                                   /\ list[i].name = "CA" => agent.caSecret
    BY SMTT(40), <1>4, <2>2, <2>3 DEF NamesDiffer
  <2>6. Len(list) >= 3
    BY SMTT(40), <2>2
  <2> QED
    BY ZenonT(40), <2>2, <2>4, <2>5, <2>6 DEF list
<1>5. CASE agent.outboxPVC /\ ~agent.caSecret
  <2>1. list = <<x, y, z, outbox>>
    <3> HIDE DEF outbox, ca, list, own, x, y, z
    <3> QED
      BY ZenonT(40), <1>3, <1>5, <1>8
  <2>2. list \in Seq(Entry) /\ Len(list) = 4 /\ list[1] = var("URL", agent.url)
    BY SMTT(40), <1>1, <2>1
  <2>3. /\ list[1].name = "URL" /\ list[2].name = "ORG" /\ list[3].name = "RUNNER"
        /\ list[4].name = "OUTBOX"
    BY SMTT(40), <2>1
  <2>4. \A i \in 1..Len(list) : list[i].pos = 0
    BY SMTT(40), <2>1
  <2> HIDE DEF list
  <2>5. /\ NamesDiffer(list)
        /\ \A i \in 1..Len(list) : /\ list[i].name = "OUTBOX" => agent.outboxPVC
                                   /\ list[i].name = "CA" => agent.caSecret
    BY SMTT(40), <1>5, <2>2, <2>3 DEF NamesDiffer
  <2>6. Len(list) >= 3
    BY SMTT(40), <2>2
  <2> QED
    BY ZenonT(40), <2>2, <2>4, <2>5, <2>6 DEF list
<1>6. CASE ~agent.outboxPVC /\ agent.caSecret
  <2>1. list = <<x, y, z, ca>>
    <3> HIDE DEF outbox, ca, list, own, x, y, z
    <3> QED
      BY ZenonT(40), <1>3, <1>6, <1>8
  <2>2. list \in Seq(Entry) /\ Len(list) = 4 /\ list[1] = var("URL", agent.url)
    BY SMTT(40), <1>1, <2>1
  <2>3. /\ list[1].name = "URL" /\ list[2].name = "ORG" /\ list[3].name = "RUNNER"
        /\ list[4].name = "CA"
    BY SMTT(40), <2>1
  <2>4. \A i \in 1..Len(list) : list[i].pos = 0
    BY SMTT(40), <2>1
  <2> HIDE DEF list
  <2>5. /\ NamesDiffer(list)
        /\ \A i \in 1..Len(list) : /\ list[i].name = "OUTBOX" => agent.outboxPVC
                                   /\ list[i].name = "CA" => agent.caSecret
    BY SMTT(40), <1>6, <2>2, <2>3 DEF NamesDiffer
  <2>6. Len(list) >= 3
    BY SMTT(40), <2>2
  <2> QED
    BY ZenonT(40), <2>2, <2>4, <2>5, <2>6 DEF list
<1>7. CASE ~agent.outboxPVC /\ ~agent.caSecret
  <2>1. list = <<var("URL", agent.url), var("ORG", "agent"), var("RUNNER", "agent")>>
    BY SMTT(40), <1>3, <1>7
  <2> QED
    BY SMTT(40), <1>1, <1>7, <2>1 DEF NamesDiffer
<1> QED
  BY ZenonT(40), <1>2, <1>4, <1>5, <1>6, <1>7

\* Set writes the variable in the first place of its name, or at the end.
SetDone(env, v, new) ==
  /\ new \in Seq(Entry) /\ FirstIs(new, v)
  /\ \A j \in 1..Len(env) : /\ new[j].name = env[j].name
                            /\ env[j].name # v.name => new[j] = env[j]
                            /\ new[j] \in {env[j], v}
  /\ \/ Len(new) = Len(env)
     \/ /\ Len(new) = Len(env) + 1 /\ new[Len(env) + 1] = v
        /\ \A j \in 1..Len(env) : env[j].name # v.name
  /\ \A j \in 1..Len(env) : new[j] # env[j] => \A i \in 1..Len(env) : env[i].name = env[j].name => j <= i

\* A variable that is set replaces the first entry of its name or is added.
LEMMA SetEffect ==
  ASSUME NEW env \in Seq(Entry), NEW v \in Entry
  PROVE  SetDone(env, v, Set(env, v))
<1> DEFINE at == {i \in DOMAIN env : env[i].name = v.name}
           new == Set(env, v)
<1>1. DOMAIN env = 1..Len(env) /\ Len(env) \in Nat /\ \A i \in 1..Len(env) : env[i] \in Entry
  OBVIOUS
<1>2. new = IF at = {} THEN Append(env, v) ELSE [env EXCEPT ![First(at)] = v]
  BY ZenonT(40) DEF Set
<1>3. CASE at = {}
  <2>1. new = Append(env, v)
    BY ZenonT(40), <1>2, <1>3
  <2>2. \A j \in 1..Len(env) : env[j].name # v.name
    BY ZenonT(40), <1>1, <1>3
  <2>3. /\ new \in Seq(Entry) /\ Len(new) = Len(env) + 1 /\ new[Len(env) + 1] = v
        /\ \A j \in 1..Len(env) : new[j] = env[j]
    BY SMTT(40), <2>1
  <2> HIDE DEF new
  <2>4. FirstIs(new, v)
    BY SMTT(40), <1>1, <2>2, <2>3 DEF FirstIs
  <2> QED
    BY ZenonT(40), <2>2, <2>3, <2>4 DEF new, SetDone
<1>4. CASE at # {}
  <2> DEFINE k == First(at)
  <2>1. k \in at /\ \A j \in at : k <= j
    <3>1. at \in SUBSET Nat
      BY SMTT(40), <1>1
    <3> HIDE DEF at
    <3> QED
      BY ZenonT(40), <1>4, <3>1, FirstPlace
  <2>2. new = [env EXCEPT ![k] = v]
    BY ZenonT(40), <1>2, <1>4
  <2> HIDE DEF k
  <2>3. k \in 1..Len(env) /\ env[k].name = v.name
    BY ZenonT(40), <1>1, <2>1
  <2>4. /\ new \in Seq(Entry) /\ Len(new) = Len(env) /\ new[k] = v
        /\ \A j \in 1..Len(env) : j # k => new[j] = env[j]
    BY SMTT(40), <2>2, <2>3
  <2>5. \A j \in 1..Len(env) : env[j].name = v.name => k <= j
    BY ZenonT(40), <1>1, <2>1
  <2> HIDE DEF new
  <2>6. \A j \in 1..Len(env) : /\ new[j].name = env[j].name
                               /\ env[j].name # v.name => new[j] = env[j]
                               /\ new[j] \in {env[j], v}
    BY ZenonT(40), <2>3, <2>4
  <2>7. FirstIs(new, v)
    BY ZenonT(40), <2>3, <2>4, <2>5, <2>6 DEF FirstIs
  <2>8. \A j \in 1..Len(env) : new[j] # env[j] => \A i \in 1..Len(env) : env[i].name = env[j].name => j <= i
    BY ZenonT(40), <2>3, <2>4, <2>5
  <2> QED
    BY ZenonT(40), <2>4, <2>6, <2>7, <2>8 DEF new, SetDone
<1> QED
  BY ZenonT(40), <1>3, <1>4

\* Writing another variable does not disturb it.
LEMMA FirstStays ==
  ASSUME NEW env \in Seq(Entry), NEW v \in Entry, NEW w \in Entry, v.name # w.name, FirstIs(env, w)
  PROVE  FirstIs(Set(env, v), w)
<1> DEFINE new == Set(env, v)
<1>1. /\ \A j \in 1..Len(env) : new[j].name = env[j].name /\ (env[j].name # v.name => new[j] = env[j])
      /\ \/ Len(new) = Len(env)
         \/ Len(new) = Len(env) + 1 /\ new[Len(env) + 1] = v
  <2>1. SetDone(env, v, new)
    BY ZenonT(40), SetEffect
  <2> HIDE DEF new
  <2> QED
    BY ZenonT(40), <2>1 DEF SetDone
<1>2. PICK k \in 1..Len(env) : env[k] = w /\ \A j \in 1..Len(env) : env[j].name = w.name => k <= j
  BY ZenonT(40) DEF FirstIs
<1>3. Len(env) \in Nat
  OBVIOUS
<1> HIDE DEF new
<1>4. k \in 1..Len(new) /\ new[k] = w
  BY SMTT(40), <1>1, <1>2, <1>3
<1>5. ASSUME NEW j \in 1..Len(new), new[j].name = w.name PROVE k <= j
  <2>1. CASE j \in 1..Len(env)
    BY ZenonT(40), <1>1, <1>2, <1>5, <2>1
  <2>2. CASE j \notin 1..Len(env)
    BY SMTT(40), <1>1, <1>3, <1>5, <2>2
  <2> QED
    BY ZenonT(40), <2>1, <2>2
<1> QED
  BY ZenonT(40), <1>4, <1>5 DEF FirstIs, new

\* When there is no second of that name, it is what is seen.
LEMMA FirstIsSeen ==
  ASSUME NEW env \in Seq(Entry), NEW v \in Entry, FirstIs(env, v),
         \A i, j \in 1..Len(env) : env[i].name = v.name /\ env[j].name = v.name => i = j
  PROVE  Effective(env, v.name) = v.value
<1> DEFINE at == {i \in DOMAIN env : env[i].name = v.name}
<1>1. PICK k \in 1..Len(env) : env[k] = v
  BY ZenonT(40) DEF FirstIs
<1>2. DOMAIN env = 1..Len(env) /\ Len(env) \in Nat
  OBVIOUS
<1>3. at = {k} /\ at \in SUBSET (1..Len(env))
  BY ZenonT(40), <1>1, <1>2
<1>4. Effective(env, v.name) = IF at = {} THEN "" ELSE env[Last(at)].value
  BY ZenonT(40) DEF Effective
<1> HIDE DEF at
<1>5. Last(at) = k
  <2>1. at # {}
    BY ZenonT(40), <1>3
  <2>2. Last(at) \in at
    BY ZenonT(40), <1>2, <1>3, <2>1, LastPlace
  <2> QED
    BY ZenonT(40), <1>3, <2>2
<1> QED
  BY ZenonT(40), <1>1, <1>3, <1>4, <1>5

\* The last entry of a name is what is seen.
LEMMA LastIsSeen ==
  ASSUME NEW env \in Seq(Entry), NEW l \in 1..Len(env), \A i \in 1..Len(env) : env[i].name = env[l].name => i <= l
  PROVE  Effective(env, env[l].name) = env[l].value
<1> DEFINE at == {i \in DOMAIN env : env[i].name = env[l].name}
<1>1. DOMAIN env = 1..Len(env) /\ Len(env) \in Nat
  OBVIOUS
<1>2. l \in at /\ at \in SUBSET (1..Len(env)) /\ \A i \in at : i <= l
  BY ZenonT(40), <1>1
<1>3. Effective(env, env[l].name) = IF at = {} THEN "" ELSE env[Last(at)].value
  BY ZenonT(40) DEF Effective
<1> HIDE DEF at
<1>4. at # {}
  BY ZenonT(40), <1>2
<1>5. Last(at) \in at /\ \A i \in at : i <= Last(at)
  BY ZenonT(40), <1>1, <1>2, <1>4, LastPlace
<1>6. Last(at) = l
  <2>1. Last(at) \in 1..Len(env) /\ Last(at) <= l /\ l <= Last(at)
    BY ZenonT(40), <1>2, <1>5
  <2> QED
    BY SMTT(40), <1>1, <2>1
<1> QED
  BY ZenonT(40), <1>3, <1>4, <1>6

\* The places of the entries that are not the agent's.
Others(env, common) == {i \in DOMAIN env : env[i].name \notin {common[j].name : j \in DOMAIN common}}

\* The command's entries come first and keep their names, and of one name only
\* the first may have a new value; no name is added twice.
FromCommand(variables, env) ==
  /\ 1..Len(variables) \subseteq 1..Len(env)
  /\ \A j \in 1..Len(variables) :
       /\ env[j].name = variables[j].name
       /\ env[j] # variables[j] => \A i \in 1..Len(variables) : variables[i].name = variables[j].name => j <= i
  /\ \A j, k \in 1..Len(env) : j # k /\ env[j].name = env[k].name => j \in 1..Len(variables)

\* When the agent is to write its variable "next": the earlier ones are in the
\* container, which has the command's others as they were.
Injected(variables, env, common, next) ==
  /\ env \in Seq(Entry)
  /\ Kept(env, Others(env, common), {variables[i] : i \in Others(variables, common)})
  /\ \A i \in 1..Len(common) : i < next => FirstIs(env, common[i])
  /\ FromCommand(variables, env)
  /\ \A k \in 1..Len(env) : env[k].pos = 0 => \E i \in 1..Len(common) : env[k] = common[i]

\* Before the agent writes its first variable there is nothing to show.
LEMMA InjectedStart ==
  ASSUME NEW variables \in Seq(Entry), \A i \in 1..Len(variables) : variables[i].pos = i, NEW common \in Seq(Entry)
  PROVE  Injected(variables, variables, common, 1)
<1>1. \A k \in 1..Len(variables) : variables[k].pos # 0
  OBVIOUS
<1>2. \A i \in 1..Len(common) : ~(i < 1)
  OBVIOUS
<1>3. Kept(variables, Others(variables, common), {variables[i] : i \in Others(variables, common)})
  <2>1. Others(variables, common) \subseteq 1..Len(variables)
    BY SMTT(40) DEF Others
  <2> QED
    BY ZenonT(40), <2>1 DEF Kept
<1>4. FromCommand(variables, variables)
  BY ZenonT(40) DEF FromCommand
<1> QED
  BY ZenonT(40), <1>1, <1>2, <1>3, <1>4 DEF Injected

\* One variable more: the earlier ones stay, since no two have one name.
LEMMA InjectedStep ==
  ASSUME NEW variables, NEW env, NEW common \in Seq(Entry), NamesDiffer(common), NEW next \in 1..Len(common),
         Injected(variables, env, common, next)
  PROVE  Injected(variables, Set(env, common[next]), common, next + 1)
<1> DEFINE v == common[next]
           new == Set(env, v)
<1>1. v \in Entry /\ env \in Seq(Entry) /\ Len(env) \in Nat /\ DOMAIN env = 1..Len(env)
  BY SMTT(40) DEF Injected
<1>2. SetDone(env, v, new)
  BY ZenonT(40), <1>1, SetEffect
<1>3. \A i \in 1..Len(common) : i < next => FirstIs(env, common[i])
  BY ZenonT(40) DEF Injected
<1>4. /\ FromCommand(variables, env)
      /\ \A k \in 1..Len(env) : env[k].pos = 0 => \E i \in 1..Len(common) : env[k] = common[i]
      /\ Kept(env, Others(env, common), {variables[i] : i \in Others(variables, common)})
  BY ZenonT(40) DEF Injected
<1>5. ASSUME NEW i \in 1..Len(common), i < next + 1 PROVE FirstIs(new, common[i])
  <2>1. CASE i = next
    BY ZenonT(40), <1>2, <2>1 DEF SetDone
  <2>2. CASE i # next
    <3>1. i < next /\ common[i] \in Entry
      BY SMTT(40), <1>5, <2>2
    <3>2. FirstIs(env, common[i]) /\ common[i].name # v.name
      BY ZenonT(40), <1>3, <2>2, <3>1 DEF NamesDiffer
    <3> QED
      BY ZenonT(40), <1>1, <3>1, <3>2, FirstStays
  <2> QED
    BY ZenonT(40), <2>1, <2>2
<1> DEFINE C == {common[j].name : j \in DOMAIN common}
<1>6. v.name \in C
  OBVIOUS
<1> HIDE DEF v, new
<1>7. /\ new \in Seq(Entry) /\ DOMAIN new = 1..Len(new) /\ Len(new) \in Nat
      /\ \A j \in 1..Len(env) : new[j].name = env[j].name /\ (env[j].name # v.name => new[j] = env[j])
                                /\ new[j] \in {env[j], v}
      /\ \/ Len(new) = Len(env)
         \/ /\ Len(new) = Len(env) + 1 /\ new[Len(env) + 1] = v
            /\ \A j \in 1..Len(env) : env[j].name # v.name
      /\ \A j \in 1..Len(env) : new[j] # env[j] => \A i \in 1..Len(env) : env[i].name = env[j].name => j <= i
  BY SMTT(40), <1>2 DEF SetDone
<1>8. \A j \in 1..Len(new) : j \in 1..Len(env) \/ (j = Len(env) + 1 /\ Len(new) = Len(env) + 1 /\ new[j] = v
                                                   /\ \A i \in 1..Len(env) : env[i].name # v.name)
  <2>1. Len(new) \in Nat /\ (Len(new) = Len(env) \/ Len(new) = Len(env) + 1)
    BY ZenonT(40), <1>7
  <2>0. Len(env) \in Nat
    BY ZenonT(40), <1>1
  <2>2. \A j \in 1..Len(new) : j \in 1..Len(env) \/ (j = Len(env) + 1 /\ Len(new) = Len(env) + 1)
    BY SMTT(40), <2>0, <2>1
  <2>3. Len(new) = Len(env) + 1 => Len(new) # Len(env)
    BY SMTT(40), <2>0
  <2>4. Len(new) = Len(env) + 1 => new[Len(env) + 1] = v /\ \A j \in 1..Len(env) : env[j].name # v.name
    BY ZenonT(40), <1>7, <2>3
  <2> QED
    BY ZenonT(40), <2>2, <2>4
<1>9. 1..Len(env) \subseteq 1..Len(new)
  <2>1. Len(new) \in Nat /\ (Len(new) = Len(env) \/ Len(new) = Len(env) + 1)
    BY ZenonT(40), <1>7
  <2> QED
    BY SMTT(40), <1>1, <2>1
<1>10. FromCommand(variables, new)
  <2> DEFINE V == 1..Len(variables)
             N == 1..Len(env)
             M == 1..Len(new)
  <2>1. /\ V \subseteq N
        /\ \A j \in V : /\ env[j].name = variables[j].name
                        /\ env[j] # variables[j] => \A i \in V : variables[i].name = variables[j].name => j <= i
        /\ \A j, k \in N : j # k /\ env[j].name = env[k].name => j \in V
    BY ZenonT(40), <1>4 DEF FromCommand
  <2>2. N \subseteq M
    BY ZenonT(40), <1>9
  <2>3. /\ \A j \in N : new[j].name = env[j].name
        /\ \A j \in N : new[j] # env[j] => \A i \in N : env[i].name = env[j].name => j <= i
    BY ZenonT(40), <1>7
  <2>4. \A j \in M : j \in N \/ (j = Len(env) + 1 /\ new[j] = v /\ \A i \in N : env[i].name # v.name)
    BY ZenonT(40), <1>8
  <2> HIDE DEF V, N, M
  <2>5. V \subseteq M
    BY ZenonT(40), <2>1, <2>2
  <2>6. ASSUME NEW j \in V
        PROVE  /\ new[j].name = variables[j].name
               /\ new[j] # variables[j] => \A i \in V : variables[i].name = variables[j].name => j <= i
    <3>1. j \in N /\ new[j].name = variables[j].name
      BY ZenonT(40), <2>1, <2>3
    <3>2. ASSUME new[j] # variables[j], NEW i \in V, variables[i].name = variables[j].name PROVE j <= i
      <4>1. CASE env[j] # variables[j]
        BY ZenonT(40), <2>1, <3>2, <4>1
      <4>2. CASE env[j] = variables[j]
        <5>1. new[j] # env[j] /\ i \in N /\ env[i].name = env[j].name
          BY ZenonT(40), <2>1, <3>2, <4>2
        <5> QED
          BY ZenonT(40), <2>3, <3>1, <5>1
      <4> QED
        BY ZenonT(40), <4>1, <4>2
    <3> QED
      BY ZenonT(40), <3>1, <3>2
  <2>7. ASSUME NEW j \in M, NEW k \in M, j # k, new[j].name = new[k].name PROVE j \in V
    <3>1. CASE j \in N /\ k \in N
      BY ZenonT(40), <2>1, <2>3, <2>7, <3>1
    <3>2. CASE j \in N /\ k \notin N
      BY ZenonT(40), <2>3, <2>4, <2>7, <3>2
    <3>3. CASE j \notin N /\ k \in N
      BY ZenonT(40), <2>3, <2>4, <2>7, <3>3
    <3>4. CASE j \notin N /\ k \notin N
      BY ZenonT(40), <2>4, <2>7, <3>4
    <3> QED
      BY ZenonT(40), <3>1, <3>2, <3>3, <3>4
  <2> QED
    BY ZenonT(40), <2>5, <2>6, <2>7 DEF FromCommand, V, M
<1>11. ASSUME NEW k \in 1..Len(new), new[k].pos = 0 PROVE \E i \in 1..Len(common) : new[k] = common[i]
  <2>1. CASE new[k] = v
    BY ZenonT(40), <2>1 DEF v
  <2>2. CASE new[k] # v
    <3>1. k \in 1..Len(env) /\ new[k] = env[k]
      BY ZenonT(40), <1>7, <1>8, <2>2
    <3> QED
      BY ZenonT(40), <1>4, <1>11, <3>1
  <2> QED
    BY ZenonT(40), <2>1, <2>2
<1>12. Others(new, common) = Others(env, common)
  <2>1. Others(new, common) = {i \in 1..Len(new) : new[i].name \notin C}
    BY ZenonT(40), <1>7 DEF Others
  <2>2. Others(env, common) = {i \in 1..Len(env) : env[i].name \notin C}
    BY ZenonT(40), <1>1 DEF Others
  <2> HIDE DEF C
  <2>3. ASSUME NEW i \in 1..Len(new), new[i].name \notin C PROVE i \in 1..Len(env) /\ env[i].name \notin C
    BY ZenonT(40), <1>6, <1>7, <1>8, <2>3
  <2>4. ASSUME NEW i \in 1..Len(env), env[i].name \notin C PROVE i \in 1..Len(new) /\ new[i].name \notin C
    BY ZenonT(40), <1>7, <1>9, <2>4
  <2> QED
    BY ZenonT(40), <2>1, <2>2, <2>3, <2>4
<1>13. \A i \in Others(env, common) : new[i] = env[i]
  BY ZenonT(40), <1>1, <1>6, <1>7 DEF Others
<1>14. Kept(new, Others(new, common), {variables[i] : i \in Others(variables, common)})
  <2> DEFINE O == Others(env, common)
             pieces == {variables[i] : i \in Others(variables, common)}
  <2> HIDE DEF O, pieces
  <2>1. Kept(env, O, pieces) /\ \A i \in O : new[i] = env[i]
    BY ZenonT(40), <1>4, <1>13 DEF O, pieces
  <2>2. {env[k] : k \in O} = {new[k] : k \in O}
    BY ZenonT(40), <2>1
  <2>3. Kept(new, O, pieces)
    BY ZenonT(40), <2>1, <2>2 DEF Kept
  <2> QED
    BY ZenonT(40), <1>12, <2>3 DEF O, pieces
<1>15. Injected(variables, new, common, next + 1)
  BY ZenonT(40), <1>5, <1>7, <1>10, <1>11, <1>14 DEF Injected
<1> QED
  BY ZenonT(40), <1>15 DEF new, v

\* The names of volumes and the paths of mounts, with the agent's.
VolumeName == STRING \union {"outbox", "ca"}

\* The lists that Volumes joins.
LEMMA ShortLists ==
  ASSUME NEW T, NEW a \in T, NEW b \in T
  PROVE  /\ <<a>> \o <<b>> = <<a, b>> /\ <<a>> \o <<>> = <<a>> /\ <<>> \o <<b>> = <<b>> /\ <<>> \o <<>> = <<>>
         /\ <<a, b>> \in Seq(T) /\ <<a>> \in Seq(T) /\ <<b>> \in Seq(T) /\ <<>> \in Seq(T)
<1>1. PICK r, s : r = <<a>> /\ s = <<a, b>>
  OBVIOUS
<1>2. r \in Seq(T) /\ s \in Seq(T)
  BY SMTT(40), <1>1
<1>3. Len(s) = Len(r) + 1 /\ s[Len(s)] = b /\ \A i \in 1..Len(r) : s[i] = r[i]
  BY SMTT(40), <1>1
<1>4. r \o <<b>> = s
  BY ZenonT(40), <1>2, <1>3, Joined
<1>5. /\ <<a>> \o <<>> = <<a>> /\ <<>> \o <<b>> = <<b>> /\ <<>> \o <<>> = <<>>
      /\ <<b>> \in Seq(T) /\ <<>> \in Seq(T)
  BY SMTT(40)
<1> QED
  BY ZenonT(40), <1>1, <1>2, <1>4, <1>5

\* A list of one or two names, and what it holds.
LEMMA ShortRanges ==
  ASSUME NEW a, NEW b, a # b
  PROVE  /\ ~Repeats(<<a, b>>) /\ ~Repeats(<<a>>) /\ ~Repeats(<<>>)
         /\ a \in Range(<<a, b>>) /\ b \in Range(<<a, b>>) /\ a \in Range(<<a>>)
<1>1. PICK s : s = <<a, b>>
  OBVIOUS
<1>2. DOMAIN s = 1..2 /\ s[1] = a /\ s[2] = b
  BY SMTT(40), <1>1
<1>3. \A i, j \in 1..2 : i # j => (i = 1 /\ j = 2) \/ (i = 2 /\ j = 1)
  OBVIOUS
<1>4. ~Repeats(s)
  BY ZenonT(40), <1>2, <1>3 DEF Repeats
<1>5. 1 \in DOMAIN s /\ 2 \in DOMAIN s
  BY SMTT(40), <1>2
<1>6. a \in Range(s) /\ b \in Range(s)
  BY ZenonT(40), <1>2, <1>5 DEF Range
<1>7. ~Repeats(<<a>>) /\ ~Repeats(<<>>)
  BY SMTT(40) DEF Repeats
<1>8. PICK t : t = <<a>>
  OBVIOUS
<1>9. 1 \in DOMAIN t /\ t[1] = a
  BY SMTT(40), <1>8
<1>10. a \in Range(t)
  BY ZenonT(40), <1>9 DEF Range
<1> QED
  BY ZenonT(40), <1>1, <1>4, <1>6, <1>7, <1>8, <1>10

\* What the agent appends to the volumes and to the mounts.
LEMMA VolumesFacts ==
  ASSUME NEW agent \in Configured
  PROVE  /\ Volumes(agent) \in Seq(VolumeName) /\ ~Repeats(Volumes(agent))
         /\ agent.outboxPVC => "outbox" \in Range(Volumes(agent))
         /\ agent.caSecret => "ca" \in Range(Volumes(agent))
<1> DEFINE x == "outbox"
           y == "ca"
           list == Volumes(agent)
<1>1. list = (IF agent.outboxPVC THEN <<x>> ELSE <<>>) \o (IF agent.caSecret THEN <<y>> ELSE <<>>)
  BY ZenonT(40) DEF Volumes
<1>2. x # y
  OBVIOUS
<1>3. x \in VolumeName /\ y \in VolumeName
  BY ZenonT(40) DEF VolumeName
<1> HIDE DEF x, y, list
<1>4. /\ <<x>> \o <<y>> = <<x, y>> /\ <<x>> \o <<>> = <<x>> /\ <<>> \o <<y>> = <<y>> /\ <<>> \o <<>> = <<>>
      /\ <<x, y>> \in Seq(VolumeName) /\ <<x>> \in Seq(VolumeName) /\ <<y>> \in Seq(VolumeName) /\ <<>> \in Seq(VolumeName)
  BY ZenonT(40), <1>3, ShortLists
<1>5. /\ ~Repeats(<<x, y>>) /\ ~Repeats(<<x>>) /\ ~Repeats(<<>>)
      /\ x \in Range(<<x, y>>) /\ y \in Range(<<x, y>>) /\ x \in Range(<<x>>)
  BY ZenonT(40), <1>2, ShortRanges
<1>6. ~Repeats(<<y>>) /\ y \in Range(<<y>>)
  <2>1. y # x
    BY ZenonT(40), <1>2
  <2>2. ~Repeats(<<y, x>>) /\ ~Repeats(<<y>>) /\ y \in Range(<<y>>)
    BY ZenonT(40), <2>1, ShortRanges
  <2> QED
    BY ZenonT(40), <2>2
<1>7. CASE agent.outboxPVC /\ agent.caSecret
  <2>1. list = <<x, y>>
    BY ZenonT(40), <1>1, <1>4, <1>7
  <2> QED
    BY ZenonT(40), <1>4, <1>5, <2>1 DEF x, y, list
<1>8. CASE agent.outboxPVC /\ ~agent.caSecret
  <2>1. list = <<x>>
    BY ZenonT(40), <1>1, <1>4, <1>8
  <2> QED
    BY ZenonT(40), <1>4, <1>5, <1>8, <2>1 DEF x, list
<1>9. CASE ~agent.outboxPVC /\ agent.caSecret
  <2>1. list = <<y>>
    BY ZenonT(40), <1>1, <1>4, <1>9
  <2> QED
    BY ZenonT(40), <1>4, <1>6, <1>9, <2>1 DEF y, list
<1>10. CASE ~agent.outboxPVC /\ ~agent.caSecret
  <2>1. list = <<>>
    BY ZenonT(40), <1>1, <1>4, <1>10
  <2> QED
    BY ZenonT(40), <1>4, <1>5, <1>10, <2>1 DEF list
<1> QED
  BY ZenonT(40), <1>7, <1>8, <1>9, <1>10

\* Names joined to others repeat one exactly if the others do or have it too.
LEMMA RepeatsJoined ==
  ASSUME NEW s \in Seq(VolumeName), NEW t \in Seq(VolumeName), ~Repeats(t)
  PROVE  /\ Repeats(s \o t) <=> Repeats(s) \/ Range(s) \intersect Range(t) # {}
         /\ Range(t) \subseteq Range(s \o t)
<1> DEFINE u == s \o t
           m == Len(s)
           n == Len(t)
<1>1. /\ m \in Nat /\ n \in Nat /\ DOMAIN s = 1..m /\ DOMAIN t = 1..n /\ DOMAIN u = 1..(m + n)
      /\ \A i \in 1..m : u[i] = s[i]
      /\ \A i \in 1..n : u[m + i] = t[i]
  OBVIOUS
<1> HIDE DEF u, m, n
<1>2. \A i \in 1..(m + n) : i \in 1..m \/ \E k \in 1..n : i = m + k
  <2> SUFFICES ASSUME NEW i \in 1..(m + n), i \notin 1..m PROVE \E k \in 1..n : i = m + k
    BY ZenonT(40)
  <2>1. i - m \in 1..n /\ i = m + (i - m)
    BY SMTT(40), <1>1
  <2> QED
    BY ZenonT(40), <2>1
<1>3. /\ \A i \in 1..m : i \in 1..(m + n)
      /\ \A k \in 1..n : m + k \in 1..(m + n)
      /\ \A i \in 1..m, k \in 1..n : i # m + k
  BY SMTT(40), <1>1
<1>4. ASSUME Repeats(s) PROVE Repeats(u)
  BY ZenonT(40), <1>1, <1>3, <1>4 DEF Repeats
<1>5. ASSUME Range(s) \intersect Range(t) # {} PROVE Repeats(u)
  <2>0. PICK e : e \in Range(s) /\ e \in Range(t)
    BY ZenonT(40), <1>5
  <2>1. PICK i \in 1..m, k \in 1..n : s[i] = t[k]
    <3>1. (\E i \in 1..m : s[i] = e) /\ \E k \in 1..n : t[k] = e
      BY ZenonT(40), <1>1, <2>0 DEF Range
    <3> QED
      BY ZenonT(40), <3>1
  <2> QED
    BY ZenonT(40), <1>1, <1>3, <2>1 DEF Repeats
<1>6. ASSUME Repeats(u), ~Repeats(s), Range(s) \intersect Range(t) = {} PROVE FALSE
  <2>1. PICK i \in 1..(m + n), j \in 1..(m + n) : i # j /\ u[i] = u[j]
    BY ZenonT(40), <1>1, <1>6 DEF Repeats
  <2>2. \A a \in 1..m, b \in 1..n : s[a] # t[b]
    BY ZenonT(40), <1>1, <1>6 DEF Range
  <2>3. CASE i \in 1..m /\ j \in 1..m
    BY ZenonT(40), <1>1, <1>6, <2>1, <2>3 DEF Repeats
  <2>4. CASE i \notin 1..m /\ j \notin 1..m
    <3>1. PICK a \in 1..n, b \in 1..n : i = m + a /\ j = m + b
      BY ZenonT(40), <1>2, <2>4
    <3>2. a # b /\ t[a] = t[b]
      BY ZenonT(40), <1>1, <2>1, <3>1
    <3> QED
      BY ZenonT(40), <1>1, <3>2 DEF Repeats
  <2>5. CASE i \in 1..m /\ j \notin 1..m
    <3>1. PICK b \in 1..n : j = m + b
      BY ZenonT(40), <1>2, <2>5
    <3> QED
      BY ZenonT(40), <1>1, <2>1, <2>2, <2>5, <3>1
  <2>6. CASE i \notin 1..m /\ j \in 1..m
    <3>1. PICK a \in 1..n : i = m + a
      BY ZenonT(40), <1>2, <2>6
    <3> QED
      BY ZenonT(40), <1>1, <2>1, <2>2, <2>6, <3>1
  <2> QED
    BY ZenonT(40), <2>3, <2>4, <2>5, <2>6
<1>7. Range(t) \subseteq Range(u)
  BY ZenonT(40), <1>1, <1>3 DEF Range
<1> QED
  BY ZenonT(40), <1>4, <1>5, <1>6, <1>7 DEF u

\* A sequence of some elements is one of more.
LEMMA WiderSeq ==
  ASSUME NEW S, NEW T, S \subseteq T
  PROVE  Seq(S) \subseteq Seq(T)
  BY SMTT(40)

\* The volumes and the mounts of a command, and of a Job.
Own == [volumes : Seq(VolumeName), mounts : Seq(VolumeName)]
Jobs ==
  [agent : Configured, flag : {"", "flag"}, own : Own, next : Nat, env : Seq(Entry),
   volumes : Seq(VolumeName), mounts : Seq(VolumeName)]

\* A Job's container while the agent writes its variables to it.
JobInv(variables, job) ==
  /\ variables \in Seq(Entry) /\ \A i \in 1..Len(variables) : variables[i].pos = i
  /\ job \in Jobs
  /\ job.flag = "" \/ job.agent.url = job.flag
  /\ job.next = 0 => job.volumes = job.own.volumes /\ job.mounts = job.own.mounts
  /\ job.next # 0 => /\ Injected(variables, job.env, Common(job.agent), job.next)
                     /\ job.volumes = job.own.volumes \o Volumes(job.agent)
                     /\ job.mounts = job.own.mounts \o Volumes(job.agent)

\* The value that is seen of one of the agent's variables.
LEMMA AgentIsSeen ==
  ASSUME NEW variables \in Seq(Entry), NEW env \in Seq(Entry), FromCommand(variables, env),
         NEW v \in Entry, FirstIs(env, v)
  PROVE  LET mine == {j \in DOMAIN variables : variables[j].name = v.name}
         IN  Effective(env, v.name) = IF \A j, k \in mine : j = k THEN v.value ELSE variables[Last(mine)].value
<1> DEFINE mine == {j \in DOMAIN variables : variables[j].name = v.name}
           V == 1..Len(variables)
           N == 1..Len(env)
<1>1. DOMAIN variables = V /\ Len(variables) \in Nat
  OBVIOUS
<1>2. /\ V \subseteq N
      /\ \A j \in V : /\ env[j].name = variables[j].name
                      /\ env[j] # variables[j] => \A i \in V : variables[i].name = variables[j].name => j <= i
      /\ \A j, k \in N : j # k /\ env[j].name = env[k].name => j \in V
  BY ZenonT(40) DEF FromCommand
<1>3. mine \in SUBSET V /\ \A j : j \in mine <=> j \in V /\ variables[j].name = v.name
  BY ZenonT(40), <1>1
<1> HIDE DEF mine
<1>4. CASE \A j, k \in mine : j = k
  <2>1. ASSUME NEW i \in N, NEW j \in N, env[i].name = v.name, env[j].name = v.name, i # j PROVE FALSE
    <3>1. i \in V /\ j \in V
      BY ZenonT(40), <1>2, <2>1
    <3>2. i \in mine /\ j \in mine
      BY ZenonT(40), <1>2, <1>3, <2>1, <3>1
    <3> QED
      BY ZenonT(40), <1>4, <2>1, <3>2
  <2>2. Effective(env, v.name) = v.value
    BY ZenonT(40), <2>1, FirstIsSeen
  <2> QED
    BY ZenonT(40), <1>4, <2>2 DEF mine
<1>5. CASE ~\A j, k \in mine : j = k
  <2> DEFINE l == Last(mine)
  <2>1. PICK j \in mine, k \in mine : j # k
    BY ZenonT(40), <1>5
  <2>2. l \in mine /\ \A i \in mine : i <= l
    <3>1. mine # {} /\ mine \in SUBSET (1..Len(variables))
      BY ZenonT(40), <1>3, <2>1
    <3> QED
      BY ZenonT(40), <1>1, <3>1, LastPlace
  <2> HIDE DEF l
  <2>3. l \in V /\ variables[l].name = v.name /\ env[l].name = v.name /\ l \in N
    BY ZenonT(40), <1>2, <1>3, <2>2
  <2>4. env[l] = variables[l]
    <3> SUFFICES ASSUME env[l] # variables[l] PROVE FALSE
      BY ZenonT(40)
    <3>1. l <= j /\ l <= k
      BY ZenonT(40), <1>2, <1>3, <2>3
    <3>2. j <= l /\ k <= l /\ j \in V /\ k \in V /\ l \in V
      BY ZenonT(40), <1>3, <2>2
    <3> QED
      BY SMTT(40), <1>1, <2>1, <3>1, <3>2
  <2>5. \A i \in N : env[i].name = env[l].name => i <= l
    <3> SUFFICES ASSUME NEW i \in N, env[i].name = env[l].name PROVE i <= l
      BY ZenonT(40)
    <3>1. CASE i = l
      BY ZenonT(40), <2>2, <3>1
    <3>2. CASE i # l
      <4>1. i \in V
        BY ZenonT(40), <1>2, <2>3, <3>2
      <4>2. i \in mine
        BY ZenonT(40), <1>2, <1>3, <2>3, <4>1
      <4> QED
        BY ZenonT(40), <2>2, <4>2
    <3> QED
      BY ZenonT(40), <3>1, <3>2
  <2>6. Effective(env, env[l].name) = env[l].value
    BY ZenonT(40), <2>3, <2>5, LastIsSeen
  <2> QED
    BY ZenonT(40), <1>5, <2>3, <2>4, <2>6 DEF mine, l
<1> QED
  BY ZenonT(40), <1>4, <1>5

\* The invariant says that the Job runs as its agent was configured.
LEMMA JobIsAgents ==
  ASSUME NEW variables, NEW job, JobInv(variables, job)
  PROVE  JobRunsAsAgent(variables, job)
<1> DEFINE common == Common(job.agent)
           added == Range(Volumes(job.agent))
           mine(name) == {j \in DOMAIN variables : variables[j].name = name}
<1>1. /\ job.agent \in Configured /\ job.next \in Nat /\ job.env \in Seq(Entry)
      /\ job.own.volumes \in Seq(VolumeName) /\ job.own.mounts \in Seq(VolumeName)
      /\ variables \in Seq(Entry)
  <2>1. variables \in Seq(Entry) /\ job \in Jobs
    BY ZenonT(40) DEF JobInv
  <2>2. job.agent \in Configured /\ job.next \in Nat /\ job.env \in Seq(Entry) /\ job.own \in Own
    BY ZenonT(40), <2>1 DEF Jobs
  <2>3. job.own.volumes \in Seq(VolumeName) /\ job.own.mounts \in Seq(VolumeName)
    BY ZenonT(40), <2>2 DEF Own
  <2> QED
    BY ZenonT(40), <2>1, <2>2, <2>3
<1>0. job.flag \in {"", job.agent.url}
  BY ZenonT(40) DEF JobInv
<1>2. /\ common \in Seq(Entry) /\ Len(common) >= 3
      /\ \A i \in 1..Len(common) : /\ common[i].name = "OUTBOX" => job.agent.outboxPVC
                                   /\ common[i].name = "CA" => job.agent.caSecret
  BY ZenonT(40), <1>1, CommonFacts
<1> HIDE DEF common
<1>3. /\ DOMAIN common = 1..Len(common) /\ Len(common) \in Nat
      /\ DOMAIN job.env = 1..Len(job.env)
      /\ \A i \in 1..Len(common) : common[i] \in Entry
  BY SMTT(40), <1>1, <1>2
<1> SUFFICES ASSUME job.next > Len(common)
             PROVE  /\ \A i \in DOMAIN common :
                         Effective(job.env, common[i].name) =
                           IF \A j, k \in mine(common[i].name) : j = k THEN common[i].value
                           ELSE variables[Last(mine(common[i].name))].value
                    /\ job.flag \in {"", job.agent.url}
                    /\ \A k \in DOMAIN job.env : job.env[k].pos = 0 =>
                         /\ job.env[k].name = "OUTBOX" => "outbox" \in Range(job.mounts) \intersect Range(job.volumes)
                         /\ job.env[k].name = "CA" => "ca" \in Range(job.mounts) \intersect Range(job.volumes)
                    /\ Kept(job.env, Others(job.env, common), {variables[i] : i \in Others(variables, common)})
                    /\ Repeats(job.volumes) <=> Repeats(job.own.volumes) \/ Range(job.own.volumes) \intersect added # {}
                    /\ Repeats(job.mounts) <=> Repeats(job.own.mounts) \/ Range(job.own.mounts) \intersect added # {}
  BY ZenonT(40) DEF JobRunsAsAgent, common, Others
<1>4. /\ Injected(variables, job.env, common, job.next)
      /\ job.volumes = job.own.volumes \o Volumes(job.agent)
      /\ job.mounts = job.own.mounts \o Volumes(job.agent)
  <2>1. job.next # 0
    BY SMTT(40), <1>1, <1>3
  <2> QED
    BY ZenonT(40), <2>1 DEF JobInv, common
<1>5. \A i \in 1..Len(common) : FirstIs(job.env, common[i])
  <2>1. \A i \in 1..Len(common) : i < job.next
    BY SMTT(40), <1>1, <1>3
  <2> QED
    BY ZenonT(40), <1>4, <2>1 DEF Injected
<1>6. ASSUME NEW i \in DOMAIN common
      PROVE  Effective(job.env, common[i].name) =
               IF \A j, k \in mine(common[i].name) : j = k THEN common[i].value
               ELSE variables[Last(mine(common[i].name))].value
  <2>1. FromCommand(variables, job.env) /\ FirstIs(job.env, common[i]) /\ common[i] \in Entry
    BY ZenonT(40), <1>3, <1>4, <1>5 DEF Injected
  <2> QED
    BY ZenonT(40), <1>1, <2>1, AgentIsSeen
<1>7. /\ Volumes(job.agent) \in Seq(VolumeName) /\ ~Repeats(Volumes(job.agent))
      /\ job.agent.outboxPVC => "outbox" \in added
      /\ job.agent.caSecret => "ca" \in added
  BY ZenonT(40), <1>1, VolumesFacts
<1>8. /\ Repeats(job.volumes) <=> Repeats(job.own.volumes) \/ Range(job.own.volumes) \intersect added # {}
      /\ added \subseteq Range(job.volumes)
  BY ZenonT(40), <1>1, <1>4, <1>7, RepeatsJoined
<1>9. /\ Repeats(job.mounts) <=> Repeats(job.own.mounts) \/ Range(job.own.mounts) \intersect added # {}
      /\ added \subseteq Range(job.mounts)
  BY ZenonT(40), <1>1, <1>4, <1>7, RepeatsJoined
<1>10. ASSUME NEW k \in DOMAIN job.env, job.env[k].pos = 0
       PROVE  /\ job.env[k].name = "OUTBOX" => "outbox" \in Range(job.mounts) \intersect Range(job.volumes)
              /\ job.env[k].name = "CA" => "ca" \in Range(job.mounts) \intersect Range(job.volumes)
  <2>1. PICK i \in 1..Len(common) : job.env[k] = common[i]
    BY ZenonT(40), <1>3, <1>4, <1>10 DEF Injected
  <2>2. /\ job.env[k].name = "OUTBOX" => job.agent.outboxPVC
        /\ job.env[k].name = "CA" => job.agent.caSecret
    BY ZenonT(40), <1>2, <2>1
  <2> QED
    BY ZenonT(40), <1>7, <1>8, <1>9, <2>2
<1>11. Kept(job.env, Others(job.env, common), {variables[i] : i \in Others(variables, common)})
  BY ZenonT(40), <1>4 DEF Injected
<1> QED
  BY ZenonT(40), <1>0, <1>6, <1>8, <1>9, <1>10, <1>11

-----------------------------------------------------------------------------
(* Settings *)

\* A result is not an error, and is what it holds.
LEMMA OneResult ==
  ASSUME NEW x PROVE <<x>> # <<>> /\ <<x>>[1] = x
  OBVIOUS

\* A runner that starts has settings that fit together.
LEMMA RunnerIsConfigured ==
  ASSUME NEW conf
  PROVE  RunnerAsConfigured(conf)
<1> SUFFICES ASSUME GetStandardModeConfiguration(conf) PROVE RunnerAsConfigured(conf)
  BY ZenonT(40) DEF RunnerAsConfigured
<1>1. /\ validateMode(conf.mode) /\ ValidateObservationProtocol(conf) /\ validateIaCBackend(conf.backend)
      /\ conf.key \in {"", "recipient"}
  BY ZenonT(40) DEF GetStandardModeConfiguration
<1>2. CASE ~NewClient(conf)
  <2>1. CreateRunner(conf) = <<>>
    BY ZenonT(40), <1>2 DEF CreateRunner
  <2> QED
    BY ZenonT(40), <1>2, <2>1 DEF RunnerAsConfigured
<1>3. CASE NewClient(conf)
  <2> DEFINE runner == [tool |-> conf.backend, observationOnly |-> IsObservation(conf), recipient |-> conf.key = "recipient"]
  <2>1. CreateRunner(conf) = <<runner>>
    BY ZenonT(40), <1>1, <1>3 DEF CreateRunner
  <2>2. /\ runner.tool = conf.backend /\ runner.observationOnly = IsObservation(conf)
        /\ runner.recipient = (conf.key = "recipient")
    BY ZenonT(40)
  <2>3. IsObservation(conf) = (conf.protocol # "")
    BY ZenonT(40), <1>1 DEF IsObservation, ValidateObservationProtocol
  <2>4. (conf.key = "recipient") = (conf.key # "")
    BY ZenonT(40), <1>1
  <2>5. IsObservation(conf) => conf.mode \notin {"deploy", "destroy"}
    BY ZenonT(40) DEF IsObservation
  <2> HIDE DEF runner
  <2>6. <<runner>> # <<>> /\ <<runner>>[1] = runner
    BY ZenonT(40), OneResult
  <2>7. CreateRunner(conf) # <<>> /\ CreateRunner(conf)[1] = runner
    BY ZenonT(40), <2>1, <2>6
  <2> QED
    BY ZenonT(40), <1>3, <2>2, <2>3, <2>4, <2>5, <2>7 DEF RunnerAsConfigured
<1> QED
  BY ZenonT(40), <1>2, <1>3

\* A gateway that starts has settings that fit together.
LEMMA GatewayIsConfigured ==
  ASSUME NEW conf \in GatewaySettings
  PROVE  GatewayAsConfigured(conf)
<1> SUFFICES ASSUME GetGatewayModeConfiguration(conf), runGateway(conf) # <<>> PROVE GatewayAsConfigured(conf)
  BY ZenonT(40) DEF GatewayAsConfigured
<1> DEFINE static == {conf.staticOrg, conf.staticRunner, conf.staticFile}
           server == [fetchWait |-> IF conf.fetchWait <= 0 THEN DefaultWait ELSE conf.fetchWait]
           built == [wait |-> NewServer(conf)[1].fetchWait, writeTimeout |-> conf.fetchWait + 10]
<1>1. runGateway(conf) = <<built>> /\ NewServer(conf) # <<>>
  BY ZenonT(40) DEF runGateway
<1>2. NewServer(conf) = <<server>>
  BY ZenonT(40), <1>1 DEF NewServer
<1>3. NewServer(conf)[1] = server
  <2> HIDE DEF server
  <2> QED
    BY ZenonT(40), <1>2, OneResult
<1>4. server.fetchWait = IF conf.fetchWait <= 0 THEN DefaultWait ELSE conf.fetchWait
  BY ZenonT(40)
<1>5. runGateway(conf)[1] = built
  <2> HIDE DEF built
  <2> QED
    BY ZenonT(40), <1>1, OneResult
<1>6. built.wait = NewServer(conf)[1].fetchWait /\ built.writeTimeout = conf.fetchWait + 10
  BY ZenonT(40)
<1>7. conf.fetchWait \in Int /\ DefaultWait \in Nat /\ DefaultWait > 10
  <2>1. conf.fetchWait \in {conf.port, conf.maxLogBytes, conf.fetchWait}
    BY ZenonT(40)
  <2>2. DefaultWait \in Nat /\ DefaultWait > 10
    BY ZenonT(40), StartupAssumption
  <2>3. conf.fetchWait \in Int
    BY ZenonT(40), <2>1, StartupAssumption
  <2> QED
    BY SMTT(40), <2>2, <2>3
<1>8. /\ built.wait > 0
      /\ (built.writeTimeout <= 0 \/ built.wait < built.writeTimeout)
           <=> (conf.fetchWait > 0 \/ conf.fetchWait <= -10)
  <2>1. built.wait = IF conf.fetchWait <= 0 THEN DefaultWait ELSE conf.fetchWait
    BY ZenonT(40), <1>3, <1>4, <1>6
  <2>2. built.writeTimeout = conf.fetchWait + 10
    BY ZenonT(40), <1>6
  <2> HIDE DEF built
  <2> QED
    BY SMTT(40), <1>7, <2>1, <2>2
<1>9. (conf.controlPlane # "") # (static # {""}) /\ (static # {""} => "" \notin static)
  BY ZenonT(40) DEF GetGatewayModeConfiguration
<1>10. /\ conf.controlPlane = "" <=> "" \notin static
       /\ conf.controlPlane # "" => conf.staticFile = ""
  BY ZenonT(40), <1>9
<1> HIDE DEF built
<1> QED
  BY ZenonT(40), <1>5, <1>8, <1>10 DEF GatewayAsConfigured

\* A process that starts runs in the mode it was given.
LEMMA ProcessIsConfigured ==
  ASSUME NEW conf \in ProcessSettings, NEW args, NEW flag
  PROVE  ProcessAsConfigured(args, flag, conf)
<1> DEFINE mode == IF args = <<>> THEN "standard" ELSE args[1]
<1> SUFFICES ASSUME mainInner(args, flag, conf) PROVE ProcessAsConfigured(args, flag, conf)
  BY ZenonT(40) DEF ProcessAsConfigured
<1>1. mode = Mode(args, flag) \/ Mode(args, flag) = ""
  BY ZenonT(40) DEF Mode
<1>2. Mode(args, flag) # ""
  BY ZenonT(40) DEF mainInner
<1>3. mode \in {"standard", "remote", "diode-export", "diode-import", "outbox-flush", "gateway"}
      /\ (mode = "standard" => flag = "")
  BY ZenonT(40), <1>2 DEF Mode
<1> HIDE DEF mode
<1>4. CASE mode = "standard"
  <2>1. GetStandardModeConfiguration(conf)
    BY ZenonT(40), <1>1, <1>2, <1>4 DEF mainInner
  <2> QED
    BY ZenonT(40), <1>3, <1>4, <2>1 DEF ProcessAsConfigured, GetStandardModeConfiguration, mode
<1>5. CASE mode = "remote"
  <2> DEFINE read == GetRemoteModeConfiguration(conf, flag)
             url == IF flag # "" THEN flag ELSE conf.url
             new == [conf EXCEPT !.url = url]
  <2>1. read # <<>> /\ NewClient(read[1])
    BY ZenonT(40), <1>1, <1>2, <1>5 DEF mainInner
  <2>2. read = <<new>>
    BY ZenonT(40), <2>1 DEF GetRemoteModeConfiguration
  <2>3. read[1] = new
    <3> HIDE DEF new, read
    <3> QED
      BY ZenonT(40), <2>2, OneResult
  <2>4. new.url = url /\ new.ca = conf.ca /\ new.cert = conf.cert
    <3>1. conf = [n \in DOMAIN conf |-> conf[n]] /\ {"url", "ca", "cert"} \subseteq DOMAIN conf
      BY ZenonT(40), StartupAssumption
    <3> HIDE DEF url
    <3> QED
      BY ZenonT(40), <3>1
  <2>5. NewClient(new)
    BY ZenonT(40), <2>1, <2>3
  <2> HIDE DEF new
  <2>6. url = "https" /\ conf.ca \in {"", "pem"} /\ conf.cert \in {"", "pair"}
    BY ZenonT(40), <2>4, <2>5 DEF NewClient, gatewayTLSConfig
  <2>7. "https" \in {flag, conf.url} /\ conf.ca # "other" /\ conf.cert # "half"
    BY ZenonT(40), <2>6
  <2> QED
    BY ZenonT(40), <1>3, <1>5, <2>7 DEF ProcessAsConfigured, mode
<1>6. CASE mode = "diode-export"
  <2>1. RunExporter(conf)
    BY ZenonT(40), <1>1, <1>2, <1>6 DEF mainInner
  <2>2. /\ conf.place = "absolute" /\ conf.diodeKey = "ed25519"
        /\ conf.nats # "" /\ conf.natsCert # "half" /\ conf.server # "none"
    BY ZenonT(40), <2>1 DEF RunExporter, requireAbsolutePaths, loadKey, Connect
  <2> QED
    BY ZenonT(40), <1>6, <2>2 DEF ProcessAsConfigured, mode
<1>7. CASE mode = "diode-import"
  <2>1. RunImporter(conf)
    BY ZenonT(40), <1>1, <1>2, <1>7 DEF mainInner
  <2>2. requireAbsolutePaths({conf.place} \union ({conf.quarantine} \ {""})) /\ loadKey(conf) /\ Connect(conf)
    BY ZenonT(40), <2>1 DEF RunImporter
  <2>3. /\ conf.place = "absolute" /\ conf.diodeKey = "ed25519" /\ conf.quarantine # "relative"
        /\ conf.nats # "" /\ conf.natsCert # "half" /\ conf.server # "none"
    BY ZenonT(40), <2>2 DEF requireAbsolutePaths, loadKey, Connect
  <2> QED
    BY ZenonT(40), <1>7, <2>3 DEF ProcessAsConfigured, mode
<1>8. CASE mode = "outbox-flush"
  <2>1. GetOutboxModeConfiguration(conf) /\ NewClient(conf)
    BY ZenonT(40), <1>1, <1>2, <1>8 DEF mainInner
  <2>2. /\ conf.url # "" /\ conf.outbox # "" /\ conf.url = "https"
        /\ conf.ca # "other" /\ conf.cert # "half"
    BY ZenonT(40), <2>1 DEF GetOutboxModeConfiguration, NewClient, gatewayTLSConfig
  <2> QED
    BY ZenonT(40), <1>8, <2>2 DEF ProcessAsConfigured, mode
<1>9. CASE mode = "gateway"
  <2>1. runGateway(conf) # <<>>
    BY ZenonT(40), <1>1, <1>2, <1>9 DEF mainInner
  <2>2. Connect(conf)
    BY ZenonT(40), <2>1 DEF runGateway
  <2>3. conf.nats # "" /\ conf.natsCert # "half" /\ conf.server # "none"
    BY ZenonT(40), <2>2 DEF Connect
  <2> QED
    BY ZenonT(40), <1>9, <2>3 DEF ProcessAsConfigured, mode
<1> QED
  BY ZenonT(40), <1>3, <1>4, <1>5, <1>6, <1>7, <1>8, <1>9

\* The settings are the ones given at the start, and a Job is its agent's.
StartupInv ==
  /\ subject = "gateway" => document \in GatewaySettings
  /\ subject = "process" => document \in ProcessSettings
  /\ subject = "job" => JobInv(document, state)

\* What a change of some fields of a record leaves alone.
LEMMA JobRecord ==
  ASSUME NEW A, NEW F, NEW O, NEW E, NEW M,
         NEW job \in [agent : A, flag : F, own : O, next : Nat, env : E, volumes : M, mounts : M],
         NEW env \in E, NEW n \in Nat, NEW v \in M, NEW m \in M
  PROVE  LET new == [[job EXCEPT !.env = env] EXCEPT !.next = n]
             mounted == [[new EXCEPT !.volumes = v] EXCEPT !.mounts = m]
         IN  /\ new \in [agent : A, flag : F, own : O, next : Nat, env : E, volumes : M, mounts : M]
             /\ new.agent = job.agent /\ new.flag = job.flag /\ new.own = job.own /\ new.next = n
             /\ new.env = env /\ new.volumes = job.volumes /\ new.mounts = job.mounts
             /\ mounted \in [agent : A, flag : F, own : O, next : Nat, env : E, volumes : M, mounts : M]
             /\ mounted.agent = job.agent /\ mounted.flag = job.flag /\ mounted.own = job.own /\ mounted.next = n
             /\ mounted.env = env /\ mounted.volumes = v /\ mounted.mounts = m
  OBVIOUS

\* What a new URL does to an agent's settings.
LEMMA AgentRecord ==
  ASSUME NEW I, NEW U, NEW V, NEW conf \in [ids : I, url : U, outboxPVC : BOOLEAN, caSecret : BOOLEAN], NEW url \in V
  PROVE  /\ [conf EXCEPT !.url = url] \in [ids : I, url : V, outboxPVC : BOOLEAN, caSecret : BOOLEAN]
         /\ [conf EXCEPT !.url = url].url = url
  OBVIOUS

\* A command without variables.
LEMMA NoVariables == <<>> \in Seq(Entry) /\ \A i \in 1..Len(<<>>) : <<>>[i].pos = i
  OBVIOUS

\* The agent that creates a Job has been configured.
LEMMA AgentConfigured ==
  ASSUME NEW conf \in Agents, NEW flag \in {"", "flag"}, GetRemoteModeConfiguration(conf, flag) # <<>>
  PROVE  /\ GetRemoteModeConfiguration(conf, flag)[1] \in Configured
         /\ flag = "" \/ GetRemoteModeConfiguration(conf, flag)[1].url = flag
<1> DEFINE url == IF flag # "" THEN flag ELSE conf.url
           new == [conf EXCEPT !.url = url]
           read == GetRemoteModeConfiguration(conf, flag)
<1>1. read = <<new>> /\ url # ""
  BY ZenonT(40) DEF GetRemoteModeConfiguration
<1>2. read[1] = new
  <2> HIDE DEF new, read
  <2> QED
    BY ZenonT(40), <1>1, OneResult
<1>3. conf.url \in {"", "https"}
  BY ZenonT(40) DEF Agents
<1>4. url \in {"https", "flag"}
  BY ZenonT(40), <1>1, <1>3
<1>5. flag = "" \/ url = flag
  BY ZenonT(40)
<1>6. conf \in [ids : {"", "set"}, url : {"", "https"}, outboxPVC : BOOLEAN, caSecret : BOOLEAN]
  BY ZenonT(40) DEF Agents
<1>7. new \in [ids : {"", "set"}, url : {"https", "flag"}, outboxPVC : BOOLEAN, caSecret : BOOLEAN] /\ new.url = url
  <2> HIDE DEF url
  <2> QED
    BY ZenonT(40), <1>4, <1>6, AgentRecord
<1> HIDE DEF new
<1> QED
  BY ZenonT(40), <1>2, <1>5, <1>7 DEF Configured

\* The invariant holds before anything is computed.
LEMMA StartupInvInit ==
  ASSUME Init PROVE StartupInv
<1>1. subject = "gateway" => document \in GatewaySettings
  BY ZenonT(40) DEF Init, StreamInit, PlanInit, GateInit, StartupInit
<1>2. subject = "process" => document \in ProcessSettings
  BY ZenonT(40) DEF Init, StreamInit, PlanInit, GateInit, StartupInit
<1>3. ASSUME subject = "job" PROVE JobInv(document, state)
  <2>1. PICK conf \in Agents, flag \in {"", "flag"}, own \in OwnVolumes :
          LET agent == GetRemoteModeConfiguration(conf, flag)
          IN  /\ document = <<>> /\ agent # <<>>
              /\ state = [agent |-> agent[1], flag |-> flag, own |-> own, next |-> 0, env |-> <<>>,
                          volumes |-> own.volumes, mounts |-> own.mounts]
    BY ZenonT(40), <1>3 DEF Init, StreamInit, PlanInit, GateInit, StartupInit
  <2> DEFINE agent == GetRemoteModeConfiguration(conf, flag)[1]
  <2>2. agent \in Configured /\ (flag = "" \/ agent.url = flag)
    BY ZenonT(40), <2>1, AgentConfigured
  <2>3. document = <<>> /\ state = [agent |-> agent, flag |-> flag, own |-> own, next |-> 0, env |-> <<>>,
                                    volumes |-> own.volumes, mounts |-> own.mounts]
    BY ZenonT(40), <2>1
  <2> HIDE DEF agent
  <2>4. /\ state.agent = agent /\ state.flag = flag /\ state.next = 0 /\ state.own = own
        /\ state.volumes = own.volumes /\ state.mounts = own.mounts
    BY ZenonT(40), <2>3
  <2>5. document \in Seq(Entry) /\ \A i \in 1..Len(document) : document[i].pos = i
    <3>1. document = <<>>
      BY ZenonT(40), <2>3
    <3> QED
      BY ZenonT(40), <3>1, NoVariables
  <2>6. state \in Jobs
    <3>1. 0 \in Nat
      BY ZenonT(40)
    <3>2. own \in Own
      <4>1. own \in [volumes : Seq(STRING), mounts : Seq(STRING)]
        BY ZenonT(40), StartupAssumption
      <4>2. Seq(STRING) \subseteq Seq(VolumeName)
        <5>1. STRING \subseteq VolumeName
          BY ZenonT(40) DEF VolumeName
        <5> QED
          BY ZenonT(40), <5>1, WiderSeq
      <4> QED
        BY ZenonT(40), <4>1, <4>2 DEF Own
    <3>3. own.volumes \in Seq(VolumeName) /\ own.mounts \in Seq(VolumeName)
      BY ZenonT(40), <3>2 DEF Own
    <3> QED
      BY ZenonT(40), <2>2, <2>3, <3>1, <3>2, <3>3, NoVariables DEF Jobs
  <2> QED
    BY ZenonT(40), <2>2, <2>4, <2>5, <2>6 DEF JobInv
<1> QED
  BY ZenonT(40), <1>1, <1>2, <1>3 DEF StartupInv

\* Every step keeps it.
LEMMA StartupInvNext ==
  ASSUME StartupInv, [Next]_vars PROVE StartupInv'
<1> DEFINE Job(new) == /\ new.volumes = new.own.volumes \o Volumes(new.agent)
                       /\ new.mounts = new.own.mounts \o Volumes(new.agent)
<1>0. ASSUME subject = "job"
      PROVE  /\ JobInv(document, state) /\ document \in Seq(Entry) /\ \A i \in 1..Len(document) : document[i].pos = i
             /\ state \in Jobs /\ state.agent \in Configured /\ state.next \in Nat /\ state.env \in Seq(Entry)
             /\ state.own.volumes \in Seq(VolumeName) /\ state.own.mounts \in Seq(VolumeName)
             /\ state.volumes \in Seq(VolumeName) /\ state.mounts \in Seq(VolumeName)
             /\ (state.flag = "" \/ state.agent.url = state.flag)
             /\ state.next = 0 => state.volumes = state.own.volumes /\ state.mounts = state.own.mounts
             /\ state.next # 0 => Injected(document, state.env, Common(state.agent), state.next) /\ Job(state)
  <2>1. JobInv(document, state)
    BY ZenonT(40), <1>0 DEF StartupInv
  <2>2. state \in Jobs
    BY ZenonT(40), <2>1 DEF JobInv
  <2>3. /\ state.agent \in Configured /\ state.next \in Nat /\ state.env \in Seq(Entry) /\ state.own \in Own
        /\ state.volumes \in Seq(VolumeName) /\ state.mounts \in Seq(VolumeName)
    BY ZenonT(40), <2>2 DEF Jobs
  <2>4. state.own.volumes \in Seq(VolumeName) /\ state.own.mounts \in Seq(VolumeName)
    BY ZenonT(40), <2>3 DEF Own
  <2> QED
    BY ZenonT(40), <2>1, <2>2, <2>3, <2>4 DEF JobInv
<1>1. CASE CommandVariable
  <2>1. PICK v \in Variables :
          /\ document' = Append(document, [pos |-> Len(document) + 1, name |-> v.name, value |-> v.value])
          /\ state' = state /\ state.next = 0 /\ subject = "job" /\ subject' = "job"
    BY ZenonT(40), <1>1 DEF CommandVariable, Take
  <2> DEFINE new == [pos |-> Len(document) + 1, name |-> v.name, value |-> v.value]
  <2>2. document \in Seq(Entry) /\ \A i \in 1..Len(document) : document[i].pos = i
    BY ZenonT(40), <1>0, <2>1
  <2>3. new \in Entry /\ new.pos = Len(document) + 1
    BY SMTT(40), <2>2 DEF Entry
  <2>4. document' = Append(document, new)
    BY ZenonT(40), <2>1
  <2> HIDE DEF new
  <2>5. document' \in Seq(Entry) /\ \A i \in 1..Len(document') : document'[i].pos = i
    BY SMTT(40), <2>2, <2>3, <2>4
  <2>6. JobInv(document', state')
    BY ZenonT(40), <1>0, <2>1, <2>5 DEF JobInv
  <2> QED
    BY ZenonT(40), <2>1, <2>6 DEF StartupInv
<1>2. CASE injectJobGatewayConfiguration
  <2>1. subject = "job" /\ subject' = "job" /\ document' = document /\ state.next = 0
    BY ZenonT(40), <1>2 DEF injectJobGatewayConfiguration, Compute
  <2>2. state.agent.url # ""
    <3>1. state.agent \in Configured
      BY ZenonT(40), <1>0, <2>1
    <3>2. state.agent.url \in {"https", "flag"}
      BY ZenonT(40), <3>1 DEF Configured
    <3> QED
      BY ZenonT(40), <3>2
  <2> DEFINE V == state.volumes \o Volumes(state.agent)
             M == state.mounts \o Volumes(state.agent)
  <2>3. state' = [[[[state EXCEPT !.env = document] EXCEPT !.next = 1] EXCEPT !.volumes = V] EXCEPT !.mounts = M]
    BY ZenonT(40), <1>2, <2>2 DEF injectJobGatewayConfiguration, Compute
  <2>4. V \in Seq(VolumeName) /\ M \in Seq(VolumeName)
    <3>1. state.agent \in Configured /\ state.volumes \in Seq(VolumeName) /\ state.mounts \in Seq(VolumeName)
      BY ZenonT(40), <1>0, <2>1
    <3>2. Volumes(state.agent) \in Seq(VolumeName)
      BY ZenonT(40), <3>1, VolumesFacts
    <3> QED
      BY SMTT(40), <3>1, <3>2
  <2>5. V = state.own.volumes \o Volumes(state.agent) /\ M = state.own.mounts \o Volumes(state.agent)
    BY ZenonT(40), <1>0, <2>1
  <2> HIDE DEF V, M
  <2>6. /\ state' \in Jobs /\ state'.agent = state.agent /\ state'.flag = state.flag /\ state'.own = state.own
        /\ state'.next = 1 /\ state'.env = document /\ state'.volumes = V /\ state'.mounts = M
    <3>1. state \in Jobs /\ document \in Seq(Entry) /\ 1 \in Nat
      BY ZenonT(40), <1>0, <2>1
    <3> QED
      BY ZenonT(40), <2>3, <2>4, <3>1, JobRecord DEF Jobs
  <2>7. Injected(document, document, Common(state.agent), 1)
    <3>1. state.agent \in Configured /\ document \in Seq(Entry) /\ \A i \in 1..Len(document) : document[i].pos = i
      BY ZenonT(40), <1>0, <2>1
    <3>2. Common(state.agent) \in Seq(Entry)
      BY ZenonT(40), <3>1, CommonFacts
    <3> QED
      BY ZenonT(40), <3>1, <3>2, InjectedStart
  <2>8. JobInv(document', state')
    <3>1. 1 # 0
      OBVIOUS
    <3> QED
      BY ZenonT(40), <1>0, <2>1, <2>5, <2>6, <2>7, <3>1 DEF JobInv
  <2> QED
    BY ZenonT(40), <2>1, <2>8 DEF StartupInv
<1>3. CASE InjectVariable
  <2> DEFINE common == Common(state.agent)
  <2>1. /\ subject = "job" /\ subject' = "job" /\ document' = document /\ state.next \in DOMAIN common
        /\ state' = [[state EXCEPT !.env = Set(state.env, common[state.next])] EXCEPT !.next = state.next + 1]
    BY ZenonT(40), <1>3 DEF InjectVariable, Compute
  <2>2. state.agent \in Configured /\ state.next \in Nat /\ state.env \in Seq(Entry)
    BY ZenonT(40), <1>0, <2>1
  <2>3. common \in Seq(Entry) /\ NamesDiffer(common)
    BY ZenonT(40), <2>2, CommonFacts
  <2>4. DOMAIN common = 1..Len(common)
    <3> HIDE DEF common
    <3> QED
      BY SMTT(40), <2>3
  <2>5. state.next \in 1..Len(common)
    BY ZenonT(40), <2>1, <2>4
  <2>6. state.next # 0
    <3>1. PICK n : n = Len(common) /\ state.next \in 1..n
      BY ZenonT(40), <2>5
    <3> QED
      BY SMTT(40), <3>1
  <2>7. Injected(document, state.env, common, state.next) /\ Job(state)
    BY ZenonT(40), <1>0, <2>1, <2>6
  <2> HIDE DEF common
  <2> DEFINE env == Set(state.env, common[state.next])
  <2>8. Injected(document, env, common, state.next + 1)
    BY ZenonT(40), <2>3, <2>5, <2>7, InjectedStep
  <2>9. env \in Seq(Entry)
    BY ZenonT(40), <2>8 DEF Injected
  <2>10. state.next + 1 \in Nat /\ state.next + 1 # 0
    BY SMTT(40), <2>2
  <2> HIDE DEF env
  <2>11. state' = [[state EXCEPT !.env = env] EXCEPT !.next = state.next + 1]
    BY ZenonT(40), <2>1 DEF env, common
  <2>12. /\ state' \in Jobs /\ state'.agent = state.agent /\ state'.flag = state.flag /\ state'.own = state.own
         /\ state'.next = state.next + 1 /\ state'.env = env
         /\ state'.volumes = state.volumes /\ state'.mounts = state.mounts
    <3>1. state \in Jobs /\ state.volumes \in Seq(VolumeName)
      BY ZenonT(40), <1>0, <2>1
    <3> QED
      BY ZenonT(40), <2>9, <2>10, <2>11, <3>1, JobRecord DEF Jobs
  <2>13. JobInv(document', state')
    BY ZenonT(40), <1>0, <2>1, <2>7, <2>8, <2>10, <2>12 DEF JobInv, common
  <2> QED
    BY ZenonT(40), <2>1, <2>13 DEF StartupInv
<1>4. CASE StreamNext \/ PlanNext \/ GateNext
  <2>1. subject' \in StreamSubjects \union PlanSubjects \union GateSubjects
    BY ZenonT(40), <1>4, StreamSubject, PlanSubject, GateSubject
  <2>2. subject' \notin StartupSubjects
    BY ZenonT(40), <2>1 DEF PlanSubjects, GateSubjects, StartupSubjects, StreamSubjects
  <2> QED
    BY ZenonT(40), <2>2 DEF StartupInv, StartupSubjects
<1>5. CASE UNCHANGED vars
  BY ZenonT(40), <1>5 DEF StartupInv, vars
<1> QED
  BY ZenonT(40), <1>1, <1>2, <1>3, <1>4, <1>5 DEF Next, StartupNext

\* Whatever its environment and its arguments, a process builds what its settings
\* say; a gateway's poll can be answered exactly if its wait is above nothing, or
\* ten seconds or more below it; and a Job, whatever its specification, sees each
\* of its agent's settings unless it names that variable twice itself.
THEOREM SettingsAreRight == Spec => []SettingsRight
<1>1. Init => StartupInv
  BY ZenonT(40), StartupInvInit
<1>2. StartupInv /\ [Next]_vars => StartupInv'
  BY ZenonT(40), StartupInvNext
<1>3. StartupInv => SettingsRight
  BY ZenonT(40), RunnerIsConfigured, GatewayIsConfigured, ProcessIsConfigured, JobIsAgents DEF StartupInv, SettingsRight
<1> QED
  BY <1>1, <1>2, <1>3, PTL DEF Spec
=============================================================================
