----------------------------- MODULE GateProofs -----------------------------
(***************************************************************************)
(* Proof that the release gates of ReleaseGates let through what they are  *)
(* for (GatesRight), for reports, bundles, provenances and environments of *)
(* any length, any policy and any nesting bound.  There is one invariant   *)
(* for each subject.                                                       *)
(***************************************************************************)
EXTENDS DocumentProofs, FiniteSetTheorems

-----------------------------------------------------------------------------
(* Sequences and bijections *)

\* An element of a sequence.
LEMMA ElementOf ==
  ASSUME NEW T, NEW s \in Seq(T), NEW i \in 1..Len(s)
  PROVE  s[i] \in T
  BY SMTT(40)

\* What makes a function a bijection.
LEMMA MakesBijection ==
  ASSUME NEW S, NEW T, NEW f \in [S -> T],
         \A a, b \in S : f[a] = f[b] => a = b, \A t \in T : \E s \in S : f[s] = t
  PROVE  f \in Bijection(S, T)
  BY ZenonT(40) DEF Bijection, Injection, Surjection, IsInjective

\* One bijection after another is one.
LEMMA BijectionsComposed ==
  ASSUME NEW S, NEW T, NEW U, NEW f \in Bijection(S, T), NEW g \in Bijection(T, U)
  PROVE  [s \in S |-> g[f[s]]] \in Bijection(S, U)
<1> DEFINE h == [s \in S |-> g[f[s]]]
<1>1. /\ f \in [S -> T] /\ \A a, b \in S : f[a] = f[b] => a = b
      /\ \A t \in T : \E s \in S : f[s] = t
  BY ZenonT(40) DEF Bijection, Injection, Surjection, IsInjective
<1>2. /\ g \in [T -> U] /\ \A a, b \in T : g[a] = g[b] => a = b
      /\ \A u \in U : \E t \in T : g[t] = u
  BY ZenonT(40) DEF Bijection, Injection, Surjection, IsInjective
<1>3. h \in [S -> U] /\ \A s \in S : h[s] = g[f[s]] /\ f[s] \in T
  BY ZenonT(40), <1>1, <1>2
<1> HIDE DEF h
<1>4. ASSUME NEW a \in S, NEW b \in S, h[a] = h[b] PROVE a = b
  <2>1. f[a] \in T /\ f[b] \in T /\ g[f[a]] = g[f[b]]
    BY ZenonT(40), <1>3, <1>4
  <2>2. f[a] = f[b]
    BY ZenonT(40), <1>2, <2>1
  <2> QED
    BY ZenonT(40), <1>1, <2>2
<1>5. \A u \in U : \E s \in S : h[s] = u
  <2> TAKE u \in U
  <2>1. PICK t \in T : g[t] = u
    BY ZenonT(40), <1>2
  <2>2. PICK s \in S : f[s] = t
    BY ZenonT(40), <1>1
  <2>3. h[s] = g[t]
    BY ZenonT(40), <1>3, <2>2
  <2> QED
    BY ZenonT(40), <2>1, <2>3
<1>6. h \in Bijection(S, U)
  BY ZenonT(40), <1>3, <1>4, <1>5, MakesBijection
<1> QED
  BY ZenonT(40), <1>6 DEF h

\* Sequences whose places correspond one to one are of the same length.
LEMMA SameLength ==
  ASSUME NEW m \in Nat, NEW n \in Nat, ExistsBijection(1..m, 1..n)
  PROVE  m = n
<1>1. IsFiniteSet(1..m) /\ Cardinality(1..m) = IF 1 > m THEN 0 ELSE m - 1 + 1
  BY SMTT(40), FS_Interval
<1>2. Cardinality(1..n) = IF 1 > n THEN 0 ELSE n - 1 + 1
  BY SMTT(40), FS_Interval
<1>3. Cardinality(1..m) = Cardinality(1..n)
  BY ZenonT(40), <1>1, FS_Bijection
<1> QED
  BY SMTT(40), <1>1, <1>2, <1>3

-----------------------------------------------------------------------------
(* The notices *)

\* What is read of a file is what one of the bundle's entries says.
LEMMA ContentThere ==
  ASSUME NEW bundle \in Seq(Notices), NEW module, NEW name, Content(bundle, module, name) # "missing"
  PROVE  \E i \in DOMAIN bundle : /\ bundle[i].module = module /\ bundle[i].name = name
                                  /\ bundle[i].content = Content(bundle, module, name)
<1> DEFINE at == {i \in DOMAIN bundle : bundle[i].module = module /\ bundle[i].name = name}
<1>1. Content(bundle, module, name) = IF at = {} THEN "missing" ELSE bundle[Last(at)].content
  BY ZenonT(40) DEF Content
<1>2. Len(bundle) \in Nat /\ at \in SUBSET (1..Len(bundle))
  OBVIOUS
<1>3. \A i \in at : i \in DOMAIN bundle /\ bundle[i].module = module /\ bundle[i].name = name
  BY ZenonT(40)
<1> HIDE DEF at
<1>4. at # {}
  BY ZenonT(40), <1>1
<1>5. Last(at) \in at
  BY ZenonT(40), <1>2, <1>4, LastPlace
<1> QED
  BY ZenonT(40), <1>1, <1>3, <1>4, <1>5

\* A bundle that passes has a license of every module and the declared notices.
LEMMA NoticesAreComplete ==
  ASSUME NEW bundle \in Seq(Notices)
  PROVE  NoticesComplete(bundle)
<1> SUFFICES ASSUME checkNotices(bundle)
             PROVE  /\ \A m \in Modules : \E i \in DOMAIN bundle :
                         /\ bundle[i].module = m \/ Inside(m, bundle[i].module)
                         /\ bundle[i].name # "NOTICE" /\ bundle[i].content # "symlink"
                    /\ \A m \in Declared : \E i \in DOMAIN bundle :
                         bundle[i].module = m /\ bundle[i].name = "LICENSE" /\ bundle[i].content = "declared"
  BY ZenonT(40) DEF NoticesComplete
<1>1. ASSUME NEW m \in Modules
      PROVE  \E i \in DOMAIN bundle : /\ bundle[i].module = m \/ Inside(m, bundle[i].module)
                                      /\ bundle[i].name # "NOTICE" /\ bundle[i].content # "symlink"
  <2>1. Found(bundle, m)
    BY ZenonT(40) DEF checkNotices
  <2>2. PICK f \in Walked(m) : /\ f.name # "NOTICE" /\ Content(bundle, f.module, f.name) # "missing"
                               /\ Content(bundle, f.module, f.name) # "symlink"
    BY ZenonT(40), <2>1 DEF Found
  <2>3. f.module = m \/ Inside(m, f.module)
    BY ZenonT(40) DEF Walked
  <2>4. PICK i \in DOMAIN bundle : /\ bundle[i].module = f.module /\ bundle[i].name = f.name
                                   /\ bundle[i].content = Content(bundle, f.module, f.name)
    BY SMTT(40), <2>2, ContentThere
  <2> QED
    BY ZenonT(40), <2>2, <2>3, <2>4
<1>2. ASSUME NEW m \in Declared
      PROVE  \E i \in DOMAIN bundle :
               bundle[i].module = m /\ bundle[i].name = "LICENSE" /\ bundle[i].content = "declared"
  <2>1. m \in Modules
    BY ZenonT(40), GatesAssumption
  <2>2. Content(bundle, m, "LICENSE") = "declared"
    BY ZenonT(40), <2>1 DEF checkNotices, DeclaredNotice
  <2>3. "declared" # "missing"
    OBVIOUS
  <2> QED
    BY SMTT(40), <2>2, <2>3, ContentThere
<1> QED
  BY ZenonT(40), <1>1, <1>2

-----------------------------------------------------------------------------
(* The provenance *)

\* What is read of a provenance: fields, and its end.
Fields == (FieldNames \X FieldValues) \union {<<"endObject", "none">>}

\* The fields before the end are the map, each once.
ProvenanceInv(fields, s) ==
  /\ fields \in Seq(Fields)
  /\ s = [result |-> s.result, ended |-> s.ended, failed |-> s.failed]
  /\ s.ended \in BOOLEAN /\ s.failed \in BOOLEAN
  /\ ~s.failed =>
       \E n \in {Len(fields), Len(fields) - 1} :
         /\ IF s.ended THEN n = Len(fields) - 1 /\ n \in Nat /\ fields[Len(fields)][1] = "endObject" ELSE n = Len(fields)
         /\ DOMAIN s.result = {fields[i][1] : i \in 1..n}
         /\ \A i \in 1..n : fields[i][1] # "endObject" /\ s.result[fields[i][1]] = fields[i][2]
         /\ \A i, j \in 1..n : fields[i][1] = fields[j][1] => i = j
  /\ s.failed =>
       /\ Len(fields) # 0
       /\ \/ fields[Len(fields)][1] # "endObject"
          \/ \E i \in 1..(Len(fields) - 1) : fields[i][1] = "endObject"

\* A field is a pair; the end is not among the names.
LEMMA FieldFacts ==
  ASSUME NEW field \in Fields
  PROVE  field = <<field[1], field[2]>> /\ (field[2] = "number" => field[1] # "endObject")
<1>1. CASE field \in FieldNames \X FieldValues
  <2>1. "endObject" \notin FieldNames
    BY ZenonT(40), GatesAssumption
  <2> QED
    BY SMTT(40), <1>1, <2>1
<1>2. CASE field = <<"endObject", "none">>
  BY ZenonT(40), <1>2
<1> QED
  BY ZenonT(40), <1>1, <1>2 DEF Fields

\* A field is refused, ends the object or enters the map.
LEMMA ProvenanceStep ==
  ASSUME NEW fields, NEW s, ProvenanceInv(fields, s), ~s.failed, NEW field \in Fields
  PROVE  ProvenanceInv(Append(fields, field), receipt(s, field))
<1> DEFINE next == Append(fields, field)
           l == Len(fields)
           new == receipt(s, field)
<1>1. /\ fields \in Seq(Fields) /\ s = [result |-> s.result, ended |-> s.ended, failed |-> FALSE]
      /\ s.ended \in BOOLEAN
  <2>1. s.failed = FALSE
    BY ZenonT(40) DEF ProvenanceInv
  <2> QED
    BY ZenonT(40), <2>1 DEF ProvenanceInv
<1>2. /\ next \in Seq(Fields) /\ Len(next) = l + 1 /\ l \in Nat /\ l + 1 # 0
      /\ next[l + 1] = field /\ \A i \in 1..l : next[i] = fields[i]
  BY SMTT(40), <1>1
<1>3. PICK n \in {l, l - 1} :
        /\ IF s.ended THEN n = l - 1 /\ n \in Nat /\ fields[l][1] = "endObject" ELSE n = l
        /\ DOMAIN s.result = {fields[i][1] : i \in 1..n}
        /\ \A i \in 1..n : fields[i][1] # "endObject" /\ s.result[fields[i][1]] = fields[i][2]
        /\ \A i, j \in 1..n : fields[i][1] = fields[j][1] => i = j
  BY ZenonT(40) DEF ProvenanceInv
<1> HIDE DEF next, l
<1>4. ASSUME NEW r, NEW e \in BOOLEAN, new = [result |-> r, ended |-> e, failed |-> TRUE],
             field[1] # "endObject" \/ \E i \in 1..l : next[i][1] = "endObject"
      PROVE  ProvenanceInv(next, new)
  <2>1. new.failed = TRUE /\ new.ended = e /\ new.result = r
    BY SMTT(40), <1>4
  <2>2. (l + 1) - 1 = l
    BY SMTT(40), <1>2
  <2> HIDE DEF new
  <2> QED
    BY ZenonT(40), <1>2, <1>4, <2>1, <2>2 DEF ProvenanceInv
<1>5. CASE s.ended \/ field[1] \in DOMAIN s.result \/ field[2] = "number"
  <2>1. new = [result |-> s.result, ended |-> s.ended, failed |-> TRUE]
    <3>1. new = [s EXCEPT !.failed = TRUE]
      BY ZenonT(40), <1>5 DEF receipt
    <3> HIDE DEF new
    <3> DEFINE r == s.result
               e == s.ended
               no == FALSE
               yes == TRUE
    <3>2. s = [result |-> r, ended |-> e, failed |-> no]
      BY ZenonT(40), <1>1
    <3>3. new = [s EXCEPT !.failed = yes]
      BY ZenonT(40), <3>1
    <3> HIDE DEF r, e, no, yes
    <3>4. new = [result |-> r, ended |-> e, failed |-> yes]
      BY ZenonT(40), <3>2, <3>3
    <3> QED
      BY ZenonT(40), <3>4 DEF r, e, yes
  <2>2. CASE s.ended
    <3>1. l \in 1..l /\ fields[l][1] = "endObject"
      BY SMTT(40), <1>2, <1>3, <2>2
    <3> QED
      BY ZenonT(40), <1>1, <1>2, <1>4, <2>1, <3>1 DEF next, new
  <2>3. CASE ~s.ended /\ field[1] \in DOMAIN s.result
    <3>1. PICK i \in 1..n : field[1] = fields[i][1]
      BY ZenonT(40), <1>3, <2>3
    <3>2. field[1] # "endObject"
      BY ZenonT(40), <1>3, <3>1
    <3> QED
      BY ZenonT(40), <1>1, <1>4, <2>1, <3>2 DEF next, new
  <2>4. CASE field[2] = "number"
    <3>1. field[1] # "endObject"
      BY ZenonT(40), <2>4, FieldFacts
    <3> QED
      BY ZenonT(40), <1>1, <1>4, <2>1, <3>1 DEF next, new
  <2> QED
    BY ZenonT(40), <1>5, <2>2, <2>3, <2>4
<1>6. CASE ~s.ended /\ field[1] \notin DOMAIN s.result /\ field[2] # "number" /\ field[1] = "endObject"
  <2>1. new = [result |-> s.result, ended |-> TRUE, failed |-> FALSE]
    <3>1. new = [s EXCEPT !.ended = TRUE]
      <4>1. s.failed = FALSE
        BY ZenonT(40) DEF ProvenanceInv
      <4> QED
        BY ZenonT(40), <1>6, <4>1 DEF receipt
    <3> HIDE DEF new
    <3> DEFINE r == s.result
               e == s.ended
               no == FALSE
               yes == TRUE
    <3>2. s = [result |-> r, ended |-> e, failed |-> no]
      BY ZenonT(40), <1>1
    <3>3. new = [s EXCEPT !.ended = yes]
      BY ZenonT(40), <3>1
    <3> HIDE DEF r, e, no, yes
    <3>4. new = [result |-> r, ended |-> yes, failed |-> no]
      BY ZenonT(40), <3>2, <3>3
    <3> QED
      BY ZenonT(40), <3>4 DEF r, no, yes
  <2>2. new.result = s.result /\ new.ended = TRUE /\ new.failed = FALSE
    BY SMTT(40), <2>1
  <2>3. n = l /\ n = Len(next) - 1
    BY SMTT(40), <1>2, <1>3, <1>6
  <2>4. /\ DOMAIN s.result = {next[i][1] : i \in 1..n}
        /\ \A i \in 1..n : next[i][1] # "endObject" /\ s.result[next[i][1]] = next[i][2]
        /\ \A i, j \in 1..n : next[i][1] = next[j][1] => i = j
    <3>1. \A i \in 1..n : next[i] = fields[i]
      BY ZenonT(40), <1>2, <2>3
    <3>2. {next[i][1] : i \in 1..n} = {fields[i][1] : i \in 1..n}
      BY ZenonT(40), <3>1
    <3> QED
      BY ZenonT(40), <1>3, <3>1, <3>2
  <2>5. next[Len(next)][1] = "endObject"
    BY ZenonT(40), <1>2, <1>6
  <2> HIDE DEF new
  <2>6. \E m \in {Len(next), Len(next) - 1} :
         /\ IF new.ended THEN m = Len(next) - 1 /\ m \in Nat /\ next[Len(next)][1] = "endObject" ELSE m = Len(next)
         /\ DOMAIN new.result = {next[i][1] : i \in 1..m}
         /\ \A i \in 1..m : next[i][1] # "endObject" /\ new.result[next[i][1]] = next[i][2]
         /\ \A i, j \in 1..m : next[i][1] = next[j][1] => i = j
    BY ZenonT(40), <1>2, <2>2, <2>3, <2>4, <2>5
  <2>7. new = [result |-> new.result, ended |-> new.ended, failed |-> new.failed]
    BY ZenonT(40), <2>1, <2>2
  <2>8. ProvenanceInv(next, new)
    BY ZenonT(40), <1>2, <2>2, <2>6, <2>7 DEF ProvenanceInv
  <2> QED
    BY ZenonT(40), <2>8 DEF next, new
<1>7. CASE ~s.ended /\ field[1] \notin DOMAIN s.result /\ field[2] # "number" /\ field[1] # "endObject"
  <2> DEFINE r == [x \in DOMAIN s.result \union {field[1]} |-> IF x = field[1] THEN field[2] ELSE s.result[x]]
  <2>1. new = [result |-> r, ended |-> FALSE, failed |-> FALSE]
    <3>1. new = [s EXCEPT !.result = r]
      <4>1. s.failed = FALSE
        BY ZenonT(40) DEF ProvenanceInv
      <4> QED
        BY ZenonT(40), <1>7, <4>1 DEF receipt
    <3> HIDE DEF new, r
    <3> DEFINE q == s.result
               no == FALSE
    <3>2. s = [result |-> q, ended |-> no, failed |-> no]
      BY ZenonT(40), <1>1, <1>7
    <3> HIDE DEF q, no
    <3>3. new = [result |-> r, ended |-> no, failed |-> no]
      BY ZenonT(40), <3>1, <3>2
    <3> QED
      BY ZenonT(40), <3>3 DEF no
  <2>2. new.result = r /\ new.ended = FALSE /\ new.failed = FALSE
    <3> HIDE DEF r, new
    <3> QED
      BY ZenonT(40), <2>1
  <2>3. n = l /\ 1..(l + 1) = 1..l \union {l + 1} /\ l + 1 \notin 1..l
    BY SMTT(40), <1>2, <1>3, <1>7
  <2>4. DOMAIN r = {next[i][1] : i \in 1..(l + 1)}
    <3>1. \A i \in 1..n : next[i] = fields[i]
      BY ZenonT(40), <1>2, <2>3
    <3>2. {next[i][1] : i \in 1..(l + 1)} = {fields[i][1] : i \in 1..n} \union {field[1]}
      <4> HIDE DEF r, new
      <4> QED
        BY SMTT(40), <1>2, <2>3, <3>1
    <3> QED
      BY ZenonT(40), <1>3, <3>2
  <2>5. ASSUME NEW i \in 1..(l + 1) PROVE next[i][1] # "endObject" /\ r[next[i][1]] = next[i][2]
    <3>1. CASE i = l + 1
      BY ZenonT(40), <1>2, <1>7, <3>1
    <3>2. CASE i \in 1..l
      <4>1. fields[i][1] \in DOMAIN s.result /\ fields[i][1] # field[1]
        BY ZenonT(40), <1>3, <1>7, <2>3, <3>2
      <4>2. r[fields[i][1]] = s.result[fields[i][1]]
        BY ZenonT(40), <4>1
      <4> QED
        BY ZenonT(40), <1>2, <1>3, <2>3, <3>2, <4>2
    <3> QED
      BY ZenonT(40), <2>3, <3>1, <3>2
  <2>6. ASSUME NEW i \in 1..(l + 1), NEW j \in 1..(l + 1), next[i][1] = next[j][1] PROVE i = j
    <3>1. \A k \in 1..l : next[k][1] \in DOMAIN s.result /\ next[k][1] = fields[k][1]
      BY ZenonT(40), <1>2, <1>3, <2>3
    <3>2. next[l + 1][1] \notin DOMAIN s.result
      BY ZenonT(40), <1>2, <1>7
    <3>3. \A k, m \in 1..l : next[k][1] = next[m][1] => k = m
      BY ZenonT(40), <1>3, <2>3, <3>1
    <3> QED
      BY ZenonT(40), <2>3, <2>6, <3>1, <3>2, <3>3
  <2> HIDE DEF new, r
  <2>7. \E m \in {Len(next), Len(next) - 1} :
         /\ IF new.ended THEN m = Len(next) - 1 /\ m \in Nat /\ next[Len(next)][1] = "endObject" ELSE m = Len(next)
         /\ DOMAIN new.result = {next[i][1] : i \in 1..m}
         /\ \A i \in 1..m : next[i][1] # "endObject" /\ new.result[next[i][1]] = next[i][2]
         /\ \A i, j \in 1..m : next[i][1] = next[j][1] => i = j
    BY ZenonT(40), <1>2, <2>2, <2>4, <2>5, <2>6
  <2>8. new = [result |-> new.result, ended |-> new.ended, failed |-> new.failed]
    BY ZenonT(40), <2>1, <2>2
  <2>9. ProvenanceInv(next, new)
    BY ZenonT(40), <1>2, <2>2, <2>7, <2>8 DEF ProvenanceInv
  <2> QED
    BY ZenonT(40), <2>9 DEF next, new
<1> QED
  BY ZenonT(40), <1>5, <1>6, <1>7

\* A map of the wanted size that has the wanted fields has no others.
LEMMA WantedFields ==
  ASSUME NEW result, IsFiniteSet(DOMAIN result), Cardinality(DOMAIN result) = Cardinality(DOMAIN Want),
         DOMAIN Want \subseteq DOMAIN result
  PROVE  DOMAIN Want = DOMAIN result
  BY ZenonT(40), FS_Subset

\* The fields before the end, each a wanted one with its value.
LEMMA ProvenanceIsExact ==
  ASSUME NEW fields, NEW s, ProvenanceInv(fields, s)
  PROVE  ProvenanceExact(fields, s)
<1> DEFINE last == Len(fields)
           fits(order) == \A i \in 1..(last - 1) : fields[i] = <<order[i], Want[order[i]]>>
           good == /\ last # 0 /\ fields[last][1] = "endObject"
                   /\ \E order \in Bijection(1..(last - 1), DOMAIN Want) : fits(order)
<1>0. fields \in Seq(Fields) /\ last \in Nat /\ (last # 0 => last - 1 \in Nat)
  BY SMTT(40) DEF ProvenanceInv
<1>1. SUFFICES ExactProvenance(s) <=> good
  BY ZenonT(40) DEF ProvenanceExact
<1>2. ASSUME NEW order \in Bijection(1..(last - 1), DOMAIN Want), fits(order), NEW i \in 1..(last - 1)
      PROVE  /\ fields[i][1] = order[i] /\ fields[i][2] = Want[order[i]]
             /\ order[i] \in DOMAIN Want /\ fields[i][1] # "endObject"
  <2>1. fields[i] = <<order[i], Want[order[i]]>>
    BY ZenonT(40), <1>2
  <2>2. fields[i][1] = order[i] /\ fields[i][2] = Want[order[i]]
    BY SMTT(40), <2>1
  <2>3. order[i] \in DOMAIN Want
    BY ZenonT(40) DEF Bijection, Injection
  <2>4. "endObject" \notin DOMAIN Want
    BY ZenonT(40), GatesAssumption
  <2> QED
    BY ZenonT(40), <2>2, <2>3, <2>4
<1>3. CASE s.failed
  <2>1. ~ExactProvenance(s)
    BY ZenonT(40), <1>3 DEF ExactProvenance
  <2>2. fields[last][1] # "endObject" \/ \E i \in 1..(last - 1) : fields[i][1] = "endObject"
    BY ZenonT(40), <1>3 DEF ProvenanceInv
  <2>3. ~good
    BY ZenonT(40), <1>2, <2>2
  <2> HIDE DEF good
  <2> QED
    BY ZenonT(40), <2>1, <2>3
<1>4. CASE ~s.failed /\ ~s.ended
  <2>1. ~ExactProvenance(s)
    BY ZenonT(40), <1>4 DEF ExactProvenance
  <2>2. \A i \in 1..last : fields[i][1] # "endObject"
    BY ZenonT(40), <1>4 DEF ProvenanceInv
  <2>3. last # 0 => last \in 1..last
    BY SMTT(40), <1>0
  <2>4. ~good
    BY ZenonT(40), <2>2, <2>3
  <2> HIDE DEF good
  <2> QED
    BY ZenonT(40), <2>1, <2>4
<1>5. CASE ~s.failed /\ s.ended
  <2> DEFINE n == last - 1
  <2>1. /\ n \in Nat /\ fields[last][1] = "endObject"
        /\ DOMAIN s.result = {fields[i][1] : i \in 1..n}
        /\ \A i \in 1..n : fields[i][1] # "endObject" /\ s.result[fields[i][1]] = fields[i][2]
        /\ \A i, j \in 1..n : fields[i][1] = fields[j][1] => i = j
    BY ZenonT(40), <1>5 DEF ProvenanceInv
  <2>2. last # 0
    BY SMTT(40), <2>1
  <2>3. \A i \in 1..n : fields[i] \in Fields
    BY SMTT(40), <1>0, <2>1
  <2> HIDE DEF n, last
  <2> DEFINE name == [i \in 1..n |-> fields[i][1]]
  <2>4. name \in Bijection(1..n, DOMAIN s.result)
    <3>1. name \in [1..n -> DOMAIN s.result]
      BY ZenonT(40), <2>1
    <3>2. \A i, j \in 1..n : name[i] = name[j] => i = j
      BY ZenonT(40), <2>1
    <3>3. \A t \in DOMAIN s.result : \E i \in 1..n : name[i] = t
      BY ZenonT(40), <2>1
    <3> HIDE DEF name
    <3> QED
      BY ZenonT(40), <3>1, <3>2, <3>3 DEF Bijection, Injection, Surjection, IsInjective
  <2>5. IsFiniteSet(DOMAIN s.result)
    <3>1. ExistsBijection(1..n, DOMAIN s.result)
      BY ZenonT(40), <2>4 DEF ExistsBijection
    <3> QED
      BY ZenonT(40), <2>1, <3>1, FS_NatBijection
  <2>6. ASSUME ExactProvenance(s) PROVE good
    <3>1. \A x \in DOMAIN Want : x \in DOMAIN s.result /\ s.result[x] = Want[x]
      <4> TAKE x \in DOMAIN Want
      <4>1. Want[x] = IF x \in DOMAIN s.result THEN s.result[x] ELSE ""
        BY ZenonT(40), <2>6 DEF ExactProvenance
      <4>2. Want[x] # ""
        BY ZenonT(40), GatesAssumption
      <4> QED
        BY ZenonT(40), <4>1, <4>2
    <3>2. DOMAIN Want = DOMAIN s.result
      BY ZenonT(40), <2>5, <2>6, <3>1, WantedFields DEF ExactProvenance
    <3>3. ASSUME NEW i \in 1..n PROVE fields[i] = <<name[i], Want[name[i]]>>
      <4>1. name[i] = fields[i][1] /\ name[i] \in DOMAIN s.result
        BY ZenonT(40), <2>1
      <4>2. Want[name[i]] = fields[i][2]
        BY ZenonT(40), <2>1, <3>1, <3>2, <4>1
      <4>3. fields[i] = <<fields[i][1], fields[i][2]>>
        BY ZenonT(40), <2>3, FieldFacts
      <4> HIDE DEF name
      <4> QED
        BY ZenonT(40), <4>1, <4>2, <4>3
    <3> HIDE DEF name
    <3> QED
      BY ZenonT(40), <2>1, <2>2, <2>4, <3>2, <3>3 DEF n
  <2>7. ASSUME good PROVE ExactProvenance(s)
    <3>1. PICK order \in Bijection(1..n, DOMAIN Want) : \A i \in 1..n : fields[i] = <<order[i], Want[order[i]]>>
      BY ZenonT(40), <2>7 DEF n
    <3>2. \A i \in 1..n : fields[i][1] = order[i] /\ fields[i][2] = Want[order[i]] /\ order[i] \in DOMAIN Want
      BY ZenonT(40), <1>2, <3>1 DEF n
    <3>3. \A x \in DOMAIN Want : \E i \in 1..n : order[i] = x
      BY ZenonT(40) DEF Bijection, Surjection
    <3>4. \A x \in DOMAIN Want : x \in DOMAIN s.result /\ s.result[x] = Want[x]
      <4> TAKE x \in DOMAIN Want
      <4>1. PICK i \in 1..n : order[i] = x
        BY ZenonT(40), <3>3
      <4>2. fields[i][1] = x /\ fields[i][2] = Want[x]
        BY ZenonT(40), <3>2, <4>1
      <4>3. fields[i][1] \in DOMAIN s.result /\ s.result[fields[i][1]] = fields[i][2]
        BY ZenonT(40), <2>1
      <4> QED
        BY ZenonT(40), <4>2, <4>3
    <3>5. DOMAIN s.result = DOMAIN Want
      <4>1. \A x \in DOMAIN s.result : x \in DOMAIN Want
        <5> TAKE x \in DOMAIN s.result
        <5>1. PICK i \in 1..n : x = fields[i][1]
          BY ZenonT(40), <2>1
        <5> QED
          BY ZenonT(40), <3>2, <5>1
      <4> QED
        BY ZenonT(40), <3>4, <4>1
    <3> QED
      BY ZenonT(40), <1>5, <3>4, <3>5 DEF ExactProvenance
  <2> HIDE DEF good
  <2> QED
    BY ZenonT(40), <2>6, <2>7
<1> QED
  BY ZenonT(40), <1>3, <1>4, <1>5

-----------------------------------------------------------------------------
(* The messages of a report *)

\* The local variables of checkReport.
Scan(rejected, configs, sboms, ids, osvs, findings) ==
  [rejected |-> rejected, configs |-> configs, sboms |-> sboms, ids |-> ids, osvs |-> osvs, findings |-> findings]

\* A scan that goes on.
GoingOn(s, c, b, ids, osvs, fs) == s = Scan(FALSE, c, b, ids, osvs, fs)

\* When the loop of checkReport refuses a message.
Refused(c, b, fs, message) ==
  \/ c = 0 /\ message.kind # "config"
  \/ ~message.good
  \/ message.kind = "config" /\ (c # 0 \/ b # 0 \/ fs # <<>>)
  \/ message.kind = "SBOM" /\ (c # 1 \/ b # 0)
  \/ message.kind = "finding" /\ (c # 1 \/ b # 1)
  \/ message.kind = "unknown"

\* What a message that is not refused adds.
Added(c, b, ids, osvs, fs, message, new) ==
  CASE message.kind = "config" -> new = Scan(FALSE, c + 1, b, ids, osvs, fs)
    [] message.kind = "SBOM" -> new = Scan(FALSE, c, b + 1, ids, osvs, fs)
    [] message.kind = "finding" ->
         new = Scan(FALSE, c, b, ids \union {message.osv}, osvs,
                    Append(fs, [osv |-> message.osv, tuple |-> message.tuple]))
    [] message.kind = "osv" -> new = Scan(FALSE, c, b, ids, osvs \union {message.osv}, fs)
    [] OTHER -> new = Scan(FALSE, c, b, ids, osvs, fs)

\* The kinds of a message.
LEMMA MessageKinds ==
  ASSUME NEW message \in Messages
  PROVE  /\ message.kind \in {"config", "SBOM", "progress", "unknown", "finding", "osv"} /\ message.good \in BOOLEAN
         /\ message.kind \in {"finding", "osv"} => message.osv \in Osvs
         /\ message.kind = "finding" => message.tuple \in Tuples
  BY ZenonT(40) DEF Messages

\* One message of the loop of checkReport.
LEMMA MessageResult ==
  ASSUME NEW c, NEW b, NEW ids, NEW osvs, NEW fs, NEW s, GoingOn(s, c, b, ids, osvs, fs),
         NEW message \in Messages
  PROVE  IF Refused(c, b, fs, message) THEN Message(s, message) = Scan(TRUE, c, b, ids, osvs, fs)
         ELSE Added(c, b, ids, osvs, fs, message, Message(s, message))
<1> DEFINE new == Message(s, message)
           no == FALSE
           yes == TRUE
           finding == [osv |-> message.osv, tuple |-> message.tuple]
           fs1 == Append(fs, finding)
<1>1. /\ s.configs = c /\ s.sboms = b /\ s.ids = ids /\ s.osvs = osvs /\ s.findings = fs
  <2>1. s = Scan(no, c, b, ids, osvs, fs)
    BY ZenonT(40) DEF GoingOn
  <2> HIDE DEF no
  <2> QED
    BY ZenonT(40), <2>1 DEF Scan
<1>2. Reject(s) = Scan(TRUE, c, b, ids, osvs, fs)
  <2>1. s = Scan(no, c, b, ids, osvs, fs) /\ Reject(s) = [s EXCEPT !.rejected = yes]
    BY ZenonT(40) DEF Reject, GoingOn
  <2> HIDE DEF no, yes
  <2>2. [Scan(no, c, b, ids, osvs, fs) EXCEPT !.rejected = yes] = Scan(yes, c, b, ids, osvs, fs)
    BY SMTT(40) DEF Scan
  <2> QED
    BY ZenonT(40), <2>1, <2>2 DEF yes
<1>3. /\ [s EXCEPT !.configs = s.configs + 1] = Scan(FALSE, c + 1, b, ids, osvs, fs)
      /\ [s EXCEPT !.sboms = s.sboms + 1] = Scan(FALSE, c, b + 1, ids, osvs, fs)
      /\ [s EXCEPT !.osvs = s.osvs \union {message.osv}] = Scan(FALSE, c, b, ids, osvs \union {message.osv}, fs)
      /\ [s EXCEPT !.ids = s.ids \union {message.osv}, !.findings = fs1]
           = Scan(FALSE, c, b, ids \union {message.osv}, osvs, fs1)
  <2> DEFINE c1 == c + 1
             b1 == b + 1
             o1 == osvs \union {message.osv}
             i1 == ids \union {message.osv}
  <2>1. s = Scan(no, c, b, ids, osvs, fs)
    BY ZenonT(40) DEF GoingOn
  <2> HIDE DEF no, fs1, c1, b1, o1, i1
  <2>2. [Scan(no, c, b, ids, osvs, fs) EXCEPT !.configs = c1] = Scan(no, c1, b, ids, osvs, fs)
    BY SMTT(40) DEF Scan
  <2>3. [Scan(no, c, b, ids, osvs, fs) EXCEPT !.sboms = b1] = Scan(no, c, b1, ids, osvs, fs)
    BY SMTT(40) DEF Scan
  <2>4. [Scan(no, c, b, ids, osvs, fs) EXCEPT !.osvs = o1] = Scan(no, c, b, ids, o1, fs)
    BY SMTT(40) DEF Scan
  <2>5. [Scan(no, c, b, ids, osvs, fs) EXCEPT !.ids = i1] = Scan(no, c, b, i1, osvs, fs)
    BY SMTT(40) DEF Scan
  <2>6. [Scan(no, c, b, i1, osvs, fs) EXCEPT !.findings = fs1] = Scan(no, c, b, i1, osvs, fs1)
    BY SMTT(40) DEF Scan
  <2>7. [s EXCEPT !.configs = s.configs + 1] = Scan(FALSE, c + 1, b, ids, osvs, fs)
    BY ZenonT(40), <1>1, <2>1, <2>2 DEF no, c1
  <2>8. [s EXCEPT !.sboms = s.sboms + 1] = Scan(FALSE, c, b + 1, ids, osvs, fs)
    BY ZenonT(40), <1>1, <2>1, <2>3 DEF no, b1
  <2>9. [s EXCEPT !.osvs = s.osvs \union {message.osv}] = Scan(FALSE, c, b, ids, osvs \union {message.osv}, fs)
    BY ZenonT(40), <1>1, <2>1, <2>4 DEF no, o1
  <2>10. [s EXCEPT !.ids = s.ids \union {message.osv}, !.findings = fs1]
           = Scan(FALSE, c, b, ids \union {message.osv}, osvs, fs1)
    BY ZenonT(40), <1>1, <2>1, <2>5, <2>6 DEF no, i1
  <2> QED
    BY ZenonT(40), <2>7, <2>8, <2>9, <2>10
<1>4. message.kind \in {"config", "SBOM", "progress", "unknown", "finding", "osv"} /\ message.good \in BOOLEAN
  BY ZenonT(40), MessageKinds
<1>5. CASE c = 0 /\ message.kind # "config"
  BY ZenonT(40), <1>1, <1>2, <1>5 DEF Message, Refused
<1>6. CASE ~(c = 0 /\ message.kind # "config")
  <2>1. CASE message.kind = "config"
    <3>1. new = Config(s, message)
      BY ZenonT(40), <1>1, <2>1 DEF Message
    <3>2. CASE c # 0 \/ b # 0 \/ fs # <<>> \/ ~message.good
      <4>1. Refused(c, b, fs, message)
        BY ZenonT(40), <2>1, <3>2 DEF Refused
      <4> QED
        BY ZenonT(40), <1>1, <1>2, <3>1, <3>2, <4>1 DEF Config
    <3>3. CASE ~(c # 0 \/ b # 0 \/ fs # <<>> \/ ~message.good)
      <4>1. ~Refused(c, b, fs, message)
        BY ZenonT(40), <2>1, <3>3 DEF Refused
      <4>2. new = [s EXCEPT !.configs = s.configs + 1]
        BY ZenonT(40), <1>1, <3>1, <3>3 DEF Config
      <4> QED
        BY ZenonT(40), <1>3, <2>1, <4>1, <4>2 DEF Added
    <3> QED
      BY ZenonT(40), <3>2, <3>3
  <2>2. CASE message.kind = "SBOM"
    <3>1. new = SBOM(s, message)
      BY ZenonT(40), <1>1, <1>6, <2>2 DEF Message
    <3>2. CASE c # 1 \/ b # 0 \/ ~message.good
      <4>1. Refused(c, b, fs, message)
        BY ZenonT(40), <2>2, <3>2 DEF Refused
      <4> QED
        BY ZenonT(40), <1>1, <1>2, <3>1, <3>2, <4>1 DEF SBOM
    <3>3. CASE ~(c # 1 \/ b # 0 \/ ~message.good)
      <4>1. ~Refused(c, b, fs, message)
        BY ZenonT(40), <1>6, <2>2, <3>3 DEF Refused
      <4>2. new = [s EXCEPT !.sboms = s.sboms + 1]
        BY ZenonT(40), <1>1, <3>1, <3>3 DEF SBOM
      <4> QED
        BY ZenonT(40), <1>3, <2>2, <4>1, <4>2 DEF Added
    <3> QED
      BY ZenonT(40), <3>2, <3>3
  <2>3. CASE message.kind = "finding"
    <3>1. new = Finding(s, message)
      BY ZenonT(40), <1>1, <1>6, <2>3 DEF Message
    <3>2. CASE ~message.good \/ c # 1 \/ b # 1
      <4>1. Refused(c, b, fs, message)
        BY ZenonT(40), <2>3, <3>2 DEF Refused
      <4> QED
        BY ZenonT(40), <1>1, <1>2, <3>1, <3>2, <4>1 DEF Finding
    <3>3. CASE ~(~message.good \/ c # 1 \/ b # 1)
      <4>1. ~Refused(c, b, fs, message)
        BY ZenonT(40), <1>6, <2>3, <3>3 DEF Refused
      <4>2. new = [s EXCEPT !.ids = s.ids \union {message.osv}, !.findings = Append(s.findings, finding)]
        BY ZenonT(40), <1>1, <3>1, <3>3 DEF Finding
      <4> QED
        BY ZenonT(40), <1>1, <1>3, <2>3, <4>1, <4>2 DEF Added
    <3> QED
      BY ZenonT(40), <3>2, <3>3
  <2>4. CASE message.kind = "osv"
    <3>1. new = OSV(s, message)
      BY ZenonT(40), <1>1, <1>6, <2>4 DEF Message
    <3>2. CASE ~message.good
      <4>1. Refused(c, b, fs, message)
        BY ZenonT(40), <3>2 DEF Refused
      <4> QED
        BY ZenonT(40), <1>1, <1>2, <3>1, <3>2, <4>1 DEF OSV
    <3>3. CASE message.good
      <4>1. ~Refused(c, b, fs, message)
        BY ZenonT(40), <1>6, <2>4, <3>3 DEF Refused
      <4>2. new = [s EXCEPT !.osvs = s.osvs \union {message.osv}]
        BY ZenonT(40), <1>1, <3>1, <3>3 DEF OSV
      <4> QED
        BY ZenonT(40), <1>3, <2>4, <4>1, <4>2 DEF Added
    <3> QED
      BY ZenonT(40), <3>2, <3>3
  <2>5. CASE message.kind = "progress" /\ message.good
    <3>1. new = s
      BY ZenonT(40), <1>1, <1>6, <2>5 DEF Message
    <3>2. ~Refused(c, b, fs, message)
      BY ZenonT(40), <1>6, <2>5 DEF Refused
    <3> QED
      BY ZenonT(40), <2>5, <3>1, <3>2 DEF Added, GoingOn
  <2>6. CASE message.kind = "unknown" \/ (message.kind = "progress" /\ ~message.good)
    <3>1. new = Reject(s)
      BY ZenonT(40), <1>1, <1>6, <2>6 DEF Message
    <3>2. Refused(c, b, fs, message)
      BY ZenonT(40), <2>6 DEF Refused
    <3> QED
      BY ZenonT(40), <1>2, <3>1, <3>2
  <2> QED
    BY ZenonT(40), <1>4, <2>1, <2>2, <2>3, <2>4, <2>5, <2>6
<1> QED
  BY ZenonT(40), <1>5, <1>6

\* A finding, as it is reported.
Reported == [osv : Osvs, tuple : Tuples]

\* The places of the messages of a kind.
Kinds(report, kind) == {i \in DOMAIN report : report[i].kind = kind}

\* What a message says of a finding.
Said(message) == [osv |-> message.osv, tuple |-> message.tuple]

\* A report whose messages are in the order that checkReport wants.
InOrder(report) ==
  /\ \A i \in DOMAIN report : report[i].kind = "config" <=> i = 1
  /\ \A i \in DOMAIN report : report[i].kind # "unknown" /\ report[i].good
  /\ \A i, j \in DOMAIN report : report[i].kind = "SBOM" /\ report[j].kind = "SBOM" => i = j
  /\ \A i \in DOMAIN report : report[i].kind = "finding" =>
       \E j \in DOMAIN report : report[j].kind = "SBOM" /\ j < i

\* The findings are those of the messages, one for one.
FoundIn(report, fs) ==
  \E place \in Bijection(DOMAIN fs, Kinds(report, "finding")) : \A k \in DOMAIN fs : fs[k] = Said(report[place[k]])

\* What checkReport has of the messages so far, or that it has refused them.
ReportInv(report, s) ==
  /\ report \in Seq(Messages)
  /\ s.rejected \in BOOLEAN
  /\ s.rejected => ~InOrder(report)
  /\ ~s.rejected =>
       /\ GoingOn(s, s.configs, s.sboms, s.ids, s.osvs, s.findings)
       /\ InOrder(report)
       /\ s.configs = IF report = <<>> THEN 0 ELSE 1
       /\ s.sboms = IF Kinds(report, "SBOM") = {} THEN 0 ELSE 1
       /\ s.ids = {report[i].osv : i \in Kinds(report, "finding")}
       /\ s.osvs = {report[i].osv : i \in Kinds(report, "osv")}
       /\ s.findings \in Seq(Reported)
       /\ FoundIn(report, s.findings)

\* The messages of a kind, with one more message.
LEMMA OneMoreMessage ==
  ASSUME NEW report \in Seq(Messages), NEW message \in Messages
  PROVE  /\ Append(report, message) \in Seq(Messages) /\ Append(report, message) # <<>>
         /\ Len(report) \in Nat /\ DOMAIN report = 1..Len(report) /\ Len(report) + 1 \notin 1..Len(report)
         /\ DOMAIN Append(report, message) = 1..Len(report) \union {Len(report) + 1}
         /\ Append(report, message)[Len(report) + 1] = message
         /\ \A i \in 1..Len(report) : Append(report, message)[i] = report[i] /\ i < Len(report) + 1
         /\ \A kind : Kinds(Append(report, message), kind)
                        = Kinds(report, kind) \union (IF message.kind = kind THEN {Len(report) + 1} ELSE {})
<1> DEFINE next == Append(report, message)
           l == Len(report)
<1>1. /\ next \in Seq(Messages) /\ next # <<>>
      /\ l \in Nat /\ DOMAIN report = 1..l /\ l + 1 \notin 1..l
      /\ DOMAIN next = 1..l \union {l + 1}
      /\ next[l + 1] = message
      /\ \A i \in 1..l : next[i] = report[i] /\ i < l + 1
  BY SMTT(40) DEF Messages
<1> HIDE DEF next, l
<1>2. ASSUME NEW kind
      PROVE  Kinds(next, kind) = Kinds(report, kind) \union (IF message.kind = kind THEN {l + 1} ELSE {})
  BY ZenonT(40), <1>1 DEF Kinds
<1> QED
  BY ZenonT(40), <1>1, <1>2 DEF next, l

\* A message is refused exactly when it breaks the order.
LEMMA OrderStep ==
  ASSUME NEW report \in Seq(Messages), NEW message \in Messages, InOrder(report), NEW c, NEW b, NEW fs,
         c = IF report = <<>> THEN 0 ELSE 1, b = IF Kinds(report, "SBOM") = {} THEN 0 ELSE 1,
         report = <<>> => fs = <<>>
  PROVE  InOrder(Append(report, message)) <=> ~Refused(c, b, fs, message)
<1> DEFINE next == Append(report, message)
           l == Len(report)
<1>1. /\ l \in Nat /\ DOMAIN report = 1..l /\ l + 1 \notin 1..l
      /\ DOMAIN next = 1..l \union {l + 1}
      /\ next[l + 1] = message
      /\ \A i \in 1..l : next[i] = report[i] /\ i < l + 1
  BY ZenonT(40), OneMoreMessage
<1>2. /\ c = IF l = 0 THEN 0 ELSE 1
      /\ report = <<>> <=> l = 0
  BY SMTT(40), <1>1
<1>3. b = IF \E i \in 1..l : report[i].kind = "SBOM" THEN 1 ELSE 0
  BY ZenonT(40), <1>1 DEF Kinds
<1>4. l = 0 => b = 0 /\ fs = <<>>
  BY SMTT(40), <1>1, <1>2, <1>3
<1>5. message.kind \in {"config", "SBOM", "progress", "unknown", "finding", "osv"} /\ message.good \in BOOLEAN
  BY ZenonT(40), MessageKinds
<1>6. /\ \A i \in 1..l : report[i].kind = "config" <=> i = 1
      /\ \A i \in 1..l : report[i].kind # "unknown" /\ report[i].good
      /\ \A i, j \in 1..l : report[i].kind = "SBOM" /\ report[j].kind = "SBOM" => i = j
      /\ \A i \in 1..l : report[i].kind = "finding" => \E j \in 1..l : report[j].kind = "SBOM" /\ j < i
  BY ZenonT(40), <1>1 DEF InOrder
<1> HIDE DEF next, l
<1>7. (\A i \in DOMAIN next : next[i].kind = "config" <=> i = 1) <=> (message.kind = "config" <=> l = 0)
  <2>1. l + 1 = 1 <=> l = 0
    BY SMTT(40), <1>1
  <2>2. l + 1 \in DOMAIN next
    BY ZenonT(40), <1>1
  <2> QED
    BY ZenonT(40), <1>1, <1>6, <2>1, <2>2
<1>8. (\A i \in DOMAIN next : next[i].kind # "unknown" /\ next[i].good) <=> message.kind # "unknown" /\ message.good
  BY ZenonT(40), <1>1, <1>6
<1>9. (\A i, j \in DOMAIN next : next[i].kind = "SBOM" /\ next[j].kind = "SBOM" => i = j)
        <=> (message.kind = "SBOM" => b = 0)
  <2>1. CASE message.kind = "SBOM" /\ b # 0
    <3>1. PICK i \in 1..l : report[i].kind = "SBOM"
      BY ZenonT(40), <1>3, <2>1
    <3>2. i # l + 1 /\ i \in DOMAIN next /\ l + 1 \in DOMAIN next /\ next[i].kind = "SBOM" /\ next[l + 1].kind = "SBOM"
      BY ZenonT(40), <1>1, <2>1, <3>1
    <3> QED
      BY ZenonT(40), <2>1, <3>2
  <2>2. CASE message.kind = "SBOM" /\ b = 0
    <3>1. \A i \in 1..l : report[i].kind # "SBOM"
      BY SMTT(40), <1>3, <2>2
    <3> QED
      BY ZenonT(40), <1>1, <2>2, <3>1
  <2>3. CASE message.kind # "SBOM"
    BY ZenonT(40), <1>1, <1>6, <2>3
  <2> QED
    BY ZenonT(40), <2>1, <2>2, <2>3
<1>10. (\A i \in DOMAIN next : next[i].kind = "finding" => \E j \in DOMAIN next : next[j].kind = "SBOM" /\ j < i)
         <=> (message.kind = "finding" => b = 1)
  <2>1. ASSUME NEW i \in 1..l, next[i].kind = "finding"
        PROVE  \E j \in DOMAIN next : next[j].kind = "SBOM" /\ j < i
    <3>1. PICK j \in 1..l : report[j].kind = "SBOM" /\ j < i
      BY ZenonT(40), <1>1, <1>6, <2>1
    <3>2. j \in DOMAIN next /\ next[j].kind = "SBOM"
      BY ZenonT(40), <1>1, <3>1
    <3> QED
      BY ZenonT(40), <3>1, <3>2
  <2>2. (\E j \in DOMAIN next : next[j].kind = "SBOM" /\ j < l + 1) <=> b = 1
    <3>1. ~(l + 1 < l + 1)
      BY SMTT(40), <1>1
    <3>2. CASE \E i \in 1..l : report[i].kind = "SBOM"
      <4>1. PICK i \in 1..l : report[i].kind = "SBOM"
        BY ZenonT(40), <3>2
      <4>2. i \in DOMAIN next /\ next[i].kind = "SBOM" /\ i < l + 1
        BY ZenonT(40), <1>1, <4>1
      <4>3. b = 1
        BY ZenonT(40), <1>3, <3>2
      <4> QED
        BY ZenonT(40), <4>2, <4>3
    <3>3. CASE ~\E i \in 1..l : report[i].kind = "SBOM"
      <4>1. b # 1
        BY SMTT(40), <1>3, <3>3
      <4>2. ASSUME NEW j \in DOMAIN next, next[j].kind = "SBOM" /\ j < l + 1 PROVE FALSE
        BY ZenonT(40), <1>1, <3>1, <3>3, <4>2
      <4> QED
        BY ZenonT(40), <4>1, <4>2
    <3> QED
      BY ZenonT(40), <3>2, <3>3
  <2>3. l + 1 \in DOMAIN next
    BY ZenonT(40), <1>1
  <2>4. CASE message.kind = "finding"
    BY ZenonT(40), <1>1, <2>1, <2>2, <2>3, <2>4
  <2>5. CASE message.kind # "finding"
    BY ZenonT(40), <1>1, <2>1, <2>5
  <2> QED
    BY ZenonT(40), <2>4, <2>5
<1>11. InOrder(next) <=> /\ message.kind = "config" <=> l = 0
                         /\ message.kind # "unknown" /\ message.good
                         /\ message.kind = "SBOM" => b = 0
                         /\ message.kind = "finding" => b = 1
  BY ZenonT(40), <1>7, <1>8, <1>9, <1>10 DEF InOrder
<1>12. ((c = 0 <=> l = 0) /\ (c = 1 <=> l # 0)) /\ (b = 0 \/ b = 1) /\ 0 # 1
  BY SMTT(40), <1>1, <1>2, <1>3
<1>13. (/\ message.kind = "config" <=> l = 0
        /\ message.kind # "unknown" /\ message.good
        /\ message.kind = "SBOM" => b = 0
        /\ message.kind = "finding" => b = 1) <=> ~Refused(c, b, fs, message)
  BY ZenonT(40), <1>4, <1>12 DEF Refused
<1> QED
  BY ZenonT(40), <1>11, <1>13 DEF next

\* The findings stay those of the messages.
LEMMA FoundStep ==
  ASSUME NEW report \in Seq(Messages), NEW message \in Messages, NEW fs \in Seq(Reported), FoundIn(report, fs)
  PROVE  /\ message.kind # "finding" => FoundIn(Append(report, message), fs)
         /\ message.kind = "finding" => /\ Append(fs, Said(message)) \in Seq(Reported)
                                        /\ FoundIn(Append(report, message), Append(fs, Said(message)))
<1> DEFINE next == Append(report, message)
           l == Len(report)
           n == Len(fs)
           old == Kinds(report, "finding")
<1>1. /\ l \in Nat /\ DOMAIN report = 1..l /\ l + 1 \notin 1..l
      /\ next[l + 1] = message
      /\ \A i \in 1..l : next[i] = report[i]
      /\ Kinds(next, "finding") = old \union (IF message.kind = "finding" THEN {l + 1} ELSE {})
  <2>1. /\ l \in Nat /\ DOMAIN report = 1..l /\ l + 1 \notin 1..l
        /\ next[l + 1] = message
        /\ \A i \in 1..l : next[i] = report[i] /\ i < l + 1
        /\ \A x : Kinds(next, x) = Kinds(report, x) \union (IF message.kind = x THEN {l + 1} ELSE {})
    BY ZenonT(40), OneMoreMessage
  <2> HIDE DEF next, l
  <2> QED
    BY ZenonT(40), <2>1
<1>2. PICK place \in Bijection(DOMAIN fs, old) : \A k \in DOMAIN fs : fs[k] = Said(report[place[k]])
  BY ZenonT(40) DEF FoundIn
<1>3. /\ place \in [DOMAIN fs -> old]
      /\ \A j, k \in DOMAIN fs : place[j] = place[k] => j = k
      /\ \A i \in old : \E k \in DOMAIN fs : place[k] = i
  BY ZenonT(40) DEF Bijection, Injection, Surjection, IsInjective
<1>4. \A k \in DOMAIN fs : place[k] \in 1..l /\ place[k] \in old
  BY ZenonT(40), <1>1, <1>3 DEF Kinds
<1> HIDE DEF next, l
<1>5. ASSUME message.kind # "finding" PROVE FoundIn(next, fs)
  <2>1. Kinds(next, "finding") = old
    BY ZenonT(40), <1>1, <1>5
  <2>2. \A k \in DOMAIN fs : fs[k] = Said(next[place[k]])
    BY ZenonT(40), <1>1, <1>2, <1>4
  <2> QED
    BY ZenonT(40), <2>1, <2>2 DEF FoundIn
<1>6. ASSUME message.kind = "finding"
      PROVE  Append(fs, Said(message)) \in Seq(Reported) /\ FoundIn(next, Append(fs, Said(message)))
  <2> DEFINE said == Said(message)
             more == Append(fs, said)
             there == [k \in DOMAIN more |-> IF k \in DOMAIN fs THEN place[k] ELSE l + 1]
             new == Kinds(next, "finding")
  <2>1. said \in Reported
    BY ZenonT(40), <1>6, MessageKinds DEF Said, Reported
  <2>2. new = old \union {l + 1}
    BY ZenonT(40), <1>1, <1>6
  <2> HIDE DEF said, new
  <2>3. /\ more \in Seq(Reported) /\ DOMAIN fs = 1..n /\ DOMAIN more = DOMAIN fs \union {n + 1} /\ n + 1 \notin DOMAIN fs
        /\ more[n + 1] = said /\ \A k \in DOMAIN fs : more[k] = fs[k]
    BY SMTT(40), <2>1
  <2> HIDE DEF more, n, old
  <2>4. there[n + 1] = l + 1 /\ \A k \in DOMAIN fs : there[k] = place[k]
    BY ZenonT(40), <2>3
  <2>5. there \in [DOMAIN more -> new]
    BY ZenonT(40), <1>4, <2>2, <2>3
  <2> HIDE DEF there
  <2>6. \A j, k \in DOMAIN more : there[j] = there[k] => j = k
    <3> TAKE j, k \in DOMAIN more
    <3> HAVE there[j] = there[k]
    <3>1. \A i \in DOMAIN fs : there[i] # there[n + 1]
      BY ZenonT(40), <1>1, <1>4, <2>4
    <3>2. CASE j \in DOMAIN fs /\ k \in DOMAIN fs
      BY ZenonT(40), <1>3, <2>4, <3>2
    <3>3. CASE j = n + 1 \/ k = n + 1
      BY ZenonT(40), <2>3, <3>1, <3>3
    <3> QED
      BY ZenonT(40), <2>3, <3>2, <3>3
  <2>7. \A i \in new : \E k \in DOMAIN more : there[k] = i
    <3> TAKE i \in new
    <3>1. CASE i = l + 1
      BY ZenonT(40), <2>3, <2>4, <3>1
    <3>2. CASE i \in old
      <4>1. PICK k \in DOMAIN fs : place[k] = i
        BY ZenonT(40), <1>3, <3>2
      <4> QED
        BY ZenonT(40), <2>3, <2>4, <4>1
    <3> QED
      BY ZenonT(40), <2>2, <3>1, <3>2
  <2>8. there \in Bijection(DOMAIN more, new)
    BY ZenonT(40), <2>5, <2>6, <2>7, MakesBijection
  <2>9. ASSUME NEW k \in DOMAIN more PROVE more[k] = Said(next[there[k]])
    <3>1. CASE k = n + 1
      BY ZenonT(40), <1>1, <2>3, <2>4, <3>1 DEF said
    <3>2. CASE k \in DOMAIN fs
      <4>1. next[there[k]] = report[place[k]]
        BY ZenonT(40), <1>1, <1>4, <2>4, <3>2
      <4> QED
        BY ZenonT(40), <1>2, <2>3, <3>2, <4>1
    <3> QED
      BY ZenonT(40), <2>3, <3>1, <3>2
  <2>10. FoundIn(next, more)
    BY ZenonT(40), <2>8, <2>9 DEF FoundIn, new
  <2> QED
    BY ZenonT(40), <2>3, <2>10 DEF more, said
<1> QED
  BY ZenonT(40), <1>5, <1>6 DEF next

\* The advisories of the messages of a kind, with one more message.
LEMMA OneMoreAdvisory ==
  ASSUME NEW report \in Seq(Messages), NEW message \in Messages, NEW kind
  PROVE  {Append(report, message)[i].osv : i \in Kinds(Append(report, message), kind)}
           = {report[i].osv : i \in Kinds(report, kind)} \union (IF message.kind = kind THEN {message.osv} ELSE {})
<1> DEFINE next == Append(report, message)
           l == Len(report)
           new == {next[i].osv : i \in Kinds(next, kind)}
           old == {report[i].osv : i \in Kinds(report, kind)}
<1>1. /\ l \in Nat /\ DOMAIN report = 1..l /\ l + 1 \notin 1..l
      /\ next[l + 1] = message
      /\ \A i \in 1..l : next[i] = report[i]
      /\ Kinds(next, kind) = Kinds(report, kind) \union (IF message.kind = kind THEN {l + 1} ELSE {})
  <2>1. /\ l \in Nat /\ DOMAIN report = 1..l /\ l + 1 \notin 1..l
        /\ next[l + 1] = message
        /\ \A i \in 1..l : next[i] = report[i] /\ i < l + 1
        /\ \A x : Kinds(next, x) = Kinds(report, x) \union (IF message.kind = x THEN {l + 1} ELSE {})
    BY ZenonT(40), OneMoreMessage
  <2> HIDE DEF next, l
  <2> QED
    BY ZenonT(40), <2>1
<1>2. \A i \in Kinds(report, kind) : i \in 1..l
  BY ZenonT(40), <1>1 DEF Kinds
<1> HIDE DEF next, l
<1>3. \A i \in Kinds(report, kind) : next[i].osv = report[i].osv
  BY ZenonT(40), <1>1, <1>2
<1>4. CASE message.kind # kind
  BY ZenonT(40), <1>1, <1>3, <1>4 DEF next
<1>5. CASE message.kind = kind
  <2>1. Kinds(next, kind) = Kinds(report, kind) \union {l + 1} /\ next[l + 1].osv = message.osv
    BY ZenonT(40), <1>1, <1>5
  <2>2. {next[i].osv : i \in Kinds(next, kind)} = {report[i].osv : i \in Kinds(report, kind)} \union {message.osv}
    BY ZenonT(40), <1>3, <2>1
  <2> QED
    BY ZenonT(40), <1>5, <2>2 DEF next
<1> QED
  BY ZenonT(40), <1>4, <1>5

\* A message is refused, or what it says is added.
LEMMA ReportStep ==
  ASSUME NEW report, NEW s, ReportInv(report, s), ~s.rejected, NEW message \in Messages
  PROVE  ReportInv(Append(report, message), Message(s, message))
<1> DEFINE next == Append(report, message)
           new == Message(s, message)
           c == s.configs
           b == s.sboms
           ids == s.ids
           osvs == s.osvs
           fs == s.findings
           kind == message.kind
<1>1. /\ report \in Seq(Messages)
      /\ GoingOn(s, c, b, ids, osvs, fs)
      /\ InOrder(report)
      /\ c = IF report = <<>> THEN 0 ELSE 1
      /\ b = IF Kinds(report, "SBOM") = {} THEN 0 ELSE 1
      /\ ids = {report[i].osv : i \in Kinds(report, "finding")}
      /\ osvs = {report[i].osv : i \in Kinds(report, "osv")}
      /\ fs \in Seq(Reported)
      /\ FoundIn(report, fs)
  BY ZenonT(40) DEF ReportInv
<1>2. next \in Seq(Messages) /\ next # <<>> /\ Len(report) + 1 \in Nat
      /\ \A x : Kinds(next, x) = Kinds(report, x) \union (IF kind = x THEN {Len(report) + 1} ELSE {})
  <2>0. report \in Seq(Messages)
    BY ZenonT(40), <1>1
  <2>1. /\ next \in Seq(Messages) /\ next # <<>>
        /\ Len(report) \in Nat
        /\ \A x : Kinds(next, x) = Kinds(report, x) \union (IF kind = x THEN {Len(report) + 1} ELSE {})
    BY ZenonT(40), <2>0, OneMoreMessage
  <2>2. Len(report) \in Nat => Len(report) + 1 \in Nat
    BY SMTT(40)
  <2> HIDE DEF next
  <2> QED
    BY ZenonT(40), <2>1, <2>2
<1>3. /\ {next[i].osv : i \in Kinds(next, "finding")} = ids \union (IF kind = "finding" THEN {message.osv} ELSE {})
      /\ {next[i].osv : i \in Kinds(next, "osv")} = osvs \union (IF kind = "osv" THEN {message.osv} ELSE {})
  <2>1. \A x : {next[i].osv : i \in Kinds(next, x)}
                 = {report[i].osv : i \in Kinds(report, x)} \union (IF kind = x THEN {message.osv} ELSE {})
    BY ZenonT(40), <1>1, OneMoreAdvisory
  <2> HIDE DEF next, ids, osvs, kind
  <2> QED
    BY ZenonT(40), <1>1, <2>1
<1>4. /\ kind # "finding" => FoundIn(next, fs)
      /\ kind = "finding" => Append(fs, Said(message)) \in Seq(Reported) /\ FoundIn(next, Append(fs, Said(message)))
  BY ZenonT(40), <1>1, FoundStep
<1>5. report = <<>> => fs = <<>>
  <2>1. ASSUME report = <<>> PROVE Kinds(report, "finding") = {}
    <3>1. DOMAIN report = {}
      BY SMTT(40), <2>1
    <3> QED
      BY ZenonT(40), <3>1 DEF Kinds
  <2>2. ASSUME Kinds(report, "finding") = {} PROVE DOMAIN fs = {}
    <3>1. PICK place : place \in Bijection(DOMAIN fs, Kinds(report, "finding"))
      BY ZenonT(40), <1>1 DEF FoundIn
    <3>2. place \in [DOMAIN fs -> {}]
      BY ZenonT(40), <2>2, <3>1 DEF Bijection, Injection
    <3> QED
      BY ZenonT(40), <3>2
  <2>3. DOMAIN fs = {} => fs = <<>>
    <3> HIDE DEF fs
    <3> QED
      BY SMTT(40), <1>1
  <2> QED
    BY ZenonT(40), <2>1, <2>2, <2>3
<1>6. InOrder(next) <=> ~Refused(c, b, fs, message)
  BY ZenonT(40), <1>1, <1>5, OrderStep
<1>7. IF Refused(c, b, fs, message) THEN new = Scan(TRUE, c, b, ids, osvs, fs)
      ELSE Added(c, b, ids, osvs, fs, message, new)
  BY ZenonT(40), <1>1, MessageResult
<1> HIDE DEF next, new, c, b, ids, osvs, fs, kind
<1>8. CASE Refused(c, b, fs, message)
  <2>1. new.rejected = TRUE
    <3>1. new = Scan(TRUE, c, b, ids, osvs, fs)
      BY ZenonT(40), <1>7, <1>8
    <3> QED
      BY ZenonT(40), <3>1 DEF Scan
  <2>2. ReportInv(next, new)
    BY ZenonT(40), <1>2, <1>6, <1>8, <2>1 DEF ReportInv
  <2> QED
    BY ZenonT(40), <2>2 DEF next, new
<1>9. CASE ~Refused(c, b, fs, message)
  <2>0. InOrder(next) /\ Added(c, b, ids, osvs, fs, message, new)
    BY ZenonT(40), <1>6, <1>7, <1>9
  <2>1. ASSUME NEW c1, NEW b1, NEW i1, NEW o1, NEW f1, new = Scan(FALSE, c1, b1, i1, o1, f1),
               c1 = 1,
               b1 = IF Kinds(next, "SBOM") = {} THEN 0 ELSE 1,
               i1 = {next[i].osv : i \in Kinds(next, "finding")},
               o1 = {next[i].osv : i \in Kinds(next, "osv")},
               f1 \in Seq(Reported), FoundIn(next, f1)
        PROVE  ReportInv(next, new)
    <3>1. new.rejected = FALSE /\ new.configs = c1 /\ new.sboms = b1 /\ new.ids = i1 /\ new.osvs = o1 /\ new.findings = f1
      BY ZenonT(40), <2>1 DEF Scan
    <3>2. GoingOn(new, new.configs, new.sboms, new.ids, new.osvs, new.findings)
      BY ZenonT(40), <2>1, <3>1 DEF GoingOn
    <3> QED
      BY ZenonT(40), <1>2, <2>0, <2>1, <3>1, <3>2 DEF ReportInv
  <2>2. kind # "config" => c = 1
    <3>1. c # 0 \/ kind = "config"
      BY ZenonT(40), <1>9 DEF Refused, kind
    <3> QED
      BY ZenonT(40), <1>1, <3>1
  <2>3. kind # "SBOM" => b = IF Kinds(next, "SBOM") = {} THEN 0 ELSE 1
    BY ZenonT(40), <1>1, <1>2
  <2>4. kind # "finding" => ids = {next[i].osv : i \in Kinds(next, "finding")} /\ FoundIn(next, fs)
    BY ZenonT(40), <1>3, <1>4
  <2>5. kind # "osv" => osvs = {next[i].osv : i \in Kinds(next, "osv")}
    BY ZenonT(40), <1>3
  <2>6. CASE kind = "config"
    <3>1. c + 1 = 1
      <4>1. c = 0
        BY ZenonT(40), <1>9, <2>6 DEF Refused, kind
      <4> QED
        BY SMTT(40), <4>1
    <3>2. new = Scan(FALSE, c + 1, b, ids, osvs, fs)
      BY ZenonT(40), <2>0, <2>6 DEF Added, kind
    <3>3. ReportInv(next, new)
      BY ZenonT(40), <1>1, <2>1, <2>3, <2>4, <2>5, <2>6, <3>1, <3>2
    <3> QED
      BY ZenonT(40), <3>3 DEF next, new
  <2>7. CASE kind = "SBOM"
    <3>1. b + 1 = 1
      <4>1. b = 0
        BY ZenonT(40), <1>9, <2>7 DEF Refused, kind
      <4> QED
        BY SMTT(40), <4>1
    <3>2. new = Scan(FALSE, c, b + 1, ids, osvs, fs)
      BY ZenonT(40), <2>0, <2>7 DEF Added, kind
    <3>3. b + 1 = IF Kinds(next, "SBOM") = {} THEN 0 ELSE 1
      BY ZenonT(40), <1>2, <2>7, <3>1
    <3>4. ReportInv(next, new)
      BY ZenonT(40), <1>1, <2>1, <2>2, <2>4, <2>5, <2>7, <3>2, <3>3
    <3> QED
      BY ZenonT(40), <3>4 DEF next, new
  <2>8. CASE kind = "finding"
    <3>1. new = Scan(FALSE, c, b, ids \union {message.osv}, osvs, Append(fs, Said(message)))
      BY ZenonT(40), <2>0, <2>8 DEF Added, kind, Said
    <3>2. ids \union {message.osv} = {next[i].osv : i \in Kinds(next, "finding")}
      BY ZenonT(40), <1>3, <2>8
    <3>3. ReportInv(next, new)
      BY ZenonT(40), <1>4, <2>1, <2>2, <2>3, <2>5, <2>8, <3>1, <3>2
    <3> QED
      BY ZenonT(40), <3>3 DEF next, new
  <2>9. CASE kind = "osv"
    <3>1. new = Scan(FALSE, c, b, ids, osvs \union {message.osv}, fs)
      BY ZenonT(40), <2>0, <2>9 DEF Added, kind
    <3>2. osvs \union {message.osv} = {next[i].osv : i \in Kinds(next, "osv")}
      BY ZenonT(40), <1>3, <2>9
    <3>3. ReportInv(next, new)
      BY ZenonT(40), <1>1, <2>1, <2>2, <2>3, <2>4, <2>9, <3>1, <3>2
    <3> QED
      BY ZenonT(40), <3>3 DEF next, new
  <2>10. CASE kind \notin {"config", "SBOM", "finding", "osv"}
    <3>1. new = Scan(FALSE, c, b, ids, osvs, fs)
      BY ZenonT(40), <2>0, <2>10 DEF Added, kind
    <3>2. ReportInv(next, new)
      BY ZenonT(40), <1>1, <2>1, <2>2, <2>3, <2>4, <2>5, <2>10, <3>1
    <3> QED
      BY ZenonT(40), <3>2 DEF next, new
  <2> QED
    BY ZenonT(40), <2>6, <2>7, <2>8, <2>9, <2>10
<1> QED
  BY ZenonT(40), <1>8, <1>9

\* A report that is one whole reviewed scan.
WholeScan(report) ==
  /\ Kinds(report, "config") = {1} /\ Kinds(report, "unknown") = {}
  /\ \E sbom \in DOMAIN report : Kinds(report, "SBOM") = {sbom} /\ \A i \in Kinds(report, "finding") : sbom < i
  /\ \A i \in DOMAIN report : report[i].good

\* The reviewed findings, one for one.
ReviewedFindings(report) ==
  \E order \in Bijection(DOMAIN Reviewed, Kinds(report, "finding")) : \A i \in DOMAIN Reviewed :
    report[order[i]].osv = Reviewed[i].osv /\ report[order[i]].tuple = Reviewed[i].tuple

\* A whole scan is a report in order that has a configuration and an SBOM.
LEMMA WholeIsInOrder ==
  ASSUME NEW report \in Seq(Messages)
  PROVE  WholeScan(report) <=> InOrder(report) /\ report # <<>> /\ Kinds(report, "SBOM") # {}
<1>1. ASSUME WholeScan(report) PROVE InOrder(report) /\ report # <<>> /\ Kinds(report, "SBOM") # {}
  <2>1. \A i \in DOMAIN report : report[i].kind = "config" <=> i = 1
    BY ZenonT(40), <1>1 DEF WholeScan, Kinds
  <2>2. 1 \in DOMAIN report
    BY ZenonT(40), <1>1 DEF WholeScan, Kinds
  <2>3. report # <<>>
    BY SMTT(40), <2>2
  <2>4. PICK sbom \in DOMAIN report : Kinds(report, "SBOM") = {sbom} /\ \A i \in Kinds(report, "finding") : sbom < i
    BY ZenonT(40), <1>1 DEF WholeScan
  <2>5. report[sbom].kind = "SBOM"
    BY ZenonT(40), <2>4 DEF Kinds
  <2>6. \A i \in DOMAIN report : report[i].kind = "finding" => \E j \in DOMAIN report : report[j].kind = "SBOM" /\ j < i
    BY ZenonT(40), <2>4, <2>5 DEF Kinds
  <2>7. \A i, j \in DOMAIN report : report[i].kind = "SBOM" /\ report[j].kind = "SBOM" => i = j
    <3> TAKE i, j \in DOMAIN report
    <3> HAVE report[i].kind = "SBOM" /\ report[j].kind = "SBOM"
    <3>1. i \in Kinds(report, "SBOM") /\ j \in Kinds(report, "SBOM")
      BY ZenonT(40) DEF Kinds
    <3> QED
      BY ZenonT(40), <2>4, <3>1
  <2>8. \A i \in DOMAIN report : report[i].kind # "unknown" /\ report[i].good
    BY ZenonT(40), <1>1 DEF WholeScan, Kinds
  <2> QED
    BY ZenonT(40), <2>1, <2>3, <2>4, <2>6, <2>7, <2>8 DEF InOrder
<1>2. ASSUME InOrder(report), report # <<>>, Kinds(report, "SBOM") # {} PROVE WholeScan(report)
  <2>1. 1 \in DOMAIN report
    BY SMTT(40), <1>2
  <2>2. Kinds(report, "config") = {1} /\ Kinds(report, "unknown") = {}
    BY ZenonT(40), <1>2, <2>1 DEF InOrder, Kinds
  <2>3. PICK sbom \in DOMAIN report : report[sbom].kind = "SBOM"
    BY ZenonT(40), <1>2 DEF Kinds
  <2>4. Kinds(report, "SBOM") = {sbom}
    BY ZenonT(40), <1>2, <2>3 DEF InOrder, Kinds
  <2>5. ASSUME NEW i \in Kinds(report, "finding") PROVE sbom < i
    <3>1. PICK j \in DOMAIN report : report[j].kind = "SBOM" /\ j < i
      BY ZenonT(40), <1>2 DEF InOrder, Kinds
    <3>2. j = sbom
      BY ZenonT(40), <1>2, <2>3, <3>1 DEF InOrder
    <3> QED
      BY ZenonT(40), <3>1, <3>2
  <2>6. \A i \in DOMAIN report : report[i].good
    BY ZenonT(40), <1>2 DEF InOrder
  <2> QED
    BY ZenonT(40), <2>2, <2>4, <2>5, <2>6 DEF WholeScan
<1> QED
  BY ZenonT(40), <1>1, <1>2

\* Two lists of findings with the same messages have the same entries, and one
\* has the reviewed entries if the other has.
LEMMA InventoryOfReport ==
  ASSUME NEW report \in Seq(Messages), NEW fs \in Seq(Reported), FoundIn(report, fs)
  PROVE  SameInventory(fs) <=> ReviewedFindings(report)
<1> DEFINE found == Kinds(report, "finding")
<1>1. PICK place \in Bijection(DOMAIN fs, found) : \A k \in DOMAIN fs : fs[k] = Said(report[place[k]])
  BY ZenonT(40) DEF FoundIn
<1>2. Reviewed \in Seq(Reported)
  BY ZenonT(40), GatesAssumption DEF Reported
<1>3. \A i \in DOMAIN Reviewed : Reviewed[i] \in Reported
  BY SMTT(40), <1>2
<1>4. ASSUME NEW i \in DOMAIN Reviewed PROVE Reviewed[i] = [osv |-> Reviewed[i].osv, tuple |-> Reviewed[i].tuple]
  <2> DEFINE one == Reviewed[i]
  <2>1. one \in Reported
    BY ZenonT(40), <1>3
  <2> HIDE DEF one
  <2>2. one = [osv |-> one.osv, tuple |-> one.tuple]
    BY ZenonT(40), <2>1 DEF Reported
  <2> QED
    BY ZenonT(40), <2>2 DEF one
<1> HIDE DEF found
<1>5. ASSUME SameInventory(fs) PROVE ReviewedFindings(report)
  <2>1. PICK order \in Bijection(DOMAIN Reviewed, DOMAIN fs) : \A i \in DOMAIN Reviewed : fs[order[i]] = Reviewed[i]
    BY ZenonT(40), <1>5 DEF SameInventory
  <2> DEFINE q == [i \in DOMAIN Reviewed |-> place[order[i]]]
  <2>2. q \in Bijection(DOMAIN Reviewed, found)
    BY ZenonT(40), BijectionsComposed
  <2>3. ASSUME NEW i \in DOMAIN Reviewed
        PROVE  report[q[i]].osv = Reviewed[i].osv /\ report[q[i]].tuple = Reviewed[i].tuple
    <3>1. order[i] \in DOMAIN fs
      BY ZenonT(40) DEF Bijection, Injection
    <3>2. Reviewed[i] = Said(report[q[i]])
      BY ZenonT(40), <1>1, <2>1, <3>1
    <3> HIDE DEF q
    <3> QED
      BY SMTT(40), <3>2 DEF Said
  <2> HIDE DEF q
  <2> QED
    BY ZenonT(40), <2>2, <2>3 DEF ReviewedFindings, found
<1>6. ASSUME ReviewedFindings(report) PROVE SameInventory(fs)
  <2>1. PICK order \in Bijection(DOMAIN Reviewed, found) : \A i \in DOMAIN Reviewed :
          report[order[i]].osv = Reviewed[i].osv /\ report[order[i]].tuple = Reviewed[i].tuple
    BY ZenonT(40), <1>6 DEF ReviewedFindings, found
  <2>2. \A x \in found : \E k \in DOMAIN fs : place[k] = x
    BY ZenonT(40) DEF Bijection, Surjection
  <2> DEFINE back == [x \in found |-> CHOOSE k \in DOMAIN fs : place[k] = x]
             q == [i \in DOMAIN Reviewed |-> back[order[i]]]
  <2>3. \A x \in found : back[x] \in DOMAIN fs /\ place[back[x]] = x
    BY ZenonT(40), <2>2
  <2>4. back \in Bijection(found, DOMAIN fs)
    <3>1. back \in [found -> DOMAIN fs]
      BY ZenonT(40), <2>3
    <3>2. /\ \A j, k \in DOMAIN fs : place[j] = place[k] => j = k
          /\ \A k \in DOMAIN fs : place[k] \in found
      BY ZenonT(40) DEF Bijection, Injection, IsInjective
    <3> HIDE DEF back
    <3>3. \A x, y \in found : back[x] = back[y] => x = y
      BY ZenonT(40), <2>3
    <3>4. \A k \in DOMAIN fs : \E x \in found : back[x] = k
      <4> TAKE k \in DOMAIN fs
      <4>1. back[place[k]] \in DOMAIN fs /\ place[back[place[k]]] = place[k]
        BY ZenonT(40), <2>3, <3>2
      <4>2. back[place[k]] = k
        BY ZenonT(40), <3>2, <4>1
      <4> QED
        BY ZenonT(40), <3>2, <4>2
    <3> QED
      BY ZenonT(40), <3>1, <3>3, <3>4, MakesBijection
  <2> HIDE DEF back
  <2>5. q \in Bijection(DOMAIN Reviewed, DOMAIN fs)
    BY ZenonT(40), <2>4, BijectionsComposed
  <2>6. ASSUME NEW i \in DOMAIN Reviewed PROVE fs[q[i]] = Reviewed[i]
    <3>1. order[i] \in found
      BY ZenonT(40) DEF Bijection, Injection
    <3>2. q[i] \in DOMAIN fs /\ place[q[i]] = order[i]
      BY ZenonT(40), <2>3, <3>1
    <3> HIDE DEF q
    <3>3. fs[q[i]] = [osv |-> report[order[i]].osv, tuple |-> report[order[i]].tuple]
      BY ZenonT(40), <1>1, <3>2 DEF Said
    <3> QED
      BY ZenonT(40), <1>4, <2>1, <3>3
  <2> HIDE DEF q
  <2> QED
    BY ZenonT(40), <2>5, <2>6 DEF SameInventory
<1> QED
  BY ZenonT(40), <1>5, <1>6

\* A report is accepted exactly when it is the reviewed one.
LEMMA ReportIsReviewed ==
  ASSUME NEW report, NEW s, ReportInv(report, s), NEW inputs
  PROVE  ReportReviewed(inputs, report, s)
<1> DEFINE fs == s.findings
           advised == \A id \in Advisories : \E i \in Kinds(report, "osv") : report[i].osv = id
<1>1. SUFFICES checkReport(s) <=> WholeScan(report) /\ ReviewedFindings(report) /\ advised
  BY ZenonT(40) DEF ReportReviewed, check, WholeScan, ReviewedFindings, Kinds
<1>2. report \in Seq(Messages)
  BY ZenonT(40) DEF ReportInv
<1>3. WholeScan(report) <=> InOrder(report) /\ report # <<>> /\ Kinds(report, "SBOM") # {}
  BY ZenonT(40), <1>2, WholeIsInOrder
<1>4. CASE s.rejected
  <2>1. ~InOrder(report)
    BY ZenonT(40), <1>4 DEF ReportInv
  <2> HIDE DEF advised
  <2> QED
    BY ZenonT(40), <1>3, <1>4, <2>1 DEF checkReport
<1>5. CASE ~s.rejected
  <2>1. /\ InOrder(report)
        /\ s.configs = IF report = <<>> THEN 0 ELSE 1
        /\ s.sboms = IF Kinds(report, "SBOM") = {} THEN 0 ELSE 1
        /\ s.ids = {report[i].osv : i \in Kinds(report, "finding")}
        /\ s.osvs = {report[i].osv : i \in Kinds(report, "osv")}
        /\ fs \in Seq(Reported)
        /\ FoundIn(report, fs)
    BY ZenonT(40), <1>5 DEF ReportInv
  <2>2. s.configs = 1 /\ s.sboms = 1 <=> WholeScan(report)
    <3>1. 0 # 1
      BY SMTT(40)
    <3>2. s.configs = 1 <=> report # <<>>
      BY ZenonT(40), <2>1, <3>1
    <3>3. s.sboms = 1 <=> Kinds(report, "SBOM") # {}
      BY ZenonT(40), <2>1, <3>1
    <3>4. InOrder(report)
      BY ZenonT(40), <2>1
    <3> QED
      BY ZenonT(40), <1>3, <3>2, <3>3, <3>4
  <2>3. SameInventory(fs) <=> ReviewedFindings(report)
    BY ZenonT(40), <1>2, <2>1, InventoryOfReport
  <2>4. (\A id \in Advisories : id \in s.osvs) <=> advised
    BY ZenonT(40), <2>1
  <2>5. ASSUME ReviewedFindings(report) PROVE s.ids = Advisories
    <3>1. PICK order \in Bijection(DOMAIN Reviewed, Kinds(report, "finding")) : \A i \in DOMAIN Reviewed :
            report[order[i]].osv = Reviewed[i].osv /\ report[order[i]].tuple = Reviewed[i].tuple
      BY ZenonT(40), <2>5 DEF ReviewedFindings
    <3>2. /\ \A i \in DOMAIN Reviewed : order[i] \in Kinds(report, "finding")
          /\ \A x \in Kinds(report, "finding") : \E i \in DOMAIN Reviewed : order[i] = x
      BY ZenonT(40) DEF Bijection, Injection, Surjection
    <3>3. ASSUME NEW id \in s.ids PROVE id \in Advisories
      <4>1. PICK x \in Kinds(report, "finding") : id = report[x].osv
        BY ZenonT(40), <2>1
      <4>2. PICK i \in DOMAIN Reviewed : order[i] = x
        BY ZenonT(40), <3>2
      <4>3. id = Reviewed[i].osv
        BY ZenonT(40), <3>1, <4>1, <4>2
      <4> QED
        BY ZenonT(40), <4>3 DEF Advisories
    <3>4. ASSUME NEW id \in Advisories PROVE id \in s.ids
      <4>1. PICK i \in DOMAIN Reviewed : id = Reviewed[i].osv
        BY ZenonT(40) DEF Advisories
      <4>2. order[i] \in Kinds(report, "finding") /\ report[order[i]].osv = id
        BY ZenonT(40), <3>1, <3>2, <4>1
      <4> QED
        BY ZenonT(40), <2>1, <4>2
    <3> QED
      BY ZenonT(40), <3>3, <3>4
  <2>6. ASSUME SameInventory(fs) PROVE Len(fs) = Len(Reviewed)
    <3>1. PICK order \in Bijection(DOMAIN Reviewed, DOMAIN fs) : TRUE
      BY ZenonT(40), <2>6 DEF SameInventory
    <3> DEFINE n == Len(fs)
               m == Len(Reviewed)
    <3>2. n \in Nat /\ DOMAIN fs = 1..n
      <4> HIDE DEF fs
      <4> QED
        BY SMTT(40), <2>1
    <3>3. m \in Nat /\ DOMAIN Reviewed = 1..m
      <4>1. Reviewed \in Seq(Reported)
        BY ZenonT(40), GatesAssumption DEF Reported
      <4> QED
        BY SMTT(40), <4>1
    <3> HIDE DEF n, m
    <3>4. ExistsBijection(1..m, 1..n)
      BY ZenonT(40), <3>1, <3>2, <3>3 DEF ExistsBijection
    <3>5. m = n
      BY ZenonT(40), <3>2, <3>3, <3>4, SameLength
    <3> QED
      BY ZenonT(40), <3>5 DEF n, m
  <2>7. ASSUME checkReport(s) PROVE WholeScan(report) /\ ReviewedFindings(report) /\ advised
    <3>1. s.configs = 1 /\ s.sboms = 1 /\ SameInventory(fs) /\ \A id \in Advisories : id \in s.osvs
      BY ZenonT(40), <2>7 DEF checkReport
    <3> HIDE DEF advised, fs
    <3> QED
      BY ZenonT(40), <2>2, <2>3, <2>4, <3>1
  <2>8. ASSUME WholeScan(report), ReviewedFindings(report), advised PROVE checkReport(s)
    <3>1. s.configs = 1 /\ s.sboms = 1 /\ SameInventory(fs) /\ \A id \in Advisories : id \in s.osvs
      <4> HIDE DEF advised, fs
      <4> QED
        BY ZenonT(40), <2>2, <2>3, <2>4, <2>8
    <3>2. s.ids = Advisories /\ Len(fs) = Len(Reviewed)
      BY ZenonT(40), <2>5, <2>6, <2>8, <3>1
    <3> QED
      BY ZenonT(40), <1>5, <3>1, <3>2 DEF checkReport
  <2> HIDE DEF advised
  <2> QED
    BY ZenonT(40), <2>7, <2>8
<1> QED
  BY ZenonT(40), <1>4, <1>5

-----------------------------------------------------------------------------
(* The environment of the go command *)

\* A variable of the environment, with its place in it, 0 for a forced one.
Assignment ==
  [pos : Nat, name : STRING \union {v.name : v \in Environ}, value : STRING \union {v.value : v \in Environ}]

\* The local variables of command.
Loop(env, filtered, read, item) == [env |-> env, filtered |-> filtered, read |-> read, item |-> item]

\* The names that have been forced before an item.
Done(item) == {Forced[j].name : j \in {i \in DOMAIN Forced : i < item}}

\* What the outer loop has before an item: the forced variables so far once
\* each, and the others as they were.
Clean(variables, env, item) ==
  /\ \A j \in DOMAIN Forced : j < item =>
       \E k \in DOMAIN env : env[k] = Forced[j] /\ \A l \in DOMAIN env : env[l].name = Forced[j].name => l = k
  /\ Kept(env, {k \in DOMAIN env : env[k].name \notin Done(item)},
          {variables[i] : i \in {k \in DOMAIN variables : variables[k].name \notin Done(item)}})

\* What the inner loop has: the variables read so far that have another name,
\* in their order.
Filtered(env, fs, read, name) ==
  \E f \in [DOMAIN fs -> 1..read] :
    /\ \A j, k \in DOMAIN fs : j < k => f[j] < f[k]
    /\ \A k \in DOMAIN fs : fs[k] = env[f[k]] /\ env[f[k]].name # name
    /\ \A i \in 1..read : env[i].name # name => \E k \in DOMAIN fs : f[k] = i

\* The environment between two variables that are looked at.
EnvironmentInv(variables, s) ==
  /\ variables \in Seq(Assignment)
  /\ \A i \in DOMAIN variables : variables[i].pos = i
  /\ s = Loop(s.env, s.filtered, s.read, s.item)
  /\ s.item = 0 => s.filtered = <<>> /\ s.read = 0
  /\ s.item # 0 =>
       /\ s.item \in 1..(Len(Forced) + 1)
       /\ s.env \in Seq(Assignment) /\ s.filtered \in Seq(Assignment)
       /\ s.read \in 0..Len(s.env) /\ Len(s.filtered) <= s.read
       /\ Clean(variables, s.env, s.item)
       /\ s.item \in DOMAIN Forced => Filtered(s.env, s.filtered, s.read, Forced[s.item].name)

\* The forced variables are entries.
LEMMA ForcedEntries ==
  /\ Len(Forced) \in Nat /\ DOMAIN Forced = 1..Len(Forced)
  /\ \A i \in DOMAIN Forced : Forced[i] \in Assignment
  /\ \A i, j \in DOMAIN Forced : Forced[i].name = Forced[j].name => i = j
<1>1. Forced \in Seq([pos : {0}, name : STRING, value : STRING])
  BY ZenonT(40), GatesAssumption
<1>2. \A i, j \in DOMAIN Forced : Forced[i].name = Forced[j].name => i = j
  BY ZenonT(40), GatesAssumption
<1>3. Len(Forced) \in Nat /\ DOMAIN Forced = 1..Len(Forced)
  BY SMTT(40), <1>1
<1>4. ASSUME NEW i \in DOMAIN Forced PROVE Forced[i] \in Assignment
  <2> DEFINE v == Forced[i]
  <2>1. v \in [pos : {0}, name : STRING, value : STRING]
    BY ZenonT(40), <1>1, <1>3, ElementOf
  <2> HIDE DEF v
  <2>2. v \in Assignment
    BY SMTT(40), <2>1 DEF Assignment
  <2> QED
    BY ZenonT(40), <2>2 DEF v
<1> QED
  BY ZenonT(40), <1>2, <1>3, <1>4

\* Before the loops the environment is the program's.
LEMMA CleanAtFirst ==
  ASSUME NEW variables \in Seq(Assignment), \A i \in DOMAIN variables : variables[i].pos = i
  PROVE  Clean(variables, variables, 1)
<1>1. \A j \in DOMAIN Forced : ~(j < 1)
  BY SMTT(40), ForcedEntries
<1>2. Done(1) = {}
  BY ZenonT(40), <1>1 DEF Done
<1>3. \A j, k \in DOMAIN variables : j < k => variables[j].pos < variables[k].pos
  BY ZenonT(40)
<1> QED
  BY ZenonT(40), <1>1, <1>2, <1>3 DEF Clean, Kept

\* Nothing has been read.
LEMMA FilteredAtFirst ==
  ASSUME NEW env, NEW name
  PROVE  Filtered(env, <<>>, 0, name)
<1>1. DOMAIN <<>> = {} /\ 1..0 = {}
  OBVIOUS
<1>2. [k \in {} |-> k] \in [{} -> {}]
  BY ZenonT(40)
<1> QED
  BY ZenonT(40), <1>1, <1>2 DEF Filtered

\* One variable of the inner loop.
LEMMA FilteredStep ==
  ASSUME NEW env \in Seq(Assignment), NEW fs \in Seq(Assignment), NEW read \in Nat, read < Len(env), NEW name,
         Filtered(env, fs, read, name)
  PROVE  /\ env[read + 1].name = name => Filtered(env, fs, read + 1, name)
         /\ env[read + 1].name # name => Filtered(env, Append(fs, env[read + 1]), read + 1, name)
<1>1. PICK f \in [DOMAIN fs -> 1..read] :
        /\ \A j, k \in DOMAIN fs : j < k => f[j] < f[k]
        /\ \A k \in DOMAIN fs : fs[k] = env[f[k]] /\ env[f[k]].name # name
        /\ \A i \in 1..read : env[i].name # name => \E k \in DOMAIN fs : f[k] = i
  BY ZenonT(40) DEF Filtered
<1>2. /\ 1..(read + 1) = 1..read \union {read + 1} /\ read + 1 \in 1..Len(env)
      /\ \A i \in 1..read : i < read + 1
  OBVIOUS
<1>3. ASSUME env[read + 1].name = name PROVE Filtered(env, fs, read + 1, name)
  <2>1. f \in [DOMAIN fs -> 1..(read + 1)]
    BY ZenonT(40), <1>2
  <2>2. \A i \in 1..(read + 1) : env[i].name # name => \E k \in DOMAIN fs : f[k] = i
    BY ZenonT(40), <1>1, <1>2, <1>3
  <2> QED
    BY ZenonT(40), <1>1, <2>1, <2>2 DEF Filtered
<1>4. ASSUME env[read + 1].name # name PROVE Filtered(env, Append(fs, env[read + 1]), read + 1, name)
  <2> DEFINE old == env[read + 1]
             more == Append(fs, old)
             n == Len(fs)
             g == [k \in DOMAIN more |-> IF k \in DOMAIN fs THEN f[k] ELSE read + 1]
  <2>1. old \in Assignment
    BY SMTT(40), <1>2
  <2> HIDE DEF old
  <2>2. /\ n \in Nat /\ DOMAIN fs = 1..n /\ DOMAIN more = DOMAIN fs \union {n + 1} /\ n + 1 \notin DOMAIN fs
        /\ more[n + 1] = old /\ \A k \in DOMAIN fs : more[k] = fs[k]
        /\ \A k \in DOMAIN fs : k < n + 1 /\ ~(n + 1 < k)
    BY SMTT(40), <2>1
  <2>3. ~(n + 1 < n + 1)
    BY SMTT(40), <2>2
  <2> HIDE DEF more, n
  <2>4. g[n + 1] = read + 1 /\ \A k \in DOMAIN fs : g[k] = f[k] /\ f[k] \in 1..read
    BY ZenonT(40), <2>2
  <2>5. g \in [DOMAIN more -> 1..(read + 1)]
    BY ZenonT(40), <1>2, <2>2
  <2> HIDE DEF g
  <2>6. ASSUME NEW j \in DOMAIN more, NEW k \in DOMAIN more, j < k PROVE g[j] < g[k]
    <3>1. CASE j \in DOMAIN fs /\ k \in DOMAIN fs
      BY ZenonT(40), <1>1, <2>4, <2>6, <3>1
    <3>2. CASE j \in DOMAIN fs /\ k = n + 1
      BY ZenonT(40), <1>2, <2>4, <3>2
    <3>3. CASE j = n + 1
      BY ZenonT(40), <2>2, <2>3, <2>6, <3>3
    <3> QED
      BY ZenonT(40), <2>2, <3>1, <3>2, <3>3
  <2>7. ASSUME NEW k \in DOMAIN more PROVE more[k] = env[g[k]] /\ env[g[k]].name # name
    <3>1. CASE k \in DOMAIN fs
      BY ZenonT(40), <1>1, <2>2, <2>4, <3>1
    <3>2. CASE k = n + 1
      BY ZenonT(40), <1>4, <2>2, <2>4, <3>2 DEF old
    <3> QED
      BY ZenonT(40), <2>2, <3>1, <3>2
  <2>8. ASSUME NEW i \in 1..(read + 1), env[i].name # name PROVE \E k \in DOMAIN more : g[k] = i
    <3>1. CASE i \in 1..read
      <4>1. PICK k \in DOMAIN fs : f[k] = i
        BY ZenonT(40), <1>1, <2>8, <3>1
      <4> QED
        BY ZenonT(40), <2>2, <2>4, <4>1
    <3>2. CASE i = read + 1
      BY ZenonT(40), <2>2, <2>4, <3>2
    <3> QED
      BY ZenonT(40), <1>2, <3>1, <3>2
  <2>9. Filtered(env, more, read + 1, name)
    BY ZenonT(40), <2>5, <2>6, <2>7, <2>8 DEF Filtered
  <2> QED
    BY ZenonT(40), <2>9 DEF more, old
<1> QED
  BY ZenonT(40), <1>3, <1>4

\* One item of the outer loop.
LEMMA CleanStep ==
  ASSUME NEW variables \in Seq(Assignment), NEW env \in Seq(Assignment), NEW fs \in Seq(Assignment),
         NEW item \in DOMAIN Forced, Clean(variables, env, item), Filtered(env, fs, Len(env), Forced[item].name)
  PROVE  Append(fs, Forced[item]) \in Seq(Assignment) /\ Clean(variables, Append(fs, Forced[item]), item + 1)
<1> DEFINE forced == Forced[item]
           name == forced.name
           more == Append(fs, forced)
           n == Len(fs)
           done == Done(item)
<1>1. forced \in Assignment /\ \A j \in DOMAIN Forced : Forced[j].name = name => j = item
  BY ZenonT(40), ForcedEntries
<1>2. PICK f \in [DOMAIN fs -> 1..Len(env)] :
        /\ \A j, k \in DOMAIN fs : j < k => f[j] < f[k]
        /\ \A k \in DOMAIN fs : fs[k] = env[f[k]] /\ env[f[k]].name # name
        /\ \A i \in 1..Len(env) : env[i].name # name => \E k \in DOMAIN fs : f[k] = i
  BY ZenonT(40) DEF Filtered
<1>3. DOMAIN env = 1..Len(env)
  OBVIOUS
<1>4. \A k \in DOMAIN fs : f[k] \in DOMAIN env
  BY ZenonT(40), <1>3
<1>5. \A j \in DOMAIN Forced : j < item + 1 <=> j < item \/ j = item
  BY SMTT(40), ForcedEntries
<1>6. Done(item + 1) = done \union {name}
  <2>1. \A x : x \in Done(item + 1) <=> \E j \in DOMAIN Forced : j < item + 1 /\ x = Forced[j].name
    BY ZenonT(40) DEF Done
  <2>2. \A x : x \in done <=> \E j \in DOMAIN Forced : j < item /\ x = Forced[j].name
    BY ZenonT(40) DEF Done
  <2> HIDE DEF done
  <2>3. \A x : x \in Done(item + 1) <=> x \in done \/ x = name
    BY ZenonT(40), <1>5, <2>1, <2>2
  <2> QED
    BY ZenonT(40), <2>3
<1> HIDE DEF forced, done
<1>7. /\ more \in Seq(Assignment) /\ DOMAIN fs = 1..n /\ DOMAIN more = DOMAIN fs \union {n + 1} /\ n + 1 \notin DOMAIN fs
      /\ more[n + 1] = forced /\ \A k \in DOMAIN fs : more[k] = fs[k]
      /\ \A k \in DOMAIN fs : k < n + 1 /\ ~(n + 1 < k)
  BY SMTT(40), <1>1
<1>8. \A k \in DOMAIN fs : more[k] = env[f[k]] /\ env[f[k]].name # name
  BY ZenonT(40), <1>2, <1>7
<1> HIDE DEF more, n, name
<1>9. \A k \in DOMAIN fs : more[k].name # name
  BY ZenonT(40), <1>8
<1>10. more[n + 1].name = name
  BY ZenonT(40), <1>7 DEF name
<1>11. \A j, k \in DOMAIN fs : f[j] = f[k] => j = k
  <2> TAKE j, k \in DOMAIN fs
  <2>1. j \in Nat /\ k \in Nat /\ f[j] \in Nat /\ f[k] \in Nat
    BY SMTT(40), <1>7
  <2>2. j < k \/ k < j \/ j = k
    BY SMTT(40), <2>1
  <2>3. f[j] < f[k] => f[j] # f[k]
    BY SMTT(40), <2>1
  <2>4. f[k] < f[j] => f[j] # f[k]
    BY SMTT(40), <2>1
  <2> QED
    BY ZenonT(40), <1>2, <2>2, <2>3, <2>4
<1>12. ASSUME NEW j \in DOMAIN Forced, j < item + 1
       PROVE  \E k \in DOMAIN more : more[k] = Forced[j] /\ \A l \in DOMAIN more : more[l].name = Forced[j].name => l = k
  <2>1. CASE j = item
    <3>1. Forced[j] = forced /\ Forced[j].name = name
      BY ZenonT(40), <2>1 DEF forced, name
    <3>2. \A l \in DOMAIN more : more[l].name = name => l = n + 1
      BY ZenonT(40), <1>7, <1>9
    <3> QED
      BY ZenonT(40), <1>7, <3>1, <3>2
  <2>2. CASE j # item
    <3>1. j < item /\ Forced[j].name # name
      BY ZenonT(40), <1>1, <1>5, <1>12, <2>2
    <3>2. PICK i \in DOMAIN env : env[i] = Forced[j] /\ \A l \in DOMAIN env : env[l].name = Forced[j].name => l = i
      BY ZenonT(40), <3>1 DEF Clean
    <3>3. PICK k \in DOMAIN fs : f[k] = i
      BY ZenonT(40), <1>2, <1>3, <3>1, <3>2
    <3>4. k \in DOMAIN more /\ more[k] = Forced[j]
      BY ZenonT(40), <1>7, <1>8, <3>2, <3>3
    <3>5. ASSUME NEW l \in DOMAIN more, more[l].name = Forced[j].name PROVE l = k
      <4>1. l \in DOMAIN fs
        BY ZenonT(40), <1>7, <1>10, <3>1, <3>5
      <4>2. env[f[l]].name = Forced[j].name
        BY ZenonT(40), <1>8, <3>5, <4>1
      <4>3. f[l] = i
        BY ZenonT(40), <1>4, <3>2, <4>1, <4>2
      <4> QED
        BY ZenonT(40), <1>11, <3>3, <4>1, <4>3
    <3> QED
      BY ZenonT(40), <3>4, <3>5
  <2> QED
    BY ZenonT(40), <2>1, <2>2
<1> DEFINE places == {k \in DOMAIN more : more[k].name \notin Done(item + 1)}
           before == {k \in DOMAIN env : env[k].name \notin done}
           pieces == {variables[i] : i \in {k \in DOMAIN variables : variables[k].name \notin Done(item + 1)}}
           whole == {variables[i] : i \in {k \in DOMAIN variables : variables[k].name \notin done}}
<1>13. {env[k] : k \in before} = whole /\ \A j, k \in before : j < k => env[j].pos < env[k].pos
  BY ZenonT(40) DEF Clean, Kept, done
<1>14. \A k \in places : k \in DOMAIN fs /\ f[k] \in before /\ more[k] = env[f[k]] /\ more[k].name # name
  <2> TAKE k \in places
  <2>1. k \in DOMAIN more /\ more[k].name \notin done /\ more[k].name # name
    BY ZenonT(40), <1>6
  <2>2. k \in DOMAIN fs
    BY ZenonT(40), <1>7, <1>10, <2>1
  <2> QED
    BY ZenonT(40), <1>4, <1>8, <2>1, <2>2
<1>15. \A j, k \in places : j < k => more[j].pos < more[k].pos
  <2> TAKE j, k \in places
  <2> HAVE j < k
  <2>1. j \in DOMAIN fs /\ k \in DOMAIN fs /\ f[j] \in before /\ f[k] \in before /\ more[j] = env[f[j]] /\ more[k] = env[f[k]]
    BY ZenonT(40), <1>14
  <2> HIDE DEF before, places
  <2>2. f[j] < f[k]
    BY ZenonT(40), <1>2, <2>1
  <2> QED
    BY ZenonT(40), <1>13, <2>1, <2>2
<1>16. {more[k] : k \in places} = pieces
  <2>1. ASSUME NEW k \in places PROVE more[k] \in pieces
    <3>1. more[k] \in whole /\ more[k].name # name
      BY ZenonT(40), <1>13, <1>14
    <3>2. PICK i \in DOMAIN variables : variables[i].name \notin done /\ more[k] = variables[i]
      BY ZenonT(40), <3>1
    <3>3. variables[i].name \notin Done(item + 1)
      BY ZenonT(40), <1>6, <3>1, <3>2
    <3> QED
      BY ZenonT(40), <3>2, <3>3
  <2>2. ASSUME NEW i \in DOMAIN variables, variables[i].name \notin Done(item + 1)
        PROVE  \E k \in places : more[k] = variables[i]
    <3>1. variables[i].name \notin done /\ variables[i].name # name
      BY ZenonT(40), <1>6, <2>2
    <3>2. variables[i] \in whole
      BY ZenonT(40), <3>1
    <3>3. PICK j \in before : env[j] = variables[i]
      BY ZenonT(40), <1>13, <3>2
    <3>4. PICK k \in DOMAIN fs : f[k] = j
      BY ZenonT(40), <1>2, <1>3, <3>1, <3>3
    <3>5. k \in DOMAIN more /\ more[k] = variables[i]
      BY ZenonT(40), <1>7, <1>8, <3>3, <3>4
    <3> QED
      BY ZenonT(40), <2>2, <3>5
  <2> QED
    BY ZenonT(40), <2>1, <2>2
<1>17. Clean(variables, more, item + 1)
  BY ZenonT(40), <1>12, <1>15, <1>16 DEF Clean, Kept
<1> QED
  BY ZenonT(40), <1>7, <1>17 DEF more, forced

\* What a step inside the loops has to leave.
LEMMA EnvironmentKept ==
  ASSUME NEW variables \in Seq(Assignment), \A i \in DOMAIN variables : variables[i].pos = i,
         NEW env \in Seq(Assignment), NEW fs \in Seq(Assignment), NEW read \in 0..Len(env), Len(fs) <= read,
         NEW item \in 1..(Len(Forced) + 1), Clean(variables, env, item),
         item \in DOMAIN Forced => Filtered(env, fs, read, Forced[item].name)
  PROVE  EnvironmentInv(variables, Loop(env, fs, read, item))
<1> DEFINE s == Loop(env, fs, read, item)
<1>1. s.env = env /\ s.filtered = fs /\ s.read = read /\ s.item = item
  BY ZenonT(40) DEF Loop
<1>2. item # 0
  BY SMTT(40), ForcedEntries
<1>3. s = Loop(s.env, s.filtered, s.read, s.item)
  BY ZenonT(40), <1>1
<1> HIDE DEF s
<1>4. EnvironmentInv(variables, s)
  BY ZenonT(40), <1>1, <1>2, <1>3 DEF EnvironmentInv
<1> QED
  BY ZenonT(40), <1>4 DEF s

\* Before the command, variables are only added.
LEMMA VariableAdded ==
  ASSUME NEW variables, NEW s, EnvironmentInv(variables, s), s.item = 0, NEW v \in Environ
  PROVE  EnvironmentInv(Append(variables, [pos |-> Len(variables) + 1, name |-> v.name, value |-> v.value]), s)
<1> DEFINE l == Len(variables)
           one == [pos |-> l + 1, name |-> v.name, value |-> v.value]
           next == Append(variables, one)
<1>1. /\ variables \in Seq(Assignment) /\ \A i \in DOMAIN variables : variables[i].pos = i
      /\ s = Loop(s.env, s.filtered, s.read, s.item) /\ s.filtered = <<>> /\ s.read = 0
  BY ZenonT(40) DEF EnvironmentInv
<1>2. l \in Nat
  BY SMTT(40), <1>1
<1> HIDE DEF l
<1>3. one \in Assignment /\ one.pos = l + 1
  <2>1. l + 1 \in Nat
    BY SMTT(40), <1>2
  <2>2. v.name \in STRING \union {x.name : x \in Environ} /\ v.value \in STRING \union {x.value : x \in Environ}
    BY ZenonT(40)
  <2> QED
    BY ZenonT(40), <2>1, <2>2 DEF Assignment
<1> HIDE DEF one
<1>4. /\ next \in Seq(Assignment) /\ DOMAIN next = 1..l \union {l + 1} /\ DOMAIN variables = 1..l
      /\ next[l + 1] = one /\ \A i \in 1..l : next[i] = variables[i]
  BY SMTT(40), <1>1, <1>3 DEF l
<1> HIDE DEF next
<1>5. \A i \in DOMAIN next : next[i].pos = i
  BY ZenonT(40), <1>1, <1>3, <1>4
<1>6. EnvironmentInv(next, s)
  BY ZenonT(40), <1>1, <1>4, <1>5 DEF EnvironmentInv
<1> QED
  BY ZenonT(40), <1>6 DEF next, one, l

\* The command begins with the program's variables.
LEMMA CommandBegun ==
  ASSUME NEW variables, NEW s, EnvironmentInv(variables, s), s.item = 0
  PROVE  EnvironmentInv(variables, [env |-> variables, filtered |-> <<>>, read |-> 0, item |-> 1])
<1>1. variables \in Seq(Assignment) /\ \A i \in DOMAIN variables : variables[i].pos = i
  BY ZenonT(40) DEF EnvironmentInv
<1>2. Clean(variables, variables, 1) /\ (1 \in DOMAIN Forced => Filtered(variables, <<>>, 0, Forced[1].name))
  BY ZenonT(40), <1>1, CleanAtFirst, FilteredAtFirst
<1>3. <<>> \in Seq(Assignment) /\ 0 \in 0..Len(variables) /\ Len(<<>>) <= 0 /\ 1 \in 1..(Len(Forced) + 1)
  BY SMTT(40), <1>1, ForcedEntries
<1>4. EnvironmentInv(variables, Loop(variables, <<>>, 0, 1))
  BY ZenonT(40), <1>1, <1>2, <1>3, EnvironmentKept
<1> QED
  BY ZenonT(40), <1>4 DEF Loop

\* A step of the loops.
LEMMA CommandStep ==
  ASSUME NEW variables, NEW s, EnvironmentInv(variables, s), s.item \in DOMAIN Forced
  PROVE  /\ s.read < Len(s.env) => EnvironmentInv(variables, Filter(s))
         /\ ~(s.read < Len(s.env)) =>
              EnvironmentInv(variables, [env |-> Append(s.filtered, Forced[s.item]), filtered |-> <<>>,
                                         read |-> 0, item |-> s.item + 1])
<1> DEFINE env == s.env
           fs == s.filtered
           read == s.read
           item == s.item
           name == Forced[item].name
           old == env[read + 1]
<1>1. item # 0 /\ item + 1 \in 1..(Len(Forced) + 1)
  <2> HIDE DEF item
  <2>1. item \in DOMAIN Forced
    BY ZenonT(40) DEF item
  <2> QED
    BY SMTT(40), <2>1, ForcedEntries
<1>2. /\ variables \in Seq(Assignment) /\ \A i \in DOMAIN variables : variables[i].pos = i
      /\ s = Loop(env, fs, read, item)
      /\ item \in 1..(Len(Forced) + 1) /\ item \in DOMAIN Forced
      /\ env \in Seq(Assignment) /\ fs \in Seq(Assignment)
      /\ read \in 0..Len(env) /\ Len(fs) <= read
      /\ Clean(variables, env, item)
      /\ Filtered(env, fs, read, name)
  BY ZenonT(40), <1>1 DEF EnvironmentInv
<1> HIDE DEF env, fs, read, item
<1>3. ASSUME read < Len(env) PROVE EnvironmentInv(variables, Filter(s))
  <2> DEFINE f1 == IF old.name = name THEN fs ELSE Append(fs, old)
  <2>1. read \in Nat /\ read + 1 \in 0..Len(env) /\ read + 1 \in 1..Len(env)
    BY SMTT(40), <1>2, <1>3
  <2>2. /\ old.name = name => Filtered(env, fs, read + 1, name)
        /\ old.name # name => Filtered(env, Append(fs, old), read + 1, name)
    BY ZenonT(40), <1>2, <1>3, <2>1, FilteredStep
  <2>3. Filtered(env, f1, read + 1, name)
    BY ZenonT(40), <2>2
  <2>4. old \in Assignment
    BY SMTT(40), <1>2, <2>1
  <2>5. f1 \in Seq(Assignment) /\ Len(f1) <= read + 1
    <3> HIDE DEF old, name
    <3>1. Append(fs, old) \in Seq(Assignment) /\ Len(Append(fs, old)) <= read + 1 /\ Len(fs) <= read + 1
      BY SMTT(40), <1>2, <2>1, <2>4
    <3> QED
      BY ZenonT(40), <1>2, <3>1
  <2>6. Filter(s) = Loop(env, f1, read + 1, item)
    <3>1. Filter(s) = [s EXCEPT !.read = read + 1, !.filtered = f1]
      BY ZenonT(40) DEF Filter, env, fs, read, item
    <3> DEFINE r1 == read + 1
    <3>2. [Loop(env, fs, read, item) EXCEPT !.read = r1, !.filtered = f1] = Loop(env, f1, r1, item)
      <4> HIDE DEF r1, f1
      <4>1. [Loop(env, fs, read, item) EXCEPT !.read = r1] = Loop(env, fs, r1, item)
        BY SMTT(40) DEF Loop
      <4>2. [Loop(env, fs, r1, item) EXCEPT !.filtered = f1] = Loop(env, f1, r1, item)
        BY SMTT(40) DEF Loop
      <4> QED
        BY ZenonT(40), <4>1, <4>2
    <3> HIDE DEF f1
    <3> QED
      BY ZenonT(40), <1>2, <3>1, <3>2 DEF r1
  <2> HIDE DEF f1
  <2>7. EnvironmentInv(variables, Loop(env, f1, read + 1, item))
    BY ZenonT(40), <1>2, <2>1, <2>3, <2>5, EnvironmentKept
  <2> QED
    BY ZenonT(40), <2>6, <2>7
<1>4. ASSUME ~(read < Len(env))
      PROVE  EnvironmentInv(variables, Loop(Append(fs, Forced[item]), <<>>, 0, item + 1))
  <2>1. read = Len(env)
    BY SMTT(40), <1>2, <1>4
  <2>2. Append(fs, Forced[item]) \in Seq(Assignment) /\ Clean(variables, Append(fs, Forced[item]), item + 1)
    BY ZenonT(40), <1>2, <2>1, CleanStep
  <2> DEFINE more == Append(fs, Forced[item])
  <2> HIDE DEF more
  <2>3. more \in Seq(Assignment) /\ Clean(variables, more, item + 1)
    BY ZenonT(40), <2>2 DEF more
  <2>4. <<>> \in Seq(Assignment) /\ 0 \in 0..Len(more) /\ Len(<<>>) <= 0
    BY SMTT(40), <2>3
  <2>5. item + 1 \in DOMAIN Forced => Filtered(more, <<>>, 0, Forced[item + 1].name)
    BY ZenonT(40), FilteredAtFirst
  <2>6. EnvironmentInv(variables, Loop(more, <<>>, 0, item + 1))
    BY ZenonT(40), <1>1, <1>2, <2>3, <2>4, <2>5, EnvironmentKept
  <2> QED
    BY ZenonT(40), <2>6 DEF more
<1> QED
  BY ZenonT(40), <1>3, <1>4 DEF Loop, env, fs, read, item

\* After the loops each forced variable is there once and the others as they
\* were, and the filtered ones never pass those that are read.
LEMMA MetadataIsTrusted ==
  ASSUME NEW variables, NEW s, EnvironmentInv(variables, s)
  PROVE  MetadataTrusted(variables, s)
<1> DEFINE forced == {Forced[i].name : i \in DOMAIN Forced}
           n == Len(Forced)
<1>1. Len(s.filtered) <= s.read
  <2>1. CASE s.item = 0
    <3>1. s.filtered = <<>> /\ s.read = 0
      BY ZenonT(40), <2>1 DEF EnvironmentInv
    <3>2. Len(<<>>) <= 0
      OBVIOUS
    <3> QED
      BY ZenonT(40), <3>1, <3>2
  <2>2. CASE s.item # 0
    BY ZenonT(40), <2>2 DEF EnvironmentInv
  <2> QED
    BY ZenonT(40), <2>1, <2>2
<1>2. ASSUME s.item > n
      PROVE  /\ \A i \in DOMAIN Forced : \E k \in DOMAIN s.env :
                  s.env[k] = Forced[i] /\ \A l \in DOMAIN s.env : s.env[l].name = Forced[i].name => l = k
             /\ Kept(s.env, {i \in DOMAIN s.env : s.env[i].name \notin forced},
                     {variables[i] : i \in {k \in DOMAIN variables : variables[k].name \notin forced}})
  <2> DEFINE item == s.item
             env == s.env
  <2>1. item # 0
    BY SMTT(40), <1>2, ForcedEntries
  <2>2. item \in 1..(n + 1) /\ Clean(variables, env, item)
    BY ZenonT(40), <2>1 DEF EnvironmentInv
  <2>3. \A i \in DOMAIN Forced : i < item
    BY SMTT(40), <1>2, <2>2, ForcedEntries
  <2>4. Done(item) = forced
    BY ZenonT(40), <2>3 DEF Done
  <2> HIDE DEF item, env, forced
  <2>5. /\ \A i \in DOMAIN Forced : \E k \in DOMAIN env :
             env[k] = Forced[i] /\ \A l \in DOMAIN env : env[l].name = Forced[i].name => l = k
        /\ Kept(env, {i \in DOMAIN env : env[i].name \notin forced},
                {variables[i] : i \in {k \in DOMAIN variables : variables[k].name \notin forced}})
    BY ZenonT(40), <2>2, <2>3, <2>4 DEF Clean
  <2> QED
    BY ZenonT(40), <2>5 DEF env
<1> QED
  BY ZenonT(40), <1>1, <1>2 DEF MetadataTrusted

-----------------------------------------------------------------------------
(* The JSON of a report *)

\* A token with its place, what it is for, and the frame it is in.
Tokens ==
  [pos : Nat, token : Scalars \union {"object", "endObject", "array", "endArray"},
   role : {"value", "key", "close"}, depth : Nat, in : Nat]

\* A key whose value is to come, or none.
Keyed == Seq(Scalars)

\* A frame of the parser: an open object or array.
Frame == [type : {"object", "array"}, at : Nat, keys : SUBSET Scalars, key : Keyed]

\* The key whose value is being read.
Pending(frame) == IF frame.key = <<>> THEN {} ELSE {frame.key[1]}

\* The keys of the object that begins at a place.
KeysAt(tokens, at) == {tokens[i].token : i \in {j \in DOMAIN tokens : tokens[j].role = "key" /\ tokens[j].in = at}}

\* A key twice in an object, or a value too deep.
Ambiguous(tokens) ==
  \/ \E i \in DOMAIN tokens : tokens[i].role = "value" /\ tokens[i].depth > MaxNesting
  \/ \E i, j \in DOMAIN tokens :
       /\ i # j /\ tokens[i].role = "key" /\ tokens[j].role = "key"
       /\ tokens[i].in = tokens[j].in /\ tokens[i].token = tokens[j].token

\* The frames have the keys of their objects, and no two the same object.
FramesRight(tokens, stack) ==
  /\ \A k \in DOMAIN stack : /\ stack[k].at \in 1..Len(tokens)
                             /\ KeysAt(tokens, stack[k].at) = stack[k].keys \union Pending(stack[k])
  /\ \A j, k \in DOMAIN stack : stack[j].at = stack[k].at => j = k

\* The state of uniqueValue.
Parser(failed, stack) == [failed |-> failed, stack |-> stack]

\* The parser has failed exactly if the tokens so far are ambiguous.
JsonInv(tokens, s) ==
  /\ tokens \in Seq(Tokens)
  /\ s = Parser(s.failed, s.stack)
  /\ s.failed \in BOOLEAN
  /\ s.failed <=> Ambiguous(tokens)
  /\ ~s.failed => /\ s.stack \in Seq(Frame)
                  /\ \A i \in DOMAIN tokens : tokens[i].in \in 0..Len(tokens)
                  /\ FramesRight(tokens, s.stack)

\* The keys of an object, with one more token.
LEMMA KeysStep ==
  ASSUME NEW tokens \in Seq(Tokens), NEW t \in Tokens, NEW at
  PROVE  KeysAt(Append(tokens, t), at)
           = KeysAt(tokens, at) \union (IF t.role = "key" /\ t.in = at THEN {t.token} ELSE {})
<1> DEFINE next == Append(tokens, t)
           l == Len(tokens)
<1>1. /\ DOMAIN tokens = 1..l /\ DOMAIN next = 1..l \union {l + 1}
      /\ next[l + 1] = t /\ \A i \in 1..l : next[i] = tokens[i]
  OBVIOUS
<1> HIDE DEF next, l
<1>2. \A x : x \in KeysAt(tokens, at) <=> \E i \in 1..l : tokens[i].role = "key" /\ tokens[i].in = at /\ x = tokens[i].token
  BY ZenonT(40), <1>1 DEF KeysAt
<1>3. \A x : x \in KeysAt(next, at)
               <=> \E i \in 1..l \union {l + 1} : next[i].role = "key" /\ next[i].in = at /\ x = next[i].token
  BY ZenonT(40), <1>1 DEF KeysAt
<1>4. \A x : x \in KeysAt(next, at) <=> x \in KeysAt(tokens, at) \/ (t.role = "key" /\ t.in = at /\ x = t.token)
  <2> TAKE x
  <2>1. ASSUME x \in KeysAt(next, at) PROVE x \in KeysAt(tokens, at) \/ (t.role = "key" /\ t.in = at /\ x = t.token)
    <3>1. PICK i \in 1..l \union {l + 1} : next[i].role = "key" /\ next[i].in = at /\ x = next[i].token
      BY ZenonT(40), <1>3, <2>1
    <3>2. CASE i \in 1..l
      <4>1. next[i] = tokens[i]
        BY ZenonT(40), <1>1, <3>2
      <4> QED
        BY ZenonT(40), <1>2, <3>1, <3>2, <4>1
    <3>3. CASE i = l + 1
      BY ZenonT(40), <1>1, <3>1, <3>3
    <3> QED
      BY ZenonT(40), <3>2, <3>3
  <2>2. ASSUME x \in KeysAt(tokens, at) PROVE x \in KeysAt(next, at)
    <3>1. PICK i \in 1..l : tokens[i].role = "key" /\ tokens[i].in = at /\ x = tokens[i].token
      BY ZenonT(40), <1>2, <2>2
    <3>2. next[i] = tokens[i]
      BY ZenonT(40), <1>1
    <3> QED
      BY ZenonT(40), <1>3, <3>1, <3>2
  <2>3. ASSUME t.role = "key", t.in = at, x = t.token PROVE x \in KeysAt(next, at)
    BY ZenonT(40), <1>1, <1>3, <2>3
  <2> QED
    BY ZenonT(40), <2>1, <2>2, <2>3
<1>5. KeysAt(next, at) = KeysAt(tokens, at) \union (IF t.role = "key" /\ t.in = at THEN {t.token} ELSE {})
  BY ZenonT(40), <1>4
<1> QED
  BY ZenonT(40), <1>5 DEF next

\* A token makes the JSON ambiguous when it is a value too deep or a key that
\* its object has.
LEMMA AmbiguousStep ==
  ASSUME NEW tokens \in Seq(Tokens), NEW t \in Tokens, ~Ambiguous(tokens)
  PROVE  Ambiguous(Append(tokens, t)) <=> \/ t.role = "value" /\ t.depth > MaxNesting
                                          \/ t.role = "key" /\ t.token \in KeysAt(tokens, t.in)
<1> DEFINE next == Append(tokens, t)
           l == Len(tokens)
           deep == t.role = "value" /\ t.depth > MaxNesting
           twice == t.role = "key" /\ t.token \in KeysAt(tokens, t.in)
           same(i, j) == /\ i # j /\ next[i].role = "key" /\ next[j].role = "key"
                         /\ next[i].in = next[j].in /\ next[i].token = next[j].token
<1>1. /\ DOMAIN tokens = 1..l /\ DOMAIN next = 1..l \union {l + 1} /\ l + 1 \notin 1..l
      /\ next[l + 1] = t /\ \A i \in 1..l : next[i] = tokens[i]
  OBVIOUS
<1> HIDE DEF next, l
<1>2. t.token \in KeysAt(tokens, t.in)
        <=> \E i \in 1..l : tokens[i].role = "key" /\ tokens[i].in = t.in /\ t.token = tokens[i].token
  BY ZenonT(40), <1>1 DEF KeysAt
<1>3. (\E i \in DOMAIN next : next[i].role = "value" /\ next[i].depth > MaxNesting) <=> deep
  <2>1. \A i \in 1..l : ~(tokens[i].role = "value" /\ tokens[i].depth > MaxNesting)
    BY ZenonT(40), <1>1 DEF Ambiguous
  <2> QED
    BY ZenonT(40), <1>1, <2>1
<1>4. (\E i, j \in DOMAIN next : same(i, j)) <=> twice
  <2>1. \A i, j \in 1..l : ~same(i, j)
    <3> TAKE i, j \in 1..l
    <3>1. next[i] = tokens[i] /\ next[j] = tokens[j] /\ i \in DOMAIN tokens /\ j \in DOMAIN tokens
      BY ZenonT(40), <1>1
    <3> QED
      BY ZenonT(40), <3>1 DEF Ambiguous
  <2>2. ASSUME NEW i \in DOMAIN next, NEW j \in DOMAIN next, same(i, j) PROVE twice
    <3>1. CASE i \in 1..l /\ j \in 1..l
      BY ZenonT(40), <2>1, <2>2, <3>1
    <3>2. CASE i = l + 1 /\ j \in 1..l
      BY ZenonT(40), <1>1, <1>2, <2>2, <3>2
    <3>3. CASE i \in 1..l /\ j = l + 1
      BY ZenonT(40), <1>1, <1>2, <2>2, <3>3
    <3>4. CASE i = l + 1 /\ j = l + 1
      BY ZenonT(40), <2>2, <3>4
    <3> QED
      BY ZenonT(40), <1>1, <3>1, <3>2, <3>3, <3>4
  <2>3. ASSUME twice PROVE \E i, j \in DOMAIN next : same(i, j)
    <3>1. PICK i \in 1..l : tokens[i].role = "key" /\ tokens[i].in = t.in /\ t.token = tokens[i].token
      BY ZenonT(40), <1>2, <2>3
    <3>2. same(i, l + 1) /\ i \in DOMAIN next /\ l + 1 \in DOMAIN next
      BY ZenonT(40), <1>1, <2>3, <3>1
    <3> HIDE DEF same
    <3> QED
      BY ZenonT(40), <3>2
  <2> HIDE DEF same, twice
  <2> QED
    BY ZenonT(40), <2>2, <2>3
<1>5. Ambiguous(next) <=> deep \/ twice
  BY ZenonT(40), <1>3, <1>4 DEF Ambiguous
<1> QED
  BY ZenonT(40), <1>5 DEF next

\* Entering a value moves the pending key among the keys.
LEMMA EnterFacts ==
  ASSUME NEW stack \in Seq(Frame)
  PROVE  /\ Enter(stack) \in Seq(Frame) /\ DOMAIN Enter(stack) = DOMAIN stack
         /\ \A k \in DOMAIN stack : /\ Enter(stack)[k].at = stack[k].at
                                    /\ Enter(stack)[k].keys \union Pending(Enter(stack)[k])
                                         = stack[k].keys \union Pending(stack[k])
<1> DEFINE n == Len(stack)
           top == stack[n]
<1>1. CASE stack = <<>> \/ top.key = <<>>
  <2>1. Enter(stack) = stack
    BY ZenonT(40), <1>1 DEF Enter, Top
  <2> QED
    BY ZenonT(40), <2>1
<1>2. CASE ~(stack = <<>> \/ top.key = <<>>)
  <2> DEFINE new == [top EXCEPT !.keys = top.keys \union {top.key[1]}, !.key = <<>>]
             res == [stack EXCEPT ![n] = new]
  <2>1. n \in 1..n /\ DOMAIN stack = 1..n /\ n \in Nat
    BY SMTT(40), <1>2
  <2>2. top \in Frame
    BY SMTT(40), <2>1
  <2>3. Enter(stack) = res
    BY ZenonT(40), <1>2, <2>1 DEF Enter, Top
  <2> HIDE DEF n, top
  <2>4. top.key \in Keyed /\ top.keys \in SUBSET Scalars /\ top.type \in {"object", "array"} /\ top.at \in Nat
    BY ZenonT(40), <2>2 DEF Frame
  <2>5. top.key[1] \in Scalars /\ <<>> \in Keyed
    BY SMTT(40), <1>2, <2>4 DEF Keyed
  <2> DEFINE keys == top.keys \union {top.key[1]}
             none == <<>>
  <2>6. new = [top EXCEPT !.keys = keys, !.key = none] /\ keys \in SUBSET Scalars /\ none \in Keyed
    BY ZenonT(40), <2>4, <2>5
  <2> HIDE DEF new, keys, none
  <2>7. new \in Frame /\ new.at = top.at /\ new.keys = keys /\ new.key = none
    BY ZenonT(40), <2>2, <2>6 DEF Frame
  <2>8. new.keys \union Pending(new) = top.keys \union Pending(top)
    BY ZenonT(40), <1>2, <2>7 DEF Pending, none, keys
  <2>9. res \in Seq(Frame) /\ DOMAIN res = DOMAIN stack /\ res[n] = new /\ \A k \in DOMAIN stack : k # n => res[k] = stack[k]
    BY SMTT(40), <2>1, <2>7
  <2> HIDE DEF res
  <2>10. ASSUME NEW k \in DOMAIN stack
         PROVE  /\ res[k].at = stack[k].at
                /\ res[k].keys \union Pending(res[k]) = stack[k].keys \union Pending(stack[k])
    <3>1. CASE k = n
      <4>1. res[k] = new /\ stack[k] = top
        BY ZenonT(40), <2>9, <3>1 DEF top
      <4> QED
        BY ZenonT(40), <2>7, <2>8, <4>1
    <3>2. CASE k # n
      BY ZenonT(40), <2>9, <3>2
    <3> QED
      BY ZenonT(40), <3>1, <3>2
  <2> QED
    BY ZenonT(40), <2>3, <2>9, <2>10
<1> QED
  BY ZenonT(40), <1>1, <1>2

\* The token that follows l others.
Piece(l, stack, token) ==
  [pos |-> l + 1, token |-> token, role |-> Role(stack, token), depth |-> Len(stack),
   in |-> IF stack = <<>> THEN 0 ELSE Top(stack).at]

\* A token is the one read.
IsPiece(l, stack, token, t) == t = Piece(l, stack, token)

\* The facts of a token that is read.
RightPiece(l, stack, token, t) ==
  /\ t \in Tokens /\ t.pos = l + 1 /\ t.token = token /\ t.role = Role(stack, token) /\ t.depth = Len(stack)
  /\ t.in = IF stack = <<>> THEN 0 ELSE Top(stack).at
  /\ t.role \in {"value", "key", "close"}
  /\ t.role = "close" => stack # <<>>
  /\ t.role = "key" => stack # <<>> /\ Top(stack).key = <<>> /\ token \in Scalars

\* What a token is and where it may come.
LEMMA PieceFacts ==
  ASSUME NEW l \in Nat, NEW stack \in Seq(Frame), NEW token \in Follows(stack), NEW t, IsPiece(l, stack, token, t)
  PROVE  RightPiece(l, stack, token, t)
<1> DEFINE role == Role(stack, token)
           in == IF stack = <<>> THEN 0 ELSE Top(stack).at
           ends == {"object", "endObject", "array", "endArray"}
<1>1. Scalars \intersect ends = {}
  BY ZenonT(40), GatesAssumption
<1>2. token \in Scalars \union ends
  BY ZenonT(40) DEF Follows
<1>3. role \in {"value", "key", "close"}
  BY ZenonT(40) DEF Role
<1>4. in \in Nat
  <2>1. CASE stack = <<>>
    BY ZenonT(40), <2>1
  <2>2. CASE stack # <<>>
    <3>1. Top(stack) \in Frame
      BY SMTT(40), <2>2 DEF Top
    <3>2. Top(stack).at \in Nat
      BY ZenonT(40), <3>1 DEF Frame
    <3> QED
      BY ZenonT(40), <2>2, <3>2
  <2> QED
    BY ZenonT(40), <2>1, <2>2
<1>5. role = "key" => AtKey(stack) /\ token \notin {"endObject", "endArray"}
  <2>1. "close" # "key" /\ "value" # "key"
    BY ZenonT(40)
  <2> QED
    BY ZenonT(40), <2>1 DEF Role
<1>6. role = "key" => stack # <<>> /\ Top(stack).key = <<>> /\ token \in Scalars
  BY ZenonT(40), <1>5 DEF AtKey, Follows
<1>7. role = "close" => token \in {"endObject", "endArray"}
  BY ZenonT(40) DEF Role
<1>8. role = "close" => stack # <<>>
  <2> SUFFICES ASSUME token \in {"endObject", "endArray"}, stack = <<>> PROVE FALSE
    BY ZenonT(40), <1>7
  <2>1. ~AtKey(stack)
    BY ZenonT(40) DEF AtKey
  <2>2. token \in Scalars \/ token \in {"object", "array"}
    BY ZenonT(40), <2>1 DEF Follows
  <2>3. token \notin {"object", "array"}
    BY ZenonT(40)
  <2>4. token \in ends
    BY ZenonT(40)
  <2> QED
    BY ZenonT(40), <1>1, <2>2, <2>3, <2>4
<1>9. Len(stack) \in Nat /\ l + 1 \in Nat
  OBVIOUS
<1>10. t = [pos |-> l + 1, token |-> token, role |-> role, depth |-> Len(stack), in |-> in]
  BY ZenonT(40) DEF IsPiece, Piece
<1> HIDE DEF role, in, ends
<1>11. t \in [pos : Nat, token : Scalars \union ends, role : {"value", "key", "close"}, depth : Nat, in : Nat]
  <2> DEFINE toks == Scalars \union ends
             n == Len(stack)
  <2>1. token \in toks /\ n \in Nat
    BY ZenonT(40), <1>2, <1>9
  <2>2. t = [pos |-> l + 1, token |-> token, role |-> role, depth |-> n, in |-> in]
    BY ZenonT(40), <1>10
  <2> HIDE DEF toks, n
  <2>3. t \in [pos : Nat, token : toks, role : {"value", "key", "close"}, depth : Nat, in : Nat]
    BY ZenonT(40), <1>3, <1>4, <1>9, <2>1, <2>2
  <2> QED
    BY ZenonT(40), <2>3 DEF toks
<1>12. t \in Tokens
  BY ZenonT(40), <1>11 DEF Tokens, ends
<1>13. t.pos = l + 1 /\ t.token = token /\ t.role = role /\ t.depth = Len(stack) /\ t.in = in
  BY ZenonT(40), <1>10
<1> QED
  BY ZenonT(40), <1>3, <1>6, <1>8, <1>12, <1>13 DEF RightPiece, role, in

\* The frames after a token that is no key and leaves some of them.
LEMMA FramesStay ==
  ASSUME NEW tokens \in Seq(Tokens), NEW t \in Tokens, NEW stack, FramesRight(tokens, stack), t.role # "key",
         NEW new, \A k \in DOMAIN new : /\ k \in DOMAIN stack /\ new[k].at = stack[k].at
                                        /\ new[k].keys \union Pending(new[k]) = stack[k].keys \union Pending(stack[k])
  PROVE  FramesRight(Append(tokens, t), new)
<1>1. \A at : KeysAt(Append(tokens, t), at) = KeysAt(tokens, at)
  <2>1. \A at : KeysAt(Append(tokens, t), at) = KeysAt(tokens, at) \union (IF t.role = "key" /\ t.in = at THEN {t.token} ELSE {})
    BY ZenonT(40), KeysStep
  <2> QED
    BY ZenonT(40), <2>1
<1>2. 1..Len(tokens) \subseteq 1..Len(Append(tokens, t))
  OBVIOUS
<1>3. ASSUME NEW k \in DOMAIN new
      PROVE  /\ new[k].at \in 1..Len(Append(tokens, t))
             /\ KeysAt(Append(tokens, t), new[k].at) = new[k].keys \union Pending(new[k])
  <2>1. /\ stack[k].at \in 1..Len(tokens)
        /\ KeysAt(tokens, stack[k].at) = stack[k].keys \union Pending(stack[k])
    BY ZenonT(40) DEF FramesRight
  <2> QED
    BY ZenonT(40), <1>1, <1>2, <2>1
<1>4. \A j, k \in DOMAIN new : new[j].at = new[k].at => j = k
  BY ZenonT(40) DEF FramesRight
<1> QED
  BY ZenonT(40), <1>3, <1>4 DEF FramesRight

\* The frames after the beginning of an object or an array.
LEMMA FramesOpened ==
  ASSUME NEW tokens \in Seq(Tokens), NEW t \in Tokens, NEW stack \in Seq(Frame), FramesRight(tokens, stack),
         t.role # "key", \A i \in DOMAIN tokens : tokens[i].in \in 0..Len(tokens),
         NEW frame \in Frame, frame.at = Len(tokens) + 1, frame.keys = {}, frame.key = <<>>
  PROVE  FramesRight(Append(tokens, t), Append(stack, frame))
<1> DEFINE next == Append(tokens, t)
           new == Append(stack, frame)
           l == Len(tokens)
           n == Len(stack)
<1>1. l \in Nat /\ Len(next) = l + 1 /\ l + 1 \notin 0..l /\ 1..l \subseteq 0..l /\ 1..l \subseteq 1..(l + 1) /\ l + 1 \in 1..(l + 1)
  OBVIOUS
<1>2. \A at : KeysAt(next, at) = KeysAt(tokens, at)
  <2>1. \A at : KeysAt(next, at) = KeysAt(tokens, at) \union (IF t.role = "key" /\ t.in = at THEN {t.token} ELSE {})
    BY ZenonT(40), KeysStep
  <2> QED
    BY ZenonT(40), <2>1
<1>3. KeysAt(tokens, l + 1) = {}
  BY ZenonT(40), <1>1 DEF KeysAt
<1>4. /\ DOMAIN new = DOMAIN stack \union {n + 1} /\ new[n + 1] = frame
      /\ \A k \in DOMAIN stack : new[k] = stack[k]
  OBVIOUS
<1>5. frame.keys \union Pending(frame) = {}
  BY ZenonT(40) DEF Pending
<1> HIDE DEF next, new, l, n
<1>6. \A k \in DOMAIN stack : /\ new[k].at \in 1..l
                              /\ KeysAt(tokens, new[k].at) = new[k].keys \union Pending(new[k])
  BY ZenonT(40), <1>4 DEF FramesRight, l
<1>7. new[n + 1].at = l + 1 /\ KeysAt(tokens, l + 1) = new[n + 1].keys \union Pending(new[n + 1])
  BY ZenonT(40), <1>3, <1>4, <1>5 DEF l
<1>8. ASSUME NEW k \in DOMAIN new
      PROVE  new[k].at \in 1..Len(next) /\ KeysAt(next, new[k].at) = new[k].keys \union Pending(new[k])
  <2>1. CASE k = n + 1
    BY ZenonT(40), <1>1, <1>2, <1>7, <2>1
  <2>2. CASE k \in DOMAIN stack
    BY ZenonT(40), <1>1, <1>2, <1>6, <2>2
  <2> QED
    BY ZenonT(40), <1>4, <2>1, <2>2
<1>9. ASSUME NEW j \in DOMAIN new, NEW k \in DOMAIN new, new[j].at = new[k].at PROVE j = k
  <2>1. \A i \in DOMAIN stack : new[i].at # new[n + 1].at
    BY ZenonT(40), <1>1, <1>6, <1>7
  <2>2. CASE j \in DOMAIN stack /\ k \in DOMAIN stack
    BY ZenonT(40), <1>4, <1>9, <2>2 DEF FramesRight
  <2>3. CASE j = n + 1 \/ k = n + 1
    BY ZenonT(40), <1>4, <1>9, <2>1, <2>3
  <2> QED
    BY ZenonT(40), <1>4, <2>2, <2>3
<1>10. FramesRight(next, new)
  BY ZenonT(40), <1>8, <1>9 DEF FramesRight
<1> QED
  BY ZenonT(40), <1>10 DEF next, new

\* A frame has read a key.
KeyRead(stack, n, t, new) ==
  /\ t.in = stack[n].at /\ stack[n].key = <<>>
  /\ DOMAIN new = DOMAIN stack /\ \A k \in DOMAIN stack : k # n => new[k] = stack[k]
  /\ new[n].at = stack[n].at /\ new[n].keys = stack[n].keys /\ Pending(new[n]) = {t.token}

\* The frames after a key.
LEMMA FramesKeyed ==
  ASSUME NEW tokens \in Seq(Tokens), NEW t \in Tokens, NEW stack, FramesRight(tokens, stack), t.role = "key",
         NEW n \in DOMAIN stack, NEW new, KeyRead(stack, n, t, new)
  PROVE  FramesRight(Append(tokens, t), new)
<1> DEFINE next == Append(tokens, t)
<1>0. /\ t.in = stack[n].at /\ stack[n].key = <<>>
      /\ DOMAIN new = DOMAIN stack /\ \A k \in DOMAIN stack : k # n => new[k] = stack[k]
      /\ new[n].at = stack[n].at /\ new[n].keys = stack[n].keys /\ Pending(new[n]) = {t.token}
  BY ZenonT(40) DEF KeyRead
<1>1. \A at : KeysAt(next, at) = KeysAt(tokens, at) \union (IF t.role = "key" /\ t.in = at THEN {t.token} ELSE {})
  BY ZenonT(40), KeysStep
<1>2. 1..Len(tokens) \subseteq 1..Len(next)
  OBVIOUS
<1> HIDE DEF next
<1>3. /\ \A k \in DOMAIN stack : /\ stack[k].at \in 1..Len(tokens)
                                 /\ KeysAt(tokens, stack[k].at) = stack[k].keys \union Pending(stack[k])
      /\ \A j, k \in DOMAIN stack : stack[j].at = stack[k].at => j = k
  BY ZenonT(40) DEF FramesRight
<1>4. \A k \in DOMAIN stack : new[k].at = stack[k].at
  BY ZenonT(40), <1>0
<1>5. ASSUME NEW k \in DOMAIN stack PROVE KeysAt(next, new[k].at) = new[k].keys \union Pending(new[k])
  <2>1. CASE k = n
    <3>1. KeysAt(next, t.in) = KeysAt(tokens, t.in) \union {t.token}
      BY ZenonT(40), <1>1
    <3>2. KeysAt(tokens, t.in) = stack[n].keys
      BY ZenonT(40), <1>0, <1>3 DEF Pending
    <3> QED
      BY ZenonT(40), <1>0, <2>1, <3>1, <3>2
  <2>2. CASE k # n
    <3>1. t.in # stack[k].at
      BY ZenonT(40), <1>0, <1>3, <2>2
    <3>2. KeysAt(next, stack[k].at) = KeysAt(tokens, stack[k].at)
      BY ZenonT(40), <1>1, <3>1
    <3> QED
      BY ZenonT(40), <1>0, <1>3, <2>2, <3>2
  <2> QED
    BY ZenonT(40), <2>1, <2>2
<1>6. \A k \in DOMAIN new : new[k].at \in 1..Len(next)
  BY ZenonT(40), <1>0, <1>2, <1>3, <1>4
<1>7. \A j, k \in DOMAIN new : new[j].at = new[k].at => j = k
  BY ZenonT(40), <1>0, <1>3, <1>4
<1>8. FramesRight(next, new)
  BY ZenonT(40), <1>0, <1>5, <1>6, <1>7 DEF FramesRight
<1> QED
  BY ZenonT(40), <1>8 DEF next

\* A parser that goes on, and what becomes of it.
ParserOn(s, stack) == s = Parser(FALSE, stack)

\* The top frame waits for the value of a key.
Keyed1(stack, token) == [stack EXCEPT ![Len(stack)] = [stack[Len(stack)] EXCEPT !.key = <<token>>]]

\* What becomes of the frames with a token that is let through.
Parsed(stack, t, new) ==
  /\ t.role = "value" /\ t.token \in {"object", "array"} =>
       new = Append(stack, [type |-> t.token, at |-> t.pos, keys |-> {}, key |-> <<>>])
  /\ t.role = "value" /\ t.token \notin {"object", "array"} => new = Enter(stack)
  /\ t.role = "key" => new = Keyed1(stack, t.token)
  /\ t.role = "close" => new = Enter(SubSeq(stack, 1, Len(stack) - 1))

\* What becomes of the parser with a token.
Unique(stack, t, new) ==
  IF (t.role = "value" /\ t.depth > MaxNesting) \/ (t.role = "key" /\ t.token \in Top(stack).keys)
  THEN new = Parser(TRUE, stack)
  ELSE \E x : new = Parser(FALSE, x) /\ Parsed(stack, t, x)

\* One token of uniqueValue.
LEMMA uniqueValueResult ==
  ASSUME NEW stack, NEW s, ParserOn(s, stack), NEW t \in Tokens
  PROVE  Unique(stack, t, uniqueValue(s, t))
<1> DEFINE bad == (t.role = "value" /\ t.depth > MaxNesting) \/ (t.role = "key" /\ t.token \in Top(stack).keys)
           no == FALSE
           yes == TRUE
           n == Len(stack)
<1>0. t.role \in {"value", "key", "close"}
  BY ZenonT(40) DEF Tokens
<1>1. s = Parser(no, stack) /\ s.stack = stack
  <2>1. s = Parser(no, stack)
    BY ZenonT(40) DEF ParserOn
  <2> HIDE DEF no
  <2> QED
    BY ZenonT(40), <2>1 DEF Parser
<1>2. [s EXCEPT !.failed = TRUE] = Parser(TRUE, stack)
  <2> HIDE DEF no
  <2>1. [s EXCEPT !.failed = yes] = Parser(yes, stack)
    <3> HIDE DEF yes
    <3> QED
      BY SMTT(40), <1>1 DEF Parser
  <2> QED
    BY ZenonT(40), <2>1 DEF yes
<1>3. ASSUME NEW x PROVE [s EXCEPT !.stack = x] = Parser(FALSE, x)
  <2>1. [s EXCEPT !.stack = x] = Parser(no, x)
    <3> HIDE DEF no
    <3> QED
      BY SMTT(40), <1>1 DEF Parser
  <2> QED
    BY ZenonT(40), <2>1 DEF no
<1>4. CASE bad
  <2>1. uniqueValue(s, t) = [s EXCEPT !.failed = TRUE]
    BY ZenonT(40), <1>1, <1>4 DEF uniqueValue
  <2> HIDE DEF bad
  <2>2. uniqueValue(s, t) = Parser(TRUE, stack)
    BY ZenonT(40), <1>2, <2>1
  <2> QED
    BY ZenonT(40), <1>4, <2>2 DEF bad, Unique
<1>5. CASE ~bad
  <2>0. "value" # "key" /\ "value" # "close" /\ "key" # "close"
    BY ZenonT(40)
  <2>1. CASE t.role = "value" /\ t.token \in {"object", "array"}
    <3> DEFINE x == Append(stack, [type |-> t.token, at |-> t.pos, keys |-> {}, key |-> <<>>])
    <3>1. uniqueValue(s, t) = [s EXCEPT !.stack = x]
      BY ZenonT(40), <1>1, <1>5, <2>0, <2>1 DEF uniqueValue
    <3>2. Parsed(stack, t, x)
      BY ZenonT(40), <2>0, <2>1 DEF Parsed
    <3> HIDE DEF x
    <3> QED
      BY ZenonT(40), <1>3, <1>5, <3>1, <3>2 DEF Unique
  <2>2. CASE t.role = "value" /\ t.token \notin {"object", "array"}
    <3> DEFINE x == Enter(stack)
    <3>1. uniqueValue(s, t) = [s EXCEPT !.stack = x]
      BY ZenonT(40), <1>1, <1>5, <2>0, <2>2 DEF uniqueValue
    <3>2. Parsed(stack, t, x)
      BY ZenonT(40), <2>0, <2>2 DEF Parsed
    <3> HIDE DEF x
    <3> QED
      BY ZenonT(40), <1>3, <1>5, <3>1, <3>2 DEF Unique
  <2>3. CASE t.role = "key"
    <3> DEFINE x == Keyed1(stack, t.token)
    <3>1. uniqueValue(s, t) = [s EXCEPT !.stack = x]
      <4>1. uniqueValue(s, t) = [s EXCEPT !.stack[Len(s.stack)].key = <<t.token>>]
        BY ZenonT(40), <1>1, <1>5, <2>0, <2>3 DEF uniqueValue
      <4> QED
        BY ZenonT(40), <1>1, <4>1 DEF Keyed1
    <3>2. Parsed(stack, t, x)
      BY ZenonT(40), <2>0, <2>3 DEF Parsed
    <3> HIDE DEF x
    <3> QED
      BY ZenonT(40), <1>3, <1>5, <3>1, <3>2 DEF Unique
  <2>4. CASE t.role = "close"
    <3> DEFINE x == Enter(SubSeq(stack, 1, Len(stack) - 1))
    <3>1. uniqueValue(s, t) = [s EXCEPT !.stack = x]
      BY ZenonT(40), <1>1, <1>5, <2>0, <2>4 DEF uniqueValue
    <3>2. Parsed(stack, t, x)
      BY ZenonT(40), <2>0, <2>4 DEF Parsed
    <3> HIDE DEF x
    <3> QED
      BY ZenonT(40), <1>3, <1>5, <3>1, <3>2 DEF Unique
  <2> QED
    BY ZenonT(40), <1>0, <2>1, <2>2, <2>3, <2>4
<1> QED
  BY ZenonT(40), <1>4, <1>5

\* The stack after a token that is accepted.
LEMMA ParsedStack ==
  ASSUME NEW tokens \in Seq(Tokens), NEW stack \in Seq(Frame), FramesRight(tokens, stack),
         \A i \in DOMAIN tokens : tokens[i].in \in 0..Len(tokens),
         NEW token \in Follows(stack), NEW t, IsPiece(Len(tokens), stack, token, t), NEW new, Parsed(stack, t, new)
  PROVE  new \in Seq(Frame) /\ FramesRight(Append(tokens, t), new)
<1> DEFINE l == Len(tokens)
           n == Len(stack)
<1>0. l \in Nat /\ n \in Nat /\ DOMAIN stack = 1..n
  OBVIOUS
<1>1. /\ t \in Tokens /\ t.pos = l + 1 /\ t.token = token /\ t.role = Role(stack, token) /\ t.depth = Len(stack)
      /\ t.in = IF stack = <<>> THEN 0 ELSE Top(stack).at
      /\ t.role \in {"value", "key", "close"}
      /\ t.role = "close" => stack # <<>>
      /\ t.role = "key" => stack # <<>> /\ Top(stack).key = <<>> /\ token \in Scalars
  <2>1. RightPiece(Len(tokens), stack, token, t)
    BY ZenonT(40), <1>0, PieceFacts
  <2> QED
    BY ZenonT(40), <2>1 DEF RightPiece
<1>2. "value" # "key" /\ "close" # "key"
  BY ZenonT(40)
<1>3. CASE t.role = "value" /\ t.token \in {"object", "array"}
  <2> DEFINE none == <<>>
             empty == {}
             pos == t.pos
             type == t.token
             frame == [type |-> type, at |-> pos, keys |-> empty, key |-> none]
  <2>1. none \in Keyed /\ empty \in SUBSET Scalars /\ pos \in Nat /\ type \in {"object", "array"}
    <3>1. none \in Keyed
      BY SMTT(40) DEF Keyed
    <3>2. pos \in Nat
      BY SMTT(40), <1>0, <1>1
    <3> QED
      BY ZenonT(40), <1>3, <3>1, <3>2
  <2>2. frame \in Frame /\ frame.at = pos /\ frame.keys = empty /\ frame.key = none
    <3> HIDE DEF none, empty, pos, type
    <3> QED
      BY ZenonT(40), <2>1 DEF Frame
  <2>3. new = Append(stack, frame)
    BY ZenonT(40), <1>3 DEF Parsed
  <2> HIDE DEF frame
  <2>4. frame.at = l + 1 /\ frame.keys = {} /\ frame.key = <<>>
    BY ZenonT(40), <1>1, <2>2
  <2>5. FramesRight(Append(tokens, t), Append(stack, frame))
    BY ZenonT(40), <1>1, <1>2, <1>3, <2>2, <2>4, FramesOpened
  <2>6. Append(stack, frame) \in Seq(Frame)
    BY SMTT(40), <2>2
  <2> QED
    BY ZenonT(40), <2>3, <2>5, <2>6
<1>4. CASE t.role = "value" /\ t.token \notin {"object", "array"}
  <2>1. new = Enter(stack)
    BY ZenonT(40), <1>4 DEF Parsed
  <2>2. /\ Enter(stack) \in Seq(Frame) /\ DOMAIN Enter(stack) = DOMAIN stack
        /\ \A k \in DOMAIN stack : /\ Enter(stack)[k].at = stack[k].at
                                   /\ Enter(stack)[k].keys \union Pending(Enter(stack)[k])
                                        = stack[k].keys \union Pending(stack[k])
    BY ZenonT(40), EnterFacts
  <2>3. \A k \in DOMAIN new : /\ k \in DOMAIN stack /\ new[k].at = stack[k].at
                              /\ new[k].keys \union Pending(new[k]) = stack[k].keys \union Pending(stack[k])
    BY ZenonT(40), <2>1, <2>2
  <2>4. FramesRight(Append(tokens, t), new)
    BY ZenonT(40), <1>1, <1>2, <1>4, <2>3, FramesStay
  <2> QED
    BY ZenonT(40), <2>1, <2>2, <2>4
<1>5. CASE t.role = "key"
  <2> DEFINE top == stack[n]
             key == <<t.token>>
             frame == [top EXCEPT !.key = key]
  <2>1. stack # <<>> /\ Top(stack).key = <<>> /\ token \in Scalars /\ t.in = Top(stack).at
    BY ZenonT(40), <1>1, <1>5
  <2>2. n \in DOMAIN stack /\ Top(stack) = top /\ top \in Frame
    BY SMTT(40), <2>1 DEF Top
  <2>3. key \in Keyed /\ key # <<>> /\ key[1] = t.token
    BY SMTT(40), <1>1, <2>1 DEF Keyed
  <2>4. new = [stack EXCEPT ![n] = frame]
    BY ZenonT(40), <1>5 DEF Parsed, Keyed1
  <2> HIDE DEF top, key
  <2>5. frame \in Frame /\ frame.at = top.at /\ frame.keys = top.keys /\ frame.key = key
    BY ZenonT(40), <2>2, <2>3 DEF Frame
  <2> HIDE DEF frame
  <2>6. Pending(frame) = {t.token}
    BY ZenonT(40), <2>3, <2>5 DEF Pending
  <2>7. /\ new \in Seq(Frame) /\ DOMAIN new = DOMAIN stack /\ new[n] = frame
        /\ \A k \in DOMAIN stack : k # n => new[k] = stack[k]
    BY SMTT(40), <2>2, <2>4, <2>5
  <2> HIDE DEF n
  <2>8. t.in = stack[n].at /\ stack[n].key = <<>> /\ new[n].at = stack[n].at /\ new[n].keys = stack[n].keys
        /\ Pending(new[n]) = {t.token}
    BY ZenonT(40), <2>1, <2>2, <2>5, <2>6, <2>7 DEF top
  <2>9. FramesRight(Append(tokens, t), new)
    <3>1. KeyRead(stack, n, t, new)
      BY ZenonT(40), <2>7, <2>8 DEF KeyRead
    <3> QED
      BY ZenonT(40), <1>1, <1>5, <2>2, <3>1, FramesKeyed
  <2> QED
    BY ZenonT(40), <2>7, <2>9
<1>6. CASE t.role = "close"
  <2> DEFINE rest == SubSeq(stack, 1, n - 1)
  <2>1. new = Enter(rest)
    BY ZenonT(40), <1>6 DEF Parsed
  <2>2. /\ rest \in Seq(Frame)
        /\ \A k \in DOMAIN rest : k \in DOMAIN stack /\ rest[k] = stack[k]
    BY SMTT(40), <1>1, <1>6
  <2> HIDE DEF rest
  <2>3. /\ Enter(rest) \in Seq(Frame) /\ DOMAIN Enter(rest) = DOMAIN rest
        /\ \A k \in DOMAIN rest : /\ Enter(rest)[k].at = rest[k].at
                                  /\ Enter(rest)[k].keys \union Pending(Enter(rest)[k])
                                       = rest[k].keys \union Pending(rest[k])
    BY ZenonT(40), <2>2, EnterFacts
  <2>4. ASSUME NEW k \in DOMAIN new
        PROVE  /\ k \in DOMAIN stack /\ new[k].at = stack[k].at
               /\ new[k].keys \union Pending(new[k]) = stack[k].keys \union Pending(stack[k])
    <3>1. k \in DOMAIN rest
      BY ZenonT(40), <2>1, <2>3
    <3>2. k \in DOMAIN stack /\ rest[k] = stack[k]
      BY ZenonT(40), <2>2, <3>1
    <3> QED
      BY ZenonT(40), <2>1, <2>3, <3>1, <3>2
  <2>5. FramesRight(Append(tokens, t), new)
    BY ZenonT(40), <1>1, <1>2, <1>6, <2>4, FramesStay
  <2> QED
    BY ZenonT(40), <2>1, <2>3, <2>5
<1> QED
  BY ZenonT(40), <1>1, <1>3, <1>4, <1>5, <1>6

\* A token is refused exactly when it makes the JSON ambiguous.
LEMMA JsonStep ==
  ASSUME NEW tokens, NEW s, JsonInv(tokens, s), ~s.failed, NEW token \in Follows(s.stack), NEW t,
         IsPiece(Len(tokens), s.stack, token, t)
  PROVE  JsonInv(Append(tokens, t), uniqueValue(s, t))
<1> DEFINE stack == s.stack
           l == Len(tokens)
           next == Append(tokens, t)
           new == uniqueValue(s, t)
           bad == (t.role = "value" /\ t.depth > MaxNesting) \/ (t.role = "key" /\ t.token \in Top(stack).keys)
<1>1. /\ tokens \in Seq(Tokens) /\ ParserOn(s, stack) /\ ~Ambiguous(tokens)
      /\ stack \in Seq(Frame) /\ FramesRight(tokens, stack)
      /\ \A i \in DOMAIN tokens : tokens[i].in \in 0..l
  <2>1. s.failed = FALSE
    BY ZenonT(40) DEF JsonInv
  <2> QED
    BY ZenonT(40), <2>1 DEF JsonInv, ParserOn
<1>2. l \in Nat
  BY SMTT(40), <1>1
<1>3. /\ t \in Tokens /\ t.pos = l + 1 /\ t.token = token /\ t.role = Role(stack, token) /\ t.depth = Len(stack)
      /\ t.in = IF stack = <<>> THEN 0 ELSE Top(stack).at
      /\ t.role \in {"value", "key", "close"}
      /\ t.role = "close" => stack # <<>>
      /\ t.role = "key" => stack # <<>> /\ Top(stack).key = <<>> /\ token \in Scalars
  <2>1. RightPiece(Len(tokens), stack, token, t)
    BY ZenonT(40), <1>1, <1>2, PieceFacts
  <2> QED
    BY ZenonT(40), <2>1 DEF RightPiece
<1>4. Ambiguous(next) <=> \/ t.role = "value" /\ t.depth > MaxNesting
                          \/ t.role = "key" /\ t.token \in KeysAt(tokens, t.in)
  BY ZenonT(40), <1>1, <1>3, AmbiguousStep
<1>5. stack # <<>> => /\ Top(stack).at \in 1..l
                      /\ KeysAt(tokens, Top(stack).at) = Top(stack).keys \union Pending(Top(stack))
  <2> SUFFICES ASSUME stack # <<>>
               PROVE  /\ Top(stack).at \in 1..l
                      /\ KeysAt(tokens, Top(stack).at) = Top(stack).keys \union Pending(Top(stack))
    BY ZenonT(40)
  <2>1. Len(stack) \in DOMAIN stack
    <3> HIDE DEF stack
    <3> QED
      BY SMTT(40), <1>1
  <2> QED
    BY ZenonT(40), <1>1, <2>1 DEF FramesRight, Top
<1>6. t.role = "key" => KeysAt(tokens, t.in) = Top(stack).keys
  BY ZenonT(40), <1>3, <1>5 DEF Pending
<1>7. Ambiguous(next) <=> bad
  BY ZenonT(40), <1>4, <1>6
<1>8. next \in Seq(Tokens) /\ \A i \in DOMAIN next : next[i].in \in 0..Len(next)
  <2>1. t.in \in 0..l
    <3>1. CASE stack = <<>>
      BY SMTT(40), <1>2, <1>3, <3>1
    <3>2. CASE stack # <<>>
      BY SMTT(40), <1>2, <1>3, <1>5, <3>2
    <3> QED
      BY ZenonT(40), <3>1, <3>2
  <2>2. /\ next \in Seq(Tokens) /\ DOMAIN next = DOMAIN tokens \union {l + 1} /\ next[l + 1] = t
        /\ \A i \in DOMAIN tokens : next[i] = tokens[i]
        /\ 0..l \subseteq 0..Len(next)
    BY SMTT(40), <1>1, <1>3
  <2> HIDE DEF next, l
  <2> QED
    BY ZenonT(40), <1>1, <2>1, <2>2
<1>9. IF bad THEN new = Parser(TRUE, stack)
      ELSE \E x : new = Parser(FALSE, x) /\ Parsed(stack, t, x)
  <2>1. Unique(stack, t, new)
    BY ZenonT(40), <1>1, <1>3, uniqueValueResult
  <2> QED
    BY ZenonT(40), <2>1 DEF Unique
<1> HIDE DEF new, next, bad, stack
<1>10. CASE bad
  <2>0. new = Parser(TRUE, stack)
    BY ZenonT(40), <1>9, <1>10
  <2>1. new.failed = TRUE /\ new.stack = stack
    BY ZenonT(40), <2>0 DEF Parser
  <2>2. JsonInv(next, new)
    BY ZenonT(40), <1>7, <1>8, <1>10, <2>0, <2>1 DEF JsonInv
  <2> QED
    BY ZenonT(40), <2>2 DEF next, new
<1>11. CASE ~bad
  <2>1. PICK x : new = Parser(FALSE, x) /\ Parsed(stack, t, x)
    BY ZenonT(40), <1>9, <1>11
  <2>2. IsPiece(Len(tokens), stack, token, t) /\ token \in Follows(stack)
    BY ZenonT(40) DEF stack
  <2>3. x \in Seq(Frame) /\ FramesRight(next, x)
    BY ZenonT(40), <1>1, <2>1, <2>2, ParsedStack DEF next
  <2>4. new.failed = FALSE /\ new.stack = x
    BY ZenonT(40), <2>1 DEF Parser
  <2>5. JsonInv(next, new)
    BY ZenonT(40), <1>7, <1>8, <1>11, <2>1, <2>3, <2>4 DEF JsonInv
  <2> QED
    BY ZenonT(40), <2>5 DEF next, new
<1> QED
  BY ZenonT(40), <1>10, <1>11

\* The JSON is refused exactly when it is ambiguous.
LEMMA ReportIsUnambiguous ==
  ASSUME NEW tokens, NEW s, JsonInv(tokens, s)
  PROVE  ReportUnambiguous(tokens, s)
  BY ZenonT(40) DEF JsonInv, Ambiguous, ReportUnambiguous

-----------------------------------------------------------------------------
(* The gates together *)

\* One invariant for each subject.
GateInv ==
  /\ subject = "report" => ReportInv(document, state)
  /\ subject = "json" => JsonInv(document, state)
  /\ subject = "notices" => document \in Seq(Notices)
  /\ subject = "provenance" => ProvenanceInv(document, state)
  /\ subject = "environment" => EnvironmentInv(document, state)

\* A report without messages.
LEMMA NoMessages == ReportInv(<<>>, Start)
<1> DEFINE none == {}
           empty == <<>>
           s == Scan(FALSE, 0, 0, none, none, empty)
<1>1. DOMAIN <<>> = {} /\ <<>> \in Seq(Messages) /\ <<>> \in Seq(Reported)
  OBVIOUS
<1>2. \A kind : Kinds(<<>>, kind) = {}
  BY ZenonT(40), <1>1 DEF Kinds
<1>3. InOrder(<<>>)
  BY ZenonT(40), <1>1 DEF InOrder
<1>4. FoundIn(<<>>, <<>>)
  <2>1. [k \in {} |-> k] \in Bijection({}, {})
    BY ZenonT(40) DEF Bijection, Injection, Surjection, IsInjective
  <2> QED
    BY ZenonT(40), <1>1, <1>2, <2>1 DEF FoundIn
<1>5. s.rejected = FALSE /\ s.configs = 0 /\ s.sboms = 0 /\ s.ids = none /\ s.osvs = none /\ s.findings = empty
  BY ZenonT(40) DEF Scan
<1>6. GoingOn(s, s.configs, s.sboms, s.ids, s.osvs, s.findings)
  BY ZenonT(40), <1>5 DEF GoingOn
<1>7. {<<>>[i].osv : i \in Kinds(<<>>, "finding")} = {} /\ {<<>>[i].osv : i \in Kinds(<<>>, "osv")} = {}
  BY ZenonT(40), <1>2
<1> HIDE DEF s
<1>8. ReportInv(<<>>, s)
  BY ZenonT(40), <1>1, <1>2, <1>3, <1>4, <1>5, <1>6, <1>7 DEF ReportInv
<1> QED
  BY ZenonT(40), <1>8 DEF s, Scan, Start

\* JSON without tokens.
LEMMA NoTokens == JsonInv(<<>>, [failed |-> FALSE, stack |-> <<>>])
<1> DEFINE empty == <<>>
           s == Parser(FALSE, empty)
<1>1. DOMAIN <<>> = {} /\ <<>> \in Seq(Tokens) /\ <<>> \in Seq(Frame)
  OBVIOUS
<1>2. ~Ambiguous(<<>>) /\ FramesRight(<<>>, <<>>)
  BY ZenonT(40), <1>1 DEF Ambiguous, FramesRight
<1>3. s.failed = FALSE /\ s.stack = empty
  BY ZenonT(40) DEF Parser
<1>4. s = Parser(s.failed, s.stack)
  BY ZenonT(40), <1>3
<1> HIDE DEF s
<1>5. JsonInv(<<>>, s)
  BY ZenonT(40), <1>1, <1>2, <1>3, <1>4 DEF JsonInv
<1> QED
  BY ZenonT(40), <1>5 DEF s, Parser

\* A provenance without fields.
LEMMA NoFields == ProvenanceInv(<<>>, [result |-> [n \in {} |-> n], ended |-> FALSE, failed |-> FALSE])
<1> DEFINE r == [n \in {} |-> n]
           s == [result |-> r, ended |-> FALSE, failed |-> FALSE]
<1>1. <<>> \in Seq(Fields) /\ Len(<<>>) = 0 /\ 1..0 = {} /\ DOMAIN r = {}
  OBVIOUS
<1>2. s.result = r /\ s.ended = FALSE /\ s.failed = FALSE
  BY ZenonT(40)
<1>3. s = [result |-> s.result, ended |-> s.ended, failed |-> s.failed]
  BY ZenonT(40), <1>2
<1> HIDE DEF s, r
<1>4. \E n \in {Len(<<>>), Len(<<>>) - 1} :
         /\ IF s.ended THEN n = Len(<<>>) - 1 /\ n \in Nat /\ <<>>[Len(<<>>)][1] = "endObject" ELSE n = Len(<<>>)
         /\ DOMAIN s.result = {<<>>[i][1] : i \in 1..n}
         /\ \A i \in 1..n : <<>>[i][1] # "endObject" /\ s.result[<<>>[i][1]] = <<>>[i][2]
         /\ \A i, j \in 1..n : <<>>[i][1] = <<>>[j][1] => i = j
  BY ZenonT(40), <1>1, <1>2
<1>5. ProvenanceInv(<<>>, s)
  BY ZenonT(40), <1>1, <1>2, <1>3, <1>4 DEF ProvenanceInv
<1> QED
  BY ZenonT(40), <1>5 DEF s, r

\* An environment without variables.
LEMMA NoEnvironment == EnvironmentInv(<<>>, [env |-> <<>>, filtered |-> <<>>, read |-> 0, item |-> 0])
<1> DEFINE empty == <<>>
           s == Loop(empty, empty, 0, 0)
<1>1. DOMAIN <<>> = {} /\ <<>> \in Seq(Assignment)
  OBVIOUS
<1>2. s.env = empty /\ s.filtered = empty /\ s.read = 0 /\ s.item = 0
  BY ZenonT(40) DEF Loop
<1>3. s = Loop(s.env, s.filtered, s.read, s.item)
  BY ZenonT(40), <1>2
<1> HIDE DEF s
<1>4. EnvironmentInv(<<>>, s)
  BY ZenonT(40), <1>1, <1>2, <1>3 DEF EnvironmentInv
<1> QED
  BY ZenonT(40), <1>4 DEF s, Loop

\* The invariant holds before a document is read.
LEMMA GateInvInit == Init => GateInv
<1>1. ASSUME StreamInit \/ PlanInit \/ StartupInit PROVE subject \notin GateSubjects
  <2>1. ASSUME StreamInit PROVE subject \in StreamSubjects
    BY ZenonT(40), <2>1 DEF StreamInit, StreamSubjects
  <2>2. ASSUME PlanInit PROVE subject \in PlanSubjects
    BY ZenonT(40), <2>2 DEF PlanInit, PlanSubjects
  <2>3. ASSUME StartupInit PROVE subject \in StartupSubjects
    BY ZenonT(40), <2>3 DEF StartupInit, StartupSubjects
  <2> QED
    BY ZenonT(40), <1>1, <2>1, <2>2, <2>3 DEF StreamSubjects, PlanSubjects, GateSubjects, StartupSubjects
<1>2. ASSUME subject \notin GateSubjects PROVE GateInv
  BY ZenonT(40), <1>2 DEF GateInv, GateSubjects
<1>3. ASSUME GateInit PROVE GateInv
  <2>0. document = <<>>
    BY ZenonT(40), <1>3 DEF GateInit
  <2>1. CASE subject = "report"
    <3>1. subject \notin {"json", "notices", "provenance", "environment"}
      BY ZenonT(40), <2>1
    <3>2. state = Start
      BY ZenonT(40), <1>3, <3>1 DEF GateInit
    <3>3. ReportInv(document, state)
      BY ZenonT(40), <2>0, <3>2, NoMessages
    <3> QED
      BY ZenonT(40), <3>1, <3>3 DEF GateInv
  <2>2. CASE subject = "json"
    <3>1. subject \notin {"report", "notices", "provenance", "environment"}
      BY ZenonT(40), <2>2
    <3>2. state = [failed |-> FALSE, stack |-> <<>>]
      BY ZenonT(40), <1>3, <3>1 DEF GateInit
    <3>3. JsonInv(document, state)
      BY ZenonT(40), <2>0, <3>2, NoTokens
    <3> QED
      BY ZenonT(40), <3>1, <3>3 DEF GateInv
  <2>3. CASE subject = "notices"
    <3>1. subject \notin {"report", "json", "provenance", "environment"}
      BY ZenonT(40), <2>3
    <3>2. document \in Seq(Notices)
      BY SMTT(40), <2>0
    <3> QED
      BY ZenonT(40), <3>1, <3>2 DEF GateInv
  <2>4. CASE subject = "provenance"
    <3>1. subject \notin {"report", "json", "notices", "environment"}
      BY ZenonT(40), <2>4
    <3>2. state = [result |-> [n \in {} |-> n], ended |-> FALSE, failed |-> FALSE]
      BY ZenonT(40), <1>3, <3>1 DEF GateInit
    <3>3. ProvenanceInv(document, state)
      BY ZenonT(40), <2>0, <3>2, NoFields
    <3> QED
      BY ZenonT(40), <3>1, <3>3 DEF GateInv
  <2>5. CASE subject = "environment"
    <3>1. subject \notin {"report", "json", "notices", "provenance"}
      BY ZenonT(40), <2>5
    <3>2. state = [env |-> <<>>, filtered |-> <<>>, read |-> 0, item |-> 0]
      BY ZenonT(40), <1>3, <3>1 DEF GateInit
    <3>3. EnvironmentInv(document, state)
      BY ZenonT(40), <2>0, <3>2, NoEnvironment
    <3> QED
      BY ZenonT(40), <3>1, <3>3 DEF GateInv
  <2> QED
    BY ZenonT(40), <1>3, <2>1, <2>2, <2>3, <2>4, <2>5 DEF GateInit
<1> QED
  BY ZenonT(40), <1>1, <1>2, <1>3 DEF Init

\* Every step keeps it.
LEMMA GateInvNext == GateInv /\ [Next]_vars => GateInv'
<1> SUFFICES ASSUME GateInv, [Next]_vars PROVE GateInv'
  OBVIOUS
<1>0. UNCHANGED subject
  BY ZenonT(40), StreamSubject, PlanSubject, GateSubject, StartupSubject DEF Next, vars
<1>1. CASE subject \notin GateSubjects
  BY ZenonT(40), <1>0, <1>1 DEF GateInv, GateSubjects
<1>2. CASE UNCHANGED vars
  BY ZenonT(40), <1>2 DEF GateInv, vars
<1>3. ASSUME StreamNext \/ PlanNext \/ StartupNext PROVE subject \notin GateSubjects
  BY ZenonT(40), <1>3, StreamSubject, PlanSubject, StartupSubject DEF StreamSubjects, PlanSubjects, GateSubjects, StartupSubjects
<1>4. CASE ReadMessage
  <2>1. subject = "report" /\ ~state.rejected
        /\ \E message \in Messages : document' = Append(document, message) /\ state' = Message(state, message)
    BY ZenonT(40), <1>4 DEF ReadMessage, Take
  <2>2. subject \notin {"json", "notices", "provenance", "environment"}
    BY ZenonT(40), <2>1
  <2>3. ReportInv(document', state')
    BY ZenonT(40), <2>1, ReportStep DEF GateInv
  <2> QED
    BY ZenonT(40), <1>0, <2>2, <2>3 DEF GateInv
<1>5. CASE ReadToken
  <2>1. subject = "json" /\ ~state.failed
        /\ \E token \in Follows(state.stack) :
             /\ document' = Append(document, Token(state.stack, token))
             /\ state' = uniqueValue(state, Token(state.stack, token))
    BY ZenonT(40), <1>5 DEF ReadToken, Take
  <2>2. subject \notin {"report", "notices", "provenance", "environment"}
    BY ZenonT(40), <2>1
  <2>3. PICK token \in Follows(state.stack) :
             /\ document' = Append(document, Token(state.stack, token))
             /\ state' = uniqueValue(state, Token(state.stack, token))
    BY ZenonT(40), <2>1
  <2> DEFINE t == Token(state.stack, token)
  <2>4. IsPiece(Len(document), state.stack, token, t)
    BY ZenonT(40) DEF Token, Piece, IsPiece
  <2> HIDE DEF t
  <2>5. JsonInv(Append(document, t), uniqueValue(state, t))
    BY ZenonT(40), <2>1, <2>4, JsonStep DEF GateInv
  <2>6. JsonInv(document', state')
    BY ZenonT(40), <2>3, <2>5 DEF t
  <2> QED
    BY ZenonT(40), <1>0, <2>2, <2>6 DEF GateInv
<1>6. CASE AddNotice
  <2>1. subject = "notices" /\ \E notice \in Notices : document' = Append(document, notice)
    BY ZenonT(40), <1>6 DEF AddNotice, Take
  <2>2. subject \notin {"report", "json", "provenance", "environment"}
    BY ZenonT(40), <2>1
  <2>3. document \in Seq(Notices)
    BY ZenonT(40), <2>1 DEF GateInv
  <2>4. document' \in Seq(Notices)
    BY SMTT(40), <2>1, <2>3
  <2> QED
    BY ZenonT(40), <1>0, <2>2, <2>4 DEF GateInv
<1>7. CASE ReadField
  <2>1. subject = "provenance" /\ ~state.failed
        /\ \E field \in Fields : document' = Append(document, field) /\ state' = receipt(state, field)
    BY ZenonT(40), <1>7 DEF ReadField, Take, Fields
  <2>2. subject \notin {"report", "json", "notices", "environment"}
    BY ZenonT(40), <2>1
  <2>3. ProvenanceInv(document', state')
    BY ZenonT(40), <2>1, ProvenanceStep DEF GateInv
  <2> QED
    BY ZenonT(40), <1>0, <2>2, <2>3 DEF GateInv
<1>8. CASE AddVariable
  <2>1. subject = "environment" /\ state.item = 0 /\ state' = state
        /\ \E v \in Environ :
             document' = Append(document, [pos |-> Len(document) + 1, name |-> v.name, value |-> v.value])
    BY ZenonT(40), <1>8 DEF AddVariable, Take
  <2>2. subject \notin {"report", "json", "notices", "provenance"}
    BY ZenonT(40), <2>1
  <2>3. EnvironmentInv(document', state')
    BY ZenonT(40), <2>1, VariableAdded DEF GateInv
  <2> QED
    BY ZenonT(40), <1>0, <2>2, <2>3 DEF GateInv
<1>9. CASE BeginCommand
  <2>1. subject = "environment" /\ state.item = 0 /\ document' = document
        /\ state' = [env |-> document, filtered |-> <<>>, read |-> 0, item |-> 1]
    BY ZenonT(40), <1>9 DEF BeginCommand, Compute
  <2>2. subject \notin {"report", "json", "notices", "provenance"}
    BY ZenonT(40), <2>1
  <2>3. EnvironmentInv(document', state')
    BY ZenonT(40), <2>1, CommandBegun DEF GateInv
  <2> QED
    BY ZenonT(40), <1>0, <2>2, <2>3 DEF GateInv
<1>10. CASE command
  <2>1. subject = "environment" /\ state.item \in DOMAIN Forced /\ document' = document
        /\ IF state.read < Len(state.env) THEN state' = Filter(state)
           ELSE state' = [env |-> Append(state.filtered, Forced[state.item]), filtered |-> <<>>,
                          read |-> 0, item |-> state.item + 1]
    BY ZenonT(40), <1>10 DEF command, Compute
  <2>2. subject \notin {"report", "json", "notices", "provenance"}
    BY ZenonT(40), <2>1
  <2>3. EnvironmentInv(document, state)
    BY ZenonT(40), <2>1 DEF GateInv
  <2>4. /\ state.read < Len(state.env) => EnvironmentInv(document, Filter(state))
        /\ ~(state.read < Len(state.env)) =>
             EnvironmentInv(document, [env |-> Append(state.filtered, Forced[state.item]), filtered |-> <<>>,
                                       read |-> 0, item |-> state.item + 1])
    BY ZenonT(40), <2>1, <2>3, CommandStep
  <2>5. EnvironmentInv(document', state')
    BY ZenonT(40), <2>1, <2>4
  <2> QED
    BY ZenonT(40), <1>0, <2>2, <2>5 DEF GateInv
<1> QED
  BY ZenonT(40), <1>1, <1>2, <1>3, <1>4, <1>5, <1>6, <1>7, <1>8, <1>9, <1>10 DEF Next, GateNext

\* It says what the gates are for.
LEMMA GateInvRight == GateInv => GatesRight
<1> SUFFICES ASSUME GateInv PROVE GatesRight
  OBVIOUS
<1>1. subject = "report" => \A inputs \in Inputs : ReportReviewed(inputs, document, state)
  BY ZenonT(40), ReportIsReviewed DEF GateInv
<1>2. subject = "json" => ReportUnambiguous(document, state)
  BY ZenonT(40), ReportIsUnambiguous DEF GateInv
<1>3. subject = "notices" => NoticesComplete(document)
  BY ZenonT(40), NoticesAreComplete DEF GateInv
<1>4. subject = "provenance" => ProvenanceExact(document, state)
  BY ZenonT(40), ProvenanceIsExact DEF GateInv
<1>5. subject = "environment" => MetadataTrusted(document, state)
  BY ZenonT(40), MetadataIsTrusted DEF GateInv
<1> QED
  BY ZenonT(40), <1>1, <1>2, <1>3, <1>4, <1>5 DEF GatesRight

\* A release is let through for exactly the reviewed report, read from JSON
\* with one meaning, and only with every notice, the exact provenance and the
\* forced environment, whatever vendorcheck and noticecheck are given.
THEOREM GatesAreRight == Spec => []GatesRight
  BY GateInvInit, GateInvNext, GateInvRight, PTL DEF Spec
=============================================================================
