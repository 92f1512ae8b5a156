------------------------ MODULE KubernetesJobProofs ------------------------
(***************************************************************************)
(* Proofs about KubernetesJob: for any configurations, any number of Pods, *)
(* faults and failing removals, and any delays of the monitor.             *)
(***************************************************************************)
EXTENDS KubernetesJob, SequenceTheorems, TLAPS

-----------------------------------------------------------------------------
(* The steps of each mode *)

StepNames ==
  {"factory", "folder", "agent", "main.tf", "version", "init", "verify", "plan", "show",
   "summary", "apply", "metadata", "decode", "output", "encrypt", "destroy", "mkdir", "parse",
   "unsupported"}

\* u is the list s of n steps followed by the list t: every step is at its place
\* in s, or that many places further on.
Joined(s, n, t, u) ==
  /\ u \in Seq(StepNames) /\ Len(u) = n + Len(t)
  /\ \A i \in 1..n : u[i] = s[i]
  /\ \A i \in 1..Len(t) : u[n + i] = t[i]
  /\ \A i \in 1..Len(u) : i \in 1..n \/ \E k \in 1..Len(t) : i = n + k

\* Two lists of steps, one after the other.
LEMMA ConcatSteps ==
  ASSUME NEW s \in Seq(StepNames), NEW t \in Seq(StepNames), NEW n \in Nat, Len(s) = n
  PROVE  Joined(s, n, t, s \o t)
<1>1. Len(t) \in Nat
  BY ZenonT(40), LenProperties
<1>2. /\ s \o t \in Seq(StepNames) /\ Len(s \o t) = n + Len(t)
      /\ \A i \in 1..n + Len(t) : (s \o t)[i] = IF i <= n THEN s[i] ELSE t[i - n]
  BY ZenonT(40), ConcatProperties
<1>3. ASSUME NEW i \in 1..n PROVE (s \o t)[i] = s[i]
  <2>1. i \in 1..n + Len(t) /\ i <= n
    BY SMTT(40), <1>1
  <2>2. QED
    BY ZenonT(40), <1>2, <2>1
<1>4. ASSUME NEW i \in 1..Len(t) PROVE (s \o t)[n + i] = t[i]
  <2>1. n + i \in 1..n + Len(t) /\ ~(n + i <= n) /\ (n + i) - n = i
    BY SMTT(40), <1>1
  <2>2. QED
    BY ZenonT(40), <1>2, <2>1
<1>5. ASSUME NEW i \in 1..Len(s \o t) PROVE i \in 1..n \/ \E k \in 1..Len(t) : i = n + k
  <2>1. CASE i > n
    <3>1. i - n \in 1..Len(t) /\ i = n + (i - n)
      BY SMTT(40), <1>1, <1>2, <2>1
    <3>2. QED
      BY ZenonT(40), <3>1
  <2>2. CASE ~(i > n)
    BY SMTT(40), <1>1, <1>2, <2>2
  <2>3. QED
    BY ZenonT(40), <2>1, <2>2
<1>6. QED
  BY ZenonT(40), <1>2, <1>3, <1>4, <1>5 DEF Joined

\* The steps before the modes part end with the verification of the artifacts.
LEMMA PrepareSteps ==
  /\ Prepare \in Seq(StepNames) /\ Len(Prepare) = 7 /\ Prepare[7] = "verify"
  /\ \A i \in 1..7 : Prepare[i] \notin {"apply", "destroy", "mkdir"}
<1>1. Prepare \in Seq(StepNames)
  BY SMTT(40) DEF Prepare, StepNames
<1>2. Len(Prepare) = 7
  BY ZenonT(40) DEF Prepare
<1>3. /\ Prepare[1] = "factory" /\ Prepare[2] = "folder" /\ Prepare[3] = "agent"
      /\ Prepare[4] = "main.tf" /\ Prepare[5] = "version" /\ Prepare[6] = "init"
      /\ Prepare[7] = "verify"
  BY ZenonT(40) DEF Prepare
<1>4. \A i \in 1..7 : i \in {1, 2, 3, 4, 5, 6, 7}
  OBVIOUS
<1>5. QED
  BY ZenonT(40), <1>1, <1>2, <1>3, <1>4

\* Where the steps of an execution are that its properties depend on: nothing is
\* applied before the verification and the plan, nothing destroyed before the
\* verification, and none of these ends the execution.
StepOrder(j) ==
  LET S == Steps(j) IN
  /\ S \in Seq(StepNames) /\ Len(S) > 0
  /\ j.mode \in {"deploy", "destroy"} => S[7] = "verify"
  /\ j.mode = "deploy" => S[8] = "plan" /\ S[11] = "apply" /\ Len(S) > 11
  /\ j.mode = "destroy" => S[8] = "destroy" /\ Len(S) > 8
  /\ j.mode = "observe" => S[5] = "mkdir" /\ Len(S) > 5
  /\ j.mode = "other" => Len(S) = 1 /\ S[1] = "unsupported"
  /\ \A i \in 1..Len(S) :
       /\ S[i] = "apply" => j.mode = "deploy" /\ i = 11
       /\ S[i] = "destroy" => j.mode = "destroy" /\ i = 8
       /\ S[i] \in {"agent", "mkdir"} => i < Len(S)

\* The steps of a deployment: the plan right after the verification, the apply
\* after the plan was shown and summed up, the outputs last.
LEMMA DeploySteps == ASSUME NEW j \in Jobs, j.mode = "deploy" PROVE StepOrder(j)
<1> DEFINE T == <<"plan", "show", "summary", "apply", "summary">>
           M == <<"metadata", "decode">>
           K == IF j.key THEN <<"output", "encrypt">> ELSE <<>>
           D == M \o K
           U == T \o D
           S == Prepare \o U
<1>1. Steps(j) = S
  BY SMTT(40) DEF Steps, DeployOutputs
<1>2. K \in Seq(StepNames) /\ Len(K) \in Nat /\ \A i \in 1..Len(K) : K[i] \in {"output", "encrypt"}
  <2>1. CASE j.key
    <3>1. K = <<"output", "encrypt">>
      BY ZenonT(40), <2>1
    <3>2. K \in Seq(StepNames)
      <4>1. <<"output", "encrypt">> \in Seq(StepNames)
        BY SMTT(40) DEF StepNames
      <4>2. QED
        BY ZenonT(40), <3>1, <4>1
    <3>3. Len(K) = 2 /\ K[1] = "output" /\ K[2] = "encrypt"
      BY ZenonT(40), <3>1
    <3>4. \A i \in 1..2 : i = 1 \/ i = 2
      OBVIOUS
    <3> HIDE DEF K
    <3>5. QED
      BY SMTT(40), <3>2, <3>3, <3>4
  <2>2. CASE ~j.key
    <3>1. K = <<>>
      BY ZenonT(40), <2>2
    <3>2. QED
      BY SMTT(40), <3>1
  <2>3. QED
    BY ZenonT(40), <2>1, <2>2
<1> HIDE DEF K
<1>3. M \in Seq(StepNames) /\ Len(M) = 2 /\ \A i \in 1..2 : M[i] \in {"metadata", "decode"}
  <2>1. M \in Seq(StepNames)
    BY SMTT(40) DEF StepNames
  <2>2. Len(M) = 2 /\ M[1] = "metadata" /\ M[2] = "decode"
    OBVIOUS
  <2>3. \A i \in 1..2 : i = 1 \/ i = 2
    OBVIOUS
  <2> HIDE DEF M
  <2>4. QED
    BY ZenonT(40), <2>1, <2>2, <2>3
<1> HIDE DEF M
<1>4. /\ D \in Seq(StepNames) /\ Len(D) = 2 + Len(K)
      /\ \A i \in 1..Len(D) : D[i] \in {"metadata", "decode", "output", "encrypt"}
  <2>1. /\ D \in Seq(StepNames) /\ Len(D) = 2 + Len(K)
        /\ \A i \in 1..2 : D[i] = M[i]
        /\ \A i \in 1..Len(K) : D[2 + i] = K[i]
        /\ \A i \in 1..Len(D) : i \in 1..2 \/ \E k \in 1..Len(K) : i = 2 + k
    <3>1. M \in Seq(StepNames) /\ K \in Seq(StepNames) /\ Len(M) = 2 /\ 2 \in Nat
      BY ZenonT(40), <1>2, <1>3
    <3>2. Joined(M, 2, K, D)
      BY ZenonT(40), <3>1, ConcatSteps
    <3>3. QED
      BY ZenonT(40), <3>2 DEF Joined
  <2> HIDE DEF D
  <2>2. QED
    BY ZenonT(40), <1>2, <1>3, <2>1
<1> HIDE DEF D
<1>5. /\ T \in Seq(StepNames) /\ Len(T) = 5 /\ T[1] = "plan" /\ T[4] = "apply"
      /\ \A i \in 1..5 : T[i] = "apply" => i = 4
      /\ \A i \in 1..5 : T[i] \notin {"destroy", "agent", "mkdir"}
  <2>1. T \in Seq(StepNames)
    BY SMTT(40) DEF StepNames
  <2>2. /\ Len(T) = 5 /\ T[1] = "plan" /\ T[2] = "show" /\ T[3] = "summary"
        /\ T[4] = "apply" /\ T[5] = "summary"
    OBVIOUS
  <2>3. \A i \in 1..5 : i = 1 \/ i = 2 \/ i = 3 \/ i = 4 \/ i = 5
    OBVIOUS
  <2> HIDE DEF T
  <2>4. QED
    BY ZenonT(40), <2>1, <2>2, <2>3
<1> HIDE DEF T
<1>6. /\ U \in Seq(StepNames) /\ Len(U) >= 7 /\ Len(U) \in Nat
      /\ U[1] = "plan" /\ U[4] = "apply"
      /\ \A i \in 1..Len(U) : U[i] = "apply" => i = 4
      /\ \A i \in 1..Len(U) : U[i] \notin {"destroy", "agent", "mkdir"}
  <2>1. /\ U \in Seq(StepNames) /\ Len(U) = 5 + Len(D)
        /\ \A i \in 1..5 : U[i] = T[i]
        /\ \A i \in 1..Len(D) : U[5 + i] = D[i]
        /\ \A i \in 1..Len(U) : i \in 1..5 \/ \E k \in 1..Len(D) : i = 5 + k
    <3>1. T \in Seq(StepNames) /\ D \in Seq(StepNames) /\ Len(T) = 5 /\ 5 \in Nat
      BY ZenonT(40), <1>4, <1>5
    <3>2. Joined(T, 5, D, U)
      BY ZenonT(40), <3>1, ConcatSteps
    <3>3. QED
      BY ZenonT(40), <3>2 DEF Joined
  <2> HIDE DEF U
  <2>2. ASSUME NEW i \in 1..Len(U)
        PROVE  (U[i] = "apply" => i = 4) /\ U[i] \notin {"destroy", "agent", "mkdir"}
    <3>1. CASE i \in 1..5
      BY ZenonT(40), <1>5, <2>1, <3>1
    <3>2. CASE \E k \in 1..Len(D) : i = 5 + k
      BY ZenonT(40), <1>4, <2>1, <3>2
    <3>3. QED
      BY ZenonT(40), <2>1, <3>1, <3>2
  <2>3. 1 \in 1..5 /\ 4 \in 1..5
    OBVIOUS
  <2>4. U[1] = "plan" /\ U[4] = "apply"
    BY ZenonT(40), <1>5, <2>1, <2>3
  <2>5. Len(U) >= 7 /\ Len(U) \in Nat
    BY SMTT(40), <1>2, <1>4, <2>1
  <2>6. QED
    BY ZenonT(40), <2>1, <2>2, <2>4, <2>5
<1> HIDE DEF U
<1>7. /\ S \in Seq(StepNames) /\ Len(S) = 7 + Len(U)
      /\ \A i \in 1..7 : S[i] = Prepare[i]
      /\ \A i \in 1..Len(U) : S[7 + i] = U[i]
      /\ \A i \in 1..Len(S) : i \in 1..7 \/ \E k \in 1..Len(U) : i = 7 + k
  <2>1. U \in Seq(StepNames) /\ 7 \in Nat
    BY ZenonT(40), <1>6
  <2>2. Joined(Prepare, 7, U, S)
    BY ZenonT(40), <2>1, PrepareSteps, ConcatSteps
  <2>3. QED
    BY ZenonT(40), <2>2 DEF Joined
<1> HIDE DEF S
<1>8. S[7] = "verify" /\ S[8] = "plan" /\ S[11] = "apply" /\ Len(S) > 11
  <2>1. 7 \in 1..7 /\ 1 \in 1..Len(U) /\ 4 \in 1..Len(U) /\ 7 + 1 = 8 /\ 7 + 4 = 11
    BY SMTT(40), <1>6
  <2>2. S[7] = "verify"
    BY ZenonT(40), <1>7, <2>1, PrepareSteps
  <2>3. S[7 + 1] = "plan" /\ S[7 + 4] = "apply"
    BY ZenonT(40), <1>6, <1>7, <2>1
  <2>4. QED
    BY SMTT(40), <1>6, <1>7, <2>1, <2>2, <2>3
<1>9. ASSUME NEW i \in 1..Len(S)
      PROVE  /\ S[i] = "apply" => i = 11
             /\ S[i] # "destroy"
             /\ S[i] \in {"agent", "mkdir"} => i < Len(S)
  <2>1. CASE i \in 1..7
    <3>1. i < Len(S)
      BY SMTT(40), <1>8, <2>1
    <3>2. QED
      BY ZenonT(40), <1>7, <2>1, <3>1, PrepareSteps
  <2>2. CASE \E k \in 1..Len(U) : i = 7 + k
    <3>1. PICK k \in 1..Len(U) : i = 7 + k
      BY ZenonT(40), <2>2
    <3>2. S[i] = U[k]
      BY ZenonT(40), <1>7, <3>1
    <3>3. S[i] = "apply" => k = 4
      BY ZenonT(40), <1>6, <3>2
    <3>4. QED
      BY SMTT(40), <1>6, <3>1, <3>2, <3>3
  <2>3. QED
    BY ZenonT(40), <1>7, <2>1, <2>2
<1>10. QED
  BY SMTT(40), <1>1, <1>7, <1>8, <1>9 DEF StepOrder

\* The steps of a destroy: right after the verification.
LEMMA DestroySteps == ASSUME NEW j \in Jobs, j.mode = "destroy" PROVE StepOrder(j)
<1> DEFINE T == <<"destroy", "summary">>
           S == Prepare \o T
<1>1. Steps(j) = S
  BY ZenonT(40) DEF Steps
<1>2. /\ T \in Seq(StepNames) /\ Len(T) = 2 /\ T[1] = "destroy" /\ T[2] = "summary"
      /\ \A i \in 1..2 : i = 1 \/ i = 2
  <2>1. T \in Seq(StepNames)
    BY SMTT(40) DEF StepNames
  <2>2. QED
    BY SMTT(40), <2>1
<1> HIDE DEF T
<1>3. /\ S \in Seq(StepNames) /\ Len(S) = 7 + Len(T)
      /\ \A i \in 1..7 : S[i] = Prepare[i]
      /\ \A i \in 1..Len(T) : S[7 + i] = T[i]
      /\ \A i \in 1..Len(S) : i \in 1..7 \/ \E k \in 1..Len(T) : i = 7 + k
  <2>1. T \in Seq(StepNames) /\ 7 \in Nat
    BY ZenonT(40), <1>2
  <2>2. Joined(Prepare, 7, T, S)
    BY ZenonT(40), <2>1, PrepareSteps, ConcatSteps
  <2>3. QED
    BY ZenonT(40), <2>2 DEF Joined
<1> HIDE DEF S
<1>4. S[7] = "verify" /\ S[8] = "destroy" /\ Len(S) = 9
  <2>1. 7 \in 1..7 /\ 1 \in 1..Len(T) /\ 7 + 1 = 8
    BY SMTT(40), <1>2
  <2>2. S[7] = "verify"
    BY ZenonT(40), <1>3, <2>1, PrepareSteps
  <2>3. S[7 + 1] = "destroy"
    BY ZenonT(40), <1>2, <1>3, <2>1
  <2>4. QED
    BY SMTT(40), <1>2, <1>3, <2>1, <2>2, <2>3
<1>5. ASSUME NEW i \in 1..Len(S)
      PROVE  /\ S[i] # "apply"
             /\ S[i] = "destroy" => i = 8
             /\ S[i] \in {"agent", "mkdir"} => i < Len(S)
  <2>1. CASE i \in 1..7
    <3>1. i < Len(S)
      BY SMTT(40), <1>4, <2>1
    <3>2. QED
      BY ZenonT(40), <1>3, <2>1, <3>1, PrepareSteps
  <2>2. CASE \E k \in 1..Len(T) : i = 7 + k
    <3>1. PICK k \in 1..Len(T) : i = 7 + k
      BY ZenonT(40), <2>2
    <3>2. S[i] = T[k] /\ (k = 1 \/ k = 2)
      BY ZenonT(40), <1>2, <1>3, <3>1
    <3>3. k = 1 => i = 8
      BY SMTT(40), <3>1
    <3>4. QED
      BY ZenonT(40), <1>2, <3>2, <3>3
  <2>3. QED
    BY ZenonT(40), <1>3, <2>1, <2>2
<1>6. /\ Len(S) > 0 /\ Len(S) > 8
      /\ \A i \in 1..Len(S) :
           /\ S[i] = "apply" => j.mode = "deploy" /\ i = 11
           /\ S[i] = "destroy" => j.mode = "destroy" /\ i = 8
           /\ S[i] \in {"agent", "mkdir"} => i < Len(S)
  BY SMTT(40), <1>4, <1>5
<1>7. QED
  BY ZenonT(40), <1>1, <1>3, <1>4, <1>6 DEF StepOrder

\* The steps of a plan change nothing.
LEMMA PlanSteps == ASSUME NEW j \in Jobs, j.mode = "plan" PROVE StepOrder(j)
<1> DEFINE T == <<"plan", "show", "summary">>
           K == IF j.key THEN <<"encrypt">> ELSE <<>>
           U == T \o K
           S == Prepare \o U
<1>1. Steps(j) = S
  BY SMTT(40) DEF Steps
<1>2. K \in Seq(StepNames) /\ Len(K) \in Nat /\ \A i \in 1..Len(K) : K[i] = "encrypt"
  <2>1. CASE j.key
    <3>1. K = <<"encrypt">>
      BY ZenonT(40), <2>1
    <3>2. <<"encrypt">> \in Seq(StepNames)
      BY SMTT(40) DEF StepNames
    <3>3. Len(K) = 1 /\ K[1] = "encrypt"
      BY ZenonT(40), <3>1
    <3>4. \A i \in 1..1 : i = 1
      OBVIOUS
    <3> HIDE DEF K
    <3>5. QED
      BY ZenonT(40), <3>1, <3>2, <3>3, <3>4
  <2>2. CASE ~j.key
    <3>1. K = <<>>
      BY ZenonT(40), <2>2
    <3>2. QED
      BY SMTT(40), <3>1
  <2>3. QED
    BY ZenonT(40), <2>1, <2>2
<1> HIDE DEF K
<1>3. T \in Seq(StepNames) /\ Len(T) = 3 /\ \A i \in 1..3 : T[i] \in {"plan", "show", "summary"}
  <2>1. T \in Seq(StepNames)
    BY SMTT(40) DEF StepNames
  <2>2. Len(T) = 3 /\ T[1] = "plan" /\ T[2] = "show" /\ T[3] = "summary"
    OBVIOUS
  <2>3. \A i \in 1..3 : i = 1 \/ i = 2 \/ i = 3
    OBVIOUS
  <2> HIDE DEF T
  <2>4. QED
    BY ZenonT(40), <2>1, <2>2, <2>3
<1> HIDE DEF T
<1>4. /\ U \in Seq(StepNames) /\ Len(U) = 3 + Len(K)
      /\ \A i \in 1..Len(U) : U[i] \in {"plan", "show", "summary", "encrypt"}
  <2>1. T \in Seq(StepNames) /\ K \in Seq(StepNames) /\ Len(T) = 3 /\ 3 \in Nat
    BY ZenonT(40), <1>2, <1>3
  <2>2. /\ U \in Seq(StepNames) /\ Len(U) = 3 + Len(K)
        /\ \A i \in 1..3 : U[i] = T[i]
        /\ \A i \in 1..Len(K) : U[3 + i] = K[i]
        /\ \A i \in 1..Len(U) : i \in 1..3 \/ \E k \in 1..Len(K) : i = 3 + k
    <3>1. Joined(T, 3, K, U)
      BY ZenonT(40), <2>1, ConcatSteps
    <3>2. QED
      BY ZenonT(40), <3>1 DEF Joined
  <2> HIDE DEF U
  <2>3. QED
    BY ZenonT(40), <1>2, <1>3, <2>2
<1> HIDE DEF U
<1>5. /\ S \in Seq(StepNames) /\ Len(S) = 7 + Len(U)
      /\ \A i \in 1..7 : S[i] = Prepare[i]
      /\ \A i \in 1..Len(U) : S[7 + i] = U[i]
      /\ \A i \in 1..Len(S) : i \in 1..7 \/ \E k \in 1..Len(U) : i = 7 + k
  <2>1. U \in Seq(StepNames) /\ 7 \in Nat
    BY ZenonT(40), <1>4
  <2>2. Joined(Prepare, 7, U, S)
    BY ZenonT(40), <2>1, PrepareSteps, ConcatSteps
  <2>3. QED
    BY ZenonT(40), <2>2 DEF Joined
<1> HIDE DEF S
<1>6. Len(S) > 7
  BY SMTT(40), <1>2, <1>4, <1>5
<1>7. ASSUME NEW i \in 1..Len(S)
      PROVE  /\ S[i] \notin {"apply", "destroy"}
             /\ S[i] \in {"agent", "mkdir"} => i < Len(S)
  <2>1. CASE i \in 1..7
    <3>1. i < Len(S)
      BY SMTT(40), <1>6, <2>1
    <3>2. QED
      BY ZenonT(40), <1>5, <2>1, <3>1, PrepareSteps
  <2>2. CASE \E k \in 1..Len(U) : i = 7 + k
    BY ZenonT(40), <1>4, <1>5, <2>2
  <2>3. QED
    BY ZenonT(40), <1>5, <2>1, <2>2
<1>8. QED
  BY SMTT(40), <1>1, <1>5, <1>6, <1>7 DEF StepOrder

\* The steps of an observation make its directory and change nothing.
LEMMA ObserveSteps == ASSUME NEW j \in Jobs, j.mode = "observe" PROVE StepOrder(j)
<1> DEFINE T == <<"factory", "folder", "main.tf", "agent">>
           S == T \o Observe
<1>1. Steps(j) = S
  BY ZenonT(40) DEF Steps, ExecuteObservation
<1>2. /\ T \in Seq(StepNames) /\ Len(T) = 4
      /\ \A i \in 1..4 : T[i] \in {"factory", "folder", "main.tf", "agent"}
  <2>1. T \in Seq(StepNames)
    BY SMTT(40) DEF StepNames
  <2>2. Len(T) = 4 /\ T[1] = "factory" /\ T[2] = "folder" /\ T[3] = "main.tf" /\ T[4] = "agent"
    OBVIOUS
  <2>3. \A i \in 1..4 : i = 1 \/ i = 2 \/ i = 3 \/ i = 4
    OBVIOUS
  <2> HIDE DEF T
  <2>4. QED
    BY ZenonT(40), <2>1, <2>2, <2>3
<1> HIDE DEF T
<1>3. /\ Observe \in Seq(StepNames) /\ Len(Observe) = 6 /\ Observe[1] = "mkdir"
      /\ \A i \in 1..6 : Observe[i] \notin {"apply", "destroy", "agent"} /\ (Observe[i] = "mkdir" => i = 1)
  <2>1. Observe \in Seq(StepNames)
    BY SMTT(40) DEF Observe, StepNames
  <2>2. /\ Len(Observe) = 6 /\ Observe[1] = "mkdir" /\ Observe[2] = "init" /\ Observe[3] = "verify"
        /\ Observe[4] = "plan" /\ Observe[5] = "show" /\ Observe[6] = "parse"
    BY ZenonT(40) DEF Observe
  <2>3. \A i \in 1..6 : i = 1 \/ i = 2 \/ i = 3 \/ i = 4 \/ i = 5 \/ i = 6
    OBVIOUS
  <2>4. QED
    BY ZenonT(40), <2>1, <2>2, <2>3
<1>4. /\ S \in Seq(StepNames) /\ Len(S) = 4 + Len(Observe)
      /\ \A i \in 1..4 : S[i] = T[i]
      /\ \A i \in 1..Len(Observe) : S[4 + i] = Observe[i]
      /\ \A i \in 1..Len(S) : i \in 1..4 \/ \E k \in 1..Len(Observe) : i = 4 + k
  <2>1. Observe \in Seq(StepNames) /\ T \in Seq(StepNames) /\ Len(T) = 4 /\ 4 \in Nat
    BY ZenonT(40), <1>2, <1>3
  <2>2. Joined(T, 4, Observe, S)
    BY ZenonT(40), <2>1, ConcatSteps
  <2>3. QED
    BY ZenonT(40), <2>2 DEF Joined
<1> HIDE DEF S
<1>5. S[5] = "mkdir" /\ Len(S) = 10
  <2>1. 1 \in 1..Len(Observe) /\ 4 + 1 = 5
    BY SMTT(40), <1>3
  <2>2. S[4 + 1] = "mkdir"
    BY ZenonT(40), <1>3, <1>4, <2>1
  <2>3. QED
    BY SMTT(40), <1>3, <1>4, <2>1, <2>2
<1>6. ASSUME NEW i \in 1..Len(S)
      PROVE  /\ S[i] \notin {"apply", "destroy"}
             /\ S[i] \in {"agent", "mkdir"} => i < Len(S)
  <2>1. CASE i \in 1..4
    <3>1. i < Len(S)
      BY SMTT(40), <1>5, <2>1
    <3>2. QED
      BY ZenonT(40), <1>2, <1>4, <2>1, <3>1
  <2>2. CASE \E k \in 1..Len(Observe) : i = 4 + k
    <3>1. PICK k \in 1..Len(Observe) : i = 4 + k
      BY ZenonT(40), <2>2
    <3>2. k \in 1..6 /\ S[i] = Observe[k]
      BY ZenonT(40), <1>3, <1>4, <3>1
    <3>3. k = 1 => i < Len(S)
      BY SMTT(40), <1>5, <3>1
    <3>4. QED
      BY ZenonT(40), <1>3, <3>2, <3>3
  <2>3. QED
    BY ZenonT(40), <1>4, <2>1, <2>2
<1>7. /\ Len(S) > 0 /\ Len(S) > 5
      /\ \A i \in 1..Len(S) :
           /\ S[i] = "apply" => j.mode = "deploy" /\ i = 11
           /\ S[i] = "destroy" => j.mode = "destroy" /\ i = 8
           /\ S[i] \in {"agent", "mkdir"} => i < Len(S)
  BY SMTT(40), <1>5, <1>6
<1>8. QED
  BY ZenonT(40), <1>1, <1>4, <1>5, <1>7 DEF StepOrder

\* A mode the executor does not know has one step, which is none.
LEMMA OtherSteps == ASSUME NEW j \in Jobs, j.mode = "other" PROVE StepOrder(j)
<1> DEFINE S == <<"unsupported">>
<1>1. Steps(j) = S
  BY ZenonT(40) DEF Steps
<1>2. S \in Seq(StepNames)
  BY SMTT(40) DEF StepNames
<1>3. Len(S) = 1 /\ S[1] = "unsupported" /\ \A i \in 1..1 : i = 1
  OBVIOUS
<1> HIDE DEF S
<1>4. QED
  BY SMTT(40), <1>1, <1>2, <1>3 DEF StepOrder

\* The steps of every mode are in order.
LEMMA StepsInOrder == ASSUME NEW j \in Jobs PROVE StepOrder(j)
<1>1. j.mode \in Modes
  BY ZenonT(40) DEF Jobs
<1>2. QED
  BY ZenonT(40), <1>1, DeploySteps, DestroySteps, PlanSteps, ObserveSteps, OtherSteps DEF Modes

-----------------------------------------------------------------------------
(* How far an execution is *)

\* The steps after the first n.
Rest(j, n) == SubSeq(Steps(j), n + 1, Len(Steps(j)))

\* The next step, and what is left after it.
LEMMA RestSteps ==
  ASSUME NEW j \in Jobs, NEW n \in 0..Len(Steps(j)) - 1
  PROVE  /\ Rest(j, n) # <<>> /\ Head(Rest(j, n)) = Steps(j)[n + 1]
         /\ Tail(Rest(j, n)) = Rest(j, n + 1) /\ n + 1 \in 1..Len(Steps(j))
<1> DEFINE S == Steps(j)
<1>1. S \in Seq(StepNames)
  BY ZenonT(40), StepsInOrder DEF StepOrder
<1> HIDE DEF S
<1>2. Len(S) \in Nat
  BY SMTT(40), <1>1
<1>3. n \in 0..Len(S) - 1
  BY ZenonT(40) DEF S
<1>4. n + 1 \in 1..Len(S) /\ Len(S) \in n + 1 .. Len(S) /\ n + 1 <= Len(S)
  BY SMTT(40), <1>2, <1>3
<1>5. SubSeq(S, n + 1, Len(S)) # <<>> /\ Head(SubSeq(S, n + 1, Len(S))) = S[n + 1]
  <2>1. Head(SubSeq(S, n + 1, Len(S))) = S[n + 1]
    BY ZenonT(40), <1>1, <1>4, HeadTailOfSubSeq
  <2>2. \A i \in n + 1 .. Len(S) : S[i] \in StepNames
    BY SMTT(40), <1>1, <1>2, <1>3
  <2>3. Len(SubSeq(S, n + 1, Len(S))) = Len(S) - (n + 1) + 1
    <3>1. n + 1 \in Int /\ Len(S) \in Int
      BY SMTT(40), <1>2, <1>3
    <3>2. QED
      BY ZenonT(40), <1>4, <2>2, <3>1, SubSeqProperties
  <2>4. Len(<<>>) = 0 /\ Len(S) - (n + 1) + 1 # 0
    BY SMTT(40), <1>2, <1>3
  <2>5. QED
    BY ZenonT(40), <2>1, <2>3, <2>4
<1>6. Tail(SubSeq(S, n + 1, Len(S))) = SubSeq(S, n + 2, Len(S))
  BY SMTT(40), <1>1, <1>2, <1>4
<1>7. (n + 1) + 1 = n + 2
  BY SMTT(40), <1>3
<1>8. QED
  BY ZenonT(40), <1>4, <1>5, <1>6, <1>7 DEF Rest, S

\* Nothing is left after the last step.
LEMMA RestEnds == ASSUME NEW j \in Jobs
                  PROVE Len(Steps(j)) \in Nat \ {0} /\ Rest(j, Len(Steps(j))) = <<>>
<1> DEFINE S == Steps(j)
<1>1. S \in Seq(StepNames) /\ Len(S) > 0
  BY ZenonT(40), StepsInOrder DEF StepOrder
<1> HIDE DEF S
<1>2. Len(S) \in Nat \ {0}
  BY SMTT(40), <1>1
<1>3. SubSeq(S, Len(S) + 1, Len(S)) = <<>>
  BY SMTT(40), <1>1, <1>2
<1>4. QED
  BY ZenonT(40), <1>2, <1>3 DEF Rest, S

\* Nothing is left out at first.
LEMMA RestBegins == ASSUME NEW j \in Jobs PROVE Steps(j) = Rest(j, 0)
<1> DEFINE S == Steps(j)
<1>1. S \in Seq(StepNames)
  BY ZenonT(40), StepsInOrder DEF StepOrder
<1> HIDE DEF S
<1>2. SubSeq(S, 0 + 1, Len(S)) = S
  BY SMTT(40), <1>1
<1>3. QED
  BY ZenonT(40), <1>2 DEF Rest, S

-----------------------------------------------------------------------------
(* The process *)

Running == run \in {"executing", "command", "reaping"}

\* What the first k steps have left behind.
Reached(k) ==
  /\ job.mode \in {"deploy", "destroy"} /\ k >= 7 => verified
  /\ job.mode = "deploy" /\ k >= 8 => plan = "own"
  /\ job.mode = "deploy" /\ k >= 11 => infra = "applied"
  /\ job.mode = "destroy" /\ k >= 8 => infra = "destroyed"
  /\ job.mode = "observe" /\ k >= 5 => planDir = "present"

\* The execution is at one of its steps, and the steps before it were done.
Progress == \E n \in 0..Len(Steps(job)) - 1 : todo = Rest(job, n) /\ Reached(n)

ProcessInv ==
  /\ Running => Progress /\ result = NoResult
  /\ run \in {"command", "reaping"} => Step \in Commands
  /\ job.mode \notin {"deploy", "destroy"} => infra = "untouched"
  /\ run \in {"posting", "uploading"} => result.status \in {"success", "failure"}
  /\ run \in {"posting", "uploading", "ended"} =>
       agent # "listening" /\ (planDir = "present" => badCleanups > 0)
  /\ run = "uploading" => posted \in {"stored", "spooled", "failed"}
  /\ run \in {"executing", "command", "reaping", "posting", "uploading"} => exit = "none"

ExecInv == ExecTypeOK /\ ProcessInv /\ ResultIsTrue

\* The next step of an execution that has done n of them.
LEMMA NextStep ==
  ASSUME job \in Jobs, NEW n \in 0..Len(Steps(job)) - 1, todo = Rest(job, n)
  PROVE  /\ todo # <<>> /\ Step = Steps(job)[n + 1] /\ Tail(todo) = Rest(job, n + 1)
         /\ n \in Nat /\ n + 1 \in 1..Len(Steps(job)) /\ Len(Steps(job)) \in Nat
         /\ Tail(todo) # <<>> => n + 1 \in 0..Len(Steps(job)) - 1
         /\ Tail(todo) = <<>> => n + 1 = Len(Steps(job))
<1>1. todo # <<>> /\ Step = Steps(job)[n + 1] /\ Tail(todo) = Rest(job, n + 1)
      /\ n + 1 \in 1..Len(Steps(job))
  BY ZenonT(40), RestSteps DEF Step
<1>2. Len(Steps(job)) \in Nat \ {0} /\ Rest(job, Len(Steps(job))) = <<>>
  BY ZenonT(40), RestEnds
<1>3. n + 1 = Len(Steps(job)) => Tail(todo) = <<>>
  BY ZenonT(40), <1>1, <1>2
<1>4. n \in Nat /\ (n + 1 # Len(Steps(job)) => n + 1 \in 0..Len(Steps(job)) - 1)
  BY SMTT(40), <1>1, <1>2
<1>5. n + 1 \in 0..Len(Steps(job)) - 1 => Tail(todo) # <<>>
  <2>1. n + 1 \in 0..Len(Steps(job)) - 1 => Rest(job, n + 1) # <<>>
    BY ZenonT(40), RestSteps
  <2>2. QED
    BY ZenonT(40), <1>1, <2>1
<1>6. QED
  BY ZenonT(40), <1>1, <1>2, <1>3, <1>4, <1>5

\* An apply or a destroy is next: apply after a verification and the plan of this
\* process, destroy after a verification.
LEMMA ChangeIsNext ==
  ASSUME job \in Jobs, Progress, Step \in {"apply", "destroy"}
  PROVE  /\ verified
         /\ Step = "apply" => job.mode = "deploy" /\ plan = "own"
         /\ Step = "destroy" => job.mode = "destroy"
<1>1. PICK n \in 0..Len(Steps(job)) - 1 : todo = Rest(job, n) /\ Reached(n)
  BY ZenonT(40) DEF Progress
<1>2. Step = Steps(job)[n + 1] /\ n + 1 \in 1..Len(Steps(job)) /\ n \in Nat
  BY ZenonT(40), <1>1, NextStep
<1>3. /\ Step = "apply" => job.mode = "deploy" /\ n + 1 = 11
      /\ Step = "destroy" => job.mode = "destroy" /\ n + 1 = 8
  BY ZenonT(40), <1>2, StepsInOrder DEF StepOrder
<1>4. /\ Step = "apply" => job.mode = "deploy" /\ n >= 7 /\ n >= 8
      /\ Step = "destroy" => job.mode = "destroy" /\ n >= 7
  BY SMTT(40), <1>2, <1>3
<1>5. QED
  BY ZenonT(40), <1>1, <1>4 DEF Reached

\* A step that is done, and not the last one, takes the execution to the next.
LEMMA StepDone ==
  ASSUME job \in Jobs, Progress, job' = job, todo' = Tail(todo), Tail(todo) # <<>>,
         verified => verified', Step = "verify" => verified',
         plan = "own" \/ Step = "plan" => plan' = "own",
         Step = "apply" => infra' = "applied", Step = "destroy" => infra' = "destroyed",
         Step \notin {"apply", "destroy"} => infra' = infra,
         planDir = "present" \/ Step = "mkdir" => planDir' = "present"
  PROVE  Progress'
<1>1. PICK n \in 0..Len(Steps(job)) - 1 : todo = Rest(job, n) /\ Reached(n)
  BY ZenonT(40) DEF Progress
<1>2. /\ Step = Steps(job)[n + 1] /\ n + 1 \in 1..Len(Steps(job)) /\ n \in Nat
      /\ n + 1 \in 0..Len(Steps(job)) - 1 /\ todo' = Rest(job, n + 1)
  BY ZenonT(40), <1>1, NextStep
<1>3. PICK m : m = n + 1
  OBVIOUS
<1>4. StepOrder(job)
  BY ZenonT(40), StepsInOrder
<1>5. m \in 1..Len(Steps(job)) /\ m \in Nat /\ Step = Steps(job)[m]
  BY SMTT(40), <1>2, <1>3
<1>6. /\ m >= 7 => m = 7 \/ n >= 7
      /\ m >= 8 => m = 8 \/ n >= 8
      /\ m >= 11 => m = 11 \/ (n >= 11 /\ m # 11)
      /\ m >= 8 => m = 8 \/ (n >= 8 /\ m # 8)
      /\ m >= 5 => m = 5 \/ n >= 5
  BY SMTT(40), <1>2, <1>3
<1>7. job.mode \in {"deploy", "destroy"} /\ m >= 7 => verified'
  BY ZenonT(40), <1>1, <1>4, <1>5, <1>6 DEF Reached, StepOrder
<1>8. job.mode = "deploy" /\ m >= 8 => plan' = "own"
  BY ZenonT(40), <1>1, <1>4, <1>5, <1>6 DEF Reached, StepOrder
<1>9. job.mode = "deploy" /\ m >= 11 => infra' = "applied"
  <2>1. SUFFICES ASSUME job.mode = "deploy", m >= 11 PROVE infra' = "applied"
    OBVIOUS
  <2>2. CASE m = 11
    BY ZenonT(40), <1>4, <1>5, <2>1, <2>2 DEF StepOrder
  <2>3. CASE n >= 11 /\ m # 11
    <3>1. Step \notin {"apply", "destroy"}
      BY ZenonT(40), <1>4, <1>5, <2>1, <2>3 DEF StepOrder
    <3>2. QED
      BY ZenonT(40), <1>1, <2>1, <2>3, <3>1 DEF Reached
  <2>4. QED
    BY ZenonT(40), <1>6, <2>1, <2>2, <2>3
<1>10. job.mode = "destroy" /\ m >= 8 => infra' = "destroyed"
  <2>1. SUFFICES ASSUME job.mode = "destroy", m >= 8 PROVE infra' = "destroyed"
    OBVIOUS
  <2>2. CASE m = 8
    BY ZenonT(40), <1>4, <1>5, <2>1, <2>2 DEF StepOrder
  <2>3. CASE n >= 8 /\ m # 8
    <3>1. Step \notin {"apply", "destroy"}
      BY ZenonT(40), <1>4, <1>5, <2>1, <2>3 DEF StepOrder
    <3>2. QED
      BY ZenonT(40), <1>1, <2>1, <2>3, <3>1 DEF Reached
  <2>4. QED
    BY ZenonT(40), <1>6, <2>1, <2>2, <2>3
<1>11. job.mode = "observe" /\ m >= 5 => planDir' = "present"
  BY ZenonT(40), <1>1, <1>4, <1>5, <1>6 DEF Reached, StepOrder
<1>12. Reached(m)'
  BY ZenonT(40), <1>7, <1>8, <1>9, <1>10, <1>11 DEF Reached
<1>13. m \in 0..Len(Steps(job')) - 1 /\ todo' = Rest(job', m)
  BY ZenonT(40), <1>2, <1>3
<1>14. QED
  BY ZenonT(40), <1>12, <1>13 DEF Progress

\* Nothing but a change the next step may make alters where the execution is: a
\* command that runs, fails, or is killed.
LEMMA StepStays ==
  ASSUME job \in Jobs, Progress, UNCHANGED <<job, todo, verified, plan, planDir>>,
         infra' = infra \/ Step \in {"apply", "destroy"}
  PROVE  Progress'
<1>1. PICK n \in 0..Len(Steps(job)) - 1 : todo = Rest(job, n) /\ Reached(n)
  BY ZenonT(40) DEF Progress
<1>2. Step = Steps(job)[n + 1] /\ n + 1 \in 1..Len(Steps(job)) /\ n \in Nat
  BY ZenonT(40), <1>1, NextStep
<1>3. Reached(n)'
  <2>1. CASE infra' = infra
    BY ZenonT(40), <1>1, <2>1 DEF Reached
  <2>2. CASE Step \in {"apply", "destroy"}
    <3>1. /\ Step = "apply" => job.mode = "deploy" /\ n + 1 = 11
          /\ Step = "destroy" => job.mode = "destroy" /\ n + 1 = 8
      BY ZenonT(40), <1>2, StepsInOrder DEF StepOrder
    <3>2. /\ Step = "apply" => job.mode = "deploy" /\ ~(n >= 11)
          /\ Step = "destroy" => job.mode = "destroy" /\ ~(n >= 8)
      BY SMTT(40), <1>2, <3>1
    <3>3. QED
      BY ZenonT(40), <1>1, <2>2, <3>2 DEF Reached
  <2>3. QED
    BY ZenonT(40), <2>1, <2>2
<1>4. n \in 0..Len(Steps(job')) - 1 /\ todo' = Rest(job', n)
  BY ZenonT(40), <1>1
<1>5. QED
  BY ZenonT(40), <1>3, <1>4 DEF Progress

\* After the last step everything the mode promises is done, and the last step
\* itself changes none of it.
LEMMA LastStep ==
  ASSUME job \in Jobs, Progress, Tail(todo) = <<>>, Step # "unsupported",
         job.mode \notin {"deploy", "destroy"} => infra = "untouched"
  PROVE  /\ Step \notin {"apply", "destroy", "agent", "mkdir"}
         /\ job.mode = "deploy" => infra = "applied"
         /\ job.mode = "destroy" => infra = "destroyed"
         /\ job.mode \in {"plan", "observe"} => infra = "untouched"
         /\ job.mode = "observe" => planDir = "present"
         /\ job.mode # "other"
<1>1. PICK n \in 0..Len(Steps(job)) - 1 : todo = Rest(job, n) /\ Reached(n)
  BY ZenonT(40) DEF Progress
<1>2. /\ Step = Steps(job)[n + 1] /\ n + 1 \in 1..Len(Steps(job)) /\ n \in Nat
      /\ n + 1 = Len(Steps(job))
  BY ZenonT(40), <1>1, NextStep
<1>3. PICK m : m = n + 1
  OBVIOUS
<1>4. StepOrder(job)
  BY ZenonT(40), StepsInOrder
<1>5. m \in 1..Len(Steps(job)) /\ m \in Nat /\ Step = Steps(job)[m] /\ m = Len(Steps(job))
  BY SMTT(40), <1>2, <1>3
<1>6. (m > 11 => n >= 11) /\ (m > 8 => n >= 8) /\ (m > 5 => n >= 5) /\ ~(m < m)
      /\ (m > 11 => m # 11) /\ (m > 8 => m # 8)
  BY SMTT(40), <1>2, <1>3
<1>7. /\ job.mode = "deploy" => m > 11
      /\ job.mode = "destroy" => m > 8
      /\ job.mode = "observe" => m > 5
      /\ job.mode # "other"
  BY ZenonT(40), <1>4, <1>5 DEF StepOrder
<1>8. Step \notin {"apply", "destroy", "agent", "mkdir"}
  BY ZenonT(40), <1>4, <1>5, <1>6, <1>7 DEF StepOrder
<1>9. QED
  BY ZenonT(40), <1>1, <1>6, <1>7, <1>8 DEF Reached

\* ExecuteStandardMode returns: the agent is closed; a plan directory is removed,
\* or the execution has failed.
LEMMA ReturnEffect ==
  ASSUME ExecTypeOK, NEW o, o.status \in {"success", "failure"}, Return(o)
  PROVE  /\ run' = "posting" /\ todo' = <<>>
         /\ agent' \in {"none", "closed"}
         /\ planDir' \in {"none", "present", "removed"} /\ badCleanups' \in 0..MaxCleanups
         /\ planDir' = "present" => badCleanups' > 0
         /\ result'.status \in {"success", "failure"}
         /\ result'.status = "success" =>
              o.status = "success" /\ (planDir = "present" => planDir' = "removed")
<1>1. run' = "posting" /\ todo' = <<>> /\ EndObserve(o) /\ CloseAgent
  BY ZenonT(40) DEF Return
<1>2. agent' \in {"none", "closed"}
  BY ZenonT(40), <1>1 DEF CloseAgent, ExecTypeOK
<1>3. /\ planDir \in {"none", "present", "removed"} /\ badCleanups \in 0..MaxCleanups
      /\ MaxCleanups \in Nat
  BY ZenonT(40), JobAssumption DEF ExecTypeOK
<1>4. CASE /\ planDir' = IF planDir = "present" THEN "removed" ELSE planDir
           /\ result' = o /\ badCleanups' = badCleanups
  BY ZenonT(40), <1>1, <1>2, <1>3, <1>4
<1>5. CASE /\ planDir = "present" /\ badCleanups < MaxCleanups
           /\ badCleanups' = badCleanups + 1
           /\ result' = Failure("OBSERVATION_UNAVAILABLE") /\ planDir' = planDir
  <2>1. badCleanups' \in 0..MaxCleanups /\ badCleanups' > 0
    BY SMTT(40), <1>3, <1>5
  <2>2. result'.status = "failure"
    BY ZenonT(40), <1>5 DEF Failure
  <2>3. QED
    BY ZenonT(40), <1>1, <1>2, <1>3, <1>5, <2>1, <2>2
<1>6. QED
  BY ZenonT(40), <1>1, <1>4, <1>5 DEF EndObserve

\* The rest of the state of a process, which most steps only keep in its type.
LeftTypeOK ==
  /\ signalled \in BOOLEAN /\ lingering \in BOOLEAN /\ verified \in BOOLEAN
  /\ plan \in {"none", "own"} /\ infra \in {"untouched", "partial", "applied", "destroyed"}
  /\ job.mode \notin {"deploy", "destroy"} => infra = "untouched"

\* A return, with a failure or with what a success of the mode needs, keeps the
\* invariant.
LEMMA ReturnKept ==
  ASSUME ExecInv, Running, NEW o, Return(o), UNCHANGED <<job, posted, exit>>, LeftTypeOK',
         \/ o.status = "failure"
         \/ /\ o.status = "success" /\ job.mode # "other"
            /\ job.mode = "deploy" => infra' = "applied"
            /\ job.mode = "destroy" => infra' = "destroyed"
            /\ job.mode \in {"plan", "observe"} => infra' = "untouched"
            /\ job.mode = "observe" => planDir = "present"
  PROVE  ExecInv'
<1>1. ExecTypeOK /\ ProcessInv /\ ResultIsTrue
  BY ZenonT(40) DEF ExecInv
<1>2. /\ run' = "posting" /\ todo' = <<>>
      /\ agent' \in {"none", "closed"}
      /\ planDir' \in {"none", "present", "removed"} /\ badCleanups' \in 0..MaxCleanups
      /\ planDir' = "present" => badCleanups' > 0
      /\ result'.status \in {"success", "failure"}
      /\ result'.status = "success" =>
           o.status = "success" /\ (planDir = "present" => planDir' = "removed")
  BY SMTT(40), <1>1, ReturnEffect
<1>3. job \in Jobs /\ job.mode \in Modes
  BY ZenonT(40), <1>1 DEF ExecTypeOK, Jobs
<1>4. \E n \in 0..Len(Steps(job')) : todo' = SubSeq(Steps(job'), n + 1, Len(Steps(job')))
  <2>1. Len(Steps(job)) \in 0..Len(Steps(job)) /\ Rest(job, Len(Steps(job))) = <<>>
    BY SMTT(40), <1>3, RestEnds
  <2>2. QED
    BY ZenonT(40), <1>2, <2>1 DEF Rest
<1>5. exit' = "none"
  BY ZenonT(40), <1>1 DEF ProcessInv, Running
<1>6. ExecTypeOK'
  BY ZenonT(40), <1>1, <1>2, <1>3, <1>4, <1>5 DEF ExecTypeOK, LeftTypeOK
<1>7. ProcessInv'
  BY ZenonT(40), <1>2, <1>5 DEF ProcessInv, LeftTypeOK, Running
<1>8. result'.status = "success" =>
        CASE job'.mode = "deploy" -> infra' = "applied"
          [] job'.mode = "destroy" -> infra' = "destroyed"
          [] job'.mode = "plan" -> infra' = "untouched"
          [] job'.mode = "observe" -> infra' = "untouched" /\ planDir' = "removed"
          [] OTHER -> FALSE
  BY ZenonT(40), <1>2, <1>3 DEF Modes
<1>9. ResultIsTrue'
  BY ZenonT(40), <1>2, <1>5, <1>8 DEF ResultIsTrue
<1>10. QED
  BY ZenonT(40), <1>6, <1>7, <1>9 DEF ExecInv

\* A step of an execution that goes on keeps the invariant.
LEMMA RunningKept ==
  ASSUME ExecInv, Running, run' \in {"executing", "command", "reaping"}, Progress',
         UNCHANGED <<job, result, posted, exit, badCleanups>>,
         LeftTypeOK', run' \in {"command", "reaping"} => Head(todo') \in Commands,
         planDir' \in {"none", "present", "removed"}, agent' \in {"none", "listening", "closed"}
  PROVE  ExecInv'
<1>1. ExecTypeOK /\ ProcessInv
  BY ZenonT(40) DEF ExecInv
<1>2. result' = NoResult /\ exit' = "none"
  BY ZenonT(40), <1>1 DEF ProcessInv, Running
<1>3. \E n \in 0..Len(Steps(job')) : todo' = SubSeq(Steps(job'), n + 1, Len(Steps(job')))
  <2>1. job \in Jobs
    BY ZenonT(40), <1>1 DEF ExecTypeOK
  <2>2. PICK n \in 0..Len(Steps(job')) - 1 : todo' = Rest(job', n)
    BY ZenonT(40) DEF Progress
  <2>3. n \in 0..Len(Steps(job'))
    BY SMTT(40), <2>1, <2>2, RestEnds
  <2>4. todo' = SubSeq(Steps(job'), n + 1, Len(Steps(job')))
    BY ZenonT(40), <2>2 DEF Rest
  <2>5. QED
    BY ZenonT(40), <2>3, <2>4
<1>4. result'.status = "none"
  BY SMTT(40), <1>2 DEF NoResult
<1>5. ExecTypeOK'
  <2>1. /\ job' \in Jobs /\ posted' \in {"no", "stored", "spooled", "failed"}
        /\ badCleanups' \in 0..MaxCleanups
    BY ZenonT(40), <1>1 DEF ExecTypeOK
  <2>2. /\ run' \in {"none", "executing", "command", "reaping", "posting", "uploading", "ended", "killed"}
        /\ result'.status \in {"none", "success", "failure"}
        /\ exit' \in {"none", "zero", "one", "panic"}
    BY ZenonT(40), <1>2, <1>4 DEF Running
  <2>3. QED
    BY ZenonT(40), <1>3, <2>1, <2>2 DEF ExecTypeOK, LeftTypeOK
<1>6. ProcessInv'
  BY ZenonT(40), <1>2 DEF ProcessInv, LeftTypeOK, Running, Step
<1>7. ResultIsTrue'
  BY ZenonT(40), <1>2, <1>4 DEF ResultIsTrue, Running
<1>8. QED
  BY ZenonT(40), <1>5, <1>6, <1>7 DEF ExecInv

\* A step that is done keeps the invariant, whether it is the last or not.
LEMMA DoneKept ==
  ASSUME ExecInv, Running, Done, Step \notin {"unsupported", "agent", "mkdir"},
         UNCHANGED <<job, signalled, lingering, posted, exit>>,
         verified' \in BOOLEAN, verified => verified', Step = "verify" => verified',
         plan' \in {"none", "own"}, plan = "own" \/ Step = "plan" => plan' = "own",
         Step = "apply" => infra' = "applied", Step = "destroy" => infra' = "destroyed",
         Step \notin {"apply", "destroy"} => infra' = infra
  PROVE  ExecInv'
<1>1. ExecTypeOK /\ ProcessInv /\ job \in Jobs /\ Progress
  BY ZenonT(40) DEF ExecInv, ExecTypeOK, ProcessInv
<1>2. LeftTypeOK'
  <2>1. /\ signalled' \in BOOLEAN /\ lingering' \in BOOLEAN
        /\ infra \in {"untouched", "partial", "applied", "destroyed"}
        /\ job.mode \notin {"deploy", "destroy"} => infra = "untouched"
    BY ZenonT(40), <1>1 DEF ExecTypeOK, ProcessInv
  <2>2. Step \in {"apply", "destroy"} => job.mode \in {"deploy", "destroy"}
    BY ZenonT(40), <1>1, ChangeIsNext
  <2>3. /\ infra' \in {"untouched", "partial", "applied", "destroyed"}
        /\ job'.mode \notin {"deploy", "destroy"} => infra' = "untouched"
    BY ZenonT(40), <2>1, <2>2
  <2>4. QED
    BY ZenonT(40), <2>1, <2>3 DEF LeftTypeOK
<1>3. CASE Tail(todo) # <<>>
  <2>1. /\ run' = "executing" /\ todo' = Tail(todo)
        /\ UNCHANGED <<result, planDir, agent, badCleanups>>
    BY ZenonT(40), <1>3 DEF Done
  <2>2. Progress'
    BY ZenonT(40), <1>1, <1>3, <2>1, StepDone
  <2>3. planDir' \in {"none", "present", "removed"} /\ agent' \in {"none", "listening", "closed"}
    BY ZenonT(40), <1>1, <2>1 DEF ExecTypeOK
  <2>4. QED
    BY ZenonT(40), <1>2, <2>1, <2>2, <2>3, RunningKept
<1>4. CASE Tail(todo) = <<>>
  <2>1. PICK o : /\ o = IF Observing /\ signalled THEN Failure("OBSERVATION_UNAVAILABLE") ELSE Success
                 /\ Return(o)
    BY ZenonT(40), <1>4 DEF Done
  <2>2. o.status \in {"success", "failure"}
    BY ZenonT(40), <2>1 DEF Failure, Success
  <2>3. /\ Step \notin {"apply", "destroy", "agent", "mkdir"}
        /\ job.mode = "deploy" => infra = "applied"
        /\ job.mode = "destroy" => infra = "destroyed"
        /\ job.mode \in {"plan", "observe"} => infra = "untouched"
        /\ job.mode = "observe" => planDir = "present"
        /\ job.mode # "other"
    <3>1. job.mode \notin {"deploy", "destroy"} => infra = "untouched"
      BY ZenonT(40), <1>1 DEF ProcessInv
    <3>2. QED
      BY ZenonT(40), <1>1, <1>4, <3>1, LastStep
  <2>4. \/ o.status = "failure"
        \/ /\ o.status = "success" /\ job.mode # "other"
           /\ job.mode = "deploy" => infra' = "applied"
           /\ job.mode = "destroy" => infra' = "destroyed"
           /\ job.mode \in {"plan", "observe"} => infra' = "untouched"
           /\ job.mode = "observe" => planDir = "present"
    BY ZenonT(40), <2>2, <2>3
  <2>5. QED
    BY ZenonT(40), <1>2, <2>1, <2>4, ReturnKept
<1>5. QED
  BY ZenonT(40), <1>3, <1>4

\* A step that fails keeps the invariant, also when it has changed a part of the
\* infrastructure.
LEMMA FailedKept ==
  ASSUME ExecInv, Running, Failed, UNCHANGED <<job, signalled, lingering, posted, exit, verified, plan>>,
         infra' = infra \/ (Step \in {"apply", "destroy"} /\ infra' = "partial")
  PROVE  ExecInv'
<1>1. ExecTypeOK /\ ProcessInv /\ job \in Jobs /\ Progress
  BY ZenonT(40) DEF ExecInv, ExecTypeOK, ProcessInv
<1>2. PICK code : Return(Failure(code))
  BY ZenonT(40) DEF Failed
<1>3. PICK o : o = Failure(code) /\ Return(o)
  BY ZenonT(40), <1>2
<1>4. o.status = "failure"
  BY ZenonT(40), <1>3 DEF Failure
<1>5. LeftTypeOK'
  <2>1. Step \in {"apply", "destroy"} => job.mode \in {"deploy", "destroy"}
    BY ZenonT(40), <1>1, ChangeIsNext
  <2>2. QED
    BY ZenonT(40), <1>1, <2>1 DEF ExecTypeOK, ProcessInv, LeftTypeOK
<1>6. QED
  BY ZenonT(40), <1>3, <1>4, <1>5, ReturnKept

\* What a command that fails or is killed does to the infrastructure.
LEMMA PartialChange ==
  ASSUME PartialEffect
  PROVE  plan' = plan /\ (infra' = infra \/ (Step \in {"apply", "destroy"} /\ infra' = "partial"))
  BY ZenonT(40) DEF PartialEffect

-----------------------------------------------------------------------------
(* Every operation of the process keeps the invariant *)

\* CreateRunner, the checks of files and outputs, and the encryption.
LEMMA LocalStepKept == ASSUME ExecInv, LocalStep PROVE ExecInv'
<1>1. /\ Running /\ Step \notin Commands \cup {"folder", "agent", "verify", "mkdir", "unsupported"}
      /\ Done \/ Failed
      /\ UNCHANGED <<job, signalled, lingering, posted, exit, verified, plan, infra>>
  BY ZenonT(40) DEF LocalStep, Running
<1>2. Step \notin {"plan", "apply", "destroy", "verify", "agent", "mkdir", "unsupported"}
  BY ZenonT(40), <1>1 DEF Commands
<1>3. verified \in BOOLEAN /\ plan \in {"none", "own"}
  BY ZenonT(40) DEF ExecInv, ExecTypeOK
<1>4. QED
  BY ZenonT(40), <1>1, <1>2, <1>3, DoneKept, FailedKept

\* CreateIaCFolder: the bundle comes whole, or the execution fails.
LEMMA FolderKept == ASSUME ExecInv, CreateIaCFolder PROVE ExecInv'
<1>1. /\ Running /\ Step = "folder"
      /\ Done \/ Failed
      /\ UNCHANGED <<job, signalled, lingering, posted, exit, verified, plan, infra>>
  BY ZenonT(40) DEF CreateIaCFolder, At, Running
<1>2. verified \in BOOLEAN /\ plan \in {"none", "own"}
  BY ZenonT(40) DEF ExecInv, ExecTypeOK
<1>3. QED
  BY ZenonT(40), <1>1, <1>2, DoneKept, FailedKept

\* sshagent.Launch.
LEMMA AgentKept == ASSUME ExecInv, LaunchAgent PROVE ExecInv'
<1>1. /\ Running /\ run = "executing" /\ Step = "agent"
      /\ UNCHANGED <<job, signalled, lingering, posted, exit, verified, plan, infra>>
  BY ZenonT(40) DEF LaunchAgent, At, Running
<1>2. CASE /\ agent' = "listening" /\ run' = run /\ todo' = Tail(todo)
           /\ UNCHANGED <<result, planDir, badCleanups>>
  <2>1. ExecTypeOK /\ ProcessInv /\ job \in Jobs /\ Progress
    BY ZenonT(40), <1>1 DEF ExecInv, ExecTypeOK, ProcessInv
  <2>2. Tail(todo) # <<>>
    <3>1. job.mode \notin {"deploy", "destroy"} => infra = "untouched"
      BY ZenonT(40), <2>1 DEF ProcessInv
    <3>2. QED
      BY ZenonT(40), <1>1, <2>1, <3>1, LastStep
  <2>3. Progress'
    BY ZenonT(40), <1>1, <1>2, <2>1, <2>2, StepDone
  <2>4. LeftTypeOK'
    BY ZenonT(40), <1>1, <2>1 DEF ExecTypeOK, ProcessInv, LeftTypeOK
  <2>5. /\ planDir' \in {"none", "present", "removed"} /\ run' = "executing"
        /\ agent' \in {"none", "listening", "closed"}
    BY ZenonT(40), <1>1, <1>2, <2>1 DEF ExecTypeOK
  <2>6. QED
    BY ZenonT(40), <1>1, <1>2, <2>3, <2>4, <2>5, RunningKept
<1>3. CASE Failed
  BY ZenonT(40), <1>1, <1>3, FailedKept
<1>4. QED
  BY ZenonT(40), <1>2, <1>3 DEF LaunchAgent

\* verifyArtifactManifest.
LEMMA VerifyKept == ASSUME ExecInv, VerifyArtifacts PROVE ExecInv'
<1>1. /\ Running /\ Step = "verify"
      /\ (Done /\ verified' = TRUE) \/ (Failed /\ verified' = verified)
      /\ UNCHANGED <<job, signalled, lingering, posted, exit, plan, infra>>
  BY ZenonT(40) DEF VerifyArtifacts, At, Running
<1>2. plan \in {"none", "own"}
  BY ZenonT(40) DEF ExecInv, ExecTypeOK
<1>3. CASE Done /\ verified' = TRUE
  BY ZenonT(40), <1>1, <1>2, <1>3, DoneKept
<1>4. CASE Failed /\ verified' = verified
  BY ZenonT(40), <1>1, <1>4, FailedKept
<1>5. QED
  BY ZenonT(40), <1>1, <1>3, <1>4

\* Observe creates the directory of its plan.
LEMMA PlanDirKept == ASSUME ExecInv, MakePlanDir PROVE ExecInv'
<1>1. /\ Running /\ run = "executing" /\ Step = "mkdir"
      /\ UNCHANGED <<job, signalled, lingering, posted, exit, verified, plan, infra>>
  BY ZenonT(40) DEF MakePlanDir, At, Running
<1>2. CASE /\ planDir' = "present" /\ run' = run /\ todo' = Tail(todo)
           /\ UNCHANGED <<result, agent, badCleanups>>
  <2>1. ExecTypeOK /\ ProcessInv /\ job \in Jobs /\ Progress
    BY ZenonT(40), <1>1 DEF ExecInv, ExecTypeOK, ProcessInv
  <2>2. Tail(todo) # <<>>
    <3>1. job.mode \notin {"deploy", "destroy"} => infra = "untouched"
      BY ZenonT(40), <2>1 DEF ProcessInv
    <3>2. QED
      BY ZenonT(40), <1>1, <2>1, <3>1, LastStep
  <2>3. Progress'
    BY ZenonT(40), <1>1, <1>2, <2>1, <2>2, StepDone
  <2>4. LeftTypeOK'
    BY ZenonT(40), <1>1, <2>1 DEF ExecTypeOK, ProcessInv, LeftTypeOK
  <2>5. /\ planDir' \in {"none", "present", "removed"} /\ run' = "executing"
        /\ agent' \in {"none", "listening", "closed"}
    BY ZenonT(40), <1>1, <1>2, <2>1 DEF ExecTypeOK
  <2>6. QED
    BY ZenonT(40), <1>1, <1>2, <2>3, <2>4, <2>5, RunningKept
<1>3. CASE Failed
  BY ZenonT(40), <1>1, <1>3, FailedKept
<1>4. QED
  BY ZenonT(40), <1>2, <1>3 DEF MakePlanDir

\* A mode the executor does not know.
LEMMA UnsupportedKept == ASSUME ExecInv, Unsupported PROVE ExecInv'
<1>1. /\ Running /\ Failed
      /\ UNCHANGED <<job, signalled, lingering, posted, exit, verified, plan, infra>>
  BY ZenonT(40) DEF Unsupported, At, Running
<1>2. QED
  BY ZenonT(40), <1>1, FailedKept

\* runCmd and observationCommand start the tool, or find the context cancelled.
LEMMA StartCommandKept == ASSUME ExecInv, StartCommand PROVE ExecInv'
<1>1. /\ Running /\ run = "executing" /\ Step \in Commands
      /\ UNCHANGED <<job, signalled, lingering, posted, exit, verified, plan, infra>>
  BY ZenonT(40) DEF StartCommand, Running
<1>2. CASE Failed
  BY ZenonT(40), <1>1, <1>2, FailedKept
<1>3. CASE run' = "command" /\ UNCHANGED <<todo, result, planDir, agent, badCleanups>>
  <2>1. ExecTypeOK /\ ProcessInv /\ job \in Jobs /\ Progress
    BY ZenonT(40), <1>1 DEF ExecInv, ExecTypeOK, ProcessInv
  <2>2. Progress'
    BY ZenonT(40), <1>1, <1>3, <2>1, StepStays
  <2>3. LeftTypeOK'
    BY ZenonT(40), <1>1, <2>1 DEF ExecTypeOK, ProcessInv, LeftTypeOK
  <2>4. Head(todo') \in Commands
    BY ZenonT(40), <1>1, <1>3 DEF Step
  <2>5. planDir' \in {"none", "present", "removed"} /\ agent' \in {"none", "listening", "closed"}
    BY ZenonT(40), <1>3, <2>1 DEF ExecTypeOK
  <2>6. QED
    BY ZenonT(40), <1>1, <1>3, <2>2, <2>3, <2>4, <2>5, RunningKept
<1>4. QED
  BY ZenonT(40), <1>2, <1>3 DEF StartCommand

\* The tool ends, well or not.
LEMMA CommandEndsKept == ASSUME ExecInv, CommandEnds PROVE ExecInv'
<1>1. /\ Running /\ run = "command"
      /\ UNCHANGED <<job, signalled, lingering, posted, exit, verified>>
  BY ZenonT(40) DEF CommandEnds, Running
<1>2. /\ Step \in Commands /\ verified \in BOOLEAN /\ plan \in {"none", "own"}
  BY ZenonT(40), <1>1 DEF ExecInv, ExecTypeOK, ProcessInv
<1>3. Step \notin {"verify", "agent", "mkdir", "unsupported"}
  BY ZenonT(40), <1>2 DEF Commands
<1>4. CASE Effect /\ Done
  <2>1. /\ plan' \in {"none", "own"}
        /\ plan = "own" \/ Step = "plan" => plan' = "own"
        /\ Step = "apply" => infra' = "applied"
        /\ Step = "destroy" => infra' = "destroyed"
        /\ Step \notin {"apply", "destroy"} => infra' = infra
    BY ZenonT(40), <1>2, <1>4 DEF Effect
  <2>2. QED
    BY ZenonT(40), <1>1, <1>2, <1>3, <1>4, <2>1, DoneKept
<1>5. CASE PartialEffect /\ Failed
  BY ZenonT(40), <1>1, <1>5, PartialChange, FailedKept
<1>6. QED
  BY ZenonT(40), <1>4, <1>5 DEF CommandEnds

\* A killed command is waited for.
LEMMA ReapedKept == ASSUME ExecInv, CommandReaped PROVE ExecInv'
<1>1. /\ Running /\ Failed
      /\ UNCHANGED <<job, signalled, lingering, posted, exit, verified, plan, infra>>
  BY ZenonT(40) DEF CommandReaped, Running
<1>2. QED
  BY ZenonT(40), <1>1, FailedKept

\* SIGTERM, at any step.
LEMMA SignalKept == ASSUME ExecInv, Signal PROVE ExecInv'
<1>1. /\ run \in {"executing", "command", "posting"} /\ signalled' = TRUE
      /\ UNCHANGED <<job, todo, result, posted, exit, verified, planDir, agent, badCleanups>>
  BY ZenonT(40) DEF Signal
<1>2. ExecTypeOK /\ ProcessInv /\ ResultIsTrue
  BY ZenonT(40) DEF ExecInv
<1>3. job \in Jobs
  BY ZenonT(40), <1>2 DEF ExecTypeOK
<1>4. CASE run = "command"
  <2>1. run' = "reaping" /\ PartialEffect /\ lingering' \in BOOLEAN
    BY ZenonT(40), <1>4 DEF Signal
  <2>2. plan' = plan /\ (infra' = infra \/ (Step \in {"apply", "destroy"} /\ infra' = "partial"))
    BY ZenonT(40), <2>1, PartialChange
  <2>3. Running /\ Progress /\ Step \in Commands
    BY ZenonT(40), <1>2, <1>4 DEF ProcessInv, Running
  <2>4. Progress'
    BY ZenonT(40), <1>1, <1>3, <2>2, <2>3, StepStays
  <2>5. LeftTypeOK'
    <3>1. Step \in {"apply", "destroy"} => job.mode \in {"deploy", "destroy"}
      BY ZenonT(40), <1>3, <2>3, ChangeIsNext
    <3>2. QED
      BY ZenonT(40), <1>1, <1>2, <2>1, <2>2, <3>1 DEF ExecTypeOK, ProcessInv, LeftTypeOK
  <2>6. Head(todo') \in Commands
    BY ZenonT(40), <1>1, <2>3 DEF Step
  <2>7. planDir' \in {"none", "present", "removed"} /\ agent' \in {"none", "listening", "closed"}
    BY ZenonT(40), <1>1, <1>2 DEF ExecTypeOK
  <2>8. QED
    BY ZenonT(40), <1>1, <2>1, <2>3, <2>4, <2>5, <2>6, <2>7, RunningKept
<1>5. CASE run # "command"
  <2>1. UNCHANGED <<run, plan, infra, lingering>>
    BY ZenonT(40), <1>5 DEF Signal
  <2>2. LeftTypeOK'
    BY ZenonT(40), <1>1, <1>2, <2>1 DEF ExecTypeOK, ProcessInv, LeftTypeOK
  <2>3. CASE run = "executing"
    <3>1. Running /\ Progress
      BY ZenonT(40), <1>2, <2>3 DEF ProcessInv, Running
    <3>2. Progress'
      BY ZenonT(40), <1>1, <1>3, <2>1, <3>1, StepStays
    <3>3. planDir' \in {"none", "present", "removed"} /\ agent' \in {"none", "listening", "closed"}
      BY ZenonT(40), <1>1, <1>2 DEF ExecTypeOK
    <3>4. run' = "executing"
      BY ZenonT(40), <2>1, <2>3
    <3>5. QED
      BY ZenonT(40), <1>1, <2>2, <3>1, <3>2, <3>3, <3>4, RunningKept
  <2>4. CASE run = "posting"
    <3>1. ExecTypeOK'
      BY SMTT(40), <1>1, <1>2, <2>1 DEF ExecTypeOK
    <3>2. ProcessInv'
      BY ZenonT(40), <1>1, <1>2, <2>1, <2>4 DEF ProcessInv, Running
    <3>3. ResultIsTrue'
      BY ZenonT(40), <1>1, <1>2, <2>1, <2>4 DEF ResultIsTrue
    <3>4. QED
      BY ZenonT(40), <3>1, <3>2, <3>3 DEF ExecInv
  <2>5. QED
    BY ZenonT(40), <1>1, <1>5, <2>3, <2>4
<1>6. QED
  BY ZenonT(40), <1>4, <1>5

\* publishDeploymentResultToGateway.
LEMMA PostKept == ASSUME ExecInv, PostResult PROVE ExecInv'
<1>1. /\ run = "posting" /\ run' = "uploading" /\ posted' \in {"stored", "spooled", "failed"}
      /\ UNCHANGED <<job, todo, signalled, lingering, result, exit, leftVars>>
  BY ZenonT(40) DEF PostResult
<1>2. ExecTypeOK /\ ProcessInv /\ ResultIsTrue
  BY ZenonT(40) DEF ExecInv
<1>3. ExecTypeOK'
  BY SMTT(40), <1>1, <1>2 DEF ExecTypeOK, leftVars
<1>4. ProcessInv'
  BY ZenonT(40), <1>1, <1>2 DEF ProcessInv, Running, leftVars
<1>5. exit' = "none"
  BY ZenonT(40), <1>1, <1>2 DEF ProcessInv
<1>6. ResultIsTrue'
  BY ZenonT(40), <1>1, <1>2, <1>5 DEF ResultIsTrue, leftVars
<1>7. QED
  BY ZenonT(40), <1>3, <1>4, <1>6 DEF ExecInv

\* The end of main.
LEMMA ExitKept == ASSUME ExecInv, Exit PROVE ExecInv'
<1>1. /\ run = "uploading" /\ run' = "ended"
      /\ \/ exit' = IF posted = "failed" \/ result.status = "failure" THEN "one" ELSE "zero"
         \/ job.badLogsKey /\ exit' = "panic"
      /\ UNCHANGED <<job, todo, signalled, lingering, result, posted, leftVars>>
  BY ZenonT(40) DEF Exit
<1>2. ExecTypeOK /\ ProcessInv /\ ResultIsTrue
  BY ZenonT(40) DEF ExecInv
<1>3. exit' \in {"none", "zero", "one", "panic"}
  BY ZenonT(40), <1>1
<1>4. ExecTypeOK'
  BY SMTT(40), <1>1, <1>2, <1>3 DEF ExecTypeOK, leftVars
<1>5. ProcessInv'
  BY ZenonT(40), <1>1, <1>2 DEF ProcessInv, Running, leftVars
<1>6. posted \in {"stored", "spooled", "failed"} /\ result.status \in {"success", "failure"}
  BY ZenonT(40), <1>1, <1>2 DEF ProcessInv
<1>7. ResultIsTrue'
  <2>1. run' = "ended" => agent' # "listening" /\ (planDir' = "present" => badCleanups' > 0)
    BY ZenonT(40), <1>1, <1>5 DEF ProcessInv
  <2>2. /\ exit' = "zero" => result'.status = "success" /\ posted' \in {"stored", "spooled"}
        /\ result'.status = "success" /\ posted' \in {"stored", "spooled"} =>
             exit' = "zero" \/ job'.badLogsKey
    BY ZenonT(40), <1>1, <1>6
  <2>3. QED
    BY ZenonT(40), <1>1, <1>2, <2>1, <2>2 DEF ResultIsTrue, leftVars
<1>8. QED
  BY ZenonT(40), <1>4, <1>5, <1>7 DEF ExecInv

\* The container is killed, at any step.
LEMMA KillKept == ASSUME ExecInv, KillRun PROVE ExecInv'
<1>1. /\ run \notin {"none", "ended", "killed"} /\ run' = "killed"
      /\ UNCHANGED <<job, todo, signalled, lingering, result, posted, exit, verified, planDir, agent, badCleanups>>
  BY ZenonT(40) DEF KillRun
<1>2. ExecTypeOK /\ ProcessInv /\ ResultIsTrue
  BY ZenonT(40) DEF ExecInv
<1>3. /\ infra' = infra \/ (run = "command" /\ Step \in {"apply", "destroy"} /\ infra' = "partial")
      /\ plan' = plan
  BY ZenonT(40), PartialChange DEF KillRun
<1>4. run = "command" /\ Step \in {"apply", "destroy"} => job.mode \in {"deploy", "destroy"}
  <2>1. job \in Jobs /\ (run = "command" => Progress)
    BY ZenonT(40), <1>2 DEF ExecTypeOK, ProcessInv, Running
  <2>2. QED
    BY ZenonT(40), <2>1, ChangeIsNext
<1>5. infra' \in {"untouched", "partial", "applied", "destroyed"}
  BY ZenonT(40), <1>2, <1>3 DEF ExecTypeOK
<1>6. ExecTypeOK'
  BY SMTT(40), <1>1, <1>2, <1>3, <1>5 DEF ExecTypeOK
<1>7. ProcessInv'
  BY ZenonT(40), <1>1, <1>2, <1>3, <1>4 DEF ProcessInv, Running
<1>8. run = "command" => result.status = "none"
  BY SMTT(40), <1>2 DEF ProcessInv, Running, NoResult
<1>9. ResultIsTrue'
  BY ZenonT(40), <1>1, <1>2, <1>3, <1>8 DEF ResultIsTrue
<1>10. QED
  BY ZenonT(40), <1>6, <1>7, <1>9 DEF ExecInv

\* The container starts, with a configuration that is valid or not.
LEMMA StartKept == ASSUME ExecInv, StartRun PROVE ExecInv'
<1>1. /\ \/ run' = "executing" /\ todo' = Steps(job) /\ exit' = "none"
         \/ run' = "ended" /\ todo' = <<>> /\ exit' = "one"
      /\ signalled' = FALSE /\ lingering' = FALSE
      /\ result' = NoResult /\ posted' = "no"
      /\ verified' = FALSE /\ plan' = "none" /\ planDir' = "none" /\ agent' = "none"
      /\ UNCHANGED <<job, infra, badCleanups>>
  BY ZenonT(40) DEF StartRun
<1>2. ExecTypeOK /\ ProcessInv
  BY ZenonT(40) DEF ExecInv
<1>3. job \in Jobs
  BY ZenonT(40), <1>2 DEF ExecTypeOK
<1>4. /\ Len(Steps(job)) \in Nat \ {0} /\ Rest(job, Len(Steps(job))) = <<>>
      /\ Steps(job) = Rest(job, 0)
  BY ZenonT(40), <1>3, RestEnds, RestBegins
<1>5. 0 \in 0..Len(Steps(job)) - 1 /\ 0 \in 0..Len(Steps(job)) /\ Len(Steps(job)) \in 0..Len(Steps(job))
  BY SMTT(40), <1>4
<1>6. \E n \in 0..Len(Steps(job')) : todo' = SubSeq(Steps(job'), n + 1, Len(Steps(job')))
  <2>1. CASE todo' = Steps(job)
    <3>1. todo' = SubSeq(Steps(job), 0 + 1, Len(Steps(job)))
      BY ZenonT(40), <1>4, <2>1 DEF Rest
    <3>2. QED
      BY ZenonT(40), <1>1, <1>5, <3>1
  <2>2. CASE todo' = <<>>
    <3>1. todo' = SubSeq(Steps(job), Len(Steps(job)) + 1, Len(Steps(job)))
      BY ZenonT(40), <1>4, <2>2 DEF Rest
    <3>2. QED
      BY ZenonT(40), <1>1, <1>5, <3>1
  <2>3. QED
    BY ZenonT(40), <1>1, <2>1, <2>2
<1>7. run' = "executing" => Progress'
  <2>1. Reached(0)'
    BY SMTT(40) DEF Reached
  <2>2. SUFFICES ASSUME run' = "executing" PROVE Progress'
    OBVIOUS
  <2>3. todo' = Rest(job', 0) /\ 0 \in 0..Len(Steps(job')) - 1
    BY ZenonT(40), <1>1, <1>4, <1>5, <2>2
  <2>4. QED
    BY ZenonT(40), <2>1, <2>3 DEF Progress
<1>8. result'.status = "none"
  BY ZenonT(40), <1>1 DEF NoResult
<1>9. ExecTypeOK'
  BY ZenonT(40), <1>1, <1>2, <1>6, <1>8 DEF ExecTypeOK
<1>10. ProcessInv'
  BY ZenonT(40), <1>1, <1>2, <1>7 DEF ProcessInv, Running
<1>11. ResultIsTrue'
  BY ZenonT(40), <1>1, <1>8 DEF ResultIsTrue
<1>12. QED
  BY ZenonT(40), <1>9, <1>10, <1>11 DEF ExecInv

\* What the process does not touch stays.
LEMMA ExecStays == ASSUME ExecInv, UNCHANGED execVars PROVE ExecInv'
<1>1. /\ UNCHANGED <<job, run, todo, signalled, lingering, result, posted, exit>>
      /\ UNCHANGED <<verified, plan, planDir, agent, infra, badCleanups>>
  BY ZenonT(40) DEF execVars, leftVars
<1>2. ExecTypeOK /\ ProcessInv /\ ResultIsTrue
  BY ZenonT(40) DEF ExecInv
<1>3. ExecTypeOK'
  BY SMTT(40), <1>1, <1>2 DEF ExecTypeOK
<1>4. Progress => Progress'
  <2>1. \A n : Reached(n) => Reached(n)'
    BY ZenonT(40), <1>1 DEF Reached
  <2>2. QED
    BY ZenonT(40), <1>1, <2>1 DEF Progress
<1>5. ProcessInv'
  BY ZenonT(40), <1>1, <1>2, <1>4 DEF ProcessInv, Running, Step
<1>6. ResultIsTrue'
  BY ZenonT(40), <1>1, <1>2 DEF ResultIsTrue
<1>7. QED
  BY ZenonT(40), <1>3, <1>5, <1>6 DEF ExecInv

\* A step of the program keeps the invariant of the process.
LEMMA ProgramKept == ASSUME ExecInv, Execute \/ Signal \/ KillRun PROVE ExecInv'
  BY ZenonT(40), LocalStepKept, FolderKept, AgentKept, VerifyKept, PlanDirKept, UnsupportedKept,
     StartCommandKept, CommandEndsKept, ReapedKept, PostKept, ExitKept, SignalKept, KillKept
  DEF Execute

-----------------------------------------------------------------------------
(* The Pods and the monitor *)

\* Once a round has read the Pod as not started, the Pod is not seen running
\* until it starts or comes back.
PodInv == mon \in {"events", "publishing"} => pod \in {"none", "pending", "unknown"} \/ sinceRead

Inv == TypeOK /\ ExecInv /\ PodInv

\* The invariant holds when the Job was created.
LEMMA InitInv == ASSUME Init PROVE Inv
<1>1. /\ ExecInit /\ jobStatus = "active" /\ pod = "none" /\ warned = {}
      /\ pods = 0 /\ sinceRead = FALSE
      /\ mon \in {"delayed", "lost"} /\ wait \in {Delay, 0} /\ left = 0 /\ object = "job"
      /\ reported = FALSE /\ faults = 0
  BY ZenonT(40) DEF Init, MonitorInit
<1>2. /\ job \in Jobs /\ run = "none" /\ todo = <<>>
      /\ signalled = FALSE /\ lingering = FALSE
      /\ result = NoResult /\ posted = "no" /\ exit = "none"
      /\ verified = FALSE /\ plan = "none" /\ planDir = "none" /\ agent = "none"
      /\ infra = "untouched" /\ badCleanups = 0
  BY ZenonT(40), <1>1, JobAssumption DEF ExecInit
<1>3. \E n \in 0..Len(Steps(job)) : todo = SubSeq(Steps(job), n + 1, Len(Steps(job)))
  <2>1. Len(Steps(job)) \in Nat \ {0} /\ Rest(job, Len(Steps(job))) = <<>>
    BY ZenonT(40), <1>2, RestEnds
  <2>2. Len(Steps(job)) \in 0..Len(Steps(job))
    BY SMTT(40), <2>1
  <2>3. todo = SubSeq(Steps(job), Len(Steps(job)) + 1, Len(Steps(job)))
    BY ZenonT(40), <1>2, <2>1 DEF Rest
  <2>4. QED
    BY ZenonT(40), <2>2, <2>3
<1>4. result.status = "none" /\ 0 \in 0..MaxCleanups
  BY SMTT(40), <1>2, JobAssumption DEF NoResult
<1>5. ExecTypeOK
  BY ZenonT(40), <1>2, <1>3, <1>4 DEF ExecTypeOK
<1>6. ProcessInv
  BY ZenonT(40), <1>2 DEF ProcessInv, Running
<1>7. ResultIsTrue
  BY ZenonT(40), <1>2, <1>4 DEF ResultIsTrue
<1>8. /\ wait \in 0..(Delay + Interval) /\ left \in 0..Timeout /\ faults \in 0..MaxFaults
      /\ pods \in 0..MaxPods
  BY SMTT(40), <1>1, MonitorAssumption, PodsAssumption
<1>9. MonitorTypeOK
  BY ZenonT(40), <1>1, <1>8 DEF MonitorTypeOK
<1>10. PodInv
  BY ZenonT(40), <1>1 DEF PodInv
<1>11. QED
  BY ZenonT(40), <1>1, <1>5, <1>6, <1>7, <1>8, <1>9, <1>10 DEF Inv, TypeOK, ExecInv

\* The cluster's part of the types.
LEMMA MonitorTypeStays ==
  ASSUME MonitorTypeOK, UNCHANGED monitorVars,
         jobStatus' \in {"active", "ready", "finished", "gone"},
         pod' \in {"none", "pending", "running", "unknown", "over"}, warned' \subseteq {"job", "pod"}
  PROVE  MonitorTypeOK'
  BY ZenonT(40) DEF MonitorTypeOK, monitorVars

\* Whatever Kubernetes does with the Job and its Pods.
LEMMA ClusterKept == ASSUME Inv, Cluster PROVE Inv'
<1>1. /\ ExecInv /\ PodInv /\ MonitorTypeOK /\ pods \in 0..MaxPods /\ MaxPods \in Nat
      /\ sinceRead \in BOOLEAN
  BY ZenonT(40), PodsAssumption DEF Inv, TypeOK
<1>2. /\ jobStatus \in {"active", "ready", "finished", "gone"}
      /\ pod \in {"none", "pending", "running", "unknown", "over"} /\ warned \subseteq {"job", "pod"}
  BY ZenonT(40), <1>1 DEF MonitorTypeOK
<1>3. ASSUME ExecInv', MonitorTypeOK', pods' \in 0..MaxPods, sinceRead' \in BOOLEAN, PodInv'
      PROVE  Inv'
  BY ZenonT(40), <1>3 DEF Inv, TypeOK, ExecInv
<1>4. CASE CreatePod
  <2>1. /\ pods < MaxPods /\ pod' = "pending" /\ pods' = pods + 1 /\ warned' = warned \ {"pod"}
        /\ UNCHANGED execVars /\ UNCHANGED monitorVars /\ jobStatus' = jobStatus
        /\ sinceRead' = sinceRead
    BY ZenonT(40), <1>4 DEF CreatePod
  <2>2. ExecInv'
    BY ZenonT(40), <1>1, <2>1, ExecStays
  <2>3. MonitorTypeOK'
    BY ZenonT(40), <1>1, <1>2, <2>1, MonitorTypeStays
  <2>4. run' = run /\ mon' = mon /\ reported' = reported
    BY ZenonT(40), <2>1 DEF execVars, monitorVars
  <2>5. pods' \in 0..MaxPods
    BY SMTT(40), <1>1, <2>1
  <2>6. PodInv'
    BY ZenonT(40), <1>1, <2>1, <2>4, <2>5 DEF PodInv
  <2>7. QED
    BY ZenonT(40), <1>1, <1>3, <2>1, <2>2, <2>3, <2>5, <2>6
<1>5. CASE Warn
  <2>1. /\ \E o \in {"job", "pod"} : warned' = warned \cup {o}
        /\ UNCHANGED execVars /\ UNCHANGED monitorVars /\ UNCHANGED <<jobStatus, pod>>
        /\ pods' = pods /\ sinceRead' = sinceRead
    BY ZenonT(40), <1>5 DEF Warn
  <2>2. ExecInv'
    BY ZenonT(40), <1>1, <2>1, ExecStays
  <2>3. MonitorTypeOK'
    BY ZenonT(40), <1>1, <1>2, <2>1, MonitorTypeStays
  <2>4. run' = run /\ mon' = mon /\ reported' = reported
    BY ZenonT(40), <2>1 DEF execVars, monitorVars
  <2>5. PodInv'
    BY ZenonT(40), <1>1, <2>1, <2>4 DEF PodInv
  <2>6. QED
    BY ZenonT(40), <1>1, <1>3, <2>1, <2>2, <2>3, <2>5
<1>6. CASE StartPod
  <2>1. /\ pod = "pending" /\ pod' = "running" /\ StartRun
        /\ UNCHANGED monitorVars /\ UNCHANGED <<jobStatus, warned>>
        /\ pods' = pods /\ sinceRead' = TRUE
    BY ZenonT(40), <1>6 DEF StartPod
  <2>2. ExecInv'
    BY ZenonT(40), <1>1, <2>1, StartKept
  <2>3. MonitorTypeOK'
    BY ZenonT(40), <1>1, <1>2, <2>1, MonitorTypeStays
  <2>4. mon' = mon /\ reported' = reported
    BY ZenonT(40), <2>1 DEF monitorVars
  <2>5. PodInv'
    BY ZenonT(40), <1>1, <2>1, <2>4 DEF PodInv
  <2>6. QED
    BY ZenonT(40), <1>1, <1>3, <2>1, <2>2, <2>3, <2>5
<1>7. CASE PodEnds
  <2>1. /\ pod = "running" /\ pod' = "over"
        /\ UNCHANGED execVars /\ UNCHANGED monitorVars /\ UNCHANGED <<jobStatus, warned>>
        /\ pods' = pods /\ sinceRead' = sinceRead
    BY ZenonT(40), <1>7 DEF PodEnds
  <2>2. ExecInv'
    BY ZenonT(40), <1>1, <2>1, ExecStays
  <2>3. MonitorTypeOK'
    BY ZenonT(40), <1>1, <1>2, <2>1, MonitorTypeStays
  <2>4. run' = run /\ mon' = mon /\ reported' = reported
    BY ZenonT(40), <2>1 DEF execVars, monitorVars
  <2>5. PodInv'
    BY ZenonT(40), <1>1, <2>1, <2>4 DEF PodInv
  <2>6. QED
    BY ZenonT(40), <1>1, <1>3, <2>1, <2>2, <2>3, <2>5
<1>8. CASE SyncStatus
  <2>1. /\ jobStatus' \in {"ready", "finished", "active"}
        /\ UNCHANGED execVars /\ UNCHANGED monitorVars /\ UNCHANGED <<pod, warned>>
        /\ pods' = pods /\ sinceRead' = sinceRead
    BY ZenonT(40), <1>8 DEF SyncStatus
  <2>2. ExecInv'
    BY ZenonT(40), <1>1, <2>1, ExecStays
  <2>3. MonitorTypeOK'
    BY ZenonT(40), <1>1, <1>2, <2>1, MonitorTypeStays
  <2>4. run' = run /\ mon' = mon /\ reported' = reported
    BY ZenonT(40), <2>1 DEF execVars, monitorVars
  <2>5. PodInv'
    BY ZenonT(40), <1>1, <2>1, <2>4 DEF PodInv
  <2>6. QED
    BY ZenonT(40), <1>1, <1>3, <2>1, <2>2, <2>3, <2>5
<1>9. CASE RemovePod
  <2>1. /\ pod # "none" /\ pod' = "none" /\ pods' = pods /\ sinceRead' = sinceRead
        /\ UNCHANGED monitorVars /\ UNCHANGED <<jobStatus, warned>>
        /\ KillRun \/ UNCHANGED execVars
    BY ZenonT(40), <1>9 DEF RemovePod
  <2>2. ExecInv'
    BY ZenonT(40), <1>1, <2>1, ExecStays, KillKept
  <2>3. MonitorTypeOK'
    BY ZenonT(40), <1>1, <1>2, <2>1, MonitorTypeStays
  <2>4. mon' = mon /\ reported' = reported
    BY ZenonT(40), <2>1 DEF monitorVars
  <2>5. PodInv'
    BY ZenonT(40), <1>1, <2>1, <2>4 DEF PodInv
  <2>6. QED
    BY ZenonT(40), <1>1, <1>3, <2>1, <2>2, <2>3, <2>5
<1>10. CASE RemoveJob
  <2>1. /\ jobStatus' = "gone" /\ pod' = "none" /\ pods' = pods /\ sinceRead' = sinceRead
        /\ UNCHANGED execVars /\ UNCHANGED monitorVars /\ warned' = warned
    BY ZenonT(40), <1>10 DEF RemoveJob
  <2>2. ExecInv'
    BY ZenonT(40), <1>1, <2>1, ExecStays
  <2>3. MonitorTypeOK'
    BY ZenonT(40), <1>1, <1>2, <2>1, MonitorTypeStays
  <2>4. run' = run /\ mon' = mon /\ reported' = reported
    BY ZenonT(40), <2>1 DEF execVars, monitorVars
  <2>5. PodInv'
    BY ZenonT(40), <1>1, <2>1, <2>4 DEF PodInv
  <2>6. QED
    BY ZenonT(40), <1>1, <1>3, <2>1, <2>2, <2>3, <2>5
<1>11. CASE LosePod
  <2>1. /\ pod = "running" /\ pod' = "unknown"
        /\ UNCHANGED execVars /\ UNCHANGED monitorVars /\ UNCHANGED <<jobStatus, warned>>
        /\ pods' = pods /\ sinceRead' = sinceRead
    BY ZenonT(40), <1>11 DEF LosePod
  <2>2. ExecInv'
    BY ZenonT(40), <1>1, <2>1, ExecStays
  <2>3. MonitorTypeOK'
    BY ZenonT(40), <1>1, <1>2, <2>1, MonitorTypeStays
  <2>4. run' = run /\ mon' = mon /\ reported' = reported
    BY ZenonT(40), <2>1 DEF execVars, monitorVars
  <2>5. PodInv'
    BY ZenonT(40), <1>1, <2>1, <2>4 DEF PodInv
  <2>6. QED
    BY ZenonT(40), <1>1, <1>3, <2>1, <2>2, <2>3, <2>5
<1>12. CASE FindPod
  <2>1. /\ pod = "unknown" /\ pod' = "running"
        /\ UNCHANGED execVars /\ UNCHANGED monitorVars /\ UNCHANGED <<jobStatus, warned>>
        /\ pods' = pods /\ sinceRead' = TRUE
    BY ZenonT(40), <1>12 DEF FindPod
  <2>2. ExecInv'
    BY ZenonT(40), <1>1, <2>1, ExecStays
  <2>3. MonitorTypeOK'
    BY ZenonT(40), <1>1, <1>2, <2>1, MonitorTypeStays
  <2>4. run' = run /\ mon' = mon /\ reported' = reported
    BY ZenonT(40), <2>1 DEF execVars, monitorVars
  <2>5. PodInv'
    BY ZenonT(40), <1>1, <2>1, <2>4 DEF PodInv
  <2>6. QED
    BY ZenonT(40), <1>1, <1>3, <2>1, <2>2, <2>3, <2>5
<1>13. QED
  BY ZenonT(40), <1>4, <1>5, <1>6, <1>7, <1>8, <1>9, <1>10, <1>11, <1>12 DEF Cluster

\* A step of the program leaves the cluster and the monitor alone.
LEMMA ProgramStepKept ==
  ASSUME Inv, Program(Execute) \/ Program(Signal) \/ Program(KillRun)
  PROVE  Inv'
<1>1. /\ ExecInv /\ PodInv /\ MonitorTypeOK /\ pods \in 0..MaxPods
      /\ sinceRead \in BOOLEAN
  BY ZenonT(40) DEF Inv, TypeOK
<1>2. /\ Execute \/ Signal \/ KillRun
      /\ UNCHANGED <<jobStatus, pod, warned>> /\ UNCHANGED monitorVars
      /\ pods' = pods /\ sinceRead' = sinceRead
  BY ZenonT(40) DEF Program, clusterVars
<1>3. ExecInv'
  BY ZenonT(40), <1>1, <1>2, ProgramKept
<1>4. MonitorTypeOK'
  <2>1. /\ jobStatus' \in {"active", "ready", "finished", "gone"}
        /\ pod' \in {"none", "pending", "running", "unknown", "over"} /\ warned' \subseteq {"job", "pod"}
    BY ZenonT(40), <1>1, <1>2 DEF MonitorTypeOK
  <2>2. QED
    BY ZenonT(40), <1>1, <1>2, <2>1, MonitorTypeStays
<1>5. mon' = mon /\ reported' = reported
  BY ZenonT(40), <1>2 DEF monitorVars
<1>6. PodInv'
  BY ZenonT(40), <1>1, <1>2, <1>5 DEF PodInv
<1>7. QED
  BY ZenonT(40), <1>1, <1>2, <1>3, <1>4, <1>6 DEF Inv, TypeOK, ExecInv

\* The monitor changes nothing but its own state, and what ReadPod saw.
LEMMA MonitorStepKept ==
  ASSUME Inv, UNCHANGED <<execVars, clusterVars, pods>>,
         mon' \in {"delayed", "status", "pod", "events", "publishing", "waiting", "ended", "expired", "lost"},
         object' \in {"job", "pod"}, wait' \in 0..(Delay + Interval), left' \in 0..Timeout,
         reported' \in BOOLEAN, faults' \in 0..MaxFaults, sinceRead' \in BOOLEAN,
         mon' \in {"events", "publishing"} => pod \in {"none", "pending", "unknown"} \/ sinceRead'
  PROVE  Inv'
<1>1. /\ ExecInv /\ PodInv /\ MonitorTypeOK /\ pods \in 0..MaxPods
  BY ZenonT(40) DEF Inv, TypeOK
<1>2. /\ UNCHANGED execVars /\ UNCHANGED <<jobStatus, pod, warned>> /\ pods' = pods
  BY ZenonT(40) DEF clusterVars
<1>3. ExecInv' /\ run' = run
  <2>1. ExecInv'
    BY ZenonT(40), <1>1, <1>2, ExecStays
  <2>2. run' = run
    BY ZenonT(40), <1>2 DEF execVars
  <2>3. QED
    BY ZenonT(40), <2>1, <2>2
<1>4. MonitorTypeOK'
  BY ZenonT(40), <1>1, <1>2 DEF MonitorTypeOK
<1>5. PodInv'
  BY ZenonT(40), <1>1, <1>2, <1>3 DEF PodInv
<1>6. QED
  BY ZenonT(40), <1>1, <1>2, <1>3, <1>4, <1>5 DEF Inv, TypeOK, ExecInv

\* A failing read ends the round.
LEMMA ReadFailsEffect ==
  ASSUME faults \in 0..MaxFaults, ReadFails
  PROVE  mon' = "waiting" /\ faults' \in 0..MaxFaults /\ UNCHANGED <<object, reported, wait, left>>
<1>1. /\ faults < MaxFaults /\ faults' = faults + 1 /\ mon' = "waiting"
      /\ UNCHANGED <<object, reported, wait, left>>
  BY ZenonT(40) DEF ReadFails, Fault, timers
<1>2. MaxFaults \in Nat
  BY ZenonT(40), MonitorAssumption
<1>3. QED
  BY SMTT(40), <1>1, <1>2

\* Every step of monitorJobScheduling, of its timers, and of the agent it runs in.
LEMMA MonitorKept ==
  ASSUME Inv,
         \/ Monitor(MonitorWakes) \/ Monitor(Round) \/ Monitor(NextRound)
         \/ Monitor(MonitorTimesOut) \/ Monitor(AgentRestarts) \/ Monitor(Tick)
  PROVE  Inv'
<1>1. /\ PodInv /\ sinceRead \in BOOLEAN
      /\ mon \in {"delayed", "status", "pod", "events", "publishing", "waiting", "ended", "expired", "lost"}
      /\ object \in {"job", "pod"} /\ wait \in 0..(Delay + Interval) /\ left \in 0..Timeout
      /\ reported \in BOOLEAN /\ faults \in 0..MaxFaults
      /\ pod \in {"none", "pending", "running", "unknown", "over"}
  BY ZenonT(40) DEF Inv, TypeOK, MonitorTypeOK
<1>2. /\ Delay \in Nat \ {0} /\ Interval \in Nat \ {0} /\ Timeout \in Nat \ {0} /\ MaxFaults \in Nat
      /\ 0 \in 0..(Delay + Interval) /\ Interval \in 0..(Delay + Interval)
      /\ 0 \in 0..Timeout /\ Timeout \in 0..Timeout
  <2>1. Delay \in Nat \ {0} /\ Interval \in Nat \ {0} /\ Timeout \in Nat \ {0} /\ MaxFaults \in Nat
    BY ZenonT(40), MonitorAssumption
  <2>2. QED
    BY SMTT(40), <2>1
<1>3. /\ sinceRead' = (mon \notin {"waiting", "pod"} /\ sinceRead)
      /\ UNCHANGED <<execVars, clusterVars, pods>>
  BY ZenonT(40) DEF Monitor
<1>4. sinceRead' \in BOOLEAN /\ (mon \in {"events", "publishing"} /\ sinceRead => sinceRead')
  BY ZenonT(40), <1>1, <1>3
<1>5. mon \in {"events", "publishing"} => pod \in {"none", "pending", "unknown"} \/ sinceRead
  BY ZenonT(40), <1>1 DEF PodInv
<1>6. CASE MonitorWakes \/ NextRound \/ MonitorTimesOut \/ AgentRestarts
  <2>1. mon' \in {"status", "expired", "lost"} /\ UNCHANGED <<object, reported, faults>>
    BY ZenonT(40), <1>6 DEF MonitorWakes, NextRound, MonitorTimesOut, AgentRestarts
  <2>2. wait' \in {0, Interval} /\ left' \in {0, Timeout, left}
    BY ZenonT(40), <1>6 DEF MonitorWakes, NextRound, MonitorTimesOut, AgentRestarts, Stop
  <2>3. wait' \in 0..(Delay + Interval) /\ left' \in 0..Timeout
    BY ZenonT(40), <1>1, <1>2, <2>2
  <2>4. QED
    BY ZenonT(40), <1>1, <1>3, <1>4, <2>1, <2>3, MonitorStepKept
<1>7. CASE Tick
  <2>1. UNCHANGED <<mon, object, reported, faults>> /\ wait' = Less(wait) /\ left' = Less(left)
    BY ZenonT(40), <1>7 DEF Tick
  <2>2. wait' \in 0..(Delay + Interval) /\ left' \in 0..Timeout
    BY SMTT(40), <1>1, <1>2, <2>1 DEF Less
  <2>3. mon' \in {"events", "publishing"} => pod \in {"none", "pending", "unknown"} \/ sinceRead'
    BY ZenonT(40), <1>4, <1>5, <2>1
  <2>4. QED
    BY ZenonT(40), <1>1, <1>3, <1>4, <2>1, <2>2, <2>3, MonitorStepKept
<1>8. CASE ReadFails
  <2>1. mon' = "waiting" /\ faults' \in 0..MaxFaults /\ UNCHANGED <<object, reported, wait, left>>
    BY ZenonT(40), <1>1, <1>8, ReadFailsEffect
  <2>2. QED
    BY ZenonT(40), <1>1, <1>3, <1>4, <2>1, MonitorStepKept
<1>9. CASE ReadStatus /\ ~ReadFails
  <2>1. mon' \in {"waiting", "ended", "pod"} /\ UNCHANGED <<object, reported, faults>>
    BY ZenonT(40), <1>9 DEF ReadStatus
  <2>2. wait' \in {0, wait} /\ left' \in {0, left}
    BY ZenonT(40), <1>9 DEF ReadStatus, Stop, timers
  <2>3. wait' \in 0..(Delay + Interval) /\ left' \in 0..Timeout
    BY ZenonT(40), <1>1, <1>2, <2>2
  <2>4. QED
    BY ZenonT(40), <1>1, <1>3, <1>4, <2>1, <2>3, MonitorStepKept
<1>10. CASE ReadPod /\ ~ReadFails
  <2>1. /\ mon' = (IF pod \in {"none", "pending", "unknown"} THEN "events" ELSE "ended")
        /\ object' \in {"job", "pod"} /\ UNCHANGED <<reported, faults>>
    BY ZenonT(40), <1>10 DEF ReadPod
  <2>2. wait' \in {0, wait} /\ left' \in {0, left}
    BY ZenonT(40), <1>10 DEF ReadPod, Stop, timers
  <2>3. wait' \in 0..(Delay + Interval) /\ left' \in 0..Timeout
    BY ZenonT(40), <1>1, <1>2, <2>2
  <2>4. mon' \in {"events", "ended"} /\ (mon' = "events" => pod \in {"none", "pending", "unknown"})
    BY ZenonT(40), <2>1
  <2>5. QED
    BY ZenonT(40), <1>1, <1>3, <1>4, <2>1, <2>3, <2>4, MonitorStepKept
<1>11. CASE ReadEvents /\ ~ReadFails
  <2>1. mon = "events" /\ mon' \in {"publishing", "waiting"} /\ UNCHANGED <<object, reported, faults, wait, left>>
    BY ZenonT(40), <1>11 DEF ReadEvents, timers
  <2>2. pod \in {"none", "pending", "unknown"} \/ sinceRead'
    BY ZenonT(40), <1>4, <1>5, <2>1
  <2>3. QED
    BY ZenonT(40), <1>1, <1>3, <1>4, <2>1, <2>2, MonitorStepKept
<1>12. CASE PublishError /\ ~ReadFails
  <2>1. mon' = "ended" /\ reported' = TRUE /\ UNCHANGED <<object, faults>> /\ wait' = 0 /\ left' = 0
    BY ZenonT(40), <1>12 DEF PublishError, Stop
  <2>2. QED
    BY ZenonT(40), <1>1, <1>2, <1>3, <1>4, <2>1, MonitorStepKept
<1>13. CASE Round
  BY ZenonT(40), <1>8, <1>9, <1>10, <1>11, <1>12, <1>13 DEF Round
<1>14. QED
  BY ZenonT(40), <1>6, <1>7, <1>13 DEF Monitor

\* Every step keeps the invariant.
LEMMA NextInv == ASSUME Inv, [Next]_vars PROVE Inv'
<1>1. CASE UNCHANGED vars
  <2>1. UNCHANGED <<execVars, clusterVars, pods>> /\ UNCHANGED monitorVars /\ sinceRead' = sinceRead
    BY ZenonT(40), <1>1 DEF vars
  <2>2. UNCHANGED <<mon, object, wait, left, reported, faults>>
    BY ZenonT(40), <2>1 DEF monitorVars
  <2>3. /\ mon' \in {"delayed", "status", "pod", "events", "publishing", "waiting", "ended", "expired", "lost"}
        /\ object' \in {"job", "pod"} /\ wait' \in 0..(Delay + Interval) /\ left' \in 0..Timeout
        /\ reported' \in BOOLEAN /\ faults' \in 0..MaxFaults /\ sinceRead' \in BOOLEAN
    BY ZenonT(40), <2>1, <2>2 DEF Inv, TypeOK, MonitorTypeOK
  <2>4. mon' \in {"events", "publishing"} => pod \in {"none", "pending", "unknown"} \/ sinceRead'
    BY ZenonT(40), <2>1, <2>2 DEF Inv, PodInv
  <2>5. QED
    BY ZenonT(40), <2>1, <2>3, <2>4, MonitorStepKept
<1>2. QED
  BY ZenonT(40), <1>1, ClusterKept, ProgramStepKept, MonitorKept DEF Next

-----------------------------------------------------------------------------
(* The theorems *)

\* The inductive invariant holds throughout.
LEMMA InvHolds == Spec => []Inv
<1>1. Init => Inv
  BY ZenonT(40), InitInv
<1>2. Inv /\ [Next]_vars => Inv'
  BY ZenonT(40), NextInv
<1>3. QED
  BY <1>1, <1>2, PTL DEF Spec

\* Every variable of the Job, its Pods, its program and its monitor keeps its
\* type: the program is always at one of the steps of its mode, in their order.
THEOREM JobTypeCorrect == Spec => []TypeOK
<1>1. Inv => TypeOK
  BY ZenonT(40) DEF Inv
<1>2. QED
  BY <1>1, InvHolds, PTL

\* What ExecuteStandardMode reports is what was done, and the exit code of main
\* tells whether a success was stored or spooled.
THEOREM ResultIsAlwaysTrue == Spec => []ResultIsTrue
<1>1. Inv => ResultIsTrue
  BY ZenonT(40) DEF Inv, ExecInv
<1>2. QED
  BY <1>1, InvHolds, PTL

\* monitorJobScheduling publishes its error for a Pod that runs or has ended
\* only when the Pod started, or came back into sight, after the same round had
\* read it, however reads and publications fail and the cluster moves.
THEOREM NoErrorForSeenPod == Spec => ErrorNotForSeenPod
<1>1. Inv /\ [Next]_vars =>
        [reported' # reported => pod \in {"none", "pending", "unknown"} \/ sinceRead]_vars
  <2> SUFFICES ASSUME Inv, Next, reported' # reported
               PROVE  pod \in {"none", "pending", "unknown"} \/ sinceRead
    BY ZenonT(40)
  <2>1. ~UNCHANGED monitorVars
    BY ZenonT(40) DEF monitorVars
  <2>2. ~Cluster
    BY ZenonT(40), <2>1 DEF Cluster, CreatePod, Warn, StartPod, LosePod, FindPod, PodEnds, SyncStatus,
       RemovePod, RemoveJob
  <2>3. ~(Program(Execute) \/ Program(Signal) \/ Program(KillRun))
    BY ZenonT(40), <2>1 DEF Program
  <2>4. ~(MonitorWakes \/ NextRound \/ MonitorTimesOut \/ AgentRestarts \/ Tick)
    BY ZenonT(40) DEF MonitorWakes, NextRound, MonitorTimesOut, AgentRestarts, Tick
  <2>5. ~(ReadStatus \/ ReadPod \/ ReadEvents)
    BY ZenonT(40) DEF ReadStatus, ReadPod, ReadEvents, ReadFails
  <2>6. PublishError
    BY ZenonT(40), <2>2, <2>3, <2>4, <2>5 DEF Next, Monitor, Round
  <2>7. mon = "publishing"
    BY ZenonT(40), <2>6 DEF PublishError
  <2>8. QED
    BY ZenonT(40), <2>7 DEF Inv, PodInv
<1>2. QED
  BY <1>1, InvHolds, PTL DEF Spec, ErrorNotForSeenPod

\* A step that is not a command's leaves the infrastructure alone.
LEMMA OnlyCommandsChange ==
  ASSUME Next, infra' # infra
  PROVE  /\ run = "command"
         /\ \/ Step = "apply" /\ infra' \in {"applied", "partial"}
            \/ Step = "destroy" /\ infra' \in {"destroyed", "partial"}
<1> DEFINE Change == /\ run = "command"
                     /\ \/ Step = "apply" /\ infra' \in {"applied", "partial"}
                        \/ Step = "destroy" /\ infra' \in {"destroyed", "partial"}
<1>1. UNCHANGED execVars => infra' = infra
  BY ZenonT(40) DEF execVars, leftVars
<1>2. KillRun => Change
  BY ZenonT(40) DEF KillRun, PartialEffect
<1>3. Signal => Change
  BY ZenonT(40) DEF Signal, PartialEffect
<1>4. CommandEnds => Change
  BY ZenonT(40) DEF CommandEnds, Effect, PartialEffect
<1>5. Execute => Change
  <2>1. ~(LocalStep \/ CreateIaCFolder \/ LaunchAgent \/ VerifyArtifacts \/ MakePlanDir \/ Unsupported)
    BY ZenonT(40) DEF LocalStep, CreateIaCFolder, LaunchAgent, VerifyArtifacts, MakePlanDir, Unsupported
  <2>2. ~(StartCommand \/ CommandReaped \/ PostResult \/ Exit)
    BY ZenonT(40) DEF StartCommand, CommandReaped, PostResult, Exit, leftVars
  <2>3. QED
    BY ZenonT(40), <1>4, <2>1, <2>2 DEF Execute
<1>6. Cluster => Change
  <2>1. ~(CreatePod \/ Warn \/ LosePod \/ FindPod \/ PodEnds \/ SyncStatus \/ RemoveJob)
    BY ZenonT(40), <1>1 DEF CreatePod, Warn, LosePod, FindPod, PodEnds, SyncStatus, RemoveJob
  <2>2. ~StartPod
    BY ZenonT(40) DEF StartPod, StartRun
  <2>3. RemovePod => Change
    BY ZenonT(40), <1>1, <1>2 DEF RemovePod
  <2>4. QED
    BY ZenonT(40), <2>1, <2>2, <2>3 DEF Cluster
<1>7. ~(\/ Monitor(MonitorWakes) \/ Monitor(Round) \/ Monitor(NextRound)
        \/ Monitor(MonitorTimesOut) \/ Monitor(AgentRestarts) \/ Monitor(Tick))
  BY ZenonT(40), <1>1 DEF Monitor
<1>8. QED
  BY ZenonT(40), <1>2, <1>3, <1>5, <1>6, <1>7 DEF Next, Program

\* The infrastructure changes by an apply of the plan this process made, or by a
\* destroy, of artifacts that verifyArtifactManifest accepted, and in no other
\* way.
THEOREM ChangesOnlyByVerifiedPlan == Spec => ChangeOnlyByVerifiedPlan
<1> DEFINE Allowed == infra' # infra =>
             /\ verified
             /\ \/ job.mode = "deploy" /\ plan = "own" /\ infra' \in {"applied", "partial"}
                \/ job.mode = "destroy" /\ infra' \in {"destroyed", "partial"}
<1>1. Inv /\ [Next]_vars => [Allowed]_vars
  <2>1. SUFFICES ASSUME Inv, Next, infra' # infra
                 PROVE  /\ verified
                        /\ \/ job.mode = "deploy" /\ plan = "own" /\ infra' \in {"applied", "partial"}
                           \/ job.mode = "destroy" /\ infra' \in {"destroyed", "partial"}
    OBVIOUS
  <2>2. /\ run = "command"
        /\ \/ Step = "apply" /\ infra' \in {"applied", "partial"}
           \/ Step = "destroy" /\ infra' \in {"destroyed", "partial"}
    BY ZenonT(40), <2>1, OnlyCommandsChange
  <2>3. job \in Jobs /\ Progress
    BY ZenonT(40), <2>1, <2>2 DEF Inv, ExecInv, ExecTypeOK, ProcessInv, Running
  <2>4. QED
    BY ZenonT(40), <2>2, <2>3, ChangeIsNext
<1>2. QED
  BY <1>1, InvHolds, PTL DEF Spec, ChangeOnlyByVerifiedPlan
=============================================================================
