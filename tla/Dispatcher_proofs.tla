-------------------------- MODULE Dispatcher_proofs --------------------------
(***************************************************************************)
(* For any groups, workers, capacities and batch sizes.  No job is lost in *)
(* any regime: one that is not settled is in the table for a later claim,  *)
(* or in somebody's hands.  As long as no handler outlives its keep-alive, *)
(* a job is in one place only, in one group's claim or channel or in one   *)
(* worker's hand, buffer or flush, and the counters move once per job.     *)
(*                                                                         *)
(* The invariant OnceInv has the places of a job as sets: in one sequence  *)
(* it stands once (Single), no two places share it (Apart), and its row is *)
(* alive and names the place (Owned), so that no claim takes it again.     *)
(***************************************************************************)
EXTENDS Dispatcher, SequenceTheorems, FiniteSetTheorems, TLAPS

-------------------------------------------------------------------------------
(* Sequences as what they hold.                                            *)

\* Once(s): nothing is in it twice.
Once(s) == \A i, k \in DOMAIN s : s[i] = s[k] => i = k

LEMMA HeldByAppend ==
  ASSUME NEW S, NEW s \in Seq(S), NEW e \in S
  PROVE  /\ ToSet(Append(s, e)) = ToSet(s) \cup {e}
         /\ Once(s) /\ e \notin ToSet(s) => Once(Append(s, e))
<1> DEFINE t == Append(s, e)
<1>1. /\ t \in Seq(S) /\ Len(t) = Len(s) + 1
      /\ \A i \in 1..Len(s) : t[i] = s[i]
      /\ t[Len(s) + 1] = e
  BY AppendProperties
<1>2. DOMAIN s = 1..Len(s) /\ DOMAIN t = 1..Len(s) + 1 /\ Len(s) \in Nat
  BY <1>1, LenProperties
<1> HIDE DEF t
<1>3. ToSet(t) = ToSet(s) \cup {e}
  BY <1>1, <1>2 DEF ToSet
<1>4. Once(s) /\ e \notin ToSet(s) => Once(t)
  BY <1>1, <1>2 DEF ToSet, Once
<1> QED BY <1>3, <1>4 DEF t

LEMMA HeldByTail ==
  ASSUME NEW S, NEW s \in Seq(S), s # <<>>
  PROVE  /\ Head(s) \in S /\ Tail(s) \in Seq(S)
         /\ ToSet(s) = {Head(s)} \cup ToSet(Tail(s))
         /\ Once(s) => Once(Tail(s)) /\ Head(s) \notin ToSet(Tail(s))
<1> DEFINE t == Tail(s)
<1>1. /\ Head(s) \in S /\ t \in Seq(S) /\ Len(t) = Len(s) - 1
      /\ \A i \in 1..Len(t) : t[i] = s[i + 1]
  BY HeadTailProperties
<1>2. DOMAIN s = 1..Len(s) /\ DOMAIN t = 1..Len(t) /\ Len(s) \in Nat /\ Len(t) \in Nat
  BY <1>1, LenProperties
<1>3. Head(s) = s[1] /\ 1 \in DOMAIN s
  BY <1>2, EmptySeq
<1> HIDE DEF t
<1>4. ASSUME NEW i \in DOMAIN s PROVE s[i] = Head(s) \/ s[i] \in ToSet(t)
  <2>1. CASE i = 1 BY <2>1, <1>3
  <2>2. CASE i # 1
    <3>1. i - 1 \in 1..Len(t) /\ t[i - 1] = s[i] BY <2>2, <1>1, <1>2
    <3> QED BY <3>1, <1>2 DEF ToSet
  <2> QED BY <2>1, <2>2
<1>5. ASSUME NEW i \in DOMAIN t PROVE i + 1 \in DOMAIN s /\ t[i] = s[i + 1] /\ i + 1 # 1
  BY <1>1, <1>2
<1>6. ToSet(s) = {Head(s)} \cup ToSet(t)
  BY <1>3, <1>4, <1>5 DEF ToSet
<1>7. ASSUME Once(s) PROVE Once(t)
  <2> SUFFICES ASSUME NEW i \in DOMAIN t, NEW k \in DOMAIN t, t[i] = t[k] PROVE i = k
    BY DEF Once
  <2>1. i + 1 = k + 1 BY <1>5, <1>7 DEF Once
  <2> QED BY <2>1, <1>2
<1>8. ASSUME Once(s), Head(s) \in ToSet(t) PROVE FALSE
  <2>1. PICK i \in DOMAIN t : t[i] = Head(s) BY <1>8 DEF ToSet
  <2> QED BY <2>1, <1>3, <1>5, <1>8 DEF Once
<1> QED BY <1>1, <1>6, <1>7, <1>8 DEF t

LEMMA HeldByOrder ==
  ASSUME NEW S, NEW T \in SUBSET S, IsFiniteSet(T), NEW s \in SetToSeqs(T)
  PROVE  s \in Seq(S) /\ ToSet(s) = T /\ Once(s)
<1> DEFINE n == Cardinality(T)
<1>1. s \in [1..n -> T] /\ \A i, k \in 1..n : i # k => s[i] # s[k]
  BY DEF SetToSeqs
<1>2. n \in Nat BY FS_CardinalityType
<1>3. s \in Seq(S) BY <1>1, <1>2, SeqDef
<1>4. Once(s) BY <1>1 DEF Once
<1>5. IsFiniteSet(1..n) /\ Cardinality(1..n) = n BY <1>2, FS_Interval
<1>6. s \in Injection(1..n, T) BY <1>1 DEF Injection, IsInjective
<1>7. s \in Surjection(1..n, T) BY <1>5, <1>6, FS_Injection
<1>8. ToSet(s) = T BY <1>7, <1>1 DEF Surjection, ToSet
<1> QED BY <1>3, <1>4, <1>8

LEMMA HeldByConcat ==
  ASSUME NEW S, NEW s \in Seq(S), NEW t \in Seq(S)
  PROVE  s \o t \in Seq(S) /\ ToSet(s \o t) = ToSet(s) \cup ToSet(t)
<1>1. /\ s \o t \in Seq(S) /\ Len(s \o t) = Len(s) + Len(t)
      /\ \A i \in 1..Len(s) + Len(t) : (s \o t)[i] = IF i <= Len(s) THEN s[i] ELSE t[i - Len(s)]
  BY ConcatProperties
<1>2. /\ DOMAIN s = 1..Len(s) /\ DOMAIN t = 1..Len(t) /\ DOMAIN (s \o t) = 1..Len(s) + Len(t)
      /\ Len(s) \in Nat /\ Len(t) \in Nat
  BY <1>1, LenProperties
<1> DEFINE u == s \o t
<1> HIDE DEF u
<1>3. ASSUME NEW i \in DOMAIN s PROVE i \in DOMAIN u /\ u[i] = s[i]
  BY <1>1, <1>2 DEF u
<1>4. ASSUME NEW i \in DOMAIN t PROVE Len(s) + i \in DOMAIN u /\ u[Len(s) + i] = t[i]
  BY <1>1, <1>2 DEF u
<1>5. ASSUME NEW i \in DOMAIN u PROVE u[i] \in ToSet(s) \cup ToSet(t)
  <2>1. CASE i <= Len(s) BY <2>1, <1>1, <1>2 DEF u, ToSet
  <2>2. CASE i > Len(s)
    <3>1. i - Len(s) \in DOMAIN t /\ u[i] = t[i - Len(s)] BY <2>2, <1>1, <1>2 DEF u
    <3> QED BY <3>1 DEF ToSet
  <2> QED BY <2>1, <2>2, <1>2 DEF u
<1>6. ToSet(u) = ToSet(s) \cup ToSet(t)
  BY <1>3, <1>4, <1>5 DEF ToSet
<1> QED BY <1>1, <1>6 DEF u

-------------------------------------------------------------------------------
(* Completions, and the parts a drained buffer is cut into.                *)

OncePerJob(r) == \A i, k \in DOMAIN r : r[i].job = r[k].job => i = k
InParts(s) == UNION {JobsOf(r) : r \in ToSet(s)}
Cut(s) ==
  /\ \A i \in DOMAIN s : OncePerJob(s[i])
  /\ \A i, k \in DOMAIN s : i # k => JobsOf(s[i]) \cap JobsOf(s[k]) = {}

LEMMA BufferedByAppend ==
  ASSUME NEW r \in Seq(Completion), NEW e \in Completion
  PROVE  /\ Append(r, e) \in Seq(Completion)
         /\ JobsOf(Append(r, e)) = JobsOf(r) \cup {e.job}
         /\ OncePerJob(r) /\ e.job \notin JobsOf(r) => OncePerJob(Append(r, e))
<1> DEFINE t == Append(r, e)
<1>1. /\ t \in Seq(Completion) /\ Len(t) = Len(r) + 1
      /\ \A i \in 1..Len(r) : t[i] = r[i]
      /\ t[Len(r) + 1] = e
  BY AppendProperties
<1>2. DOMAIN r = 1..Len(r) /\ DOMAIN t = 1..Len(r) + 1 /\ Len(r) \in Nat
  BY <1>1, LenProperties
<1>3. ToSet(t) = ToSet(r) \cup {e} BY HeldByAppend
<1> HIDE DEF t
<1>4. \A i \in DOMAIN r : r[i].job \in JobsOf(r) BY DEF JobsOf, ToSet
<1>5. OncePerJob(r) /\ e.job \notin JobsOf(r) => OncePerJob(t)
  BY <1>1, <1>2, <1>4 DEF OncePerJob
<1>6. JobsOf(t) = JobsOf(r) \cup {e.job} BY <1>3 DEF JobsOf
<1> QED BY <1>1, <1>5, <1>6 DEF t

LEMMA PartsByTail ==
  ASSUME NEW s \in Seq(Seq(Completion)), s # <<>>
  PROVE  /\ Head(s) \in Seq(Completion) /\ Tail(s) \in Seq(Seq(Completion))
         /\ InParts(s) = JobsOf(Head(s)) \cup InParts(Tail(s))
         /\ Cut(s) => /\ Cut(Tail(s)) /\ OncePerJob(Head(s))
                      /\ JobsOf(Head(s)) \cap InParts(Tail(s)) = {}
<1> DEFINE t == Tail(s)
<1>1. /\ Head(s) \in Seq(Completion) /\ t \in Seq(Seq(Completion)) /\ Len(t) = Len(s) - 1
      /\ \A i \in 1..Len(t) : t[i] = s[i + 1]
  BY HeadTailProperties
<1>2. DOMAIN s = 1..Len(s) /\ DOMAIN t = 1..Len(t) /\ Len(s) \in Nat /\ Len(t) \in Nat
  BY <1>1, LenProperties
<1>3. Head(s) = s[1] /\ 1 \in DOMAIN s BY <1>2, EmptySeq
<1>4. ToSet(s) = {Head(s)} \cup ToSet(t) BY HeldByTail
<1> HIDE DEF t
<1>5. ASSUME NEW i \in DOMAIN t PROVE i + 1 \in DOMAIN s /\ t[i] = s[i + 1] /\ i + 1 # 1
  BY <1>1, <1>2
<1>6. InParts(s) = JobsOf(Head(s)) \cup InParts(t) BY <1>4 DEF InParts
<1>7. ASSUME Cut(s) PROVE Cut(t)
  <2>1. \A i, k \in DOMAIN t : i # k => i + 1 # k + 1 BY <1>2
  <2> QED BY <2>1, <1>5, <1>7 DEF Cut
<1>8. ASSUME Cut(s) PROVE OncePerJob(Head(s)) BY <1>3, <1>8 DEF Cut
<1>9. ASSUME Cut(s) PROVE JobsOf(Head(s)) \cap InParts(t) = {}
  <2>1. \A i \in DOMAIN t : JobsOf(Head(s)) \cap JobsOf(t[i]) = {}
    BY <1>3, <1>5, <1>9 DEF Cut
  <2> QED BY <2>1 DEF InParts, ToSet
<1> QED BY <1>1, <1>6, <1>7, <1>8, <1>9 DEF t

LEMMA PartsByConcat ==
  ASSUME NEW s \in Seq(Seq(Completion)), NEW t \in Seq(Seq(Completion))
  PROVE  /\ s \o t \in Seq(Seq(Completion))
         /\ InParts(s \o t) = InParts(s) \cup InParts(t)
         /\ Cut(s) /\ Cut(t) /\ InParts(s) \cap InParts(t) = {} => Cut(s \o t)
<1> DEFINE u == s \o t
<1>1. u \in Seq(Seq(Completion)) /\ ToSet(u) = ToSet(s) \cup ToSet(t) BY HeldByConcat
<1>2. /\ Len(u) = Len(s) + Len(t)
      /\ \A i \in 1..Len(s) + Len(t) : u[i] = IF i <= Len(s) THEN s[i] ELSE t[i - Len(s)]
  BY ConcatProperties
<1>3. /\ DOMAIN s = 1..Len(s) /\ DOMAIN t = 1..Len(t) /\ DOMAIN u = 1..Len(u)
      /\ Len(s) \in Nat /\ Len(t) \in Nat
  BY <1>1, LenProperties
<1> HIDE DEF u
<1>4. InParts(u) = InParts(s) \cup InParts(t) BY <1>1 DEF InParts
<1>5. ASSUME Cut(s), Cut(t), InParts(s) \cap InParts(t) = {} PROVE Cut(u)
  <2>1. \A i \in DOMAIN u :
          \/ i \in DOMAIN s /\ u[i] = s[i]
          \/ i - Len(s) \in DOMAIN t /\ u[i] = t[i - Len(s)] /\ i > Len(s)
    BY <1>2, <1>3
  <2>2. /\ \A i \in DOMAIN s : JobsOf(s[i]) \subseteq InParts(s)
        /\ \A i \in DOMAIN t : JobsOf(t[i]) \subseteq InParts(t)
    BY DEF InParts, ToSet
  <2>3. \A i \in DOMAIN u : OncePerJob(u[i]) BY <2>1, <1>5 DEF Cut
  <2>4. ASSUME NEW i \in DOMAIN u, NEW k \in DOMAIN u, i # k
        PROVE  JobsOf(u[i]) \cap JobsOf(u[k]) = {}
    <3>1. CASE i \in DOMAIN s /\ u[i] = s[i] /\ k \in DOMAIN s /\ u[k] = s[k]
      BY <2>4, <3>1, <1>5 DEF Cut
    <3>2. CASE /\ i - Len(s) \in DOMAIN t /\ u[i] = t[i - Len(s)]
               /\ k - Len(s) \in DOMAIN t /\ u[k] = t[k - Len(s)]
      <4>1. i - Len(s) # k - Len(s) BY <2>4, <1>3
      <4> QED BY <4>1, <3>2, <1>5 DEF Cut
    <3>3. CASE i \in DOMAIN s /\ u[i] = s[i] /\ k - Len(s) \in DOMAIN t /\ u[k] = t[k - Len(s)]
      BY <3>3, <2>2, <1>5
    <3>4. CASE k \in DOMAIN s /\ u[k] = s[k] /\ i - Len(s) \in DOMAIN t /\ u[i] = t[i - Len(s)]
      BY <3>4, <2>2, <1>5
    <3> QED BY <2>1, <3>1, <3>2, <3>3, <3>4
  <2> QED BY <2>3, <2>4 DEF Cut
<1> QED BY <1>1, <1>4, <1>5 DEF u

\* One part, the whole buffer.
LEMMA PartsOfBuffer ==
  ASSUME NEW r \in Seq(Completion)
  PROVE  /\ <<r>> \in Seq(Seq(Completion)) /\ InParts(<<r>>) = JobsOf(r)
         /\ OncePerJob(r) => Cut(<<r>>)
<1>1. DOMAIN <<r>> = {1} /\ <<r>>[1] = r OBVIOUS
<1>2. ToSet(<<r>>) = {r} BY <1>1 DEF ToSet
<1> QED BY <1>1, <1>2 DEF InParts, Cut

LEMMA NothingInNoParts == InParts(<<>>) = {} /\ JobsOf(<<>>) = {} /\ Cut(<<>>) /\ ToSet(<<>>) = {}
BY DEF InParts, JobsOf, Cut, ToSet

\* Two halves, with the jobs of the whole.
LEMMA PartsOfHalves ==
  ASSUME NEW r \in Seq(Completion)
  PROVE  /\ Halves(r) \in Seq(Seq(Completion)) /\ InParts(Halves(r)) = JobsOf(r)
         /\ OncePerJob(r) => Cut(Halves(r))
<1> DEFINE n == Len(r)
           m == n \div 2
           a == SubSeq(r, 1, m)
           b == SubSeq(r, m + 1, n)
<1>1. n \in Nat /\ DOMAIN r = 1..n /\ m \in Nat /\ m <= n
  BY LenProperties
<1>2. \A i \in 1..n : r[i] \in Completion BY ElementOfSeq
<1>3. /\ a \in Seq(Completion) /\ Len(a) = IF 1 <= m THEN m - 1 + 1 ELSE 0
      /\ \A i \in 1..m - 1 + 1 : a[i] = r[1 + i - 1]
  <2>1. \A i \in 1..m : r[i] \in Completion BY <1>1, <1>2
  <2> QED BY <2>1, <1>1, SubSeqProperties
<1>4. /\ b \in Seq(Completion) /\ Len(b) = IF m + 1 <= n THEN n - (m + 1) + 1 ELSE 0
      /\ \A i \in 1..n - (m + 1) + 1 : b[i] = r[(m + 1) + i - 1]
  <2>1. \A i \in m + 1..n : r[i] \in Completion BY <1>1, <1>2
  <2> QED BY <2>1, <1>1, SubSeqProperties
<1> HIDE DEF a, b, m, n
<1>5. DOMAIN a = 1..m /\ DOMAIN b = 1..n - m
  <2>1. Len(a) = m /\ Len(b) = n - m BY <1>1, <1>3, <1>4
  <2> QED BY <2>1, <1>3, <1>4, LenProperties
<1>6. \A i \in DOMAIN a : i \in DOMAIN r /\ i <= m /\ a[i] = r[i] BY <1>1, <1>3, <1>5
<1>7. \A i \in DOMAIN b : m + i \in DOMAIN r /\ m + i > m /\ b[i] = r[m + i]
  BY <1>1, <1>4, <1>5
<1>8. \A i \in DOMAIN r : \/ i \in DOMAIN a /\ a[i] = r[i]
                          \/ i - m \in DOMAIN b /\ b[i - m] = r[i]
  BY <1>1, <1>5, <1>6, <1>7
<1>9. ToSet(r) = ToSet(a) \cup ToSet(b) BY <1>6, <1>7, <1>8 DEF ToSet
<1>10. JobsOf(r) = JobsOf(a) \cup JobsOf(b) BY <1>9 DEF JobsOf
<1>11. Halves(r) = <<a, b>> BY DEF Halves, a, b, m, n
<1> DEFINE h == <<a, b>>
<1>12. h \in Seq(Seq(Completion)) /\ DOMAIN h = {1, 2} /\ h[1] = a /\ h[2] = b
  BY <1>3, <1>4
<1> HIDE DEF h
<1>13. ToSet(h) = {a, b} BY <1>12 DEF ToSet
<1>14. InParts(h) = JobsOf(r) BY <1>10, <1>13 DEF InParts
<1>15. ASSUME OncePerJob(r) PROVE Cut(h)
  <2>1. OncePerJob(a) BY <1>6, <1>15 DEF OncePerJob
  <2>2. OncePerJob(b)
    <3> SUFFICES ASSUME NEW i \in DOMAIN b, NEW k \in DOMAIN b, b[i].job = b[k].job PROVE i = k
      BY DEF OncePerJob
    <3>1. m + i = m + k BY <1>7, <1>15 DEF OncePerJob
    <3> QED BY <3>1, <1>1, <1>5
  <2>3. JobsOf(a) \cap JobsOf(b) = {}
    <3> SUFFICES ASSUME NEW i \in DOMAIN a, NEW k \in DOMAIN b, a[i].job = b[k].job PROVE FALSE
      BY DEF JobsOf, ToSet
    <3>1. i = m + k BY <1>6, <1>7, <1>15 DEF OncePerJob
    <3> QED BY <3>1, <1>1, <1>5, <1>6, <1>7
  <2> QED BY <2>1, <2>2, <2>3, <1>12 DEF Cut
<1> QED BY <1>11, <1>12, <1>14, <1>15 DEF h

-------------------------------------------------------------------------------
(* Types, and where a dispatcher and a worker have something in their hands. *)

Typed ==
  /\ state \in [Job -> Outcome \cup {"Absent", "Processing"}]
  /\ owner \in [Job -> Worker \cup Group \cup {Null}]
  /\ keepAlive \in [Job -> {"none", "fresh", "stale"}]
  /\ cancelling \in [Job -> BOOLEAN]
  /\ stopping \in [Group -> BOOLEAN]
  /\ phase \in [Group -> {"polling", "delivering", "stopped", "dead"}]
  /\ claimed \in [Group -> Seq(Job)] /\ channel \in [Group -> Seq(Job)]
  /\ pc \in [Worker -> {"idle", "received", "running", "leaving", "flushing", "stopped", "dead"}]
  /\ task \in [Worker -> Job \cup {Null}]
  /\ monitor \in [Worker -> {"off", "waiting", "updating"}]
  /\ outcome \in [Worker -> Outcome \cup {"none"}]
  /\ buffer \in [Worker -> Seq(Completion)] /\ ranges \in [Worker -> Seq(Seq(Completion))]
  /\ stats \in [Job -> [Finished -> Int]]
  /\ claims \in [Job -> 0..MaxClaims]
  /\ dropped \subseteq Job

Delivering == \A g \in Group : phase[g] = "delivering" <=> claimed[g] # <<>>
Working ==
  \A w \in Worker :
    /\ pc[w] \in {"received", "running", "leaving"} => task[w] \in Job
    /\ pc[w] = "leaving" => outcome[w] \in Outcome
    /\ pc[w] = "flushing" <=> ranges[w] # <<>>

LEMMA InitTyped == Init => Typed /\ Delivering /\ Working
<1> SUFFICES ASSUME Init PROVE Typed /\ Delivering /\ Working OBVIOUS
<1>1. cancelling \in [Job -> BOOLEAN] /\ stopping \in [Group -> BOOLEAN] BY DEF Init
<1>2. /\ claimed \in [Group -> Seq(Job)] /\ channel \in [Group -> Seq(Job)]
      /\ buffer \in [Worker -> Seq(Completion)] /\ ranges \in [Worker -> Seq(Seq(Completion))]
  BY EmptySeq DEF Init
<1>3. Typed BY <1>1, <1>2, BoundAssumption DEF Init, Typed, Outcome, Finished
<1>4. Delivering /\ Working BY DEF Init, Delivering, Working
<1> QED BY <1>3, <1>4

LEMMA MovedTyped ==
  ASSUME Typed, NEW j \in Job, NEW s, NEW t PROVE Moved(j, s, t) \in [Finished -> Int]
BY DEF Typed, Moved, One

LEMMA SeqHolds == ASSUME NEW S, NEW s \in Seq(S) PROVE ToSet(s) \subseteq S
<1>1. DOMAIN s = 1..Len(s) /\ \A i \in 1..Len(s) : s[i] \in S BY LenProperties, ElementOfSeq
<1> QED BY <1>1 DEF ToSet

LEMMA EntriesAreOfJobs ==
  /\ \A r \in Seq(Completion) : JobsOf(r) \subseteq Job
  /\ \A s \in Seq(Seq(Completion)) : InParts(s) \subseteq Job
<1>1. ASSUME NEW r \in Seq(Completion) PROVE JobsOf(r) \subseteq Job
  <2>1. ToSet(r) \subseteq Completion BY SeqHolds
  <2> QED BY <2>1 DEF JobsOf, Completion
<1>2. ASSUME NEW s \in Seq(Seq(Completion)) PROVE InParts(s) \subseteq Job
  <2>1. ToSet(s) \subseteq Seq(Completion) BY SeqHolds
  <2> QED BY <2>1, <1>1 DEF InParts
<1> QED BY <1>1, <1>2

LEMMA HeldAreJobs ==
  ASSUME Typed, Working
  PROVE  /\ \A g \in Group : ToSet(claimed[g]) \subseteq Job /\ ToSet(channel[g]) \subseteq Job
         /\ \A g \in Group : Undelivered(g) \subseteq Job
         /\ \A w \in Worker : InHand(w) \subseteq Job
         /\ \A w \in Worker : Unflushed(w) = JobsOf(buffer[w]) \cup InParts(ranges[w])
         /\ \A w \in Worker : Unflushed(w) \subseteq Job
<1>1. \A g \in Group : ToSet(claimed[g]) \subseteq Job /\ ToSet(channel[g]) \subseteq Job
  BY SeqHolds DEF Typed
<1>2. \A w \in Worker : InHand(w) \subseteq Job BY DEF InHand, Working
<1>3. \A w \in Worker : Unflushed(w) = JobsOf(buffer[w]) \cup InParts(ranges[w])
  BY DEF Unflushed, InParts
<1>4. \A w \in Worker : JobsOf(buffer[w]) \subseteq Job /\ InParts(ranges[w]) \subseteq Job
  BY EntriesAreOfJobs DEF Typed
<1> QED BY <1>1, <1>2, <1>3, <1>4 DEF Undelivered

LEMMA ClaimTyped ==
  ASSUME Typed, Delivering, Working, NEW g \in Group, Claim(g)
  PROVE  Typed' /\ Delivering' /\ Working'
<1>1. PICK S \in SUBSET {j \in Job : state[j] = "Enqueued" /\ claims[j] < MaxClaims} :
        /\ S # {}
        /\ state' = [j \in Job |-> IF j \in S THEN "Processing" ELSE state[j]]
        /\ owner' = [j \in Job |-> IF j \in S THEN g ELSE owner[j]]
        /\ keepAlive' = [j \in Job |-> IF j \in S THEN "fresh" ELSE keepAlive[j]]
        /\ claims' = [j \in Job |-> claims[j] + One(j \in S)]
        /\ \/ /\ \E order \in SetToSeqs(S) : claimed' = [claimed EXCEPT ![g] = order]
              /\ phase' = [phase EXCEPT ![g] = "delivering"]
              /\ UNCHANGED dropped
           \/ /\ dropped' = dropped \cup S
              /\ UNCHANGED <<claimed, phase>>
  BY DEF Claim
<1>2. UNCHANGED <<cancelling, stopping, channel, pc, task, monitor, outcome, buffer, ranges, stats>>
  BY DEF Claim, workers
<1>3. IsFiniteSet(S) BY JobAssumption, FS_Subset
<1>4. claims' \in [Job -> 0..MaxClaims] BY <1>1, BoundAssumption DEF One, Typed
<1>5. /\ state' \in [Job -> Outcome \cup {"Absent", "Processing"}]
      /\ owner' \in [Job -> Worker \cup Group \cup {Null}]
      /\ keepAlive' \in [Job -> {"none", "fresh", "stale"}]
  BY <1>1 DEF Typed
<1>6. CASE \E order \in SetToSeqs(S) : /\ claimed' = [claimed EXCEPT ![g] = order]
                                       /\ phase' = [phase EXCEPT ![g] = "delivering"]
                                       /\ UNCHANGED dropped
  <2>1. PICK order \in SetToSeqs(S) : claimed' = [claimed EXCEPT ![g] = order] BY <1>6
  <2>2. order \in Seq(Job) /\ ToSet(order) = S BY <1>3, HeldByOrder
  <2>3. order # <<>> BY <1>1, <2>2, NothingInNoParts
  <2>4. Typed' BY <1>2, <1>4, <1>5, <1>6, <2>1, <2>2 DEF Typed
  <2>5. Delivering' BY <1>6, <2>1, <2>2, <2>3 DEF Delivering, Typed
  <2> QED BY <2>4, <2>5, <1>2 DEF Working
<1>7. CASE dropped' = dropped \cup S /\ UNCHANGED <<claimed, phase>>
  BY <1>2, <1>4, <1>5, <1>7 DEF Typed, Delivering, Working
<1> QED BY <1>1, <1>6, <1>7

LEMMA DispatcherTyped ==
  ASSUME Typed, Delivering, Working, NEW g \in Group,
         Deliver(g) \/ Shutdown(g) \/ Unclaim(g) \/ StopPolling(g) \/ Crash(g)
  PROVE  Typed' /\ Delivering' /\ Working'
<1>1. CASE Deliver(g)
  <2>1. claimed[g] # <<>> BY <1>1 DEF Deliver, Delivering
  <2>2. /\ Head(claimed[g]) \in Job /\ Tail(claimed[g]) \in Seq(Job)
        /\ Len(Tail(claimed[g])) = Len(claimed[g]) - 1
        /\ Append(channel[g], Head(claimed[g])) \in Seq(Job)
    BY <2>1, HeadTailProperties, AppendProperties DEF Typed
  <2>3. Typed' BY <1>1, <2>2 DEF Typed, Deliver, row, workers, accounts
  <2>4. Tail(claimed[g]) = <<>> <=> Len(claimed[g]) = 1
    <3>1. claimed[g] \in Seq(Job) BY DEF Typed
    <3>2. \A s \in Seq(Job) : s = <<>> <=> Len(s) = 0 BY EmptySeq
    <3>3. Len(claimed[g]) \in Nat /\ Len(Tail(claimed[g])) \in Nat BY <2>2, <3>1, LenProperties
    <3>4. Tail(claimed[g]) = <<>> <=> Len(Tail(claimed[g])) = 0 BY <2>2, <3>2
    <3>5. Len(Tail(claimed[g])) = 0 <=> Len(claimed[g]) = 1 BY <2>2, <3>3
    <3> QED BY <3>4, <3>5
  <2>5. /\ claimed'[g] = Tail(claimed[g])
        /\ phase'[g] = IF Len(claimed[g]) = 1 THEN "polling" ELSE "delivering"
        /\ \A h \in Group \ {g} : claimed'[h] = claimed[h] /\ phase'[h] = phase[h]
    BY <1>1 DEF Deliver, Typed
  <2>6. phase'[g] = "delivering" <=> claimed'[g] # <<>> BY <2>4, <2>5
  <2>7. Delivering' BY <2>5, <2>6 DEF Delivering
  <2> QED BY <1>1, <2>3, <2>7 DEF Working, Deliver, workers
<1>2. CASE Shutdown(g)
  BY <1>2 DEF Shutdown, Typed, Delivering, Working, row, workers, accounts
<1>3. CASE Unclaim(g)
  <2>1. claimed' = [claimed EXCEPT ![g] = <<>>] /\ phase' = [phase EXCEPT ![g] = "stopped"]
    BY <1>3 DEF Unclaim, LoopExit
  <2>2. <<>> \in Seq(Job) BY EmptySeq
  <2>3. /\ state' \in [Job -> Outcome \cup {"Absent", "Processing"}]
        /\ owner' \in [Job -> Worker \cup Group \cup {Null}]
        /\ keepAlive' \in [Job -> {"none", "fresh", "stale"}]
    BY <1>3 DEF Unclaim, Typed, Outcome
  <2>4. dropped' \subseteq Job BY <1>3, HeldAreJobs DEF Unclaim, TakenBack, Undelivered, Typed
  <2>5. UNCHANGED <<cancelling, stopping, channel, workers, stats, claims>> BY <1>3 DEF Unclaim
  <2>6. Typed' BY <2>1, <2>2, <2>3, <2>4, <2>5 DEF Typed, workers
  <2>7. Delivering' BY <2>1 DEF Delivering, Typed
  <2> QED BY <2>5, <2>6, <2>7 DEF Working, workers
<1>4. CASE StopPolling(g)
  BY <1>4 DEF StopPolling, LoopExit, Typed, Delivering, Working, row, workers, accounts
<1>5. CASE Crash(g)
  <2>1. <<>> \in Seq(Job) /\ <<>> \in Seq(Completion) /\ <<>> \in Seq(Seq(Completion)) BY EmptySeq
  <2> DEFINE mine == {w \in Worker : GroupOf[w] = g}
  <2>2. /\ phase' = [phase EXCEPT ![g] = "dead"]
        /\ claimed' = [claimed EXCEPT ![g] = <<>>] /\ channel' = [channel EXCEPT ![g] = <<>>]
        /\ pc' = [w \in Worker |-> IF w \in mine THEN "dead" ELSE pc[w]]
        /\ task' = [w \in Worker |-> IF w \in mine THEN Null ELSE task[w]]
        /\ monitor' = [w \in Worker |-> IF w \in mine THEN "off" ELSE monitor[w]]
        /\ outcome' = [w \in Worker |-> IF w \in mine THEN "none" ELSE outcome[w]]
        /\ buffer' = [w \in Worker |-> IF w \in mine THEN <<>> ELSE buffer[w]]
        /\ ranges' = [w \in Worker |-> IF w \in mine THEN <<>> ELSE ranges[w]]
    BY <1>5 DEF Crash
  <2>3. UNCHANGED <<row, stopping, stats, claims>> BY <1>5 DEF Crash
  <2>4. dropped' \subseteq Job BY <1>5, HeldAreJobs DEF Crash, Typed
  <2>5. Typed' BY <2>1, <2>2, <2>3, <2>4 DEF Typed, row
  <2>6. Delivering' BY <2>2 DEF Delivering, Typed
  <2>7. Working' BY <2>2 DEF Working, Typed
  <2> QED BY <2>5, <2>6, <2>7
<1> QED BY <1>1, <1>2, <1>3, <1>4, <1>5

LEMMA GoOnTyped ==
  ASSUME Typed, Working, NEW w \in Worker, NEW rest \in Seq(Seq(Completion)),
         GoOn(w, rest), pc[w] = "flushing", UNCHANGED <<task, outcome>>
  PROVE  /\ pc' \in [Worker -> {"idle", "received", "running", "leaving", "flushing", "stopped", "dead"}]
         /\ ranges' \in [Worker -> Seq(Seq(Completion))]
         /\ Working'
<1>1. /\ ranges' = [ranges EXCEPT ![w] = rest]
      /\ pc' = [pc EXCEPT ![w] = IF rest = <<>> THEN "idle" ELSE "flushing"]
  BY DEF GoOn, Typed
<1>2. /\ pc' \in [Worker -> {"idle", "received", "running", "leaving", "flushing", "stopped", "dead"}]
      /\ ranges' \in [Worker -> Seq(Seq(Completion))]
  BY <1>1 DEF Typed
<1>3. /\ ranges'[w] = rest /\ pc'[w] = IF rest = <<>> THEN "idle" ELSE "flushing"
      /\ \A v \in Worker \ {w} : ranges'[v] = ranges[v] /\ pc'[v] = pc[v]
  BY <1>1 DEF Typed
<1>4. pc'[w] = "flushing" <=> ranges'[w] # <<>> BY <1>3
<1>5. pc'[w] \notin {"received", "running", "leaving"} BY <1>3
<1> QED BY <1>2, <1>3, <1>4, <1>5 DEF Working

LEMMA WorkerTyped ==
  ASSUME Typed, Working, NEW w \in Worker,
         \/ Receive(w) \/ Begin(w) \/ BeginFails(w) \/ MonitorRead(w) \/ MonitorUpdate(w)
         \/ MonitorStop(w) \/ HandlerEnds(w) \/ Complete(w) \/ StopWorker(w)
  PROVE  Typed' /\ Working' /\ UNCHANGED <<phase, claimed>>
<1>1. CASE Receive(w)
  <2>1. GroupOf[w] \in Group BY GroupAssumption
  <2>2. /\ Head(channel[GroupOf[w]]) \in Job
        /\ Tail(channel[GroupOf[w]]) \in Seq(Job)
    BY <1>1, <2>1, HeadTailProperties DEF Receive, Typed
  <2>3. /\ channel' = [channel EXCEPT ![GroupOf[w]] = Tail(@)]
        /\ task' = [task EXCEPT ![w] = Head(channel[GroupOf[w]])]
        /\ pc' = [pc EXCEPT ![w] = "received"]
        /\ UNCHANGED <<row, stopping, phase, claimed, monitor, outcome, buffer, ranges, accounts>>
    BY <1>1 DEF Receive
  <2>5. channel' \in [Group -> Seq(Job)] BY <2>1, <2>2, <2>3 DEF Typed
  <2>6. Typed' BY <2>2, <2>3, <2>5 DEF Typed, row, accounts
  <2>4. Working' BY <1>1, <2>2 DEF Working, Typed, Receive
  <2> QED BY <2>3, <2>4, <2>6
<1>2. CASE Begin(w)
  <2>1. Typed' BY <1>2 DEF Typed, Begin, dispatchers, accounts
  <2> QED BY <1>2, <2>1 DEF Working, Typed, Begin, dispatchers
<1>3. CASE BeginFails(w)
  <2>1. Typed' BY <1>3 DEF Typed, Working, BeginFails, dispatchers, accounts
  <2> QED BY <1>3, <2>1 DEF Working, Typed, BeginFails, dispatchers
<1>4. CASE MonitorRead(w) BY <1>4 DEF MonitorRead, Typed, Working, row, dispatchers, accounts
<1>5. CASE MonitorUpdate(w)
  <2>1. keepAlive' \in [Job -> {"none", "fresh", "stale"}] BY <1>5 DEF MonitorUpdate, Typed
  <2>2. monitor' \in [Worker -> {"off", "waiting", "updating"}] BY <1>5 DEF MonitorUpdate, Typed
  <2>3. UNCHANGED <<state, owner, cancelling, dispatchers, pc, task, outcome, buffer, ranges,
                    accounts>>
    BY <1>5 DEF MonitorUpdate
  <2>4. Typed' BY <2>1, <2>2, <2>3 DEF Typed, dispatchers, accounts
  <2> QED BY <2>3, <2>4 DEF Working, dispatchers
<1>6. CASE MonitorStop(w) BY <1>6 DEF MonitorStop, Typed, Working, row, dispatchers, accounts
<1>7. CASE HandlerEnds(w)
  <2>1. PICK s \in Outcome : outcome' = [outcome EXCEPT ![w] = s]
    BY <1>7 DEF HandlerEnds, EndedIn
  <2>2. Typed' BY <1>7, <2>1 DEF Typed, HandlerEnds, row, dispatchers, accounts
  <2>3. Working' BY <1>7, <2>1 DEF Working, Typed, HandlerEnds
  <2> QED BY <1>7, <2>2, <2>3 DEF HandlerEnds, dispatchers
<1>8. CASE Complete(w)
  <2> DEFINE e == [job |-> task[w], to |-> outcome[w]]
  <2>1. e \in Completion BY <1>8 DEF Complete, Working, Completion
  <2>2. Append(buffer[w], e) \in Seq(Completion) BY <2>1, AppendProperties DEF Typed
  <2>3. Typed' BY <1>8, <2>2 DEF Typed, Complete, row, dispatchers, accounts
  <2>4. Working' BY <1>8 DEF Working, Typed, Complete
  <2> QED BY <1>8, <2>3, <2>4 DEF Complete, dispatchers
<1>9. CASE StopWorker(w) BY <1>9 DEF StopWorker, Typed, Working, row, dispatchers, accounts
<1> QED BY <1>1, <1>2, <1>3, <1>4, <1>5, <1>6, <1>7, <1>8, <1>9

LEMMA FlushTyped ==
  ASSUME Typed, Working, NEW w \in Worker,
         StartFlush(w) \/ FlushRange(w) \/ SplitRange(w) \/ FlushThrows(w)
  PROVE  Typed' /\ Working' /\ UNCHANGED <<phase, claimed>>
<1>1. CASE StartFlush(w)
  <2>1. <<buffer[w]>> \in Seq(Seq(Completion)) /\ <<>> \in Seq(Completion) /\ <<buffer[w]>> # <<>>
    BY PartsOfBuffer, EmptySeq DEF Typed
  <2>2. /\ ranges' = [ranges EXCEPT ![w] = <<buffer[w]>>] /\ buffer' = [buffer EXCEPT ![w] = <<>>]
        /\ pc' = [pc EXCEPT ![w] = "flushing"]
        /\ UNCHANGED <<row, dispatchers, task, monitor, outcome, accounts>>
    BY <1>1 DEF StartFlush
  <2>3. Typed' BY <2>1, <2>2 DEF Typed, row, dispatchers, accounts
  <2>4. Working' BY <2>1, <2>2 DEF Working, Typed
  <2> QED BY <2>2, <2>3, <2>4 DEF dispatchers
<1>2. ASSUME FlushRange(w) \/ SplitRange(w) \/ FlushThrows(w)
      PROVE  ranges[w] # <<>> /\ pc[w] = "flushing"
  BY <1>2 DEF FlushRange, SplitRange, FlushThrows, Working
<1>3. ASSUME ranges[w] # <<>>
      PROVE  /\ Head(ranges[w]) \in Seq(Completion) /\ Tail(ranges[w]) \in Seq(Seq(Completion))
             /\ JobsOf(Head(ranges[w])) \subseteq Job /\ InParts(Tail(ranges[w])) \subseteq Job
  BY <1>3, PartsByTail, EntriesAreOfJobs DEF Typed
<1>4. <<>> \in Seq(Seq(Completion)) BY EmptySeq
<1>5. CASE FlushRange(w)
  <2> DEFINE r == ToSet(Head(ranges[w]))
             hit == JobsOf(Head(ranges[w]))
             To(j) == (CHOOSE e \in r : e.job = j).to
  <2>1. /\ state' = [j \in Job |-> IF j \in hit THEN To(j) ELSE state[j]]
        /\ owner' = [j \in Job |-> IF j \in hit THEN Null ELSE owner[j]]
        /\ keepAlive' = [j \in Job |-> IF j \in hit THEN "none" ELSE keepAlive[j]]
        /\ cancelling' = [j \in Job |-> cancelling[j] /\ j \notin hit]
        /\ stats' = [j \in Job |-> IF j \in hit THEN Moved(j, "Processing", To(j)) ELSE stats[j]]
        /\ UNCHANGED <<dispatchers, task, monitor, outcome, buffer, claims>>
    BY <1>5 DEF FlushRange
  <2>2. \E rest \in Seq(Seq(Completion)) : GoOn(w, rest)
    BY <1>2, <1>3, <1>4, <1>5 DEF FlushRange
  <2>3. dropped' \subseteq Job
    <3>1. dropped' = dropped \/ dropped' = dropped \cup InParts(Tail(ranges[w]))
      BY <1>5 DEF FlushRange, InParts
    <3> QED BY <3>1, <1>2, <1>3, <1>5 DEF Typed
  <2>4. ASSUME NEW j \in hit PROVE To(j) \in Outcome
    <3>1. PICK e \in r : e.job = j BY DEF JobsOf
    <3>2. (CHOOSE d \in r : d.job = j) \in r BY <3>1
    <3>3. r \subseteq Completion BY <1>2, <1>3, <1>5, SeqHolds
    <3> QED BY <3>2, <3>3 DEF Completion
  <2> HIDE DEF To, hit, r
  <2>5. state' \in [Job -> Outcome \cup {"Absent", "Processing"}] BY <2>1, <2>4 DEF Typed
  <2>6. /\ owner' \in [Job -> Worker \cup Group \cup {Null}]
        /\ keepAlive' \in [Job -> {"none", "fresh", "stale"}]
    BY <2>1 DEF Typed
  <2>7. cancelling' \in [Job -> BOOLEAN] BY <2>1 DEF Typed
  <2>8. stats' \in [Job -> [Finished -> Int]] BY <2>1, MovedTyped DEF Typed
  <2>9. /\ pc' \in [Worker -> {"idle", "received", "running", "leaving", "flushing", "stopped", "dead"}]
        /\ ranges' \in [Worker -> Seq(Seq(Completion))] /\ Working'
    BY <1>2, <1>5, <2>1, <2>2, GoOnTyped
  <2>10. Typed' BY <2>1, <2>3, <2>5, <2>6, <2>7, <2>8, <2>9 DEF Typed, dispatchers
  <2> QED BY <2>1, <2>9, <2>10 DEF dispatchers
<1>6. CASE SplitRange(w)
  <2>1. UNCHANGED <<row, dispatchers, task, monitor, outcome, buffer, stats, claims>>
    BY <1>6 DEF SplitRange
  <2>2. Halves(Head(ranges[w])) \o Tail(ranges[w]) \in Seq(Seq(Completion))
    BY <1>2, <1>3, <1>6, PartsOfHalves, PartsByConcat
  <2>3. \E rest \in Seq(Seq(Completion)) : GoOn(w, rest)
    BY <1>2, <1>3, <1>6, <2>2 DEF SplitRange
  <2>4. dropped' \subseteq Job BY <1>2, <1>3, <1>6 DEF SplitRange, Typed
  <2>5. /\ pc' \in [Worker -> {"idle", "received", "running", "leaving", "flushing", "stopped", "dead"}]
        /\ ranges' \in [Worker -> Seq(Seq(Completion))] /\ Working'
    BY <1>2, <1>6, <2>1, <2>3, GoOnTyped
  <2>6. Typed' BY <2>1, <2>4, <2>5 DEF Typed, row, dispatchers
  <2> QED BY <2>1, <2>5, <2>6 DEF dispatchers
<1>7. CASE FlushThrows(w)
  <2>1. UNCHANGED <<row, dispatchers, task, monitor, outcome, buffer, stats, claims>>
    BY <1>7 DEF FlushThrows
  <2>2. dropped' \subseteq Job BY <1>7, HeldAreJobs DEF FlushThrows, Typed
  <2>3. GoOn(w, <<>>) BY <1>7 DEF FlushThrows
  <2>5. /\ pc' \in [Worker -> {"idle", "received", "running", "leaving", "flushing", "stopped", "dead"}]
        /\ ranges' \in [Worker -> Seq(Seq(Completion))] /\ Working'
    BY <1>2, <1>4, <1>7, <2>1, <2>3, GoOnTyped
  <2>6. Typed' BY <2>1, <2>2, <2>5 DEF Typed, row, dispatchers
  <2> QED BY <2>1, <2>5, <2>6 DEF dispatchers
<1> QED BY <1>1, <1>5, <1>6, <1>7

LEMMA OthersTyped ==
  ASSUME Typed, NEW j \in Job,
         Publish(j) \/ KeepAliveAges(j) \/ RecoverStale(j) \/ DeleteJob(j) \/ RequeueJob(j)
  PROVE  Typed' /\ UNCHANGED <<dispatchers, workers>>
<1> USE MovedTyped DEF Outcome, Finished
<1>1. CASE Publish(j) BY <1>1 DEF Publish, Typed, dispatchers, workers, accounts
<1>2. CASE KeepAliveAges(j) BY <1>2 DEF KeepAliveAges, Typed, dispatchers, workers, accounts
<1>3. CASE RecoverStale(j) BY <1>3 DEF RecoverStale, Typed, dispatchers, workers
<1>4. CASE DeleteJob(j)
  <2>1. UNCHANGED <<owner, keepAlive, dispatchers, workers, claims, dropped>>
    BY <1>4 DEF DeleteJob
  <2>2. CASE state[j] = "Processing"
    <3>1. cancelling' = [cancelling EXCEPT ![j] = TRUE] /\ UNCHANGED <<state, stats>>
      BY <1>4, <2>2 DEF DeleteJob
    <3>2. cancelling' \in [Job -> BOOLEAN] BY <3>1 DEF Typed
    <3> QED BY <2>1, <3>1, <3>2 DEF Typed, dispatchers, workers
  <2>3. CASE state[j] # "Processing"
    <3>1. /\ state' = [state EXCEPT ![j] = "Deleted"]
          /\ stats' = [stats EXCEPT ![j] = Moved(j, state[j], "Deleted")]
          /\ UNCHANGED cancelling
      BY <1>4, <2>3 DEF DeleteJob
    <3>2. stats' \in [Job -> [Finished -> Int]] BY <3>1 DEF Typed
    <3> QED BY <2>1, <3>1, <3>2 DEF Typed, dispatchers, workers
  <2> QED BY <2>2, <2>3
<1>5. CASE RequeueJob(j) BY <1>5 DEF RequeueJob, Typed, dispatchers, workers
<1> QED BY <1>1, <1>2, <1>3, <1>4, <1>5

LEMMA StepTyped ==
  Typed /\ Delivering /\ Working /\ [Next]_vars => Typed' /\ Delivering' /\ Working'
<1> SUFFICES ASSUME Typed, Delivering, Working, [Next]_vars
             PROVE  Typed' /\ Delivering' /\ Working'
  OBVIOUS
<1>1. ASSUME NEW g \in Group, Claim(g) PROVE Typed' /\ Delivering' /\ Working'
  BY <1>1, ClaimTyped
<1>2. ASSUME NEW g \in Group, Deliver(g) \/ Shutdown(g) \/ Unclaim(g) \/ StopPolling(g) \/ Crash(g)
      PROVE  Typed' /\ Delivering' /\ Working'
  BY <1>2, DispatcherTyped
<1>3. ASSUME NEW w \in Worker,
             \/ Receive(w) \/ Begin(w) \/ BeginFails(w) \/ MonitorRead(w) \/ MonitorUpdate(w)
             \/ MonitorStop(w) \/ HandlerEnds(w) \/ Complete(w) \/ StopWorker(w)
      PROVE  Typed' /\ Delivering' /\ Working'
  BY <1>3, WorkerTyped DEF Delivering
<1>4. ASSUME NEW w \in Worker, StartFlush(w) \/ FlushRange(w) \/ SplitRange(w) \/ FlushThrows(w)
      PROVE  Typed' /\ Delivering' /\ Working'
  BY <1>4, FlushTyped DEF Delivering
<1>5. ASSUME NEW j \in Job,
             Publish(j) \/ KeepAliveAges(j) \/ RecoverStale(j) \/ DeleteJob(j) \/ RequeueJob(j)
      PROVE  Typed' /\ Delivering' /\ Working'
  <2>1. Typed' /\ UNCHANGED <<dispatchers, workers>> BY <1>5, OthersTyped
  <2> QED BY <2>1 DEF Delivering, Working, dispatchers, workers
<1>6. CASE UNCHANGED vars
  BY <1>6 DEF Typed, Delivering, Working, vars, row, dispatchers, workers, accounts
<1> QED BY <1>1, <1>2, <1>3, <1>4, <1>5, <1>6 DEF Next

-------------------------------------------------------------------------------
(* What each action moves from one place to another.                       *)

LEMMA SameDispatchers ==
  UNCHANGED <<claimed, channel>> => \A g \in Group : Undelivered(g)' = Undelivered(g)
BY DEF Undelivered

LEMMA SameWorkers ==
  UNCHANGED <<pc, task, buffer, ranges>> =>
    \A w \in Worker : InHand(w)' = InHand(w) /\ Unflushed(w)' = Unflushed(w)
BY DEF InHand, Unflushed

\* What a worker without a step of its own has.
SameFor(v) == InHand(v)' = InHand(v) /\ Unflushed(v)' = Unflushed(v)

LEMMA SameForOthers ==
  ASSUME NEW v \in Worker, pc'[v] = pc[v], task'[v] = task[v], buffer'[v] = buffer[v],
         ranges'[v] = ranges[v]
  PROVE  SameFor(v)
BY DEF SameFor, InHand, Unflushed

Busy == {"received", "running", "leaving"}

LEMMA SameWhilePcMoves ==
  ASSUME Typed, NEW w \in Worker, NEW to, pc' = [pc EXCEPT ![w] = to], pc[w] \in Busy <=> to \in Busy,
         UNCHANGED <<claimed, channel, task, buffer, ranges>>
  PROVE  /\ \A g \in Group : Undelivered(g)' = Undelivered(g)
         /\ \A v \in Worker : SameFor(v)
<1>1. \A v \in Worker : pc'[v] \in Busy <=> pc[v] \in Busy BY DEF Typed
<1>2. \A v \in Worker : InHand(v)' = InHand(v) BY <1>1 DEF InHand, Busy
<1>3. \A v \in Worker : Unflushed(v)' = Unflushed(v) BY DEF Unflushed
<1> QED BY <1>2, <1>3, SameDispatchers DEF SameFor

LEMMA BeginFailsMoves ==
  ASSUME Typed, NEW w \in Worker, BeginFails(w)
  PROVE  /\ InHand(w) = {task[w]} /\ InHand(w)' = {} /\ Unflushed(w)' = Unflushed(w)
         /\ \A v \in Worker \ {w} : SameFor(v)
         /\ \A g \in Group : Undelivered(g)' = Undelivered(g)
         /\ \A j \in Job \ {task[w]} : owner'[j] = owner[j]
         /\ dropped' = dropped \cup {task[w]}
         /\ UNCHANGED <<state, keepAlive, claimed, channel, buffer, ranges, stats>>
<1>1. /\ pc[w] = "received" /\ pc' = [pc EXCEPT ![w] = "idle"]
      /\ task' = [task EXCEPT ![w] = Null] /\ dropped' = dropped \cup {task[w]}
      /\ UNCHANGED <<state, keepAlive, claimed, channel, buffer, ranges, stats>>
  BY DEF BeginFails, dispatchers
<1>2. pc'[w] = "idle" /\ \A v \in Worker \ {w} : pc'[v] = pc[v] /\ task'[v] = task[v]
  BY <1>1 DEF Typed
<1>3. InHand(w) = {task[w]} /\ InHand(w)' = {} BY <1>1, <1>2 DEF InHand
<1>4. \A v \in Worker \ {w} : SameFor(v) BY <1>1, <1>2, SameForOthers
<1>5. \A j \in Job \ {task[w]} : owner'[j] = owner[j] BY DEF BeginFails, Typed
<1>6. Unflushed(w)' = Unflushed(w) BY <1>1 DEF Unflushed
<1> QED BY <1>1, <1>3, <1>4, <1>5, <1>6, SameDispatchers

LEMMA ClaimMoves ==
  ASSUME Typed, Delivering, Working, NEW g \in Group, Claim(g)
  PROVE  \E S \in SUBSET {j \in Job : state[j] = "Enqueued"} :
    /\ \A j \in Job : /\ state'[j] = IF j \in S THEN "Processing" ELSE state[j]
                      /\ owner'[j] = IF j \in S THEN g ELSE owner[j]
                      /\ keepAlive'[j] = IF j \in S THEN "fresh" ELSE keepAlive[j]
    /\ \A h \in Group \ {g} : claimed'[h] = claimed[h] /\ Undelivered(h)' = Undelivered(h)
    /\ \/ /\ claimed[g] = <<>> /\ Once(claimed'[g]) /\ ToSet(claimed'[g]) = S
          /\ Undelivered(g)' = Undelivered(g) \cup S /\ dropped' = dropped
       \/ /\ claimed'[g] = claimed[g] /\ Undelivered(g)' = Undelivered(g)
          /\ dropped' = dropped \cup S
    /\ UNCHANGED <<channel, workers, stats>>
    /\ \A w \in Worker : SameFor(w)
<1>1. PICK S \in SUBSET {j \in Job : state[j] = "Enqueued" /\ claims[j] < MaxClaims} :
        /\ state' = [j \in Job |-> IF j \in S THEN "Processing" ELSE state[j]]
        /\ owner' = [j \in Job |-> IF j \in S THEN g ELSE owner[j]]
        /\ keepAlive' = [j \in Job |-> IF j \in S THEN "fresh" ELSE keepAlive[j]]
        /\ \/ /\ \E order \in SetToSeqs(S) : claimed' = [claimed EXCEPT ![g] = order]
              /\ UNCHANGED dropped
           \/ /\ dropped' = dropped \cup S
              /\ UNCHANGED claimed
  BY DEF Claim
<1>2. UNCHANGED <<channel, workers, stats>> /\ phase[g] = "polling" BY DEF Claim
<1>3. \A w \in Worker : SameFor(w) BY <1>2, SameWorkers DEF workers, SameFor
<1>4. IsFiniteSet(S) BY JobAssumption, FS_Subset
<1>5. claimed[g] = <<>> BY <1>2 DEF Delivering
<1>6. CASE (\E order \in SetToSeqs(S) : claimed' = [claimed EXCEPT ![g] = order]) /\ UNCHANGED dropped
  <2>1. PICK order \in SetToSeqs(S) : claimed' = [claimed EXCEPT ![g] = order] BY <1>6
  <2>2. ToSet(order) = S /\ Once(order) BY <1>4, HeldByOrder
  <2>3. claimed'[g] = order /\ \A h \in Group \ {g} : claimed'[h] = claimed[h]
    BY <2>1 DEF Typed
  <2>4. /\ Undelivered(g)' = Undelivered(g) \cup S
        /\ \A h \in Group \ {g} : Undelivered(h)' = Undelivered(h)
    BY <1>2, <1>5, <2>2, <2>3, NothingInNoParts DEF Undelivered
  <2> QED BY <1>1, <1>2, <1>3, <1>5, <1>6, <2>2, <2>3, <2>4
<1>7. CASE dropped' = dropped \cup S /\ UNCHANGED claimed
  <2>1. \A h \in Group : Undelivered(h)' = Undelivered(h) BY <1>2, <1>7, SameDispatchers
  <2> QED BY <1>1, <1>2, <1>3, <1>7, <2>1
<1> QED BY <1>1, <1>6, <1>7

LEMMA DeliverMoves ==
  ASSUME Typed, Delivering, Working, NEW g \in Group, Deliver(g)
  PROVE  /\ claimed[g] # <<>>
         /\ claimed'[g] = Tail(claimed[g]) /\ channel'[g] = Append(channel[g], Head(claimed[g]))
         /\ \A h \in Group \ {g} : claimed'[h] = claimed[h] /\ channel'[h] = channel[h]
         /\ \A h \in Group : Undelivered(h)' = Undelivered(h)
         /\ UNCHANGED <<row, workers, accounts>> /\ \A w \in Worker : SameFor(w)
<1>1. claimed[g] # <<>> BY DEF Deliver, Delivering
<1>2. /\ claimed'[g] = Tail(claimed[g]) /\ channel'[g] = Append(channel[g], Head(claimed[g]))
      /\ \A h \in Group \ {g} : claimed'[h] = claimed[h] /\ channel'[h] = channel[h]
  BY DEF Deliver, Typed
<1>3. UNCHANGED <<row, workers, accounts>> BY DEF Deliver
<1>4. \A w \in Worker : SameFor(w) BY <1>3, SameWorkers DEF workers, SameFor
<1>5. claimed[g] \in Seq(Job) /\ channel[g] \in Seq(Job) BY DEF Typed
<1>6. ToSet(claimed[g]) = {Head(claimed[g])} \cup ToSet(Tail(claimed[g])) /\ Head(claimed[g]) \in Job
  BY <1>1, <1>5, HeldByTail
<1>7. ToSet(channel'[g]) = ToSet(channel[g]) \cup {Head(claimed[g])}
  BY <1>2, <1>5, <1>6, HeldByAppend
<1>8. Undelivered(g)' = Undelivered(g) BY <1>2, <1>6, <1>7 DEF Undelivered
<1>9. \A h \in Group \ {g} : Undelivered(h)' = Undelivered(h) BY <1>2 DEF Undelivered
<1> QED BY <1>1, <1>2, <1>3, <1>4, <1>8, <1>9

LEMMA UnclaimMoves ==
  ASSUME Typed, Delivering, Working, NEW g \in Group, Unclaim(g)
  PROVE  /\ claimed'[g] = <<>> /\ Undelivered(g)' = ToSet(channel[g])
         /\ \A h \in Group \ {g} : claimed'[h] = claimed[h] /\ Undelivered(h)' = Undelivered(h)
         /\ \/ /\ \A j \in Job : \/ j \in ToSet(claimed[g]) /\ state'[j] = "Enqueued"
                                 \/ /\ j \notin ToSet(claimed[g]) /\ state'[j] = state[j]
                                    /\ owner'[j] = owner[j] /\ keepAlive'[j] = keepAlive[j]
               /\ dropped' = dropped
            \/ /\ UNCHANGED <<state, owner, keepAlive>>
               /\ dropped' = dropped \cup ToSet(claimed[g])
         /\ UNCHANGED <<channel, workers, stats>> /\ \A w \in Worker : SameFor(w)
<1>1. /\ claimed'[g] = <<>> /\ \A h \in Group \ {g} : claimed'[h] = claimed[h]
      /\ UNCHANGED <<channel, workers, stats>>
  BY DEF Unclaim, Typed
<1>2. Undelivered(g)' = ToSet(channel[g]) BY <1>1, NothingInNoParts DEF Undelivered
<1>3. \A h \in Group \ {g} : Undelivered(h)' = Undelivered(h) BY <1>1 DEF Undelivered
<1>4. \A w \in Worker : SameFor(w) BY <1>1, SameWorkers DEF workers, SameFor
<1>5. \/ /\ \A j \in Job : \/ j \in ToSet(claimed[g]) /\ state'[j] = "Enqueued"
                           \/ /\ j \notin ToSet(claimed[g]) /\ state'[j] = state[j]
                              /\ owner'[j] = owner[j] /\ keepAlive'[j] = keepAlive[j]
         /\ dropped' = dropped
      \/ /\ UNCHANGED <<state, owner, keepAlive>>
         /\ dropped' = dropped \cup ToSet(claimed[g])
  BY DEF Unclaim, TakenBack
<1> QED BY <1>1, <1>2, <1>3, <1>4, <1>5

LEMMA CrashMoves ==
  ASSUME Typed, Working, NEW g \in Group, Crash(g)
  PROVE  /\ claimed'[g] = <<>> /\ channel'[g] = <<>> /\ Undelivered(g)' = {}
         /\ \A h \in Group \ {g} : claimed'[h] = claimed[h] /\ channel'[h] = channel[h]
                                   /\ Undelivered(h)' = Undelivered(h)
         /\ \A w \in Worker : \/ /\ GroupOf[w] = g /\ buffer'[w] = <<>> /\ ranges'[w] = <<>>
                                 /\ InHand(w)' = {} /\ Unflushed(w)' = {}
                              \/ /\ GroupOf[w] # g /\ SameFor(w)
                                 /\ buffer'[w] = buffer[w] /\ ranges'[w] = ranges[w]
         /\ dropped' = dropped \cup Undelivered(g)
              \cup UNION {InHand(w) \cup Unflushed(w) : w \in {v \in Worker : GroupOf[v] = g}}
         /\ UNCHANGED <<row, stats>>
<1> DEFINE mine == {w \in Worker : GroupOf[w] = g}
<1>1. /\ claimed' = [claimed EXCEPT ![g] = <<>>] /\ channel' = [channel EXCEPT ![g] = <<>>]
      /\ pc' = [w \in Worker |-> IF w \in mine THEN "dead" ELSE pc[w]]
      /\ task' = [w \in Worker |-> IF w \in mine THEN Null ELSE task[w]]
      /\ buffer' = [w \in Worker |-> IF w \in mine THEN <<>> ELSE buffer[w]]
      /\ ranges' = [w \in Worker |-> IF w \in mine THEN <<>> ELSE ranges[w]]
      /\ UNCHANGED <<row, stats>>
  BY DEF Crash
<1>2. dropped' = dropped \cup Undelivered(g)
        \cup UNION {InHand(w) \cup Unflushed(w) : w \in {v \in Worker : GroupOf[v] = g}}
  BY DEF Crash
<1>3. /\ claimed'[g] = <<>> /\ channel'[g] = <<>>
      /\ \A h \in Group \ {g} : claimed'[h] = claimed[h] /\ channel'[h] = channel[h]
  BY <1>1 DEF Typed
<1>4. Undelivered(g)' = {} BY <1>3, NothingInNoParts DEF Undelivered
<1>5. \A h \in Group \ {g} : Undelivered(h)' = Undelivered(h) BY <1>3 DEF Undelivered
<1>6. ASSUME NEW w \in Worker, GroupOf[w] = g
      PROVE  /\ buffer'[w] = <<>> /\ ranges'[w] = <<>> /\ InHand(w)' = {} /\ Unflushed(w)' = {}
  <2>1. pc'[w] = "dead" /\ buffer'[w] = <<>> /\ ranges'[w] = <<>> BY <1>1, <1>6
  <2>2. InHand(w)' = {} BY <2>1 DEF InHand
  <2>3. Unflushed(w)' = JobsOf(<<>>) \cup InParts(<<>>) BY <2>1 DEF Unflushed, InParts
  <2> QED BY <2>1, <2>2, <2>3, NothingInNoParts
<1>7. ASSUME NEW w \in Worker, GroupOf[w] # g
      PROVE  SameFor(w) /\ buffer'[w] = buffer[w] /\ ranges'[w] = ranges[w]
  <2>1. /\ pc'[w] = pc[w] /\ task'[w] = task[w] /\ buffer'[w] = buffer[w]
        /\ ranges'[w] = ranges[w]
    BY <1>1, <1>7
  <2> QED BY <2>1, SameForOthers
<1> QED BY <1>1, <1>2, <1>3, <1>4, <1>5, <1>6, <1>7

LEMMA ReceiveMoves ==
  ASSUME Typed, Working, NEW w \in Worker, Receive(w)
  PROVE  \E h \in Job :
    /\ InHand(w) = {} /\ InHand(w)' = {h} /\ Unflushed(w)' = Unflushed(w)
    /\ channel[GroupOf[w]] # <<>> /\ h = Head(channel[GroupOf[w]])
    /\ channel'[GroupOf[w]] = Tail(channel[GroupOf[w]])
    /\ Undelivered(GroupOf[w]) = {h} \cup Undelivered(GroupOf[w])'
    /\ \A g \in Group \ {GroupOf[w]} : channel'[g] = channel[g] /\ Undelivered(g)' = Undelivered(g)
    /\ \A v \in Worker \ {w} : SameFor(v)
    /\ UNCHANGED <<row, claimed, buffer, ranges, accounts>>
<1> DEFINE g == GroupOf[w]
           h == Head(channel[g])
<1>1. g \in Group /\ channel[g] \in Seq(Job) BY GroupAssumption DEF Typed
<1>2. /\ channel[g] # <<>> /\ pc[w] = "idle"
      /\ channel' = [channel EXCEPT ![g] = Tail(@)]
      /\ task' = [task EXCEPT ![w] = h] /\ pc' = [pc EXCEPT ![w] = "received"]
      /\ UNCHANGED <<row, claimed, buffer, ranges, accounts>>
  BY DEF Receive
<1>3. h \in Job /\ ToSet(channel[g]) = {h} \cup ToSet(Tail(channel[g]))
  BY <1>1, <1>2, HeldByTail
<1>4. /\ channel'[g] = Tail(channel[g]) /\ \A k \in Group \ {g} : channel'[k] = channel[k]
      /\ task'[w] = h /\ pc'[w] = "received"
      /\ \A v \in Worker \ {w} : task'[v] = task[v] /\ pc'[v] = pc[v]
  BY <1>1, <1>2 DEF Typed
<1> HIDE DEF g, h
<1>5. InHand(w) = {} /\ InHand(w)' = {h} BY <1>2, <1>4 DEF InHand
<1>6. Unflushed(w)' = Unflushed(w) BY <1>2 DEF Unflushed
<1>7. Undelivered(g) = {h} \cup Undelivered(g)' BY <1>2, <1>3, <1>4 DEF Undelivered
<1>8. \A k \in Group \ {g} : Undelivered(k)' = Undelivered(k) BY <1>2, <1>4 DEF Undelivered
<1>9. \A v \in Worker \ {w} : SameFor(v) BY <1>2, <1>4, SameForOthers
<1> QED BY <1>2, <1>3, <1>4, <1>5, <1>6, <1>7, <1>8, <1>9 DEF g, h

LEMMA CompleteMoves ==
  ASSUME Typed, Working, NEW w \in Worker, Complete(w)
  PROVE  \E e \in Completion :
    /\ InHand(w) = {e.job} /\ InHand(w)' = {} /\ Unflushed(w)' = Unflushed(w) \cup {e.job}
    /\ buffer'[w] = Append(buffer[w], e) /\ \A v \in Worker \ {w} : buffer'[v] = buffer[v]
    /\ \A v \in Worker \ {w} : SameFor(v)
    /\ \A g \in Group : Undelivered(g)' = Undelivered(g)
    /\ UNCHANGED <<row, claimed, channel, ranges, accounts>>
<1> DEFINE e == [job |-> task[w], to |-> outcome[w]]
<1>1. /\ pc[w] = "leaving" /\ pc' = [pc EXCEPT ![w] = "idle"]
      /\ buffer' = [buffer EXCEPT ![w] = Append(@, e)] /\ task' = [task EXCEPT ![w] = Null]
      /\ UNCHANGED <<row, claimed, channel, ranges, accounts>>
  BY DEF Complete, dispatchers
<1>2. e \in Completion /\ e.job = task[w] BY <1>1 DEF Working, Completion
<1> HIDE DEF e
<1>3. /\ buffer'[w] = Append(buffer[w], e) /\ pc'[w] = "idle" /\ buffer[w] \in Seq(Completion)
      /\ \A v \in Worker \ {w} : buffer'[v] = buffer[v] /\ pc'[v] = pc[v] /\ task'[v] = task[v]
  BY <1>1 DEF Typed
<1>4. InHand(w) = {e.job} /\ InHand(w)' = {} BY <1>1, <1>2, <1>3 DEF InHand
<1>5. JobsOf(buffer'[w]) = JobsOf(buffer[w]) \cup {e.job} BY <1>2, <1>3, BufferedByAppend
<1>6. Unflushed(w)' = Unflushed(w) \cup {e.job} BY <1>1, <1>5 DEF Unflushed
<1>7. \A v \in Worker \ {w} : SameFor(v) BY <1>1, <1>3, SameForOthers
<1>8. \A g \in Group : Undelivered(g)' = Undelivered(g) BY <1>1, SameDispatchers
<1> QED BY <1>1, <1>2, <1>3, <1>4, <1>6, <1>7, <1>8

LEMMA StartFlushMoves ==
  ASSUME Typed, Working, NEW w \in Worker, StartFlush(w)
  PROVE  /\ ranges[w] = <<>> /\ ranges'[w] = <<buffer[w]>> /\ buffer'[w] = <<>>
         /\ \A v \in Worker \ {w} : buffer'[v] = buffer[v] /\ ranges'[v] = ranges[v]
         /\ \A v \in Worker : SameFor(v)
         /\ \A g \in Group : Undelivered(g)' = Undelivered(g)
         /\ UNCHANGED <<row, claimed, channel, accounts>>
<1>1. /\ pc[w] = "idle" /\ pc' = [pc EXCEPT ![w] = "flushing"]
      /\ ranges' = [ranges EXCEPT ![w] = <<buffer[w]>>] /\ buffer' = [buffer EXCEPT ![w] = <<>>]
      /\ UNCHANGED <<row, claimed, channel, task, accounts>>
  BY DEF StartFlush, dispatchers
<1>2. /\ ranges[w] = <<>> /\ ranges'[w] = <<buffer[w]>> /\ buffer'[w] = <<>>
      /\ buffer[w] \in Seq(Completion) /\ pc'[w] = "flushing"
      /\ \A v \in Worker \ {w} : buffer'[v] = buffer[v] /\ ranges'[v] = ranges[v] /\ pc'[v] = pc[v]
  BY <1>1 DEF Typed, Working
<1>3. SameFor(w)
  <2>1. InHand(w)' = InHand(w) BY <1>1, <1>2 DEF InHand
  <2>2. Unflushed(w) = JobsOf(buffer[w]) \cup InParts(<<>>) BY <1>2 DEF Unflushed, InParts
  <2>3. Unflushed(w)' = JobsOf(<<>>) \cup InParts(<<buffer[w]>>) BY <1>2 DEF Unflushed, InParts
  <2> QED BY <1>2, <2>1, <2>2, <2>3, NothingInNoParts, PartsOfBuffer DEF SameFor
<1>4. \A v \in Worker \ {w} : SameFor(v) BY <1>1, <1>2, SameForOthers
<1>5. \A g \in Group : Undelivered(g)' = Undelivered(g) BY <1>1, SameDispatchers
<1> QED BY <1>1, <1>2, <1>3, <1>4, <1>5

\* A flush goes on with what is left.
LEMMA GoOnMoves ==
  ASSUME Typed, Working, NEW w \in Worker, NEW rest, GoOn(w, rest), pc[w] = "flushing",
         UNCHANGED <<dispatchers, task, buffer>>
  PROVE  /\ ranges'[w] = rest /\ \A v \in Worker \ {w} : ranges'[v] = ranges[v]
         /\ InHand(w) = {} /\ InHand(w)' = {}
         /\ Unflushed(w)' = JobsOf(buffer[w]) \cup InParts(rest)
         /\ \A v \in Worker \ {w} : SameFor(v)
         /\ \A g \in Group : Undelivered(g)' = Undelivered(g)
         /\ UNCHANGED <<claimed, channel, buffer>>
<1>1. /\ ranges' = [ranges EXCEPT ![w] = rest]
      /\ pc' = [pc EXCEPT ![w] = IF rest = <<>> THEN "idle" ELSE "flushing"]
      /\ UNCHANGED <<claimed, channel, task, buffer>>
  BY DEF GoOn, Typed, dispatchers
<1>2. /\ ranges'[w] = rest /\ pc'[w] \in {"idle", "flushing"}
      /\ \A v \in Worker \ {w} : ranges'[v] = ranges[v] /\ pc'[v] = pc[v]
  BY <1>1 DEF Typed
<1>3. InHand(w) = {} /\ InHand(w)' = {} BY <1>2 DEF InHand
<1>4. Unflushed(w)' = JobsOf(buffer[w]) \cup InParts(rest) BY <1>1, <1>2 DEF Unflushed, InParts
<1>5. \A v \in Worker \ {w} : SameFor(v) BY <1>1, <1>2, SameForOthers
<1>6. \A g \in Group : Undelivered(g)' = Undelivered(g) BY <1>1, SameDispatchers
<1> QED BY <1>1, <1>2, <1>3, <1>4, <1>5, <1>6

LEMMA FlushRangeMoves ==
  ASSUME Typed, Working, NEW w \in Worker, FlushRange(w)
  PROVE  /\ pc[w] = "flushing" /\ ranges[w] # <<>>
         /\ \/ GoOn(w, Tail(ranges[w])) /\ dropped' = dropped
            \/ GoOn(w, <<>>) /\ dropped' = dropped \cup InParts(Tail(ranges[w]))
         /\ UNCHANGED <<dispatchers, task, buffer>>
         /\ \A j \in Job :
              \/ /\ j \in JobsOf(Head(ranges[w])) /\ state'[j] \in Outcome
                 /\ stats'[j] = Moved(j, "Processing", state'[j])
              \/ /\ j \notin JobsOf(Head(ranges[w])) /\ state'[j] = state[j]
                 /\ owner'[j] = owner[j] /\ keepAlive'[j] = keepAlive[j] /\ stats'[j] = stats[j]
<1> DEFINE r == ToSet(Head(ranges[w]))
           hit == JobsOf(Head(ranges[w]))
           To(j) == (CHOOSE e \in r : e.job = j).to
<1>1. /\ pc[w] = "flushing" /\ UNCHANGED <<dispatchers, task, buffer>>
      /\ state' = [j \in Job |-> IF j \in hit THEN To(j) ELSE state[j]]
      /\ owner' = [j \in Job |-> IF j \in hit THEN Null ELSE owner[j]]
      /\ keepAlive' = [j \in Job |-> IF j \in hit THEN "none" ELSE keepAlive[j]]
      /\ stats' = [j \in Job |-> IF j \in hit THEN Moved(j, "Processing", To(j)) ELSE stats[j]]
  BY DEF FlushRange
<1>2. \/ GoOn(w, Tail(ranges[w])) /\ dropped' = dropped
      \/ GoOn(w, <<>>) /\ dropped' = dropped \cup InParts(Tail(ranges[w]))
  BY DEF FlushRange, InParts
<1>3. ranges[w] # <<>> BY <1>1 DEF Working
<1>4. r \subseteq Completion
  <2>1. Head(ranges[w]) \in Seq(Completion) BY <1>3, PartsByTail DEF Typed
  <2> QED BY <2>1, SeqHolds
<1>5. ASSUME NEW j \in hit PROVE To(j) \in Outcome
  <2>1. PICK e \in r : e.job = j BY DEF JobsOf
  <2>2. (CHOOSE d \in r : d.job = j) \in r BY <2>1
  <2> QED BY <2>2, <1>4 DEF Completion
<1> HIDE DEF To, hit, r
<1>6. \A j \in Job :
        \/ j \in hit /\ state'[j] \in Outcome /\ stats'[j] = Moved(j, "Processing", state'[j])
        \/ /\ j \notin hit /\ state'[j] = state[j]
           /\ owner'[j] = owner[j] /\ keepAlive'[j] = keepAlive[j] /\ stats'[j] = stats[j]
  BY <1>1, <1>5
<1> QED BY <1>1, <1>2, <1>3, <1>6 DEF hit

LEMMA SplitRangeMoves ==
  ASSUME Typed, Working, NEW w \in Worker, SplitRange(w)
  PROVE  /\ pc[w] = "flushing" /\ ranges[w] # <<>>
         /\ \/ GoOn(w, Tail(ranges[w])) /\ dropped' = dropped \cup JobsOf(Head(ranges[w]))
            \/ /\ GoOn(w, Halves(Head(ranges[w])) \o Tail(ranges[w])) /\ dropped' = dropped
               /\ InParts(Halves(Head(ranges[w])) \o Tail(ranges[w])) = InParts(ranges[w])
         /\ UNCHANGED <<row, dispatchers, task, buffer, stats>>
<1>1. pc[w] = "flushing" /\ UNCHANGED <<row, dispatchers, task, buffer, stats>> BY DEF SplitRange
<1>2. \/ GoOn(w, Tail(ranges[w])) /\ dropped' = dropped \cup JobsOf(Head(ranges[w]))
      \/ GoOn(w, Halves(Head(ranges[w])) \o Tail(ranges[w])) /\ dropped' = dropped
  BY DEF SplitRange
<1>3. ranges[w] # <<>> BY <1>1 DEF Working
<1>4. /\ Head(ranges[w]) \in Seq(Completion) /\ Tail(ranges[w]) \in Seq(Seq(Completion))
      /\ InParts(ranges[w]) = JobsOf(Head(ranges[w])) \cup InParts(Tail(ranges[w]))
  BY <1>3, PartsByTail DEF Typed
<1>5. InParts(Halves(Head(ranges[w])) \o Tail(ranges[w])) = InParts(ranges[w])
  BY <1>4, PartsOfHalves, PartsByConcat
<1> QED BY <1>1, <1>2, <1>3, <1>5

\* Once no flush, hand-over, shutdown or crash has lost a row, the next step does not.
LEMMA StepNothingIsLost ==
  Typed /\ Delivering /\ Working /\ NothingIsLost /\ [Next]_vars => NothingIsLost'
<1> SUFFICES ASSUME Typed, Delivering, Working, NothingIsLost, [Next]_vars PROVE NothingIsLost'
  OBVIOUS
<1> USE DEF NothingIsLost, Held
<1>1. ASSUME NEW g \in Group, Claim(g) PROVE NothingIsLost'
  <2>1. PICK S \in SUBSET {j \in Job : state[j] = "Enqueued"} :
          /\ \A j \in Job : state'[j] = IF j \in S THEN "Processing" ELSE state[j]
          /\ \A h \in Group \ {g} : Undelivered(h)' = Undelivered(h)
          /\ \/ Undelivered(g)' = Undelivered(g) \cup S /\ dropped' = dropped
             \/ Undelivered(g)' = Undelivered(g) /\ dropped' = dropped \cup S
          /\ \A w \in Worker : SameFor(w)
    BY <1>1, ClaimMoves
  <2> QED BY <2>1 DEF SameFor
<1>2. ASSUME NEW g \in Group, Deliver(g) PROVE NothingIsLost'
  BY <1>2, DeliverMoves DEF SameFor, row, accounts
<1>3. ASSUME NEW g \in Group, Shutdown(g) \/ StopPolling(g) PROVE NothingIsLost'
  BY <1>3, SameDispatchers, SameWorkers DEF Shutdown, StopPolling, row, accounts, workers
<1>4. ASSUME NEW g \in Group, Unclaim(g) PROVE NothingIsLost'
  <2>1. Undelivered(g) = ToSet(claimed[g]) \cup ToSet(channel[g]) BY DEF Undelivered
  <2> QED BY <1>4, <2>1, UnclaimMoves DEF SameFor
<1>5. ASSUME NEW g \in Group, Crash(g) PROVE NothingIsLost'
  <2>1. /\ \A h \in Group \ {g} : Undelivered(h)' = Undelivered(h)
        /\ \A w \in Worker : GroupOf[w] = g \/ SameFor(w)
        /\ Undelivered(g) \subseteq dropped' /\ dropped \subseteq dropped'
        /\ \A w \in Worker : GroupOf[w] = g => InHand(w) \cup Unflushed(w) \subseteq dropped'
        /\ UNCHANGED row
    BY <1>5, CrashMoves
  <2> QED BY <2>1 DEF SameFor, row
<1>6. ASSUME NEW w \in Worker, Receive(w) PROVE NothingIsLost'
  <2>1. GroupOf[w] \in Group BY GroupAssumption
  <2> QED BY <1>6, <2>1, ReceiveMoves DEF SameFor, row, accounts
<1>7. ASSUME NEW w \in Worker, Begin(w) PROVE NothingIsLost'
  <2>1. /\ pc[w] = "received" /\ pc' = [pc EXCEPT ![w] = "running"]
        /\ UNCHANGED <<state, claimed, channel, task, buffer, ranges, dropped>>
    BY <1>7 DEF Begin, row, dispatchers, accounts
  <2> QED BY <2>1, SameWhilePcMoves DEF SameFor, Busy
<1>8. ASSUME NEW w \in Worker, BeginFails(w) PROVE NothingIsLost'
  BY <1>8, BeginFailsMoves DEF SameFor
<1>9. ASSUME NEW w \in Worker,
             MonitorRead(w) \/ MonitorUpdate(w) \/ MonitorStop(w)
      PROVE  NothingIsLost'
  BY <1>9, SameDispatchers, SameWorkers
  DEF MonitorRead, MonitorUpdate, MonitorStop, row, dispatchers, accounts
<1>10. ASSUME NEW w \in Worker, HandlerEnds(w) PROVE NothingIsLost'
  <2>1. /\ pc[w] = "running" /\ pc' = [pc EXCEPT ![w] = "leaving"]
        /\ UNCHANGED <<state, claimed, channel, task, buffer, ranges, dropped>>
    BY <1>10 DEF HandlerEnds, row, dispatchers, accounts
  <2> QED BY <2>1, SameWhilePcMoves DEF SameFor, Busy
<1>11. ASSUME NEW w \in Worker, Complete(w) PROVE NothingIsLost'
  BY <1>11, CompleteMoves DEF SameFor, row, accounts
<1>12. ASSUME NEW w \in Worker, StartFlush(w) PROVE NothingIsLost'
  BY <1>12, StartFlushMoves DEF SameFor, row, accounts
<1>13. ASSUME NEW w \in Worker
       PROVE  /\ Unflushed(w) = JobsOf(buffer[w]) \cup InParts(ranges[w])
              /\ ranges[w] # <<>> => InParts(ranges[w]) = JobsOf(Head(ranges[w])) \cup InParts(Tail(ranges[w]))
  BY PartsByTail DEF Typed, Unflushed, InParts
<1>14. ASSUME NEW w \in Worker, FlushRange(w) PROVE NothingIsLost'
  <2>1. /\ pc[w] = "flushing" /\ ranges[w] # <<>>
        /\ \/ GoOn(w, Tail(ranges[w])) /\ dropped' = dropped
           \/ GoOn(w, <<>>) /\ dropped' = dropped \cup InParts(Tail(ranges[w]))
        /\ UNCHANGED <<dispatchers, task, buffer>>
        /\ \A j \in Job : state'[j] = "Processing" =>
                            j \notin JobsOf(Head(ranges[w])) /\ state[j] = "Processing"
    BY <1>14, FlushRangeMoves DEF Outcome, Finished
  <2>2. CASE GoOn(w, Tail(ranges[w])) /\ dropped' = dropped
    BY <2>1, <2>2, <1>13, GoOnMoves DEF SameFor
  <2>3. CASE GoOn(w, <<>>) /\ dropped' = dropped \cup InParts(Tail(ranges[w]))
    BY <2>1, <2>3, <1>13, GoOnMoves DEF SameFor
  <2> QED BY <2>1, <2>2, <2>3
<1>15. ASSUME NEW w \in Worker, SplitRange(w) PROVE NothingIsLost'
  <2>1. /\ pc[w] = "flushing" /\ ranges[w] # <<>> /\ UNCHANGED <<row, dispatchers, task, buffer>>
    BY <1>15, SplitRangeMoves
  <2>2. CASE GoOn(w, Tail(ranges[w])) /\ dropped' = dropped \cup JobsOf(Head(ranges[w]))
    BY <2>1, <2>2, <1>13, GoOnMoves DEF SameFor, row
  <2>3. CASE /\ GoOn(w, Halves(Head(ranges[w])) \o Tail(ranges[w])) /\ dropped' = dropped
             /\ InParts(Halves(Head(ranges[w])) \o Tail(ranges[w])) = InParts(ranges[w])
    BY <2>1, <2>3, <1>13, GoOnMoves DEF SameFor, row
  <2> QED BY <1>15, <2>2, <2>3, SplitRangeMoves
<1>16. ASSUME NEW w \in Worker, FlushThrows(w) PROVE NothingIsLost'
  <2>1. /\ pc[w] = "flushing" /\ GoOn(w, <<>>) /\ dropped' = dropped \cup Unflushed(w)
        /\ UNCHANGED <<row, dispatchers, task, buffer>>
    BY <1>16 DEF FlushThrows
  <2> QED BY <2>1, GoOnMoves DEF SameFor, row
<1>17. ASSUME NEW w \in Worker, StopWorker(w) PROVE NothingIsLost'
  <2>1. /\ pc[w] = "idle" /\ pc' = [pc EXCEPT ![w] = "stopped"]
        /\ UNCHANGED <<state, claimed, channel, task, buffer, ranges, dropped>>
    BY <1>17 DEF StopWorker, row, dispatchers, accounts
  <2> QED BY <2>1, SameWhilePcMoves DEF SameFor, Busy
<1>18. ASSUME NEW j \in Job, Publish(j) \/ KeepAliveAges(j) \/ DeleteJob(j) \/ RequeueJob(j)
       PROVE  NothingIsLost'
  <2>1. UNCHANGED <<claimed, channel, pc, task, buffer, ranges, dropped>>
    BY <1>18
    DEF Publish, KeepAliveAges, DeleteJob, RequeueJob, dispatchers, workers, accounts
  <2>2. \A i \in Job : state'[i] = "Processing" => state[i] = "Processing"
    BY <1>18 DEF Publish, KeepAliveAges, DeleteJob, RequeueJob, Typed
  <2> QED BY <2>1, <2>2, SameDispatchers, SameWorkers
<1>19. ASSUME NEW j \in Job, RecoverStale(j) PROVE NothingIsLost'
  <2>1. /\ UNCHANGED <<claimed, channel, pc, task, buffer, ranges>> /\ dropped' = dropped \ {j}
    BY <1>19 DEF RecoverStale, dispatchers, workers
  <2>2. \A i \in Job : state'[i] = "Processing" => i # j /\ state[i] = "Processing"
    BY <1>19 DEF RecoverStale, Typed
  <2> QED BY <2>1, <2>2, SameDispatchers, SameWorkers
<1>20. CASE UNCHANGED vars
  BY <1>20, SameDispatchers, SameWorkers DEF vars, row, dispatchers, workers, accounts
<1> QED
  BY <1>1, <1>2, <1>3, <1>4, <1>5, <1>6, <1>7, <1>8, <1>9, <1>10, <1>11, <1>12, <1>14, <1>15,
     <1>16, <1>17, <1>18, <1>19, <1>20 DEF Next

-------------------------------------------------------------------------------
(* One place at a time.                                                    *)

Mine(w) == InHand(w) \cup Unflushed(w)

\* In one process nothing is held twice.
Single ==
  /\ \A g \in Group : /\ Once(claimed[g]) /\ Once(channel[g])
                      /\ ToSet(claimed[g]) \cap ToSet(channel[g]) = {}
  /\ \A w \in Worker : /\ OncePerJob(buffer[w]) /\ Cut(ranges[w])
                       /\ JobsOf(buffer[w]) \cap InParts(ranges[w]) = {}
                       /\ InHand(w) \cap Unflushed(w) = {}
\* No two dispatchers or workers have the same job.
Apart ==
  /\ \A g, h \in Group : g # h => Undelivered(g) \cap Undelivered(h) = {}
  /\ \A v, w \in Worker : v # w => Mine(v) \cap Mine(w) = {}
  /\ \A g \in Group, w \in Worker : Undelivered(g) \cap Mine(w) = {}
\* The row says who has it, and it is alive.
Alive(j) == state[j] = "Processing" /\ keepAlive[j] = "fresh"
Owned ==
  /\ \A g \in Group : \A j \in Undelivered(g) : Alive(j) /\ owner[j] = g
  /\ \A w \in Worker : \A j \in Mine(w) : Alive(j) /\ owner[j] \in {w, GroupOf[w]}

LEMMA ApartKept ==
  ASSUME Apart, \A g \in Group : Undelivered(g)' \subseteq Undelivered(g),
         \A w \in Worker : Mine(w)' \subseteq Mine(w)
  PROVE  Apart'
<1>1. ASSUME NEW g \in Group, NEW h \in Group, g # h PROVE Undelivered(g)' \cap Undelivered(h)' = {}
  BY <1>1 DEF Apart
<1>2. ASSUME NEW v \in Worker, NEW w \in Worker, v # w PROVE Mine(v)' \cap Mine(w)' = {}
  BY <1>2 DEF Apart
<1>3. ASSUME NEW g \in Group, NEW w \in Worker PROVE Undelivered(g)' \cap Mine(w)' = {}
  BY <1>3 DEF Apart
<1> QED BY <1>1, <1>2, <1>3 DEF Apart

\* What stays where it was, and whose row stays as it was, stays owned.
LEMMA OwnedKept ==
  ASSUME Owned, \A g \in Group : Undelivered(g)' \subseteq Undelivered(g),
         \A w \in Worker : Mine(w)' \subseteq Mine(w),
         NEW S, \A g \in Group : Undelivered(g)' \cap S = {}, \A w \in Worker : Mine(w)' \cap S = {},
         \A j \in Job \ S : state'[j] = state[j] /\ owner'[j] = owner[j] /\ keepAlive'[j] = keepAlive[j],
         \A g \in Group : Undelivered(g) \subseteq Job, \A w \in Worker : Mine(w) \subseteq Job
  PROVE  Owned'
<1>1. ASSUME NEW g \in Group, NEW j \in Undelivered(g)' PROVE (Alive(j) /\ owner[j] = g)'
  <2>1. j \in Undelivered(g) /\ j \in Job \ S BY <1>1
  <2> QED BY <2>1 DEF Owned, Alive
<1>2. ASSUME NEW w \in Worker, NEW j \in Mine(w)' PROVE (Alive(j) /\ owner[j] \in {w, GroupOf[w]})'
  <2>1. j \in Mine(w) /\ j \in Job \ S BY <1>2
  <2> QED BY <2>1 DEF Owned, Alive
<1> QED BY <1>1, <1>2 DEF Owned

LEMMA OwnedSame ==
  ASSUME Owned, \A g \in Group : Undelivered(g)' \subseteq Undelivered(g),
         \A w \in Worker : Mine(w)' \subseteq Mine(w), UNCHANGED <<state, owner, keepAlive>>
  PROVE  Owned'
BY DEF Owned, Alive

LEMMA MineAreJobs ==
  ASSUME Typed, Working
  PROVE  (\A g \in Group : Undelivered(g) \subseteq Job) /\ (\A w \in Worker : Mine(w) \subseteq Job)
BY HeldAreJobs DEF Mine

\* The dispatchers' steps.
LEMMA ClaimOnce ==
  ASSUME Typed, Delivering, Working, Single, Apart, Owned, NEW g \in Group, Claim(g)
  PROVE  Single' /\ Apart' /\ Owned'
<1>1. PICK S \in SUBSET {j \in Job : state[j] = "Enqueued"} :
    /\ \A j \in Job : /\ state'[j] = IF j \in S THEN "Processing" ELSE state[j]
                      /\ owner'[j] = IF j \in S THEN g ELSE owner[j]
                      /\ keepAlive'[j] = IF j \in S THEN "fresh" ELSE keepAlive[j]
    /\ \A h \in Group \ {g} : claimed'[h] = claimed[h] /\ Undelivered(h)' = Undelivered(h)
    /\ \/ /\ claimed[g] = <<>> /\ Once(claimed'[g]) /\ ToSet(claimed'[g]) = S
          /\ Undelivered(g)' = Undelivered(g) \cup S /\ dropped' = dropped
       \/ /\ claimed'[g] = claimed[g] /\ Undelivered(g)' = Undelivered(g)
          /\ dropped' = dropped \cup S
    /\ UNCHANGED <<channel, workers, stats>>
    /\ \A w \in Worker : SameFor(w)
  BY ClaimMoves
<1>2. /\ \A h \in Group : Undelivered(h) \cap S = {} /\ ToSet(channel[h]) \cap S = {}
      /\ \A w \in Worker : Mine(w) \cap S = {}
  BY DEF Owned, Alive, Undelivered
<1>3. \A w \in Worker : InHand(w)' = InHand(w) /\ Unflushed(w)' = Unflushed(w) /\ Mine(w)' = Mine(w)
  BY <1>1 DEF SameFor, Mine
<1>4. Single'
  <2>1. \A w \in Worker : buffer'[w] = buffer[w] /\ ranges'[w] = ranges[w] BY <1>1 DEF workers
  <2>2. \A h \in Group : /\ Once(claimed'[h]) /\ Once(channel'[h])
                         /\ ToSet(claimed'[h]) \cap ToSet(channel'[h]) = {}
    BY <1>1, <1>2 DEF Single
  <2>3. \A w \in Worker : /\ OncePerJob(buffer'[w]) /\ Cut(ranges'[w])
                          /\ JobsOf(buffer'[w]) \cap InParts(ranges'[w]) = {}
                          /\ InHand(w)' \cap Unflushed(w)' = {}
    BY <1>3, <2>1 DEF Single
  <2> QED BY <2>2, <2>3 DEF Single
<1>5. Apart'
  <2>1. \A h \in Group : Undelivered(h)' \subseteq Undelivered(h) \cup (IF h = g THEN S ELSE {})
    BY <1>1
  <2>2. ASSUME NEW h \in Group, NEW k \in Group, h # k PROVE Undelivered(h)' \cap Undelivered(k)' = {}
    BY <1>2, <2>1, <2>2 DEF Apart
  <2>3. ASSUME NEW h \in Group, NEW w \in Worker PROVE Undelivered(h)' \cap Mine(w)' = {}
    BY <1>2, <1>3, <2>1 DEF Apart
  <2>4. \A v, w \in Worker : v # w => Mine(v)' \cap Mine(w)' = {} BY <1>3 DEF Apart
  <2> QED BY <2>2, <2>3, <2>4 DEF Apart
<1>6. Owned'
  <2>1. ASSUME NEW h \in Group, NEW j \in Undelivered(h)' PROVE (Alive(j) /\ owner[j] = h)'
    <3>1. CASE j \in S /\ h = g BY <1>1, <3>1 DEF Alive
    <3>2. CASE j \in Undelivered(h) BY <1>1, <1>2, <3>2, MineAreJobs DEF Owned, Alive
    <3> QED BY <1>1, <2>1, <3>1, <3>2
  <2>2. ASSUME NEW w \in Worker, NEW j \in Mine(w)' PROVE (Alive(j) /\ owner[j] \in {w, GroupOf[w]})'
    BY <1>1, <1>2, <1>3, MineAreJobs DEF Owned, Alive
  <2> QED BY <2>1, <2>2 DEF Owned
<1> QED BY <1>4, <1>5, <1>6

\* Steps of one dispatcher leave the workers alone.
LEMMA SingleOfDispatchers ==
  ASSUME Single, UNCHANGED workers, NEW g \in Group,
         \A h \in Group \ {g} : claimed'[h] = claimed[h] /\ channel'[h] = channel[h],
         Once(claimed'[g]), Once(channel'[g]), ToSet(claimed'[g]) \cap ToSet(channel'[g]) = {}
  PROVE  Single'
<1>1. \A h \in Group : /\ Once(claimed'[h]) /\ Once(channel'[h])
                       /\ ToSet(claimed'[h]) \cap ToSet(channel'[h]) = {}
  BY DEF Single
<1>2. \A w \in Worker : InHand(w)' = InHand(w) /\ Unflushed(w)' = Unflushed(w)
  BY SameWorkers DEF workers
<1>3. \A w \in Worker : /\ OncePerJob(buffer'[w]) /\ Cut(ranges'[w])
                        /\ JobsOf(buffer'[w]) \cap InParts(ranges'[w]) = {}
                        /\ InHand(w)' \cap Unflushed(w)' = {}
  BY <1>2 DEF Single, workers
<1> QED BY <1>1, <1>3 DEF Single

LEMMA NothingOnce == Once(<<>>) /\ OncePerJob(<<>>)
BY DEF Once, OncePerJob

LEMMA DispatcherOnce ==
  ASSUME Typed, Delivering, Working, Single, Apart, Owned, NEW g \in Group,
         Deliver(g) \/ Shutdown(g) \/ Unclaim(g) \/ StopPolling(g) \/ Crash(g)
  PROVE  Single' /\ Apart' /\ Owned'
<1>1. CASE Deliver(g)
  <2>1. /\ claimed[g] # <<>>
        /\ claimed'[g] = Tail(claimed[g]) /\ channel'[g] = Append(channel[g], Head(claimed[g]))
        /\ \A h \in Group \ {g} : claimed'[h] = claimed[h] /\ channel'[h] = channel[h]
        /\ \A h \in Group : Undelivered(h)' = Undelivered(h)
        /\ UNCHANGED <<row, workers>> /\ \A w \in Worker : Mine(w)' = Mine(w)
    BY <1>1, DeliverMoves DEF SameFor, Mine
  <2> DEFINE h == Head(claimed[g])
  <2>2. claimed[g] \in Seq(Job) /\ channel[g] \in Seq(Job) BY DEF Typed
  <2>3. /\ h \in Job /\ ToSet(claimed[g]) = {h} \cup ToSet(claimed'[g])
        /\ Once(claimed'[g]) /\ h \notin ToSet(claimed'[g])
    BY <2>1, <2>2, HeldByTail DEF Single
  <2>4. h \notin ToSet(channel[g]) BY <2>3 DEF Single
  <2>5. Once(channel'[g]) /\ ToSet(channel'[g]) = ToSet(channel[g]) \cup {h}
    BY <2>1, <2>2, <2>3, <2>4, HeldByAppend DEF Single
  <2>6. ToSet(claimed'[g]) \cap ToSet(channel'[g]) = {} BY <2>3, <2>5 DEF Single
  <2>7. Single' BY <2>1, <2>3, <2>5, <2>6, SingleOfDispatchers
  <2>8. Apart' BY <2>1, ApartKept
  <2>9. Owned' BY <2>1, OwnedSame DEF row
  <2> QED BY <2>7, <2>8, <2>9
<1>2. CASE Shutdown(g) \/ StopPolling(g)
  <2>1. UNCHANGED <<state, owner, keepAlive, claimed, channel, workers>>
    BY <1>2 DEF Shutdown, StopPolling, row
  <2>2. /\ \A h \in Group : Undelivered(h)' = Undelivered(h)
        /\ \A w \in Worker : Mine(w)' = Mine(w)
    BY <2>1, SameDispatchers, SameWorkers DEF Mine, workers
  <2>3. Single' BY <2>1, SingleOfDispatchers DEF Single
  <2>4. Apart' BY <2>2, ApartKept
  <2>5. Owned' BY <2>1, <2>2, OwnedSame
  <2> QED BY <2>3, <2>4, <2>5
<1>3. CASE Unclaim(g)
  <2> DEFINE S == ToSet(claimed[g])
  <2>1. /\ claimed'[g] = <<>> /\ Undelivered(g)' = ToSet(channel[g])
        /\ \A h \in Group \ {g} : claimed'[h] = claimed[h] /\ Undelivered(h)' = Undelivered(h)
        /\ \A j \in Job \ S : state'[j] = state[j] /\ owner'[j] = owner[j] /\ keepAlive'[j] = keepAlive[j]
        /\ UNCHANGED <<channel, workers>> /\ \A w \in Worker : Mine(w)' = Mine(w)
    BY <1>3, UnclaimMoves DEF SameFor, Mine
  <2>2. ToSet(claimed'[g]) = {} BY <2>1, NothingInNoParts
  <2>3. Single' BY <2>1, <2>2, NothingOnce, SingleOfDispatchers DEF Single
  <2>4. S \subseteq Undelivered(g) /\ Undelivered(g)' \subseteq Undelivered(g) BY <2>1 DEF Undelivered
  <2>5. \A h \in Group : Undelivered(h)' \subseteq Undelivered(h) BY <2>1, <2>4
  <2>6. Apart' BY <2>1, <2>5, ApartKept
  <2>7. \A h \in Group : Undelivered(h)' \cap S = {} BY <2>1, <2>4 DEF Single, Apart
  <2>8. \A w \in Worker : Mine(w)' \cap S = {} BY <2>1, <2>4 DEF Apart
  <2>9. Owned'
    <3> HIDE DEF S
    <3> QED BY <2>1, <2>5, <2>7, <2>8, OwnedKept, MineAreJobs
  <2> QED BY <2>3, <2>6, <2>9
<1>4. CASE Crash(g)
  <2>1. /\ claimed'[g] = <<>> /\ channel'[g] = <<>> /\ Undelivered(g)' = {}
        /\ \A h \in Group \ {g} : claimed'[h] = claimed[h] /\ channel'[h] = channel[h]
                                  /\ Undelivered(h)' = Undelivered(h)
        /\ \A w \in Worker : \/ /\ GroupOf[w] = g /\ buffer'[w] = <<>> /\ ranges'[w] = <<>>
                                /\ InHand(w)' = {} /\ Unflushed(w)' = {}
                             \/ /\ GroupOf[w] # g /\ SameFor(w)
                                /\ buffer'[w] = buffer[w] /\ ranges'[w] = ranges[w]
        /\ UNCHANGED row
    BY <1>4, CrashMoves
  <2>2. \A h \in Group : Undelivered(h)' \subseteq Undelivered(h) BY <2>1
  <2>3. \A w \in Worker : Mine(w)' \subseteq Mine(w) BY <2>1 DEF SameFor, Mine
  <2>4. \A h \in Group : /\ Once(claimed'[h]) /\ Once(channel'[h])
                         /\ ToSet(claimed'[h]) \cap ToSet(channel'[h]) = {}
    BY <2>1, NothingOnce, NothingInNoParts DEF Single
  <2>5. \A w \in Worker : /\ OncePerJob(buffer'[w]) /\ Cut(ranges'[w])
                          /\ JobsOf(buffer'[w]) \cap InParts(ranges'[w]) = {}
                          /\ InHand(w)' \cap Unflushed(w)' = {}
    BY <2>1, NothingOnce, NothingInNoParts DEF Single, SameFor
  <2>6. Single' BY <2>4, <2>5 DEF Single
  <2>7. Apart' BY <2>2, <2>3, ApartKept
  <2>8. Owned' BY <2>1, <2>2, <2>3, OwnedSame DEF row
  <2> QED BY <2>6, <2>7, <2>8
<1> QED BY <1>1, <1>2, <1>3, <1>4

\* The workers' steps.
LEMMA SingleOfWorkers ==
  ASSUME Single, NEW w \in Worker, UNCHANGED <<claimed, channel>>,
         \A v \in Worker \ {w} : SameFor(v) /\ buffer'[v] = buffer[v] /\ ranges'[v] = ranges[v],
         OncePerJob(buffer'[w]), Cut(ranges'[w]),
         JobsOf(buffer'[w]) \cap InParts(ranges'[w]) = {},
         InHand(w)' \cap Unflushed(w)' = {}
  PROVE  Single'
<1>1. \A v \in Worker : /\ OncePerJob(buffer'[v]) /\ Cut(ranges'[v])
                        /\ JobsOf(buffer'[v]) \cap InParts(ranges'[v]) = {}
                        /\ InHand(v)' \cap Unflushed(v)' = {}
  BY DEF Single, SameFor
<1>2. \A g \in Group : /\ Once(claimed'[g]) /\ Once(channel'[g])
                       /\ ToSet(claimed'[g]) \cap ToSet(channel'[g]) = {}
  BY DEF Single
<1> QED BY <1>1, <1>2 DEF Single

LEMMA ReceiveOnce ==
  ASSUME Typed, Delivering, Working, Single, Apart, Owned, NEW w \in Worker, Receive(w)
  PROVE  Single' /\ Apart' /\ Owned'
<1> DEFINE g == GroupOf[w]
<1>1. PICK h \in Job :
    /\ InHand(w) = {} /\ InHand(w)' = {h} /\ Unflushed(w)' = Unflushed(w)
    /\ channel[GroupOf[w]] # <<>> /\ h = Head(channel[GroupOf[w]])
    /\ channel'[GroupOf[w]] = Tail(channel[GroupOf[w]])
    /\ Undelivered(GroupOf[w]) = {h} \cup Undelivered(GroupOf[w])'
    /\ \A k \in Group \ {GroupOf[w]} : channel'[k] = channel[k] /\ Undelivered(k)' = Undelivered(k)
    /\ \A v \in Worker \ {w} : SameFor(v)
    /\ UNCHANGED <<row, claimed, buffer, ranges, accounts>>
  BY ReceiveMoves
<1>2. g \in Group /\ channel[g] \in Seq(Job) BY GroupAssumption DEF Typed
<1>3. /\ ToSet(channel[g]) = {h} \cup ToSet(channel'[g])
      /\ Once(channel'[g]) /\ h \notin ToSet(channel'[g])
  BY <1>1, <1>2, HeldByTail DEF Single
<1>4. h \notin ToSet(claimed'[g]) BY <1>1, <1>2, <1>3 DEF Single
<1>5. h \notin Undelivered(g)' BY <1>3, <1>4 DEF Undelivered
<1>6. \A k \in Group \ {g} : h \notin Undelivered(k)' BY <1>1, <1>2 DEF Apart
<1>7. \A k \in Group : h \notin Undelivered(k)' /\ Undelivered(k)' \subseteq Undelivered(k)
  BY <1>1, <1>2, <1>5, <1>6
<1>8. h \in Undelivered(g) /\ \A v \in Worker : h \notin Mine(v) BY <1>1, <1>2 DEF Apart
<1>9. /\ \A v \in Worker \ {w} : Mine(v)' = Mine(v)
      /\ Mine(w)' = Mine(w) \cup {h}
  BY <1>1 DEF SameFor, Mine
<1>10. Single'
  <2>1. \A k \in Group : /\ Once(claimed'[k]) /\ Once(channel'[k])
                         /\ ToSet(claimed'[k]) \cap ToSet(channel'[k]) = {}
    BY <1>1, <1>2, <1>3 DEF Single
  <2>2. h \notin Unflushed(w) BY <1>8 DEF Mine
  <2>3. \A v \in Worker : /\ OncePerJob(buffer'[v]) /\ Cut(ranges'[v])
                          /\ JobsOf(buffer'[v]) \cap InParts(ranges'[v]) = {}
                          /\ InHand(v)' \cap Unflushed(v)' = {}
    BY <1>1, <2>2 DEF Single, SameFor
  <2> QED BY <2>1, <2>3 DEF Single
<1>11. Apart'
  <2>1. \A k, l \in Group : k # l => Undelivered(k)' \cap Undelivered(l)' = {}
    BY <1>7 DEF Apart
  <2>2. ASSUME NEW v \in Worker, NEW u \in Worker, v # u PROVE Mine(v)' \cap Mine(u)' = {}
    BY <1>8, <1>9, <2>2 DEF Apart
  <2>3. ASSUME NEW k \in Group, NEW v \in Worker PROVE Undelivered(k)' \cap Mine(v)' = {}
    BY <1>7, <1>9 DEF Apart
  <2> QED BY <2>1, <2>2, <2>3 DEF Apart
<1>12. Owned'
  <2>1. UNCHANGED <<state, owner, keepAlive>> BY <1>1 DEF row
  <2>2. \A k \in Group : \A j \in Undelivered(k)' : (Alive(j) /\ owner[j] = k)'
    BY <1>7, <2>1 DEF Owned, Alive
  <2>3. (Alive(h) /\ owner[h] = g)' BY <1>2, <1>8, <2>1 DEF Owned, Alive
  <2>4. ASSUME NEW v \in Worker, NEW j \in Mine(v)' PROVE (Alive(j) /\ owner[j] \in {v, GroupOf[v]})'
    BY <1>9, <2>1, <2>3 DEF Owned, Alive
  <2> QED BY <2>2, <2>4 DEF Owned
<1> QED BY <1>10, <1>11, <1>12

LEMMA WorkerOnce ==
  ASSUME Typed, Delivering, Working, Single, Apart, Owned, NEW w \in Worker,
         \/ Begin(w) \/ BeginFails(w) \/ MonitorRead(w) \/ MonitorUpdate(w)
         \/ MonitorStop(w) \/ HandlerEnds(w) \/ Complete(w) \/ StopWorker(w)
  PROVE  Single' /\ Apart' /\ Owned'
<1>1. CASE Begin(w)
  <2>1. /\ pc[w] = "received" /\ pc' = [pc EXCEPT ![w] = "running"]
        /\ owner' = [owner EXCEPT ![task[w]] = w]
        /\ UNCHANGED <<state, keepAlive, claimed, channel, task, buffer, ranges>>
    BY <1>1 DEF Begin, dispatchers
  <2>2. /\ \A g \in Group : Undelivered(g)' = Undelivered(g)
        /\ \A v \in Worker : SameFor(v)
    BY <2>1, SameWhilePcMoves DEF Busy
  <2>3. \A v \in Worker : Mine(v)' = Mine(v) BY <2>2 DEF SameFor, Mine
  <2>4. Single' BY <2>1, <2>2, SingleOfWorkers DEF Single, SameFor
  <2>5. Apart' BY <2>2, <2>3, ApartKept
  <2>6. task[w] \in Job /\ task[w] \in Mine(w) BY <2>1 DEF Working, Mine, InHand
  <2>7. owner'[task[w]] = w /\ \A j \in Job \ {task[w]} : owner'[j] = owner[j]
    BY <2>1, <2>6 DEF Typed
  <2>8. Owned'
    <3>1. \A g \in Group : \A j \in Undelivered(g)' : j \in Job \ {task[w]} /\ (Alive(j) /\ owner[j] = g)'
      BY <2>1, <2>2, <2>6, <2>7, MineAreJobs DEF Owned, Apart, Alive
    <3>2. ASSUME NEW v \in Worker, NEW j \in Mine(v)' PROVE (Alive(j) /\ owner[j] \in {v, GroupOf[v]})'
      <4>1. j \in Mine(v) /\ j \in Job BY <2>3, MineAreJobs
      <4>2. Alive(j)' /\ owner[j] \in {v, GroupOf[v]} BY <4>1, <2>1 DEF Owned, Alive
      <4>3. CASE j = task[w]
        <5>1. v = w BY <4>1, <4>3, <2>6 DEF Apart
        <5> QED BY <4>2, <4>3, <5>1, <2>7
      <4>4. CASE j # task[w] BY <4>1, <4>2, <4>4, <2>7
      <4> QED BY <4>3, <4>4
    <3> QED BY <3>1, <3>2 DEF Owned
  <2> QED BY <2>4, <2>5, <2>8
<1>2. CASE BeginFails(w)
  <2>1. /\ InHand(w) = {task[w]} /\ InHand(w)' = {} /\ Unflushed(w)' = Unflushed(w)
        /\ \A v \in Worker \ {w} : SameFor(v)
        /\ \A g \in Group : Undelivered(g)' = Undelivered(g)
        /\ \A j \in Job \ {task[w]} : owner'[j] = owner[j]
        /\ UNCHANGED <<state, keepAlive, claimed, channel, buffer, ranges>>
    BY <1>2, BeginFailsMoves
  <2>2. \A v \in Worker : Mine(v)' \subseteq Mine(v) BY <2>1 DEF SameFor, Mine
  <2>3. Single' BY <2>1, SingleOfWorkers DEF Single
  <2>4. Apart' BY <2>1, <2>2, ApartKept
  <2>5. task[w] \in Mine(w) /\ task[w] \notin Mine(w)' BY <2>1 DEF Mine, Single
  <2>6. \A g \in Group : Undelivered(g)' \cap {task[w]} = {} BY <2>1, <2>5 DEF Apart
  <2>7. \A v \in Worker : Mine(v)' \cap {task[w]} = {} BY <2>2, <2>5 DEF Apart
  <2>8. Owned' BY <2>1, <2>2, <2>6, <2>7, OwnedKept, MineAreJobs
  <2> QED BY <2>3, <2>4, <2>8
<1>3. CASE MonitorRead(w) \/ MonitorUpdate(w) \/ MonitorStop(w)
  <2>1. UNCHANGED <<state, owner, claimed, channel, pc, task, buffer, ranges>>
    BY <1>3 DEF MonitorRead, MonitorUpdate, MonitorStop, row, dispatchers
  <2>2. /\ \A g \in Group : Undelivered(g)' = Undelivered(g)
        /\ \A v \in Worker : SameFor(v)
    BY <2>1, SameDispatchers, SameWorkers DEF SameFor
  <2>3. \A v \in Worker : Mine(v)' = Mine(v) BY <2>2 DEF SameFor, Mine
  <2>4. Single' BY <2>1, <2>2, SingleOfWorkers DEF Single, SameFor
  <2>5. Apart' BY <2>2, <2>3, ApartKept
  <2>6. \A j \in Job : keepAlive[j] = "fresh" => keepAlive'[j] = "fresh"
    BY <1>3 DEF MonitorRead, MonitorUpdate, MonitorStop, row, Typed
  <2>7. Owned' BY <2>1, <2>2, <2>3, <2>6, MineAreJobs DEF Owned, Alive
  <2> QED BY <2>4, <2>5, <2>7
<1>4. ASSUME HandlerEnds(w) \/ StopWorker(w) PROVE Single' /\ Apart' /\ Owned'
  <2>1. PICK to \in {"leaving", "stopped"} :
          /\ pc' = [pc EXCEPT ![w] = to] /\ (pc[w] \in Busy <=> to \in Busy)
          /\ UNCHANGED <<state, owner, keepAlive, claimed, channel, task, buffer, ranges>>
    BY <1>4 DEF HandlerEnds, StopWorker, Busy, row, dispatchers
  <2>2. /\ \A g \in Group : Undelivered(g)' = Undelivered(g)
        /\ \A v \in Worker : SameFor(v)
    BY <2>1, SameWhilePcMoves
  <2>3. \A v \in Worker : Mine(v)' = Mine(v) BY <2>2 DEF SameFor, Mine
  <2>4. Single' BY <2>1, <2>2, SingleOfWorkers DEF Single, SameFor
  <2>5. Apart' BY <2>2, <2>3, ApartKept
  <2>6. Owned' BY <2>1, <2>2, <2>3, OwnedSame
  <2> QED BY <2>4, <2>5, <2>6
<1>5. CASE Complete(w)
  <2>1. PICK e \in Completion :
          /\ InHand(w) = {e.job} /\ InHand(w)' = {} /\ Unflushed(w)' = Unflushed(w) \cup {e.job}
          /\ buffer'[w] = Append(buffer[w], e) /\ \A v \in Worker \ {w} : buffer'[v] = buffer[v]
          /\ \A v \in Worker \ {w} : SameFor(v)
          /\ \A g \in Group : Undelivered(g)' = Undelivered(g)
          /\ UNCHANGED <<row, claimed, channel, ranges, accounts>>
    BY <1>5, CompleteMoves
  <2>2. \A v \in Worker : Mine(v)' = Mine(v) BY <2>1 DEF SameFor, Mine
  <2>3. e.job \notin Unflushed(w) BY <2>1 DEF Single
  <2>4. e.job \notin JobsOf(buffer[w]) /\ e.job \notin InParts(ranges[w])
    BY <2>3, HeldAreJobs
  <2>5. OncePerJob(buffer'[w]) /\ JobsOf(buffer'[w]) = JobsOf(buffer[w]) \cup {e.job}
    BY <2>1, <2>4, BufferedByAppend DEF Typed, Single
  <2>6. JobsOf(buffer'[w]) \cap InParts(ranges'[w]) = {} BY <2>1, <2>4, <2>5 DEF Single
  <2>7. Single' BY <2>1, <2>5, <2>6, SingleOfWorkers DEF Single
  <2>8. Apart' BY <2>1, <2>2, ApartKept
  <2>9. Owned' BY <2>1, <2>2, OwnedSame DEF row
  <2> QED BY <2>7, <2>8, <2>9
<1> QED BY <1>1, <1>2, <1>3, <1>4, <1>5

\* The steps of a flush.
LEMMA FlushOnce ==
  ASSUME Typed, Delivering, Working, Single, Apart, Owned, NEW w \in Worker,
         StartFlush(w) \/ FlushRange(w) \/ SplitRange(w) \/ FlushThrows(w)
  PROVE  Single' /\ Apart' /\ Owned'
<1>1. CASE StartFlush(w)
  <2>1. /\ ranges'[w] = <<buffer[w]>> /\ buffer'[w] = <<>>
        /\ \A v \in Worker \ {w} : buffer'[v] = buffer[v] /\ ranges'[v] = ranges[v]
        /\ \A v \in Worker : SameFor(v)
        /\ \A g \in Group : Undelivered(g)' = Undelivered(g)
        /\ UNCHANGED <<row, claimed, channel, accounts>>
    BY <1>1, StartFlushMoves
  <2>2. \A v \in Worker : Mine(v)' = Mine(v) BY <2>1 DEF SameFor, Mine
  <2>3. Cut(ranges'[w]) BY <2>1, PartsOfBuffer DEF Single, Typed
  <2>4. InHand(w)' \cap Unflushed(w)' = {} BY <2>1 DEF SameFor, Single
  <2>5. Single' BY <2>1, <2>3, <2>4, NothingOnce, NothingInNoParts, SingleOfWorkers
  <2>6. Apart' BY <2>1, <2>2, ApartKept
  <2>7. Owned' BY <2>1, <2>2, OwnedSame DEF row
  <2> QED BY <2>5, <2>6, <2>7
<1>2. ASSUME ranges[w] # <<>>
      PROVE  /\ Head(ranges[w]) \in Seq(Completion) /\ Tail(ranges[w]) \in Seq(Seq(Completion))
             /\ InParts(ranges[w]) = JobsOf(Head(ranges[w])) \cup InParts(Tail(ranges[w]))
             /\ Cut(Tail(ranges[w])) /\ OncePerJob(Head(ranges[w]))
             /\ JobsOf(Head(ranges[w])) \cap InParts(Tail(ranges[w])) = {}
  BY <1>2, PartsByTail DEF Typed, Single
<1>3. Unflushed(w) = JobsOf(buffer[w]) \cup InParts(ranges[w]) BY HeldAreJobs
\* With part of the ranges left, nobody has more than before.
<1>4. ASSUME NEW rest, pc[w] = "flushing", GoOn(w, rest), UNCHANGED <<dispatchers, task, buffer>>,
             Cut(rest), InParts(rest) \subseteq InParts(ranges[w])
      PROVE  /\ Single' /\ Apart'
             /\ \A g \in Group : Undelivered(g)' = Undelivered(g)
             /\ \A v \in Worker : Mine(v)' \subseteq Mine(v)
             /\ Mine(w)' = JobsOf(buffer[w]) \cup InParts(rest)
  <2>1. /\ ranges'[w] = rest /\ \A v \in Worker \ {w} : ranges'[v] = ranges[v]
        /\ InHand(w) = {} /\ InHand(w)' = {}
        /\ Unflushed(w)' = JobsOf(buffer[w]) \cup InParts(rest)
        /\ \A v \in Worker \ {w} : SameFor(v)
        /\ \A g \in Group : Undelivered(g)' = Undelivered(g)
        /\ UNCHANGED <<claimed, channel, buffer>>
    BY <1>4, GoOnMoves
  <2>2. Mine(w)' = JobsOf(buffer[w]) \cup InParts(rest) BY <2>1 DEF Mine
  <2>3. \A v \in Worker : Mine(v)' \subseteq Mine(v) BY <1>3, <1>4, <2>1, <2>2 DEF SameFor, Mine
  <2>4. JobsOf(buffer[w]) \cap InParts(rest) = {} BY <1>4 DEF Single
  <2>5. Single' BY <1>4, <2>1, <2>4, SingleOfWorkers DEF Single
  <2>6. Apart' BY <2>1, <2>3, ApartKept
  <2> QED BY <2>1, <2>2, <2>3, <2>5, <2>6
<1>5. Cut(<<>>) /\ InParts(<<>>) = {} BY NothingInNoParts
<1>6. CASE FlushRange(w)
  <2> DEFINE hit == JobsOf(Head(ranges[w]))
  <2>1. /\ pc[w] = "flushing" /\ ranges[w] # <<>>
        /\ GoOn(w, Tail(ranges[w])) \/ GoOn(w, <<>>)
        /\ UNCHANGED <<dispatchers, task, buffer>>
        /\ \A j \in Job \ hit :
             state'[j] = state[j] /\ owner'[j] = owner[j] /\ keepAlive'[j] = keepAlive[j]
    BY <1>6, FlushRangeMoves
  <2>2. /\ Single' /\ Apart'
        /\ \A g \in Group : Undelivered(g)' = Undelivered(g)
        /\ \A v \in Worker : Mine(v)' \subseteq Mine(v)
        /\ Mine(w)' \subseteq JobsOf(buffer[w]) \cup InParts(Tail(ranges[w]))
    BY <1>2, <1>4, <1>5, <2>1
  <2>3. hit \subseteq Mine(w) BY <1>2, <1>3, <2>1 DEF Mine
  <2>4. Mine(w)' \cap hit = {} BY <1>2, <2>1, <2>2 DEF Single
  <2>5. \A v \in Worker : Mine(v)' \cap hit = {} BY <2>2, <2>3, <2>4 DEF Apart
  <2>6. \A g \in Group : Undelivered(g)' \cap hit = {} BY <2>2, <2>3 DEF Apart
  <2>7. Owned'
    <3> HIDE DEF hit
    <3> QED BY <2>1, <2>2, <2>5, <2>6, OwnedKept, MineAreJobs
  <2> QED BY <2>2, <2>7
<1>7. CASE SplitRange(w)
  <2> DEFINE halves == Halves(Head(ranges[w])) \o Tail(ranges[w])
  <2>1. /\ pc[w] = "flushing" /\ ranges[w] # <<>>
        /\ GoOn(w, Tail(ranges[w])) \/ GoOn(w, halves)
        /\ UNCHANGED <<row, dispatchers, task, buffer>>
    BY <1>7, SplitRangeMoves
  <2>2. Cut(halves) /\ InParts(halves) = InParts(ranges[w])
    BY <1>2, <2>1, PartsOfHalves, PartsByConcat
  <2>3. /\ Single' /\ Apart'
        /\ \A g \in Group : Undelivered(g)' = Undelivered(g)
        /\ \A v \in Worker : Mine(v)' \subseteq Mine(v)
    BY <1>2, <1>4, <2>1, <2>2
  <2> QED BY <2>1, <2>3, OwnedSame DEF row
<1>8. CASE FlushThrows(w)
  <2>1. /\ pc[w] = "flushing" /\ GoOn(w, <<>>)
        /\ UNCHANGED <<row, dispatchers, task, buffer>>
    BY <1>8 DEF FlushThrows
  <2>2. /\ Single' /\ Apart'
        /\ \A g \in Group : Undelivered(g)' = Undelivered(g)
        /\ \A v \in Worker : Mine(v)' \subseteq Mine(v)
    BY <1>4, <1>5, <2>1
  <2> QED BY <2>1, <2>2, OwnedSame DEF row
<1> QED BY <1>1, <1>6, <1>7, <1>8

\* The others keep their hands off the rows that are held: they are Processing and, with
\* handlers that take less than the timeout, never stale.
LEMMA OthersOnce ==
  ASSUME Typed, Working, Single, Apart, Owned, ~LongHandlers, NEW j \in Job,
         Publish(j) \/ KeepAliveAges(j) \/ RecoverStale(j) \/ DeleteJob(j) \/ RequeueJob(j)
  PROVE  Single' /\ Apart' /\ Owned'
<1>1. UNCHANGED <<claimed, channel, workers>>
  BY DEF Publish, KeepAliveAges, RecoverStale, DeleteJob, RequeueJob, dispatchers
<1>2. /\ \A g \in Group : Undelivered(g)' = Undelivered(g)
      /\ \A w \in Worker : SameFor(w) /\ buffer'[w] = buffer[w] /\ ranges'[w] = ranges[w]
  BY <1>1, SameDispatchers, SameWorkers DEF workers, SameFor
<1>3. \A w \in Worker : Mine(w)' = Mine(w) BY <1>2 DEF SameFor, Mine
<1>4. Single' BY <1>1, <1>2 DEF Single, SameFor
<1>5. Apart' BY <1>2, <1>3, ApartKept
<1>6. \A i \in Job \ {j} : state'[i] = state[i] /\ owner'[i] = owner[i] /\ keepAlive'[i] = keepAlive[i]
  BY DEF Publish, KeepAliveAges, RecoverStale, DeleteJob, RequeueJob, Typed
<1>7. Held(j) <=> (\E g \in Group : j \in Undelivered(g)) \/ (\E w \in Worker : j \in Mine(w))
  BY DEF Held, Mine
<1>8. CASE Held(j)
  <2>1. Alive(j) BY <1>7, <1>8 DEF Owned
  <2>2. UNCHANGED <<state, owner, keepAlive>>
    BY <1>8, <2>1
    DEF Alive, Publish, KeepAliveAges, MayAge, RecoverStale, DeleteJob, RequeueJob, Finished
  <2> QED BY <1>2, <1>3, <1>4, <1>5, <2>2, OwnedSame
<1>9. CASE ~Held(j)
  <2>1. /\ \A g \in Group : Undelivered(g)' \cap {j} = {}
        /\ \A w \in Worker : Mine(w)' \cap {j} = {}
    BY <1>2, <1>3, <1>7, <1>9
  <2>2. Owned' BY <1>2, <1>3, <1>6, <2>1, OwnedKept, MineAreJobs
  <2> QED BY <1>4, <1>5, <2>2
<1> QED BY <1>8, <1>9

OnceInv == Typed /\ Delivering /\ Working /\ Single /\ Apart /\ Owned

LEMMA InitOnce == Init => OnceInv
<1> SUFFICES ASSUME Init PROVE OnceInv OBVIOUS
<1>1. Typed /\ Delivering /\ Working BY InitTyped
<1>2. /\ \A g \in Group : claimed[g] = <<>> /\ channel[g] = <<>>
      /\ \A w \in Worker : pc[w] = "idle" /\ buffer[w] = <<>> /\ ranges[w] = <<>>
  BY DEF Init
<1>3. \A g \in Group : Undelivered(g) = {} BY <1>2, NothingInNoParts DEF Undelivered
<1>4. \A w \in Worker : InHand(w) = {} /\ Unflushed(w) = {}
  BY <1>1, <1>2, NothingInNoParts, HeldAreJobs DEF InHand
<1>5. Single BY <1>2, <1>4, NothingInNoParts, NothingOnce DEF Single
<1>6. Apart /\ Owned BY <1>3, <1>4 DEF Apart, Owned, Mine
<1> QED BY <1>1, <1>5, <1>6 DEF OnceInv

LEMMA StepOnce == ~LongHandlers /\ OnceInv /\ [Next]_vars => OnceInv'
<1> SUFFICES ASSUME ~LongHandlers, OnceInv, [Next]_vars PROVE OnceInv' OBVIOUS
<1> USE DEF OnceInv
<1>1. Typed' /\ Delivering' /\ Working' BY StepTyped
<1>2. ASSUME NEW g \in Group, Claim(g) PROVE Single' /\ Apart' /\ Owned' BY <1>2, ClaimOnce
<1>3. ASSUME NEW g \in Group, Deliver(g) \/ Shutdown(g) \/ Unclaim(g) \/ StopPolling(g) \/ Crash(g)
      PROVE  Single' /\ Apart' /\ Owned'
  BY <1>3, DispatcherOnce
<1>4. ASSUME NEW w \in Worker, Receive(w) PROVE Single' /\ Apart' /\ Owned' BY <1>4, ReceiveOnce
<1>5. ASSUME NEW w \in Worker,
             \/ Begin(w) \/ BeginFails(w) \/ MonitorRead(w) \/ MonitorUpdate(w)
             \/ MonitorStop(w) \/ HandlerEnds(w) \/ Complete(w) \/ StopWorker(w)
      PROVE  Single' /\ Apart' /\ Owned'
  BY <1>5, WorkerOnce
<1>6. ASSUME NEW w \in Worker, StartFlush(w) \/ FlushRange(w) \/ SplitRange(w) \/ FlushThrows(w)
      PROVE  Single' /\ Apart' /\ Owned'
  BY <1>6, FlushOnce
<1>7. ASSUME NEW j \in Job,
             Publish(j) \/ KeepAliveAges(j) \/ RecoverStale(j) \/ DeleteJob(j) \/ RequeueJob(j)
      PROVE  Single' /\ Apart' /\ Owned'
  BY <1>7, OthersOnce
<1>8. CASE UNCHANGED vars
  <2>1. UNCHANGED <<state, owner, keepAlive, claimed, channel, pc, task, buffer, ranges>>
    BY <1>8 DEF vars, row, dispatchers, workers
  <2>2. /\ \A g \in Group : Undelivered(g)' = Undelivered(g)
        /\ \A w \in Worker : SameFor(w)
    BY <2>1, SameDispatchers, SameWorkers DEF SameFor
  <2>3. \A w \in Worker : Mine(w)' = Mine(w) BY <2>2 DEF SameFor, Mine
  <2>4. Single' BY <2>1, <2>2 DEF Single, SameFor
  <2>5. Apart' BY <2>2, <2>3, ApartKept
  <2>6. Owned' BY <2>1, <2>2, <2>3, OwnedSame
  <2> QED BY <1>1, <2>4, <2>5, <2>6
<1> QED BY <1>1, <1>2, <1>3, <1>4, <1>5, <1>6, <1>7, <1>8 DEF Next

\* Disjoint places, one of which has the job: it is in one place.
LEMMA OnceIsHeldOnce == OnceInv => HeldOnce
<1> SUFFICES ASSUME OnceInv, NEW j \in Job, Held(j)
             PROVE  /\ Places(j) = 1 /\ state[j] = "Processing"
                    /\ \A g \in Group : j \in Undelivered(g) => owner[j] = g
                    /\ \A w \in Worker : j \in InHand(w) \cup Unflushed(w) => owner[j] \in {w, GroupOf[w]}
  BY DEF HeldOnce
<1>1. Single /\ Apart /\ Owned BY DEF OnceInv
<1> DEFINE gs == {g \in Group : j \in Undelivered(g)}
           hs == {w \in Worker : j \in InHand(w)}
           us == {w \in Worker : j \in Unflushed(w)}
<1>2. Places(j) = Cardinality(gs) + Cardinality(hs) + Cardinality(us) BY DEF Places
<1>3. Cardinality({}) = 0 /\ \A x : Cardinality({x}) = 1 BY FS_EmptySet, FS_Singleton
<1>4. ASSUME \E g \in Group : j \in Undelivered(g) PROVE Places(j) = 1
  <2>1. PICK g \in Group : j \in Undelivered(g) BY <1>4
  <2>2. gs = {g} /\ hs = {} /\ us = {} BY <1>1, <2>1 DEF Apart, Mine
  <2> HIDE DEF gs, hs, us
  <2>3. Cardinality(gs) = 1 /\ Cardinality(hs) = 0 /\ Cardinality(us) = 0 BY <1>3, <2>2
  <2> QED BY <1>2, <2>3
<1>5. ASSUME \E w \in Worker : j \in InHand(w) PROVE Places(j) = 1
  <2>1. PICK w \in Worker : j \in InHand(w) BY <1>5
  <2>2. gs = {} /\ hs = {w} /\ us = {} BY <1>1, <2>1 DEF Apart, Single, Mine
  <2> HIDE DEF gs, hs, us
  <2>3. Cardinality(gs) = 0 /\ Cardinality(hs) = 1 /\ Cardinality(us) = 0 BY <1>3, <2>2
  <2> QED BY <1>2, <2>3
<1>6. ASSUME \E w \in Worker : j \in Unflushed(w) PROVE Places(j) = 1
  <2>1. PICK w \in Worker : j \in Unflushed(w) BY <1>6
  <2>2. gs = {} /\ hs = {} /\ us = {w} BY <1>1, <2>1 DEF Apart, Single, Mine
  <2> HIDE DEF gs, hs, us
  <2>3. Cardinality(gs) = 0 /\ Cardinality(hs) = 0 /\ Cardinality(us) = 1 BY <1>3, <2>2
  <2> QED BY <1>2, <2>3
<1>7. Places(j) = 1
  <2>1. (\E g \in Group : j \in Undelivered(g)) \/ (\E w \in Worker : j \in InHand(w))
        \/ (\E w \in Worker : j \in Unflushed(w))
    BY DEF Held
  <2> QED BY <2>1, <1>4, <1>5, <1>6
<1>8. state[j] = "Processing"
  <2>1. (\E g \in Group : j \in Undelivered(g)) \/ (\E w \in Worker : j \in Mine(w))
    BY DEF Held, Mine
  <2> QED BY <1>1, <2>1 DEF Owned, Alive
<1>9. \A g \in Group : j \in Undelivered(g) => owner[j] = g BY <1>1 DEF Owned
<1>10. \A w \in Worker : j \in InHand(w) \cup Unflushed(w) => owner[j] \in {w, GroupOf[w]}
  BY <1>1 DEF Owned, Mine
<1> QED BY <1>7, <1>8, <1>9, <1>10

-------------------------------------------------------------------------------
(* The counters.                                                           *)

\* A row that goes from one state to another, counted as such, still counts once.
LEMMA MovedCounts ==
  ASSUME NEW j \in Job, StatsAgree, NEW t, stats'[j] = Moved(j, state[j], t)
  PROVE  stats'[j] = [f \in Finished |-> One(f = t)]
<1>1. \A f \in Finished : stats[j][f] = One(f = state[j]) BY DEF StatsAgree
<1>2. \A f \in Finished : One(f = state[j]) + One(f = t) - One(f = state[j]) = One(f = t) BY DEF One
<1>3. stats'[j] = [f \in Finished |-> stats[j][f] + One(f = t) - One(f = state[j])] BY DEF Moved
<1> QED BY <1>1, <1>2, <1>3

\* Where no counter moves, the row was not counted and is not.
LEMMA UncountedStays ==
  ASSUME NEW j \in Job, StatsAgree, stats'[j] = stats[j],
         state'[j] = state[j] \/ (state[j] \notin Finished /\ state'[j] \notin Finished)
  PROVE  stats'[j] = [f \in Finished |-> One(f = state'[j])]
<1>1. \A f \in Finished : One(f = state[j]) = One(f = state'[j]) BY DEF One
<1> QED BY <1>1 DEF StatsAgree

LEMMA StepStatsAgree == OnceInv /\ StatsAgree /\ [Next]_vars => StatsAgree'
<1> SUFFICES ASSUME OnceInv, StatsAgree, [Next]_vars, NEW j \in Job
             PROVE  stats'[j] = [f \in Finished |-> One(f = state'[j])]
  BY DEF StatsAgree
<1> DEFINE Agree == stats'[j] = [f \in Finished |-> One(f = state'[j])]
<1>0. Typed /\ Delivering /\ Working /\ Single /\ Apart /\ Owned BY DEF OnceInv
<1>1. ASSUME NEW g \in Group, Claim(g) PROVE Agree
  <2>1. stats'[j] = stats[j] BY <1>1 DEF Claim
  <2>2. state'[j] = state[j] \/ (state[j] = "Enqueued" /\ state'[j] = "Processing")
    BY <1>1 DEF Claim
  <2> QED BY <2>1, <2>2, UncountedStays DEF Finished
<1>2. ASSUME NEW g \in Group, Unclaim(g) PROVE Agree
  <2>1. \A i \in ToSet(claimed[g]) : state[i] = "Processing" BY <1>0 DEF Owned, Alive, Undelivered
  <2>2. /\ stats'[j] = stats[j]
        /\ state'[j] = state[j] \/ (j \in ToSet(claimed[g]) /\ state'[j] = "Enqueued")
    BY <1>0, <1>2, UnclaimMoves
  <2> QED BY <2>1, <2>2, UncountedStays DEF Finished
<1>3. ASSUME NEW w \in Worker, FlushRange(w) PROVE Agree
  <2>1. /\ ranges[w] # <<>>
        /\ \/ j \in JobsOf(Head(ranges[w])) /\ stats'[j] = Moved(j, "Processing", state'[j])
           \/ state'[j] = state[j] /\ stats'[j] = stats[j]
    BY <1>0, <1>3, FlushRangeMoves
  <2>2. JobsOf(Head(ranges[w])) \subseteq Mine(w) BY <1>0, <2>1, PartsByTail, HeldAreJobs DEF Mine, Typed
  <2>3. CASE j \in JobsOf(Head(ranges[w])) /\ stats'[j] = Moved(j, "Processing", state'[j])
    <3>1. state[j] = "Processing" BY <1>0, <2>2, <2>3 DEF Owned, Alive
    <3> QED BY <2>3, <3>1, MovedCounts
  <2>4. CASE state'[j] = state[j] /\ stats'[j] = stats[j] BY <2>4, UncountedStays
  <2> QED BY <2>1, <2>3, <2>4
<1>4. ASSUME state'[j] = state[j] /\ stats'[j] = stats[j] PROVE Agree BY <1>4, UncountedStays
<1>5. ASSUME NEW g \in Group, Deliver(g) \/ Shutdown(g) \/ StopPolling(g) \/ Crash(g) PROVE Agree
  <2>1. UNCHANGED <<state, stats>>
    BY <1>5 DEF Deliver, Shutdown, StopPolling, Crash, row, accounts
  <2> QED BY <2>1, <1>4
<1>6. ASSUME NEW w \in Worker,
             \/ Receive(w) \/ Begin(w) \/ BeginFails(w) \/ MonitorRead(w) \/ MonitorUpdate(w)
             \/ MonitorStop(w) \/ HandlerEnds(w) \/ Complete(w) \/ StopWorker(w)
      PROVE  Agree
  <2>1. UNCHANGED <<state, stats>>
    BY <1>6 DEF Receive, Begin, BeginFails, MonitorRead, MonitorUpdate, MonitorStop, HandlerEnds,
       Complete, StopWorker, row, accounts
  <2> QED BY <2>1, <1>4
<1>7. ASSUME NEW w \in Worker, StartFlush(w) \/ SplitRange(w) \/ FlushThrows(w) PROVE Agree
  <2>1. UNCHANGED <<state, stats>>
    BY <1>7 DEF StartFlush, SplitRange, FlushThrows, row, accounts
  <2> QED BY <2>1, <1>4
<1>8. ASSUME NEW i \in Job, Publish(i) PROVE Agree
  <2>1. stats'[j] = stats[j] BY <1>8 DEF Publish, accounts
  <2>2. state'[j] = state[j] \/ (state[j] = "Absent" /\ state'[j] = "Enqueued")
    BY <1>0, <1>8 DEF Publish, Typed
  <2> QED BY <2>1, <2>2, UncountedStays DEF Finished
<1>9. ASSUME NEW i \in Job, KeepAliveAges(i) PROVE Agree
  BY <1>4, <1>9 DEF KeepAliveAges, accounts
<1>10. ASSUME NEW i \in Job, RecoverStale(i) \/ DeleteJob(i) \/ RequeueJob(i) PROVE Agree
  <2>1. CASE i # j
    <3>1. state'[j] = state[j] /\ stats'[j] = stats[j]
      BY <1>0, <1>10, <2>1 DEF RecoverStale, DeleteJob, RequeueJob, Typed
    <3> QED BY <1>4, <3>1
  <2>2. CASE i = j
    <3>1. \/ stats'[j] = Moved(j, state[j], state'[j])
          \/ state'[j] = state[j] /\ stats'[j] = stats[j]
      BY <1>0, <1>10, <2>2 DEF RecoverStale, DeleteJob, RequeueJob, Typed
    <3> QED BY <3>1, <1>4, MovedCounts
  <2> QED BY <2>1, <2>2
<1>11. CASE UNCHANGED vars BY <1>4, <1>11 DEF vars, row, accounts
<1> QED
  BY <1>1, <1>2, <1>3, <1>5, <1>6, <1>7, <1>8, <1>9, <1>10, <1>11 DEF Next

-------------------------------------------------------------------------------
\* The columns and everything in memory keep their types.
THEOREM TypeCorrect == Spec => []TypeOK
<1>1. Typed => TypeOK BY DEF Typed, TypeOK
<1> QED BY <1>1, InitTyped, StepTyped, PTL DEF Spec

\* However claims, hand-overs, flushes, shutdowns, failing statements and crashes
\* interleave, a row that is Processing is held by somebody or was given up because
\* something failed; long handlers change nothing about it.
THEOREM NothingIsEverLost == Spec => []NothingIsLost
<1>1. Init => NothingIsLost BY DEF Init, NothingIsLost
<1> QED BY <1>1, InitTyped, StepTyped, StepNothingIsLost, PTL DEF Spec

\* While handlers take less than InvisibilityTimeout, for any number of dispatchers and
\* workers and whatever fails: a job is in one place, and the row's owner has it.
THEOREM JobsAreHeldOnce == ASSUME ~LongHandlers PROVE Spec => []HeldOnce
<1> QED BY InitOnce, StepOnce, OnceIsHeldOnce, PTL DEF Spec

\* Then the counters agree with the rows, however the buffers were cut up to be written.
THEOREM CountersAgree == ASSUME ~LongHandlers PROVE Spec => []StatsAgree
<1>1. Init => StatsAgree
  <2> SUFFICES ASSUME Init, NEW j \in Job PROVE stats[j] = [f \in Finished |-> One(f = state[j])]
    BY DEF StatsAgree
  <2>1. \A f \in Finished : One(f = state[j]) = 0 BY DEF Init, Finished, One
  <2> QED BY <2>1 DEF Init
<1> QED BY <1>1, InitOnce, StepOnce, StepStatsAgree, PTL DEF Spec
=============================================================================
