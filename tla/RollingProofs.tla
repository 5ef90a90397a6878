---------------------------- MODULE RollingProofs ----------------------------
(***************************************************************************)
(* Theorems about Rolling and RollingRenew, for any counts asked for,      *)
(* either runtime, any faults and any number of runs.                      *)
(***************************************************************************)
EXTENDS RollingRenew, FiniteSetTheorems, FunctionTheorems, TLAPS

-----------------------------------------------------------------------------
\* The split of the sorted list: the copies kept are at most n, and some copy
\* is kept.
LEMMA KeptOfSplit ==
  ASSUME NEW S \in SUBSET Copy, IsFiniteSet(S), \A c, d \in S : c.copy = d.copy => c = d,
         NEW n \in Nat \ {0}
  PROVE  /\ BeyondFirst(S, n) \subseteq S
         /\ Cardinality(S \ BeyondFirst(S, n)) <= n
         /\ S # {} => S \ BeyondFirst(S, n) # {}
<1> DEFINE Upto(c) == {d \in S : d.copy <= c.copy}
<1> DEFINE r == [c \in S |-> Cardinality(Upto(c))]
<1> DEFINE Z(i) == 1..i
<1>1. Cardinality(S) \in Nat /\ \A c \in S : c.copy \in Nat
  BY FS_CardinalityType DEF Copy
<1>2. \A c \in S : /\ IsFiniteSet(Upto(c)) /\ Cardinality(Upto(c)) \in Nat
                   /\ 0 < Cardinality(Upto(c)) /\ Cardinality(Upto(c)) <= Cardinality(S)
  <2> SUFFICES ASSUME NEW c \in S
               PROVE  /\ IsFiniteSet(Upto(c)) /\ Cardinality(Upto(c)) \in Nat
                      /\ 0 < Cardinality(Upto(c)) /\ Cardinality(Upto(c)) <= Cardinality(S)
    OBVIOUS
  <2>1. Upto(c) \in SUBSET S
    OBVIOUS
  <2>2. c \in Upto(c)
    BY <1>1
  <2> HIDE DEF Upto
  <2>3. IsFiniteSet(Upto(c)) /\ Cardinality(Upto(c)) <= Cardinality(S)
    BY <2>1, FS_Subset
  <2>4. Cardinality(Upto(c)) \in Nat /\ Cardinality(Upto(c)) # 0
    BY <2>2, <2>3, FS_CardinalityType, FS_EmptySet
  <2> QED
    BY <1>1, <2>3, <2>4
<1>3. ASSUME NEW c \in S, NEW d \in S, c.copy < d.copy PROVE Cardinality(Upto(c)) < Cardinality(Upto(d))
  <2>a. \A x, y, z \in Nat : x <= y /\ y < z => x <= z
    OBVIOUS
  <2>b. \A x, y \in Nat : x < y => ~(y <= x)
    OBVIOUS
  <2>1. Upto(c) \in SUBSET Upto(d)
    BY <1>1, <1>3, <2>a
  <2>2. d \in Upto(d) /\ d \notin Upto(c)
    BY <1>1, <1>3, <2>b
  <2>3. IsFiniteSet(Upto(d)) /\ Cardinality(Upto(d)) \in Nat /\ Cardinality(Upto(c)) \in Nat
    BY <1>2
  <2> HIDE DEF Upto
  <2>4. Cardinality(Upto(c)) <= Cardinality(Upto(d)) /\ Cardinality(Upto(d)) # Cardinality(Upto(c))
    BY <2>1, <2>2, <2>3, FS_Subset
  <2> QED
    BY <2>3, <2>4
<1>4. \A c \in S : r[c] = Cardinality(Upto(c))
  OBVIOUS
<1>5. r \in [S -> Z(Cardinality(S))]
  <2>1. \A c \in S : Cardinality(Upto(c)) \in Z(Cardinality(S))
    BY <1>1, <1>2
  <2> HIDE DEF Upto, Z
  <2> QED
    BY <2>1
<1>6. BeyondFirst(S, n) = {c \in S : Cardinality(Upto(c)) > n}
  BY DEF BeyondFirst
<1> HIDE DEF r, Upto
<1>7. ASSUME NEW c \in S, NEW d \in S, r[c] = r[d] PROVE c = d
  <2>1. r[c] \in Nat /\ r[d] \in Nat
    BY <1>2, <1>4
  <2>2. c.copy < d.copy \/ d.copy < c.copy \/ c.copy = d.copy
    BY <1>1
  <2> QED
    BY <1>3, <1>4, <1>7, <2>1, <2>2
<1>8. \A i \in Nat : IsFiniteSet(Z(i)) /\ Cardinality(Z(i)) = i
  <2> SUFFICES ASSUME NEW i \in Nat PROVE IsFiniteSet(Z(i)) /\ Cardinality(Z(i)) = i
    OBVIOUS
  <2>1. IsFiniteSet(1..i) /\ Cardinality(1..i) = IF 1 > i THEN 0 ELSE i - 1 + 1
    BY FS_Interval
  <2> QED
    BY <2>1
<1>9. \A i \in Nat : 0 < i /\ i <= n => i \in Z(n)
  OBVIOUS
<1>10. \A i \in Nat : 0 < i => 1 \in Z(i)
  OBVIOUS
<1> HIDE DEF Z
<1> DEFINE K == S \ BeyondFirst(S, n)
<1> DEFINE g == [c \in K |-> r[c]]
<1>11. K \subseteq S /\ \A c \in S : c \in K <=> r[c] <= n
  <2>1. \A i \in Nat : ~(i > n) <=> i <= n
    OBVIOUS
  <2> QED
    BY <1>2, <1>4, <1>6, <2>1
<1>12. g \in [K -> Z(n)]
  <2>1. \A c \in K : r[c] \in Z(n)
    BY <1>2, <1>4, <1>9, <1>11
  <2> QED
    BY <2>1
<1>13. \A c, d \in K : g[c] = g[d] => c = d
  BY <1>7, <1>11
<1> HIDE DEF K, g
<1>14. Cardinality(K) <= n
  <2>1. g \in Injection(K, Z(n))
    BY <1>12, <1>13, Fun_IsInj
  <2> QED
    BY <1>8, <2>1, FS_Injection
<1>15. ASSUME S # {} PROVE K # {}
  <2>1. r \in Injection(S, Z(Cardinality(S)))
    BY <1>5, <1>7, Fun_IsInj
  <2>2. r \in Surjection(S, Z(Cardinality(S)))
    BY <1>1, <1>8, <2>1, FS_Injection
  <2>3. 0 < Cardinality(S)
    BY <1>1, <1>15, FS_EmptySet
  <2>4. PICK c \in S : r[c] = 1
    BY <1>1, <1>10, <2>2, <2>3, Fun_SurjectionProperties
  <2>5. 1 <= n
    OBVIOUS
  <2> QED
    BY <1>11, <2>4, <2>5
<1> QED
  BY <1>6, <1>14, <1>15 DEF K

-----------------------------------------------------------------------------
(* The invariant. *)

Replacing == job.op = "replace_all"

\* The old copy goes before its replacement starts.
StopsFirst == old # {} /\ job.order = "StopFirst"
\* Its replacement runs before the old copy goes.
Overlaps == old # {} /\ job.order = "Overlap"

\* Between runs nothing is left to do.
RestInv == pc \in Ended => surplus = {} /\ old = {} /\ fresh = {} /\ victim = {}

\* The run's list and what it holds apart from it are what the runtime has.
ListInv ==
  /\ job \in Job /\ job.want > 0
  /\ exists = copies \cup fresh \cup victim
  /\ copies \cap fresh = {} /\ copies \cap victim = {} /\ fresh \cap proven = {}
  /\ surplus \cup old \subseteq copies \cup victim /\ surplus \cap old = {}
  /\ old # {} => Replacing
  /\ copies \cap proven \subseteq routable
  /\ Replacing => \A c \in copies : c \in surplus \cup old \/ (c.run = run /\ c \in routable)

\* Room for one more copy.
StartRoom ==
  /\ victim = {} /\ surplus = {}
  /\ Cardinality(copies) <= job.want
  /\ ~Overlaps => Cardinality(copies) < job.want

\* A copy that stays when the run drains what it has to drain.
StayInv ==
  /\ surplus # {} => copies \ surplus # {} /\ Cardinality(copies \ surplus) <= job.want
  /\ surplus = {} => old # {} /\ (Overlaps => copies \ old # {})

PhaseInv ==
  /\ pc = "start" => fresh = {} /\ StartRoom
  /\ pc = "health" => StartRoom /\ \E c \in Copy : fresh = {c} /\ c.run = run
  /\ pc = "add" =>
       /\ fresh = {} /\ victim = {} /\ surplus = {}
       /\ (copies \cap routable) \ old # {}
       /\ Cardinality(copies) <= job.want + 1
       /\ ~Overlaps => Cardinality(copies) <= job.want
  /\ pc = "drain" =>
       /\ fresh = {} /\ victim = {} /\ StayInv
       /\ surplus = {} => /\ Cardinality(copies) <= job.want + 1
                          /\ ~Overlaps => Cardinality(copies) <= job.want
  /\ pc = "stop" =>
       /\ fresh = {} /\ StayInv
       /\ \E v \in Copy : victim = {v} /\ v \in (IF surplus # {} THEN surplus ELSE old)
       /\ surplus = {} => /\ Cardinality(copies) <= job.want
                          /\ StopsFirst => Cardinality(copies) < job.want

\* What holds of the copies whatever else changes the routes.
RunInv ==
  /\ TypeOK /\ IsFiniteSet(exists) /\ UniqueIndexes /\ NeverAddsUp
  /\ RestInv
  /\ pc \notin Ended => ListInv
  /\ PhaseInv

-----------------------------------------------------------------------------
(* What the shared pieces of the actions do. *)

\* The arguments of a run.
LEMMA JobIs ==
  ASSUME NEW j \in Job
  PROVE  /\ j.want \in Wants /\ j.want \in Nat /\ j.op \in {"replace_all", "scale_to"}
         /\ j.op = "replace_all" => j.order \in {"Overlap", "StopFirst"}
BY WantsAssumption, OrdersAssumption DEF Job

\* The call a run makes next.
LEMMA NextCallIs ==
  ASSUME NEW j, NEW cs, NEW extra, NEW rest
  PROVE  LET next == NextCall(j, cs, extra, rest) IN
         /\ next \in {"start", "drain", "done"}
         /\ next = "drain" => extra # {} \/ (rest # {} /\ j.order # "Overlap")
         /\ next = "start" => /\ extra = {}
                              /\ rest # {} => j.order = "Overlap"
                              /\ rest = {} => Cardinality(cs) < j.want
         /\ next = "done" => extra = {} /\ rest = {} /\ ~(Cardinality(cs) < j.want)
BY Zenon DEF NextCall

\* Fewer copies keep their indexes apart and do not add up.
LEMMA FewerCopies ==
  ASSUME RunInv, exists' \subseteq exists
  PROVE  IsFiniteSet(exists)' /\ UniqueIndexes' /\ NeverAddsUp'
<1>1. IsFiniteSet(exists') /\ Cardinality(exists') <= Cardinality(exists)
  BY FS_Subset DEF RunInv
<1>2. Cardinality(exists') \in Nat /\ Cardinality(exists) \in Nat
  BY <1>1, FS_CardinalityType DEF RunInv
<1>3. PICK w \in Wants : Cardinality(exists) <= w + 1
  BY DEF RunInv, NeverAddsUp
<1>4. Cardinality(exists') <= w + 1
  BY <1>1, <1>2, <1>3, WantsAssumption
<1>5. UniqueIndexes'
  BY DEF RunInv, UniqueIndexes
<1> QED
  BY <1>1, <1>4, <1>5 DEF NeverAddsUp

\* A copy started at the lowest free index, when no more than want are there.
LEMMA OneMoreCopy ==
  ASSUME RunInv, pc = "start", NEW n \in 1..(Cardinality(copies) + 1), LowestFree(n, copies),
         exists' = exists \cup {[copy |-> n, run |-> run]}
  PROVE  /\ [copy |-> n, run |-> run] \in Copy /\ [copy |-> n, run |-> run] \notin exists
         /\ IsFiniteSet(exists)' /\ UniqueIndexes' /\ NeverAddsUp'
<1> DEFINE c == [copy |-> n, run |-> run]
<1>1. ListInv /\ StartRoom /\ fresh = {}
  BY DEF RunInv, PhaseInv, Ended
<1>2. exists = copies
  BY <1>1 DEF ListInv, StartRoom
<1>3. \A d \in exists : d.copy # n
  BY <1>2 DEF LowestFree, Indexes
<1>4. Cardinality(copies) \in Nat
  BY <1>2, FS_CardinalityType DEF RunInv
<1>5. n \in Nat \ {0}
  BY <1>4
<1>6. c \in Copy /\ c.copy = n
  BY <1>5 DEF RunInv, TypeOK, Copy
<1>7. c \notin exists
  BY <1>3, <1>6
<1> HIDE DEF c
<1>8. exists' = exists \cup {c}
  BY DEF c
<1>9. IsFiniteSet(exists') /\ Cardinality(exists') = Cardinality(copies) + 1
  BY <1>2, <1>7, <1>8, FS_AddElement DEF RunInv
<1>10. UniqueIndexes'
  BY <1>3, <1>6, <1>8 DEF RunInv, UniqueIndexes
<1>11. job.want \in Wants /\ job.want \in Nat /\ Cardinality(copies) <= job.want
  BY <1>1, JobIs DEF ListInv, StartRoom
<1>12. Cardinality(exists') <= job.want + 1
  BY <1>4, <1>9, <1>11
<1> QED
  BY <1>6, <1>7, <1>9, <1>10, <1>11, <1>12 DEF c, NeverAddsUp

\* A run that fails leaves an invariant world.
LEMMA ReturnKeeps ==
  ASSUME RunInv, Return("failed"), IsFiniteSet(exists)', UniqueIndexes', NeverAddsUp',
         (exists \subseteq Copy /\ up \subseteq exists /\ proven \subseteq up /\ routes \subseteq Copy)'
  PROVE  RunInv'
<1>1. pc' = "failed" /\ pc' \in Ended
  BY DEF Return, Ended
<1>2. TypeOK'
  BY <1>1 DEF RunInv, TypeOK, Return
<1>3. RestInv'
  BY DEF Return, RestInv
<1>4. PhaseInv'
  BY <1>1 DEF PhaseInv
<1> QED
  BY <1>1, <1>2, <1>3, <1>4 DEF RunInv

\* A run that goes on with its next call has the room that call needs.
LEMMA GoesOn ==
  ASSUME ListInv', IsFiniteSet(copies)', fresh' = {}, victim' = {},
         pc' = NextCall(job', copies', surplus', old'),
         surplus' # {} => copies' \ surplus' # {} /\ Cardinality(copies' \ surplus') <= job'.want,
         surplus' = {} => Cardinality(copies') <= job'.want
  PROVE  /\ RestInv' /\ PhaseInv' /\ pc' \in {"start", "drain", "done"}
         /\ pc' = "done" => surplus' = {} /\ old' = {} /\ Cardinality(copies') = job'.want
<1> DEFINE k == Cardinality(copies')
<1> DEFINE w == job'.want
<1>1. k \in Nat /\ w \in Nat
  BY FS_CardinalityType, JobIs DEF ListInv
<1>2. /\ pc' \in {"start", "drain", "done"}
      /\ pc' = "drain" => surplus' # {} \/ (old' # {} /\ job'.order # "Overlap")
      /\ pc' = "start" => /\ surplus' = {}
                          /\ old' # {} => job'.order = "Overlap"
                          /\ old' = {} => k < w
      /\ pc' = "done" => surplus' = {} /\ old' = {} /\ ~(k < w)
  BY NextCallIs
<1>3. surplus' = {} => k <= w
  OBVIOUS
<1> HIDE DEF k, w
<1>4. surplus' = {} => k <= w + 1
  BY <1>1, <1>3
<1>5. pc' = "start" => StartRoom'
  BY <1>2, <1>3 DEF StartRoom, Overlaps, k, w
<1>6. pc' = "drain" => StayInv'
  BY <1>2 DEF StayInv, Overlaps
<1>7. PhaseInv'
  BY <1>2, <1>3, <1>4, <1>5, <1>6 DEF PhaseInv, k, w
<1>8. RestInv'
  BY <1>2 DEF RestInv, Ended
<1>9. pc' = "done" => k = w
  BY <1>1, <1>2, <1>3
<1> QED
  BY <1>2, <1>7, <1>8, <1>9 DEF k, w

-----------------------------------------------------------------------------
(* The steps. *)

LEMMA StepBegin ==
  ASSUME RunInv, NEW j \in Job, Begin(j)
  PROVE  RunInv' /\ ListInv' /\ (pc' = "done" => surplus' = {} /\ old' = {} /\ Cardinality(copies') = job'.want)
<1>1. /\ job' = j /\ j.want > 0 /\ run' = run + 1 /\ copies' = exists /\ fresh' = {} /\ victim' = {}
      /\ surplus' = BeyondFirst(exists, j.want)
      /\ old' = IF j.op = "replace_all" THEN exists \ surplus' ELSE {}
      /\ routable' = IF Runtime = "container" THEN up ELSE exists
      /\ pc' = NextCall(job', copies', surplus', old')
      /\ exists' = exists /\ up' = up /\ proven' = proven /\ routes' = routes
  BY DEF Begin, worldVars
<1>2. exists \subseteq Copy /\ IsFiniteSet(exists) /\ UniqueIndexes /\ up \subseteq exists /\ proven \subseteq up
  BY DEF RunInv, TypeOK
<1>3. j.want \in Nat \ {0}
  BY <1>1, JobIs
<1>4. /\ surplus' \subseteq exists /\ Cardinality(exists \ surplus') <= j.want
      /\ exists # {} => exists \ surplus' # {}
  BY <1>1, <1>2, <1>3, KeptOfSplit DEF UniqueIndexes
<1>5. ListInv'
  BY <1>1, <1>2, <1>4 DEF ListInv, Replacing
<1>6. surplus' # {} => copies' \ surplus' # {} /\ Cardinality(copies' \ surplus') <= job'.want
  BY <1>1, <1>4
<1>7. surplus' = {} => Cardinality(copies') <= job'.want
  <2>1. surplus' = {} => exists \ surplus' = exists
    OBVIOUS
  <2> QED
    BY <1>1, <1>4, <2>1
<1>8. /\ RestInv' /\ PhaseInv' /\ pc' \in {"start", "drain", "done"}
      /\ pc' = "done" => surplus' = {} /\ old' = {} /\ Cardinality(copies') = job'.want
  BY <1>1, <1>2, <1>5, <1>6, <1>7, GoesOn
<1>9. IsFiniteSet(exists)' /\ UniqueIndexes' /\ NeverAddsUp'
  BY <1>1, FewerCopies
<1>10. TypeOK'
  <2>1. run' \in Nat
    BY <1>1 DEF RunInv, TypeOK
  <2>2. pc' \in Ended \cup {"start", "health", "add", "drain", "stop"}
    BY <1>8 DEF Ended
  <2>3. old' \subseteq Copy /\ surplus' \subseteq Copy /\ routable' \subseteq Copy
    BY <1>1, <1>2, <1>4
  <2> QED
    BY <1>1, <1>2, <2>1, <2>2, <2>3 DEF RunInv, TypeOK
<1> QED
  BY <1>5, <1>8, <1>9, <1>10 DEF RunInv

LEMMA StepStartCopy == RunInv /\ StartCopy => RunInv'
<1> SUFFICES ASSUME RunInv, StartCopy PROVE RunInv'
  OBVIOUS
<1>1. PICK n \in 1..(Cardinality(copies) + 1) :
        LowestFree(n, copies) /\ fresh' = {[copy |-> n, run |-> run]}
        /\ exists' = exists \cup {[copy |-> n, run |-> run]} /\ up' = up \cup {[copy |-> n, run |-> run]}
  BY DEF StartCopy
<1>2. /\ pc = "start" /\ pc' = "health"
      /\ UNCHANGED <<run, job, copies, routable, surplus, old, victim, proven, routes>>
  BY DEF StartCopy
<1> DEFINE c == [copy |-> n, run |-> run]
<1>3. c \in Copy /\ c \notin exists /\ IsFiniteSet(exists)' /\ UniqueIndexes' /\ NeverAddsUp'
  BY <1>1, <1>2, OneMoreCopy
<1>4. c.run = run
  OBVIOUS
<1>5. fresh' = {c} /\ exists' = exists \cup {c} /\ up' = up \cup {c}
  BY <1>1
<1> HIDE DEF c
<1>6. ListInv /\ StartRoom /\ fresh = {}
  BY <1>2 DEF RunInv, PhaseInv, Ended
<1>7. TypeOK'
  BY <1>2, <1>3, <1>5 DEF RunInv, TypeOK
<1>8. ListInv'
  BY <1>2, <1>3, <1>5, <1>6 DEF ListInv, StartRoom, Replacing, RunInv, TypeOK
<1>9. PhaseInv'
  BY <1>2, <1>3, <1>4, <1>5, <1>6 DEF PhaseInv, StartRoom, Overlaps
<1>10. RestInv'
  BY <1>2 DEF RestInv, Ended
<1> QED
  BY <1>3, <1>7, <1>8, <1>9, <1>10 DEF RunInv

LEMMA StepStartFails == RunInv /\ StartFails => RunInv'
<1> SUFFICES ASSUME RunInv, StartFails PROVE RunInv'
  OBVIOUS
<1>1. pc = "start" /\ Return("failed") /\ UNCHANGED <<proven, routes>>
  BY DEF StartFails
<1>2. CASE UNCHANGED <<exists, up>>
  <2>1. IsFiniteSet(exists)' /\ UniqueIndexes' /\ NeverAddsUp'
    BY <1>2, FewerCopies
  <2> QED
    BY <1>1, <1>2, <2>1, ReturnKeeps DEF RunInv, TypeOK
<1>3. ASSUME NEW n \in 1..(Cardinality(copies) + 1), LowestFree(n, copies),
             exists' = exists \cup {[copy |-> n, run |-> run]}, up' \in {up, up \cup {[copy |-> n, run |-> run]}}
      PROVE  RunInv'
  <2>1. /\ [copy |-> n, run |-> run] \in Copy /\ [copy |-> n, run |-> run] \notin exists
        /\ IsFiniteSet(exists)' /\ UniqueIndexes' /\ NeverAddsUp'
    BY <1>1, <1>3, OneMoreCopy
  <2> QED
    BY <1>1, <1>3, <2>1, ReturnKeeps DEF RunInv, TypeOK
<1> QED
  BY <1>2, <1>3 DEF StartFails

LEMMA StepHealthy == RunInv /\ Healthy => RunInv'
<1> SUFFICES ASSUME RunInv, Healthy PROVE RunInv'
  OBVIOUS
<1>1. /\ pc = "health" /\ pc' = "add" /\ fresh \subseteq up /\ fresh' = {}
      /\ proven' = proven \cup fresh /\ copies' = copies \cup fresh /\ routable' = routable \cup fresh
      /\ UNCHANGED <<run, job, surplus, old, victim, exists, up, routes>>
  BY DEF Healthy
<1>2. ListInv /\ StartRoom
  BY <1>1 DEF RunInv, PhaseInv, Ended
<1>3. PICK c \in Copy : fresh = {c} /\ c.run = run
  BY <1>1 DEF RunInv, PhaseInv
<1>4. IsFiniteSet(exists)' /\ UniqueIndexes' /\ NeverAddsUp'
  BY <1>1, FewerCopies
<1>5. TypeOK'
  BY <1>1 DEF RunInv, TypeOK
<1>6. ListInv'
  BY <1>1, <1>2, <1>3 DEF ListInv, StartRoom, Replacing
<1>7. victim' = {} /\ surplus' = {} /\ (copies' \cap routable') \ old' # {}
  BY <1>1, <1>2, <1>3 DEF ListInv, StartRoom
<1>8. /\ Cardinality(copies') <= job'.want + 1
      /\ ~Overlaps' => Cardinality(copies') <= job'.want
  <2>1. copies \in SUBSET exists
    BY <1>2 DEF ListInv
  <2>2. IsFiniteSet(copies) /\ Cardinality(copies) \in Nat
    BY <2>1, FS_Subset, FS_CardinalityType DEF RunInv
  <2>3. Cardinality(copies') = Cardinality(copies) + 1
    BY <1>1, <1>2, <1>3, <2>2, FS_AddElement DEF ListInv
  <2>4. job.want \in Nat
    BY <1>2, JobIs DEF ListInv
  <2>5. Cardinality(copies) <= job.want /\ (~Overlaps' => Cardinality(copies) < job.want)
    BY <1>1, <1>2 DEF StartRoom, Overlaps
  <2>6. job'.want = job.want
    BY <1>1
  <2> QED
    BY <2>2, <2>3, <2>4, <2>5, <2>6
<1>9. PhaseInv'
  BY <1>1, <1>7, <1>8 DEF PhaseInv
<1>10. RestInv'
  BY <1>1 DEF RestInv, Ended
<1> QED
  BY <1>4, <1>5, <1>6, <1>9, <1>10 DEF RunInv

LEMMA StepUnhealthy == RunInv /\ Unhealthy => RunInv'
<1> SUFFICES ASSUME RunInv, Unhealthy PROVE RunInv'
  OBVIOUS
<1>1. /\ pc = "health" /\ Return("failed") /\ UNCHANGED <<proven, routes>>
      /\ \/ exists' = exists \ fresh /\ up' = up \ fresh
         \/ exists' = exists /\ up' \in {up, up \ fresh}
  BY DEF Unhealthy
<1>2. fresh \cap proven = {}
  BY <1>1 DEF RunInv, ListInv, Ended
<1>3. IsFiniteSet(exists)' /\ UniqueIndexes' /\ NeverAddsUp'
  BY <1>1, FewerCopies
<1> QED
  BY <1>1, <1>2, <1>3, ReturnKeeps DEF RunInv, TypeOK

\* A call of the router, the wait for a stop and a kill that end the run leave the world typed.
LEMMA StepOtherFailures ==
  ASSUME RunInv, PublishAddedFails \/ DrainFails \/ StopFails \/ Kill
  PROVE  RunInv'
<1>1. Return("failed") /\ exists' = exists
  BY DEF PublishAddedFails, DrainFails, StopFails, Kill, worldVars
<1>2. routes' \subseteq Copy
  BY DEF PublishAddedFails, DrainFails, StopFails, Kill, worldVars, BackendsOf, RunInv, TypeOK
<1>3. up' \subseteq exists' /\ proven' \subseteq up'
  BY <1>1 DEF PublishAddedFails, DrainFails, StopFails, Kill, worldVars, RunInv, TypeOK
<1>4. IsFiniteSet(exists)' /\ UniqueIndexes' /\ NeverAddsUp'
  BY <1>1, FewerCopies
<1> QED
  BY <1>1, <1>2, <1>3, <1>4, ReturnKeeps DEF RunInv, TypeOK

\* A run that returns Ok has nothing left to do and as many copies as asked for.
OkInv == pc = "done" => surplus = {} /\ old = {} /\ Cardinality(copies) = job.want

LEMMA StepPublishAdded == RunInv /\ PublishAdded => RunInv' /\ ListInv' /\ OkInv'
<1> SUFFICES ASSUME RunInv, PublishAdded PROVE RunInv' /\ ListInv' /\ OkInv'
  OBVIOUS
<1>1. /\ pc = "add" /\ routes' = copies \cap routable
      /\ pc' = IF Overlaps THEN "drain" ELSE NextCall(job, copies, surplus, old)
      /\ UNCHANGED <<run, job, copies, routable, surplus, old, fresh, victim, exists, up, proven>>
  BY DEF PublishAdded, BackendsOf, Overlaps
<1>2. /\ ListInv /\ fresh = {} /\ victim = {} /\ surplus = {}
      /\ (copies \cap routable) \ old # {}
      /\ Cardinality(copies) <= job.want + 1
      /\ ~Overlaps => Cardinality(copies) <= job.want
  BY <1>1 DEF RunInv, PhaseInv, Ended
<1>3. IsFiniteSet(exists)' /\ UniqueIndexes' /\ NeverAddsUp'
  BY <1>1, FewerCopies
<1>4. ListInv'
  BY <1>1, <1>2 DEF ListInv, Replacing
<1>5. RestInv' /\ PhaseInv' /\ pc' \in {"start", "drain", "done"} /\ OkInv'
  <2>1. CASE Overlaps
    <3>1. pc' = "drain" /\ copies \ old # {} /\ old # {}
      BY <1>1, <1>2, <2>1 DEF Overlaps
    <3>2. PhaseInv'
      BY <1>1, <1>2, <2>1, <3>1 DEF PhaseInv, StayInv, Overlaps
    <3> QED
      BY <3>1, <3>2 DEF RestInv, Ended, OkInv
  <2>2. CASE ~Overlaps
    <3>1. pc' = NextCall(job', copies', surplus', old')
      BY <1>1, <2>2
    <3>2. copies' \in SUBSET exists'
      BY <1>1, <1>2 DEF ListInv
    <3>3. IsFiniteSet(copies')
      BY <1>3, <3>2, FS_Subset
    <3>4. surplus' = {} /\ fresh' = {} /\ victim' = {} /\ Cardinality(copies') <= job'.want
      BY <1>1, <1>2, <2>2
    <3> QED
      BY <1>4, <3>1, <3>3, <3>4, GoesOn DEF OkInv
  <2> QED
    BY <2>1, <2>2
<1>6. TypeOK'
  BY <1>1, <1>5 DEF RunInv, TypeOK, Ended
<1> QED
  BY <1>3, <1>4, <1>5, <1>6 DEF RunInv

LEMMA StepDrain == RunInv /\ Drain => RunInv'
<1> SUFFICES ASSUME RunInv, Drain PROVE RunInv'
  OBVIOUS
<1>1. PICK v \in copies :
        /\ IsVictim(v) /\ victim' = {v} /\ copies' = copies \ {v}
        /\ routes' = IF copies' \cap routable = {} THEN routes ELSE copies' \cap routable
  BY DEF Drain, BackendsOf
<1>2. pc = "drain" /\ pc' = "stop" /\ UNCHANGED <<run, job, routable, surplus, old, fresh, exists, up, proven>>
  BY DEF Drain
<1>3. /\ ListInv /\ fresh = {} /\ victim = {} /\ StayInv
      /\ surplus = {} => /\ Cardinality(copies) <= job.want + 1
                         /\ ~Overlaps => Cardinality(copies) <= job.want
  BY <1>2 DEF RunInv, PhaseInv, Ended
<1>4. v \in (IF surplus # {} THEN surplus ELSE old)
  BY <1>1 DEF IsVictim, IsHighest, IsLowest
<1>5. IsFiniteSet(exists)' /\ UniqueIndexes' /\ NeverAddsUp'
  BY <1>2, FewerCopies
<1>6. TypeOK'
  BY <1>1, <1>2 DEF RunInv, TypeOK
<1>7. ListInv'
  BY <1>1, <1>2, <1>3 DEF ListInv, Replacing
<1>8. StayInv'
  <2>1. surplus # {} => copies' \ surplus = copies \ surplus
    BY <1>1, <1>4
  <2>2. surplus = {} => copies' \ old = copies \ old
    BY <1>1, <1>4
  <2> QED
    BY <1>2, <1>3, <2>1, <2>2 DEF StayInv, Overlaps
<1>9. surplus = {} => /\ Cardinality(copies') <= job.want
                      /\ StopsFirst => Cardinality(copies') < job.want
  <2>1. copies \in SUBSET exists
    BY <1>3 DEF ListInv
  <2>2. IsFiniteSet(copies) /\ Cardinality(copies) \in Nat
    BY <2>1, FS_Subset, FS_CardinalityType DEF RunInv
  <2>3. Cardinality(copies') = Cardinality(copies) - 1
    BY <1>1, <2>2, FS_RemoveElement
  <2>4. job.want \in Nat
    BY <1>3, JobIs DEF ListInv
  <2>5. StopsFirst => ~Overlaps
    BY DEF StopsFirst, Overlaps
  <2> QED
    BY <1>3, <2>2, <2>3, <2>4, <2>5
<1>10. PhaseInv'
  BY <1>1, <1>2, <1>3, <1>4, <1>8, <1>9 DEF PhaseInv, StopsFirst, RunInv, TypeOK
<1>11. RestInv'
  BY <1>2 DEF RestInv, Ended
<1> QED
  BY <1>5, <1>6, <1>7, <1>10, <1>11 DEF RunInv

LEMMA StepStopCopy == RunInv /\ StopCopy => RunInv' /\ ListInv' /\ OkInv'
<1> SUFFICES ASSUME RunInv, StopCopy PROVE RunInv' /\ ListInv' /\ OkInv'
  OBVIOUS
<1>1. /\ pc = "stop" /\ exists' = exists \ victim /\ up' = up \ victim /\ proven' = proven \ victim
      /\ surplus' = surplus \ victim /\ old' = old \ victim /\ victim' = {}
      /\ UNCHANGED <<run, job, copies, routable, fresh, routes>>
      /\ pc' = IF victim \subseteq old /\ job.order = "StopFirst" THEN "start"
               ELSE NextCall(job, copies, surplus', old')
  BY DEF StopCopy
<1>2. /\ ListInv /\ fresh = {} /\ StayInv
      /\ surplus = {} => /\ Cardinality(copies) <= job.want
                         /\ StopsFirst => Cardinality(copies) < job.want
  BY <1>1 DEF RunInv, PhaseInv, Ended
<1>3. PICK v \in Copy : victim = {v} /\ v \in (IF surplus # {} THEN surplus ELSE old)
  BY <1>1 DEF RunInv, PhaseInv
<1>4. v \notin copies /\ exists' = copies
  BY <1>1, <1>2, <1>3 DEF ListInv
<1>5. IsFiniteSet(exists)' /\ UniqueIndexes' /\ NeverAddsUp'
  BY <1>1, FewerCopies
<1>6. ListInv'
  BY <1>1, <1>2, <1>3, <1>4 DEF ListInv, Replacing
<1>7. RestInv' /\ PhaseInv' /\ pc' \in {"start", "drain", "done"} /\ OkInv'
  <2>1. CASE v \in old /\ job.order = "StopFirst"
    <3>1. surplus = {} /\ surplus' = {} /\ old # {}
      BY <1>1, <1>2, <1>3, <2>1 DEF ListInv
    <3>2. pc' = "start" /\ Cardinality(copies) <= job.want /\ Cardinality(copies) < job.want
      BY <1>1, <1>2, <1>3, <2>1, <3>1 DEF StopsFirst
    <3>3. PhaseInv'
      BY <1>1, <1>2, <3>1, <3>2 DEF PhaseInv, StartRoom
    <3> QED
      BY <3>2, <3>3 DEF RestInv, Ended, OkInv
  <2>2. CASE ~(v \in old /\ job.order = "StopFirst")
    <3>1. pc' = NextCall(job', copies', surplus', old')
      BY <1>1, <1>3, <2>2
    <3>2. surplus' # {} => copies' \ surplus' # {} /\ Cardinality(copies' \ surplus') <= job'.want
      <4>1. copies' \ surplus' = copies \ surplus
        BY <1>1, <1>3, <1>4
      <4> QED
        BY <1>1, <1>2, <4>1 DEF StayInv
    <3>3. surplus' = {} => Cardinality(copies') <= job'.want
      <4>1. surplus' = {} /\ surplus # {} => copies \ surplus = copies
        BY <1>1, <1>3, <1>4
      <4> QED
        BY <1>1, <1>2, <4>1 DEF StayInv
    <3>4. IsFiniteSet(copies') /\ fresh' = {} /\ victim' = {}
      BY <1>1, <1>2, <1>4, <1>5
    <3> QED
      BY <1>6, <3>1, <3>2, <3>3, <3>4, GoesOn DEF OkInv
  <2> QED
    BY <2>1, <2>2
<1>8. TypeOK'
  BY <1>1, <1>7 DEF RunInv, TypeOK, Ended
<1> QED
  BY <1>5, <1>6, <1>7, <1>8 DEF RunInv

\* Steps that touch neither the lists nor the indexes.
LEMMA StepQuiet ==
  ASSUME RunInv, UNCHANGED vars \/ (\E c \in up : Die(c)) \/ (\E j \in Job : Refused(j))
  PROVE  RunInv'
<1>0. exists' = exists /\ UNCHANGED planVars /\ routes' = routes
  BY DEF vars, Die, Refused, planVars, worldVars
<1>1. IsFiniteSet(exists)' /\ UniqueIndexes' /\ NeverAddsUp'
  BY <1>0, FewerCopies
<1>2. CASE UNCHANGED vars
  BY <1>2 DEF vars, RunInv, TypeOK, UniqueIndexes, NeverAddsUp, RestInv, ListInv, PhaseInv, Replacing,
     StartRoom, StayInv, Overlaps, StopsFirst
<1>3. ASSUME NEW c \in up, Die(c) PROVE RunInv'
  <2>1. UNCHANGED <<pc, run, job, exists, routes, copies, routable, surplus, old, fresh, victim>>
        /\ up' = up \ {c} /\ proven' = proven \ {c}
    BY <1>3 DEF Die, planVars
  <2>2. TypeOK'
    BY <2>1 DEF RunInv, TypeOK
  <2>3. pc' \notin Ended => ListInv'
    BY <2>1 DEF RunInv, ListInv, Replacing
  <2>4. RestInv' /\ PhaseInv'
    BY <2>1 DEF RunInv, RestInv, PhaseInv, StartRoom, StayInv, Overlaps, StopsFirst
  <2> QED
    BY <1>1, <2>2, <2>3, <2>4 DEF RunInv
<1>4. ASSUME NEW j \in Job, Refused(j) PROVE RunInv'
  <2>1. /\ pc \in Ended /\ pc' = "failed" /\ run' = run + 1 /\ job' = j
        /\ UNCHANGED <<exists, up, proven, routes, copies, routable, surplus, old, fresh, victim>>
    BY <1>4 DEF Refused, planVars, worldVars
  <2>2. TypeOK'
    BY <2>1 DEF RunInv, TypeOK, Ended
  <2>3. RestInv' /\ PhaseInv' /\ pc' \in Ended
    BY <2>1 DEF RunInv, RestInv, PhaseInv, Ended
  <2> QED
    BY <1>1, <2>2, <2>3 DEF RunInv
<1> QED
  BY <1>2, <1>3, <1>4

LEMMA StepRun == RunInv /\ [Next]_vars => RunInv'
<1> SUFFICES ASSUME RunInv, [Next]_vars PROVE RunInv'
  OBVIOUS
<1>1. ASSUME NEW j \in Job, Begin(j) PROVE RunInv'
  BY <1>1, StepBegin
<1>2. CASE RunStep
  BY <1>2, StepStartCopy, StepStartFails, StepHealthy, StepUnhealthy, StepPublishAdded, StepDrain, StepStopCopy,
     StepOtherFailures DEF RunStep
<1>3. CASE Kill
  BY <1>3, StepOtherFailures
<1>4. CASE UNCHANGED vars \/ (\E c \in up : Die(c)) \/ (\E j \in Job : Refused(j))
  BY <1>4, StepQuiet
<1> QED
  BY <1>1, <1>2, <1>3, <1>4 DEF Next

\* The copies left after a drain are the ones the router sends to, if any of
\* them has a backend.
RouteInv == pc = "stop" /\ copies \cap routable # {} => routes = copies \cap routable

LEMMA StepRoute == RunInv /\ RouteInv /\ [Next]_vars => RouteInv'
<1> SUFFICES ASSUME RunInv, RouteInv, [Next]_vars, pc' = "stop" PROVE RouteInv'
  BY DEF RouteInv
<1>1. CASE Drain
  BY <1>1 DEF Drain, BackendsOf, RouteInv
<1>2. CASE UNCHANGED vars \/ \E c \in up : Die(c)
  BY <1>2 DEF vars, Die, planVars, RouteInv
<1>3. ~(\E j \in Job : Refused(j)) /\ ~Kill
  BY DEF Refused, Kill, Return
<1>4. ASSUME NEW j \in Job, Begin(j) PROVE FALSE
  BY <1>4, NextCallIs DEF Begin
<1>5. ~StartCopy /\ ~StartFails /\ ~Healthy /\ ~Unhealthy /\ ~PublishAddedFails /\ ~DrainFails /\ ~StopFails
  BY DEF StartCopy, StartFails, Healthy, Unhealthy, PublishAddedFails, DrainFails, StopFails, Return
<1>6. ~PublishAdded /\ ~StopCopy
  BY NextCallIs DEF PublishAdded, StopCopy
<1> QED
  BY <1>1, <1>2, <1>3, <1>4, <1>5, <1>6 DEF Next, RunStep

LEMMA InitRun == Init => RunInv
<1> SUFFICES ASSUME Init PROVE RunInv
  OBVIOUS
<1>1. IsFiniteSet(exists) /\ Cardinality(exists) = 0
  BY FS_EmptySet DEF Init
<1>2. PICK w \in Wants : w \in Nat
  BY WantsAssumption
<1>3. NeverAddsUp
  BY <1>1, <1>2 DEF NeverAddsUp
<1> QED
  BY <1>1, <1>3 DEF Init, RunInv, TypeOK, UniqueIndexes, RestInv, PhaseInv, Ended

LEMMA RunInvHolds == Spec => [](RunInv /\ RouteInv)
<1>1. Init => RouteInv
  BY DEF Init, RouteInv
<1> QED
  BY <1>1, InitRun, StepRun, StepRoute, PTL DEF Spec

-----------------------------------------------------------------------------
(* The theorems. *)

\* What every run of replace_all and scale_to finds and leaves: however runs
\* fail, no two copies share an index, at most one is there beyond the largest
\* count asked for, and a copy is drained before it is stopped.
THEOREM CopiesStayConsistent == Spec => []CopiesConsistent
<1>1. RunInv /\ RouteInv => CopiesConsistent
  <2> SUFFICES ASSUME RunInv, RouteInv PROVE CopiesConsistent
    OBVIOUS
  <2>1. DrainedBeforeStop
    <3> SUFFICES ASSUME pc = "stop", victim \cap routes # {}, copies \cap routable # {} PROVE FALSE
      BY DEF DrainedBeforeStop, BackendsOf
    <3>1. routes = copies \cap routable /\ copies \cap victim = {}
      BY DEF RunInv, RouteInv, ListInv, Ended
    <3> QED
      BY <3>1
  <2> QED
    BY <2>1 DEF RunInv, CopiesConsistent
<1> QED
  BY <1>1, RunInvHolds, PTL

\* No failing call and no kill of an overlapping replacement or a scaling takes
\* the service off its proven copies.
THEOREM ProvenCopiesKeepServing == Spec => KeepsServing
<1> DEFINE Kept == /\ Serving /\ Overlapping /\ copies \cup victim \subseteq proven /\ up \ up' \subseteq victim
                   => Serving'
<1>1. RunInv /\ RouteInv /\ [Next]_vars => [Kept]_vars
  <2> SUFFICES ASSUME RunInv, RouteInv, Next, Serving, Overlapping, copies \cup victim \subseteq proven, up \ up' \subseteq victim
               PROVE  Serving'
    OBVIOUS
  <2>1. PICK s : s \in routes /\ s \in proven
    BY DEF Serving
  \* Once a copy is drained the router sends only to the others.
  <2>2. pc = "stop" => routes \cap victim = {}
    <3> SUFFICES ASSUME pc = "stop" PROVE routes \cap victim = {}
      OBVIOUS
    <3>1. ListInv /\ StayInv /\ (copies \cap routable # {} => routes = copies \cap routable)
      BY DEF RunInv, RouteInv, PhaseInv, Ended
    <3>2. copies # {}
      <4>1. surplus = {} => Overlaps
        BY <3>1 DEF Overlapping, Ended, StayInv, ListInv, Replacing, Overlaps
      <4> QED
        BY <3>1, <4>1 DEF StayInv
    <3>3. copies \cap routable # {} /\ copies \cap victim = {}
      BY <3>1, <3>2 DEF ListInv
    <3> QED
      BY <3>1, <3>3
  <2>3. pc # "stop" => victim = {}
    BY DEF RunInv, PhaseInv, RestInv, StartRoom, TypeOK
  <2>4. CASE routes' = routes /\ proven \ victim \subseteq proven'
    BY <2>1, <2>2, <2>3, <2>4 DEF Serving
  <2>5. CASE PublishAdded \/ PublishAddedFails
    <3>1. /\ ListInv /\ (copies \cap routable) \ old # {} /\ pc = "add"
      BY <2>5 DEF PublishAdded, PublishAddedFails, RunInv, PhaseInv, Ended
    <3>2. routes' \in {routes, copies \cap routable} /\ proven' = proven
      BY <2>5 DEF PublishAdded, PublishAddedFails, BackendsOf
    <3> QED
      BY <2>1, <3>1, <3>2 DEF Serving
  <2>6. CASE Drain \/ DrainFails
    <3>1. PICK v \in copies : routes' = routes \/ ((copies \ {v}) \cap routable # {} /\ routes' = (copies \ {v}) \cap routable)
      BY <2>6 DEF Drain, DrainFails, BackendsOf
    <3>2. proven' = proven
      BY <2>6 DEF Drain, DrainFails
    <3> QED
      BY <2>1, <3>1, <3>2 DEF Serving
  <2>7. ASSUME NEW c \in up, Die(c) PROVE Serving'
    <3>1. c \in victim
      BY <2>7 DEF Die
    <3> QED
      BY <2>4, <2>7, <3>1 DEF Die
  <2>8. CASE StopCopy \/ StopFails
    BY <2>4, <2>8 DEF StopCopy, StopFails
  <2>9. CASE StartCopy \/ StartFails \/ Healthy \/ Unhealthy \/ Kill
    BY <2>4, <2>9 DEF StartCopy, StartFails, Healthy, Unhealthy, Kill, worldVars
  <2>10. ASSUME NEW j \in Job, Begin(j) \/ Refused(j) PROVE Serving'
    BY <2>4, <2>10 DEF Begin, Refused, worldVars
  <2> QED
    BY <2>5, <2>6, <2>7, <2>8, <2>9, <2>10 DEF Next, RunStep
<1> QED
  BY <1>1, RunInvHolds, PTL DEF Spec, KeepsServing

\* After an Ok the copies and the routes are the ones asked for, until the next
\* run begins.
DoneInv ==
  pc = "done" =>
    /\ Cardinality(exists) = job.want
    /\ Replacing => routes = exists /\ \A c \in exists : c.run = run

\* A run has nothing to do only if it is a scaling to the count that is there.
LEMMA BeginDone ==
  ASSUME RunInv, NEW j \in Job, Begin(j)
  PROVE  DoneInv'
<1> SUFFICES ASSUME pc' = "done" PROVE Cardinality(exists') = job'.want /\ job'.op # "replace_all"
  BY DEF DoneInv, Replacing
<1>1. ListInv' /\ surplus' = {} /\ old' = {} /\ Cardinality(copies') = job'.want
  BY StepBegin
<1>2. copies' = exists /\ exists' = exists /\ job' = j /\ old' = IF j.op = "replace_all" THEN exists \ surplus' ELSE {}
  BY DEF Begin, worldVars
<1>3. j.want > 0 /\ j.want \in Nat
  BY <1>1, <1>2, JobIs DEF ListInv
<1>4. j.op = "replace_all" => copies' = {}
  BY <1>1, <1>2
<1>5. j.op = "replace_all" => Cardinality(copies') = 0
  BY <1>4, FS_EmptySet
<1> QED
  BY <1>1, <1>2, <1>3, <1>5

LEMMA StepDone == RunInv /\ RouteInv /\ DoneInv /\ [Next]_vars => DoneInv'
<1> SUFFICES ASSUME RunInv, RouteInv, DoneInv, [Next]_vars, pc' = "done"
             PROVE  /\ Cardinality(exists') = job'.want
                    /\ job'.op = "replace_all" => routes' = exists' /\ \A c \in exists' : c.run = run'
  BY DEF DoneInv, Replacing
<1>1. CASE PublishAdded
  <2>1. ListInv' /\ OkInv' /\ fresh' = {} /\ victim' = {}
    BY <1>1, StepPublishAdded DEF PublishAdded, RunInv, PhaseInv
  <2>2. routes' = copies' \cap routable'
    BY <1>1 DEF PublishAdded, BackendsOf
  <2> QED
    BY <2>1, <2>2 DEF ListInv, OkInv, Replacing
<1>2. CASE StopCopy
  <2>1. ListInv' /\ OkInv' /\ fresh' = {} /\ victim' = {}
    BY <1>2, StepStopCopy DEF StopCopy, RunInv, PhaseInv
  <2>2. /\ copies' = copies /\ routable' = routable /\ routes' = routes
        /\ copies \cap routable # {} => routes = copies \cap routable
    BY <1>2 DEF StopCopy, RouteInv
  <2>3. Cardinality(copies') = job'.want /\ job'.want > 0 /\ job'.want \in Nat
    BY <2>1, JobIs DEF OkInv, ListInv
  <2>4. copies' # {}
    BY <2>3, FS_EmptySet
  <2>5. job'.op = "replace_all" => copies' \subseteq routable' /\ \A c \in copies' : c.run = run'
    BY <2>1 DEF ListInv, OkInv, Replacing
  <2>6. exists' = copies'
    BY <2>1 DEF ListInv
  <2> QED
    BY <2>1, <2>2, <2>3, <2>4, <2>5, <2>6
<1>3. CASE UNCHANGED vars \/ \E c \in up : Die(c)
  <2>1. UNCHANGED <<pc, run, job, exists, routes>>
    BY <1>3 DEF Die, vars
  <2> QED
    BY <2>1 DEF DoneInv, Replacing
<1>4. CASE \E j \in Job : Begin(j)
  BY <1>4, BeginDone DEF DoneInv, Replacing
<1>5. ~(\E j \in Job : Refused(j)) /\ ~Kill
  BY DEF Refused, Kill, Return
<1>6. ~StartCopy /\ ~StartFails /\ ~Healthy /\ ~Unhealthy /\ ~PublishAddedFails /\ ~Drain /\ ~DrainFails /\ ~StopFails
  BY DEF StartCopy, StartFails, Healthy, Unhealthy, PublishAddedFails, Drain, DrainFails, StopFails, Return
<1> QED
  BY <1>1, <1>2, <1>3, <1>4, <1>5, <1>6 DEF Next, RunStep

\* A run that returns Ok leaves as many copies as asked for; replace_all leaves
\* only copies of its own run, and the router with exactly those.
THEOREM OkIsTrue == Spec => OkMeansReplaced
<1>1. Init => DoneInv
  BY DEF Init, DoneInv
<1>2. DoneInv' => [pc' = "done" =>
                     /\ Cardinality(exists') = job'.want
                     /\ job'.op = "replace_all" =>
                          routes' = exists' /\ \A c \in exists' : c.run = run']_vars
  BY DEF DoneInv, Replacing
<1> QED
  BY <1>1, <1>2, StepDone, RunInvHolds, PTL DEF Spec, OkMeansReplaced

-----------------------------------------------------------------------------
(* Renewals. *)

\* What a renewal lists are copies; a run that is alone has no renewal beside
\* it, and its routes are its own.
RenewInv ==
  /\ RunInv
  /\ listed \subseteq Copy
  /\ alone => listed = {} /\ RouteInv /\ DoneInv

\* The routes a step leaves do not depend on those it found, but in a run that
\* is under way.
LEMMA StepRenew == RenewInv /\ [RenewNext]_renewVars => RenewInv'
<1> SUFFICES ASSUME RenewInv, [RenewNext]_renewVars PROVE RenewInv'
  OBVIOUS
<1>1. RunInv /\ listed \subseteq Copy /\ (alone => listed = {} /\ RouteInv /\ DoneInv)
  BY DEF RenewInv
<1>2. CASE Deploying
  <2>1. Next /\ alone' = (IF run' # run THEN listed = {} ELSE alone) /\ listed' = listed
    BY <1>2 DEF Deploying
  <2>2. RunInv'
    BY <1>1, <2>1, StepRun
  <2>3. CASE run' = run
    BY <1>1, <2>1, <2>2, <2>3, StepRoute, StepDone DEF RenewInv
  <2>4. CASE run' # run
    <3>1. PICK j \in Job : Begin(j) \/ Refused(j)
      BY <2>1, <2>4 DEF Next, RunStep, StartCopy, StartFails, Healthy, Unhealthy, PublishAdded, PublishAddedFails,
         Drain, DrainFails, StopCopy, StopFails, Die, Kill, Return
    <3>2. pc \in Ended
      BY <3>1 DEF Begin, Refused
    <3>3. RouteInv
      BY <3>2 DEF RouteInv, Ended
    <3>4. RouteInv'
      BY <1>1, <2>1, <3>3, StepRoute
    <3>5. DoneInv'
      <4>1. CASE Begin(j)
        BY <1>1, <3>3, <4>1, BeginDone
      <4>2. CASE Refused(j)
        BY <4>2 DEF Refused, DoneInv
      <4> QED
        BY <3>1, <4>1, <4>2
    <3> QED
      BY <1>1, <2>1, <2>2, <2>4, <3>4, <3>5 DEF RenewInv
  <2> QED
    BY <2>3, <2>4
<1>3. CASE RenewLists \/ RenewFails \/ UNCHANGED renewVars
  <2>1. UNCHANGED vars
    BY <1>3 DEF RenewLists, RenewFails, renewVars
  <2>2. RunInv'
    BY <1>1, <2>1, StepRun
  <2>3. RouteInv /\ DoneInv => RouteInv' /\ DoneInv'
    BY <2>1 DEF vars, RouteInv, DoneInv, Replacing
  <2>4. CurrentBackends \subseteq Copy
    BY <1>1 DEF CurrentBackends, RunInv, TypeOK
  <2> QED
    BY <1>1, <1>3, <2>2, <2>3, <2>4 DEF RenewLists, RenewFails, renewVars, RenewInv
<1>4. CASE RenewApplies
  <2>1. routes' = listed /\ listed' = {} /\ listed # {} /\ alone' = alone
        /\ UNCHANGED <<pc, run, job, exists, up, proven, copies, routable, surplus, old, fresh, victim>>
    BY <1>4 DEF RenewApplies, planVars
  <2>2. RunInv'
    BY <1>1, <2>1 DEF RunInv, TypeOK, UniqueIndexes, NeverAddsUp, RestInv, ListInv, PhaseInv, Replacing,
       StartRoom, StayInv, Overlaps, StopsFirst
  <2> QED
    BY <1>1, <2>1, <2>2 DEF RenewInv
<1> QED
  BY <1>2, <1>3, <1>4 DEF RenewNext

\* Whatever a stale renewal published, a replacement that no renewal runs beside
\* leaves the router with exactly the copies that are there.
THEOREM NextReplacementRepairs == RenewSpec => NextRunRepairs
<1>1. RenewInit => RenewInv
  BY InitRun DEF RenewInit, RenewInv, Init, RouteInv, DoneInv
<1>2. RenewInv' => [pc' = "done" /\ job'.op = "replace_all" /\ alone' => routes' = exists']_renewVars
  BY DEF RenewInv, DoneInv, Replacing
<1> QED
  BY <1>1, <1>2, StepRenew, PTL DEF RenewSpec, NextRunRepairs
=============================================================================
