-------------------------- MODULE ScopedRows_proofs --------------------------
(***************************************************************************)
(* SpinBarrier is correct for any number of threads and of waits, and any  *)
(* width of the `passed` counter of at least two values; and the parallel  *)
(* loops, of which one depends on it, write every row once and in its      *)
(* phase, for any number of threads, any outputs and any size of a claim.  *)
(*                                                                         *)
(* Of the constants the theorems about the barrier use only that there are *)
(* finitely many threads and that the counter has two values; what the     *)
(* loops assume about the numbers of threads and waits is not cited there. *)
(*                                                                         *)
(* Of the constants the theorems about the barrier use that there are      *)
(* finitely many threads and that the counter has two values; the numbers  *)
(* of threads and of waits that the loops assume are not used there.       *)
(***************************************************************************)
EXTENDS ScopedRows, FiniteSetTheorems, TLAPS

-----------------------------------------------------------------------------
(* The barrier on its own: SpinBarrierRounds.                              *)

LEMMA TeamFinite ==
  ASSUME RoundsTypeOK
  PROVE  /\ IsFiniteSet(team)
         /\ n_threads \in Nat \ {0}
         /\ IsFiniteSet(Arrived)
         /\ Cardinality(Arrived) \in 0..n_threads
         /\ Cardinality(Arrived) = n_threads => Arrived = team
<1>1. IsFiniteSet(team)
  BY ThreadAssumption, FS_Subset DEF RoundsTypeOK, BarrierTypeOK
<1>2. n_threads \in Nat \ {0}
  BY <1>1, FS_CardinalityType, FS_EmptySet DEF RoundsTypeOK, n_threads
<1>3. Arrived \in SUBSET team
  BY DEF Arrived
<1>4. QED
  BY <1>1, <1>2, <1>3, FS_Subset, FS_CardinalityType DEF n_threads

(* The counter of released episodes is one ahead of itself modulo Wrap and *)
(* never equal to its successor: why two values are enough.                *)
LEMMA SuccFact ==
  ASSUME NEW p \in 0..(Wrap - 1)
  PROVE  Succ(p) \in 0..(Wrap - 1) /\ Succ(p) # p
BY WrapAssumption DEF Succ

LEMMA TypeInductive ==
  ASSUME RoundsTypeOK, [RoundsNext]_roundsVars
  PROVE  RoundsTypeOK'
<1> USE DEF RoundsTypeOK, BarrierTypeOK, BarrierPC
<1>1. CASE UNCHANGED roundsVars
  BY <1>1 DEF roundsVars
<1>2. ASSUME NEW t \in team, Solo(t)
      PROVE  RoundsTypeOK'
  BY <1>2 DEF Solo, WaitSolo, barrierVars
<1>3. ASSUME NEW t \in team, Enter(t)
      PROVE  RoundsTypeOK'
  BY <1>3 DEF Enter, LoadPassed
<1>4. ASSUME NEW t \in team, Count(t)
      PROVE  RoundsTypeOK'
  BY <1>4 DEF Count, Arrive
<1>5. ASSUME NEW t \in team, Zero(t)
      PROVE  RoundsTypeOK'
  BY <1>5 DEF Zero, ZeroCounter
<1>6. ASSUME NEW t \in team, Release(t)
      PROVE  RoundsTypeOK'
  BY <1>6, SuccFact DEF Release, Publish
<1>7. ASSUME NEW t \in team, Leave(t)
      PROVE  RoundsTypeOK'
  BY <1>7 DEF Leave, SpinExit
<1>8. QED
  BY <1>1, <1>2, <1>3, <1>4, <1>5, <1>6, <1>7 DEF RoundsNext

(* SpinBarrier::wait: the variables stay in their types. *)
THEOREM BarrierTypeCorrect == SafeRounds => []RoundsTypeOK
<1>1. RoundsInit => RoundsTypeOK
  BY WrapAssumption DEF RoundsInit, BarrierInit, RoundsTypeOK, BarrierTypeOK, BarrierPC
<1>2. QED
  BY <1>1, TypeInductive, PTL DEF SafeRounds

-----------------------------------------------------------------------------
LEMMA RoundsInitInv == RoundsInit => BarrierInv
<1> SUFFICES ASSUME RoundsInit
             PROVE  BarrierInv
  OBVIOUS
<1>1. RoundsTypeOK
  BY WrapAssumption DEF RoundsInit, BarrierInit, RoundsTypeOK, BarrierTypeOK, BarrierPC
<1>2. Places
  BY DEF RoundsInit, BarrierInit, Places, PlaceOf
<1>3. Arrived = {}
  BY DEF RoundsInit, BarrierInit, Arrived
<1>4. Counting
  BY <1>1, <1>3, TeamFinite, FS_EmptySet DEF Counting, RoundsInit, BarrierInit
<1>5. QED
  BY <1>1, <1>2, <1>4 DEF BarrierInv

(* A team of one: nobody is ever past its fetch_add. *)
LEMMA SoloInv ==
  ASSUME BarrierInv, NEW t \in team, Solo(t)
  PROVE  Places' /\ Counting'
<1> USE DEF BarrierInv
<1>1. team = {t} /\ n_threads = 1
  BY TeamFinite, FS_Singleton DEF Solo, WaitSolo, n_threads
<1>2. /\ bpc[t] = "out" /\ UNCHANGED barrierVars
      /\ entered'[t] = entered[t] + 1
      /\ left'[t] = left[t] + 1
      /\ released' = released + 1
  BY DEF Solo, WaitSolo, RoundsTypeOK, BarrierTypeOK
<1>3. Places'
  <2>1. entered[t] = released /\ left[t] = released
    BY <1>2 DEF Places, PlaceOf
  <2>2. team' = {t} /\ bpc'[t] = "out"
    BY <1>1, <1>2 DEF barrierVars
  <2>3. QED
    BY <1>2, <2>1, <2>2 DEF Places, PlaceOf
<1>4. Arrived = {} /\ Arrived' = {}
  BY <1>1, <1>2 DEF Arrived, barrierVars
<1>5. counter = 0
  BY <1>1, <1>2, <1>4, FS_EmptySet DEF Counting
<1>6. QED
  BY <1>1, <1>2, <1>3, <1>4, <1>5, FS_EmptySet DEF Counting, barrierVars, n_threads

LEMMA EnterInv ==
  ASSUME BarrierInv, NEW t \in team, Enter(t)
  PROVE  Places' /\ Counting'
<1> USE DEF BarrierInv
<1>1. /\ bpc[t] = "out" /\ bpc' = [bpc EXCEPT ![t] = "add"]
      /\ seen' = [seen EXCEPT ![t] = passed]
      /\ entered' = [entered EXCEPT ![t] = @ + 1]
      /\ UNCHANGED <<team, counter, passed, left, released>>
  BY DEF Enter, LoadPassed
<1>2. Places'
  BY <1>1 DEF Places, PlaceOf, RoundsTypeOK, BarrierTypeOK
<1>3. Arrived' = Arrived
  BY <1>1 DEF Arrived, RoundsTypeOK, BarrierTypeOK
<1>4. \A u \in team : bpc[u] \notin {"last", "publish"}
  BY <1>1 DEF Counting
<1>5. \A u \in team : bpc'[u] \notin {"last", "publish"}
  BY <1>1, <1>4 DEF RoundsTypeOK, BarrierTypeOK
<1>6. QED
  BY <1>1, <1>2, <1>3, <1>4, <1>5 DEF Counting, n_threads

(* The fetch_add: the thread joins Arrived; it is the last one exactly when *)
(* that makes Arrived the whole team.                                       *)
LEMMA CountInv ==
  ASSUME BarrierInv, NEW t \in team, Count(t)
  PROVE  Places' /\ Counting'
<1> USE DEF BarrierInv
<1>1. /\ bpc[t] = "add"
      /\ counter' = counter + 1
      /\ bpc' = [bpc EXCEPT ![t] = IF counter = n_threads - 1 THEN "last" ELSE "spin"]
      /\ UNCHANGED <<team, passed, seen, entered, left, released>>
  BY DEF Count, Arrive
<1>2. \A u \in team : bpc[u] \notin {"last", "publish"}
  BY <1>1 DEF Counting
<1>3. counter = Cardinality(Arrived) /\ counter < n_threads
  BY <1>2 DEF Counting
<1>4. Places'
  BY <1>1 DEF Places, PlaceOf, RoundsTypeOK, BarrierTypeOK
<1>5. t \notin Arrived /\ Arrived' = Arrived \cup {t}
  BY <1>1 DEF Arrived, Places, PlaceOf, RoundsTypeOK, BarrierTypeOK
<1>6. RoundsTypeOK'
  BY TypeInductive DEF RoundsNext
<1>7. Cardinality(Arrived') = counter'
  BY <1>1, <1>3, <1>5, TeamFinite, FS_AddElement
<1>8. n_threads' = n_threads /\ n_threads \in Nat
  BY <1>1, TeamFinite DEF n_threads
<1>9. CASE counter = n_threads - 1
  <2>1. bpc' = [bpc EXCEPT ![t] = "last"]
    BY <1>1, <1>9
  <2>2. Arrived' = team'
    <3>1. IsFiniteSet(team) /\ Arrived' \in SUBSET team
      BY <1>1, TeamFinite DEF Arrived
    <3>2. Cardinality(Arrived') = Cardinality(team)
      BY <1>1, <1>7, <1>8, <1>9 DEF n_threads
    <3>3. QED
      BY <1>1, <3>1, <3>2, FS_Subset
  <2>3. \A u \in team \ {t} : bpc'[u] = "spin"
    BY <1>1, <1>2, <2>1, <2>2 DEF Arrived, RoundsTypeOK, BarrierTypeOK
  <2>4. bpc'[t] = "last"
    BY <2>1 DEF RoundsTypeOK, BarrierTypeOK
  <2>5. QED
    BY <1>1, <1>4, <1>7, <2>2, <2>3, <2>4 DEF Counting
<1>10. CASE counter # n_threads - 1
  <2>1. bpc' = [bpc EXCEPT ![t] = "spin"]
    BY <1>1, <1>10
  <2>2. \A u \in team : bpc'[u] \notin {"last", "publish"}
    BY <1>2, <2>1 DEF RoundsTypeOK, BarrierTypeOK
  <2>3. counter' < n_threads
    BY <1>1, <1>3, <1>8, <1>10 DEF RoundsTypeOK, BarrierTypeOK
  <2>4. QED
    BY <1>1, <1>4, <1>7, <1>8, <2>2, <2>3 DEF Counting
<1>11. QED
  BY <1>9, <1>10

LEMMA ZeroInv ==
  ASSUME BarrierInv, NEW t \in team, Zero(t)
  PROVE  Places' /\ Counting'
<1> USE DEF BarrierInv
<1>1. /\ bpc[t] = "last" /\ counter' = 0
      /\ bpc' = [bpc EXCEPT ![t] = "publish"]
      /\ UNCHANGED <<team, passed, seen, entered, left, released>>
  BY DEF Zero, ZeroCounter
<1>2. \A u \in team \ {t} : bpc[u] = "spin"
  BY <1>1 DEF Counting
<1>3. bpc'[t] = "publish" /\ \A u \in team \ {t} : bpc'[u] = "spin"
  BY <1>1, <1>2 DEF RoundsTypeOK, BarrierTypeOK
<1>4. Places'
  BY <1>1 DEF Places, PlaceOf, RoundsTypeOK, BarrierTypeOK
<1>5. Arrived = team /\ Arrived' = Arrived
  BY <1>1, <1>3 DEF Counting, Arrived
<1>6. QED
  BY <1>1, <1>3, <1>4, <1>5 DEF Counting

(* The release: everybody else spins in the episode that ends, and from now *)
(* on sees a `passed` that is the successor of the value it remembers.      *)
LEMMA ReleaseInv ==
  ASSUME BarrierInv, NEW t \in team, Release(t)
  PROVE  Places' /\ Counting'
<1> USE DEF BarrierInv
<1>1. /\ bpc[t] = "publish"
      /\ passed' = Succ(passed)
      /\ bpc' = [bpc EXCEPT ![t] = "out"]
      /\ left' = [left EXCEPT ![t] = @ + 1]
      /\ released' = released + 1
      /\ UNCHANGED <<team, counter, seen, entered>>
  BY DEF Release, Publish
<1>2. \A u \in team \ {t} : bpc[u] = "spin"
  BY <1>1 DEF Counting
<1>3. \A u \in team : entered[u] = released + 1
  BY <1>1 DEF Counting, Arrived
<1>4. \A u \in team \ {t} : left[u] = released /\ seen[u] = passed
  BY <1>2, <1>3 DEF Places, PlaceOf, RoundsTypeOK, BarrierTypeOK
<1>5. left[t] = released
  BY <1>1 DEF Places, PlaceOf
<1>6. bpc'[t] = "out" /\ \A u \in team \ {t} : bpc'[u] = "spin"
  BY <1>1, <1>2 DEF RoundsTypeOK, BarrierTypeOK
<1>7. Places'
  <2> SUFFICES ASSUME NEW u \in team
               PROVE  PlaceOf(u)'
    BY <1>1 DEF Places
  <2>1. CASE u = t
    BY <1>1, <1>3, <1>5, <1>6, <2>1 DEF PlaceOf, RoundsTypeOK, BarrierTypeOK
  <2>2. CASE u # t
    BY <1>1, <1>3, <1>4, <1>6, <2>2 DEF PlaceOf, RoundsTypeOK, BarrierTypeOK
  <2>3. QED
    BY <2>1, <2>2
<1>8. Arrived' = {}
  BY <1>1, <1>3 DEF Arrived, RoundsTypeOK
<1>9. counter = 0
  BY <1>1 DEF Counting
<1>10. QED
  BY <1>1, <1>6, <1>7, <1>8, <1>9, TeamFinite, FS_EmptySet DEF Counting, n_threads

LEMMA LeaveInv ==
  ASSUME BarrierInv, NEW t \in team, Leave(t)
  PROVE  Places' /\ Counting'
<1> USE DEF BarrierInv
<1>1. /\ bpc[t] = "spin" /\ passed # seen[t]
      /\ bpc' = [bpc EXCEPT ![t] = "out"]
      /\ left' = [left EXCEPT ![t] = @ + 1]
      /\ UNCHANGED <<team, counter, passed, seen, entered, released>>
  BY DEF Leave, SpinExit
<1>2. entered[t] = released /\ left[t] = released - 1
  BY <1>1 DEF Places, PlaceOf
<1>3. Places'
  BY <1>1, <1>2 DEF Places, PlaceOf, RoundsTypeOK, BarrierTypeOK
<1>4. Arrived' = Arrived /\ t \notin Arrived
  BY <1>1, <1>2 DEF Arrived, RoundsTypeOK, BarrierTypeOK
<1>5. \A u \in team : bpc[u] \notin {"last", "publish"}
  BY <1>4 DEF Counting
<1>6. \A u \in team : bpc'[u] \notin {"last", "publish"}
  BY <1>1, <1>5 DEF RoundsTypeOK, BarrierTypeOK
<1>7. QED
  BY <1>1, <1>3, <1>4, <1>5, <1>6 DEF Counting, n_threads

LEMMA RoundsNextInv == BarrierInv /\ [RoundsNext]_roundsVars => BarrierInv'
<1> SUFFICES ASSUME BarrierInv, [RoundsNext]_roundsVars
             PROVE  BarrierInv'
  OBVIOUS
<1>1. RoundsTypeOK'
  BY TypeInductive DEF BarrierInv
<1>2. Places' /\ Counting'
  <2>1. CASE UNCHANGED roundsVars
    BY <2>1 DEF roundsVars, BarrierInv, Places, PlaceOf, Counting, Arrived, n_threads
  <2>2. CASE RoundsNext
    BY <2>2, SoloInv, EnterInv, CountInv, ZeroInv, ReleaseInv, LeaveInv DEF RoundsNext
  <2>3. QED
    BY <2>1, <2>2
<1>3. QED
  BY <1>1, <1>2 DEF BarrierInv

(* The inductive invariant of the barrier holds for every team.            *)
(* (SpinBarrier::wait)                                                     *)
THEOREM BarrierInvariantHolds == SafeRounds => []BarrierInv
BY RoundsInitInv, RoundsNextInv, PTL DEF SafeRounds

LEMMA InvImpliesRendezvous == BarrierInv => NobodyLeavesEarly
<1> SUFFICES ASSUME BarrierInv, NEW t \in team, NEW u \in team
             PROVE  left[t] <= entered[u]
  BY DEF NobodyLeavesEarly
<1>1. left[t] <= released
  BY DEF BarrierInv, Places, PlaceOf, RoundsTypeOK, BarrierTypeOK, BarrierPC
<1>2. released <= entered[u]
  BY DEF BarrierInv, Places, PlaceOf, RoundsTypeOK, BarrierTypeOK, BarrierPC
<1>3. QED
  BY <1>1, <1>2 DEF BarrierInv, RoundsTypeOK, BarrierTypeOK

(* No thread returns from its k-th wait before every thread has entered    *)
(* its k-th wait, whatever the number of threads and of waits and at       *)
(* whatever width `passed` wraps. (SpinBarrier::wait)                      *)
THEOREM BarrierIsSafe == SafeRounds => []NobodyLeavesEarly
BY BarrierInvariantHolds, InvImpliesRendezvous, PTL

-----------------------------------------------------------------------------
(* The refinement: LoadPassed enters, the release and the spinners' exits   *)
(* leave, and the steps in between do not show.                             *)
LEMMA StepSimulation ==
  ASSUME BarrierInv, [RoundsNext]_roundsVars
  PROVE  [Abstract!Next]_<<team, entered, left>>
<1> USE DEF Abstract!Next, Abstract!Enter, Abstract!Leave, Abstract!Alone
<1>1. CASE UNCHANGED roundsVars
  BY <1>1 DEF roundsVars
<1>2. ASSUME NEW t \in team, Solo(t)
      PROVE  Abstract!Alone(t)
  <2>1. team = {t}
    BY <1>2, TeamFinite, FS_Singleton DEF Solo, WaitSolo, n_threads, BarrierInv
  <2>2. entered[t] = left[t]
    BY <1>2 DEF Solo, WaitSolo, BarrierInv, Places, PlaceOf
  <2>3. QED
    BY <1>2, <2>1, <2>2 DEF Solo, WaitSolo, barrierVars
<1>3. ASSUME NEW t \in team, Enter(t)
      PROVE  Abstract!Enter(t)
  BY <1>3 DEF Enter, LoadPassed, BarrierInv, Places, PlaceOf
<1>4. ASSUME NEW t \in team, Count(t) \/ Zero(t)
      PROVE  UNCHANGED <<team, entered, left>>
  BY <1>4 DEF Count, Arrive, Zero, ZeroCounter
<1>5. ASSUME NEW t \in team, Release(t)
      PROVE  Abstract!Leave(t)
  <2>1. \A u \in team : entered[u] = released + 1
    BY <1>5 DEF Release, Publish, BarrierInv, Counting, Arrived
  <2>2. left[t] = released
    BY <1>5 DEF Release, Publish, BarrierInv, Places, PlaceOf
  <2>3. QED
    BY <1>5, <2>1, <2>2 DEF Release, Publish, BarrierInv, RoundsTypeOK
<1>6. ASSUME NEW t \in team, Leave(t)
      PROVE  Abstract!Leave(t)
  <2>1. entered[t] = released /\ left[t] = released - 1
    BY <1>6 DEF Leave, SpinExit, BarrierInv, Places, PlaceOf
  <2>2. \A u \in team : entered[u] \in {released, released + 1}
    BY DEF BarrierInv, Places, PlaceOf, RoundsTypeOK, BarrierTypeOK, BarrierPC
  <2>3. QED
    BY <1>6, <2>1, <2>2 DEF Leave, SpinExit, BarrierInv, RoundsTypeOK
<1>7. QED
  BY <1>1, <1>2, <1>3, <1>4, <1>5, <1>6 DEF RoundsNext

(* SpinBarrier implements the abstract rendezvous (its safety part) for     *)
(* every team: what a caller of wait() may rely on. (SpinBarrier::wait)     *)
THEOREM BarrierRefinesRendezvous == SafeRounds => Abstract!SafeSpec
<1>1. RoundsInit => Abstract!Init
  BY DEF RoundsInit, Abstract!Init
<1>2. BarrierInv /\ [RoundsNext]_roundsVars => [Abstract!Next]_(Abstract!vars)
  BY StepSimulation DEF Abstract!vars
<1>3. QED
  BY <1>1, <1>2, BarrierInvariantHolds, PTL DEF SafeRounds, Abstract!SafeSpec

-----------------------------------------------------------------------------
(* The rows.                                                               *)

(* Multiples of n are n apart.                                             *)
LEMMA MultiplesApart ==
  ASSUME NEW n \in Nat, NEW g \in Nat, NEW h \in Nat, h < g
  PROVE  h * n + n <= g * n
<1>1. PICK d \in Nat : g = h + 1 + d
  <2>1. g - h - 1 \in Nat /\ g = h + 1 + (g - h - 1)
    OBVIOUS
  <2> QED  BY <2>1
<1>2. g * n = h * n + n + d * n
  BY <1>1
<1>3. d * n \in Nat /\ h * n \in Nat /\ g * n \in Nat
  OBVIOUS
<1> QED  BY <1>2, <1>3

LEMMA Division ==
  ASSUME NEW n \in Nat \ {0}, NEW a \in Nat
  PROVE  /\ a \div n \in Nat /\ a % n \in 0..(n - 1)
         /\ (a \div n) * n \in Nat
         /\ a = (a \div n) * n + (a % n)
         /\ (a \div n) * n <= a /\ a < (a \div n) * n + n
<1>1. a \div n \in Nat /\ a % n \in 0..(n - 1)
  OBVIOUS
<1>2. a = n * (a \div n) + (a % n)
  OBVIOUS
<1>3. n * (a \div n) = (a \div n) * n
  BY <1>1
<1>4. (a \div n) * n \in Nat
  BY <1>1
<1> DEFINE e == (a \div n) * n  m == a % n
<1>5. e \in Nat /\ m \in 0..(n - 1) /\ a = e + m
  BY <1>1, <1>2, <1>3, <1>4
<1>6. e <= a /\ a < e + n
  <2> HIDE DEF e, m
  <2> QED  BY <1>5
<1> QED  BY <1>1, <1>2, <1>3, <1>4, <1>6

LEMMA Quotient ==
  ASSUME NEW n \in Nat \ {0}, NEW a \in Nat, NEW q \in Nat, q * n <= a, a < q * n + n
  PROVE  a \div n = q
<1> DEFINE d == a \div n
<1>1. d \in Nat /\ d * n \in Nat /\ q * n \in Nat
  BY Division
<1>2. d * n <= a /\ a < d * n + n
  BY Division
<1>3. d < q => d * n + n <= q * n
  BY <1>1, MultiplesApart
<1>4. q < d => q * n + n <= d * n
  BY <1>1, MultiplesApart
<1> HIDE DEF d
<1> SUFFICES d = q
  BY DEF d
<1>5. ~(d < q)
  BY <1>1, <1>2, <1>3
<1>6. ~(q < d)
  BY <1>1, <1>2, <1>4
<1> QED  BY <1>1, <1>5, <1>6

LEMMA SmallResidue ==
  ASSUME NEW n \in Nat \ {0}, NEW a \in Nat, a < n
  PROVE  a % n = a
<1>1. 0 * n = 0
  OBVIOUS
<1>2. a \div n = 0
  BY <1>1, Quotient
<1> QED  BY <1>1, <1>2, Division

(* What the strided loop relies on: a step of n keeps the residue, and     *)
(* nothing in between has it.                                              *)
LEMMA NextResidue ==
  ASSUME NEW n \in Nat \ {0}, NEW a \in Nat
  PROVE  (a + n) % n = a % n
<1> DEFINE d == a \div n  m == a % n  s == a + n
<1>1. d \in Nat /\ m \in 0..(n - 1) /\ d * n \in Nat /\ a = d * n + m
  BY Division
<1>2. (d + 1) * n = d * n + n
  BY <1>1
<1> HIDE DEF d, m
<1>3. s \in Nat /\ s = d * n + m + n
  BY <1>1
<1>4. s \div n = d + 1
  BY <1>1, <1>2, Quotient
<1> HIDE DEF s
<1>5. s = (s \div n) * n + (s % n) /\ s % n \in 0..(n - 1)
  BY <1>3, Division
<1>6. s % n = m
  BY <1>1, <1>2, <1>3, <1>4, <1>5
<1> QED  BY <1>6 DEF m, s

LEMMA ResidueGap ==
  ASSUME NEW n \in Nat \ {0}, NEW a \in Nat, NEW b \in Nat, a % n = b % n, a < b
  PROVE  a + n <= b
<1> DEFINE d == a \div n  m == a % n  e == b \div n
<1>1. d \in Nat /\ m \in 0..(n - 1) /\ d * n \in Nat /\ a = d * n + m
  BY Division
<1>2. e \in Nat /\ e * n \in Nat /\ b = e * n + m
  BY Division
<1>3. d < e => d * n + n <= e * n
  BY <1>1, <1>2, MultiplesApart
<1>4. e < d => e * n + n <= d * n
  BY <1>1, <1>2, MultiplesApart
<1>5. d = e => d * n = e * n
  OBVIOUS
<1> HIDE DEF d, e, m
<1> QED  BY <1>1, <1>2, <1>3, <1>4, <1>5

(* A length rounded up: n chunks of it are enough.                         *)
LEMMA RoundedUp ==
  ASSUME NEW n \in Nat \ {0}, NEW m \in Nat
  PROVE  LET c == (m + n - 1) \div n IN
         /\ c \in Nat /\ c * n \in Nat /\ m <= c * n
         /\ m > 0 => c > 0
<1> DEFINE c == (m + n - 1) \div n
           b == (m + n - 1) % n
<1>1. m + n - 1 \in Nat
  OBVIOUS
<1>2. c \in Nat /\ b \in 0..(n - 1) /\ c * n \in Nat /\ m + n - 1 = c * n + b
  BY <1>1, Division
<1>3. c = 0 => c * n = 0
  OBVIOUS
<1> HIDE DEF c, b
<1>4. c \in Nat /\ c * n \in Nat /\ m <= c * n /\ (m > 0 => c > 0)
  BY <1>2, <1>3
<1> QED  BY <1>4 DEF c

-----------------------------------------------------------------------------
LEMMA Typing ==
  ASSUME ScopedInv
  PROVE  /\ split \in Split /\ claimed \in Nat /\ weight \in Weight
         /\ Len(OutSize) \in Nat /\ Weight = 1..Len(OutSize) /\ OutSize \in [Weight -> Nat]
         /\ chunk_size \in Nat \ {0}
         /\ num_threads \in Nat \ {0} /\ team = 0..(num_threads - 1) /\ team \subseteq Thread
         /\ pc \in [Thread -> {"start", "rows", "barrier", "done"}]
         /\ row \in [Thread -> Nat] /\ until \in [Thread -> Nat]
         /\ left \in [Thread -> Nat] /\ bpc \in [Thread -> BarrierPC]
         /\ DOMAIN written = Weight
         /\ \A w \in Weight : written[w] \in [Row(w) -> Seq(Thread)]
         /\ \A t \in team : weight_idx(t) \in Weight
<1>1. /\ num_threads \in Nat \ {0} /\ team = 0..(num_threads - 1) /\ team \subseteq Thread
  BY ThreadsAssumption DEF ScopedInv, Linked
<1>2. Len(OutSize) \in Nat /\ Weight = 1..Len(OutSize) /\ OutSize \in [Weight -> Nat]
  BY OutSizeAssumption DEF Weight
<1>3. left \in [Thread -> Nat] /\ bpc \in [Thread -> BarrierPC]
  BY DEF ScopedInv, Linked
<1> QED
  BY <1>1, <1>2, <1>3, ChunkAssumption DEF ScopedInv, TypeOK

LEMMA Weights ==
  ASSUME NEW w \in Weight
  PROVE  w \in Nat /\ ~(w < w)
<1>1. Len(OutSize) \in Nat
  BY OutSizeAssumption
<1> QED  BY <1>1 DEF Weight

(* Every row has its thread in the team.                                   *)
LEMMA OwnerOfRow ==
  ASSUME Linked, NEW w \in Weight, NEW r \in Row(w)
  PROVE  Owner(w, r) \in team
<1> DEFINE n == num_threads  m == OutSize[w]  c == ChunkLen(m)
<1>1. n \in Nat \ {0} /\ team = 0..(n - 1) /\ m \in Nat /\ r \in Nat /\ r < m
  BY ThreadsAssumption, OutSizeAssumption DEF Row, Linked, Weight
<1>2. CASE split = "strided"
  BY <1>1, <1>2, Division DEF Owner
<1>3. CASE split # "strided" /\ CallerAlone(m)
  BY <1>1, <1>3 DEF Owner
<1>4. CASE split # "strided" /\ ~CallerAlone(m)
  <2>1. c \in Nat \ {0} /\ m <= c * n /\ c * n \in Nat
    <3>1. c = (m + n - 1) \div n
      BY DEF ChunkLen
    <3> HIDE DEF c, m, n
    <3> QED  BY <1>1, <3>1, RoundedUp
  <2>2. Owner(w, r) = r \div c
    BY <1>4 DEF Owner
  <2> DEFINE q == r \div c
  <2> HIDE DEF c, m, n
  <2>3. q \in Nat /\ q * c \in Nat /\ q * c <= r
    BY <1>1, <2>1, Division DEF q
  <2>4. n < q \/ n = q \/ q < n
    BY <1>1, <2>3
  <2>5. n < q => n * c + c <= q * c
    BY <1>1, <2>1, <2>3, MultiplesApart
  <2>6. n * c = c * n
    BY <1>1, <2>1
  <2>7. n = q => n * c = q * c
    OBVIOUS
  <2> HIDE DEF q
  <2>8. q < n
    BY <1>1, <2>1, <2>3, <2>4, <2>5, <2>6, <2>7
  <2>9. q \in 0..(n - 1)
    BY <1>1, <2>3, <2>8
  <2> QED  BY <1>1, <2>2, <2>9 DEF q
<1> QED  BY <1>2, <1>3, <1>4

LEMMA OwnerInTeam ==
  ASSUME ScopedInv, NEW w \in Weight, NEW r \in Row(w)
  PROVE  Owner(w, r) \in team
BY OwnerOfRow DEF ScopedInv

(* What a chunk holds: a thread of its own for each row.                   *)
LEMMA ChunkOwner ==
  ASSUME ScopedInv, NEW w \in Weight, split # "strided", ~CallerAlone(OutSize[w]), NEW t \in team,
         OutSize[w] > 0
  PROVE  LET c == ChunkLen(OutSize[w]) IN
         /\ c \in Nat /\ t * c \in Nat
         /\ \A r \in Nat : Owner(w, r) = t <=> t * c <= r /\ r < t * c + c
<1> DEFINE n == num_threads  m == OutSize[w]  c == ChunkLen(m)
<1>1. n \in Nat \ {0} /\ t \in Nat /\ m \in Nat /\ m > 0
  BY Typing
<1>2. c \in Nat \ {0}
  <2>1. c = (m + n - 1) \div n
    BY DEF ChunkLen
  <2> HIDE DEF c, m, n
  <2> QED  BY <1>1, <2>1, RoundedUp
<1>3. t * c \in Nat
  BY <1>1, <1>2
<1>4. ASSUME NEW r \in Nat
      PROVE  Owner(w, r) = t <=> t * c <= r /\ r < t * c + c
  <2>1. Owner(w, r) = r \div c
    BY DEF Owner
  <2> HIDE DEF c, m, n
  <2>2. (r \div c) * c <= r /\ r < (r \div c) * c + c
    BY <1>2, <1>4, Division
  <2>3. r \div c = t => t * c <= r /\ r < t * c + c
    BY <2>2
  <2>4. t * c <= r /\ r < t * c + c => r \div c = t
    BY <1>1, <1>2, <1>4, Quotient
  <2> QED  BY <2>1, <2>3, <2>4
<1> QED  BY <1>2, <1>3, <1>4

-----------------------------------------------------------------------------
(* A step of the barrier moves one thread in it; a thread that leaves it   *)
(* has returned from one wait more.                                        *)
LEMMA BarrierMoves ==
  ASSUME ScopedInv, NEW t \in team, InBarrier(t)
  PROVE  /\ pc[t] = "barrier" /\ UNCHANGED local /\ team' = team /\ left' = left
         /\ bpc' \in [Thread -> BarrierPC]
         /\ \A u \in team \ {t} : bpc'[u] = bpc[u]
<1> USE DEF BarrierPC
<1>1. bpc \in [Thread -> BarrierPC] /\ t \in Thread /\ team \subseteq Thread
  BY Typing
<1>2. CASE Enter(t)
  BY <1>1, <1>2 DEF InBarrier, Enter, LoadPassed
<1>3. CASE Count(t)
  BY <1>1, <1>3 DEF InBarrier, Count, Arrive
<1>4. CASE Zero(t)
  BY <1>1, <1>4 DEF InBarrier, Zero, ZeroCounter
<1> QED  BY <1>2, <1>3, <1>4 DEF InBarrier

LEMMA BarrierLeft ==
  ASSUME ScopedInv, NEW t \in team, LeaveBarrier(t)
  PROVE  /\ pc[t] = "barrier" /\ pc' = [pc EXCEPT ![t] = "start"]
         /\ UNCHANGED <<split, claimed, weight, row, until, written>>
         /\ team' = team /\ left' = [left EXCEPT ![t] = @ + 1]
         /\ bpc' \in [Thread -> BarrierPC] /\ bpc'[t] = "out"
         /\ \A u \in team \ {t} : bpc'[u] = bpc[u]
<1> USE DEF BarrierPC
<1>1. bpc \in [Thread -> BarrierPC] /\ t \in Thread /\ team \subseteq Thread
  BY Typing
<1>2. CASE Release(t)
  BY <1>1, <1>2 DEF LeaveBarrier, Release, Publish
<1>3. CASE Leave(t)
  BY <1>1, <1>3 DEF LeaveBarrier, Leave, SpinExit
<1>4. CASE Solo(t)
  BY <1>1, <1>4 DEF LeaveBarrier, Solo, WaitSolo, barrierVars
<1> QED  BY <1>2, <1>3, <1>4 DEF LeaveBarrier

-----------------------------------------------------------------------------
LEMMA OwnerKept ==
  ASSUME split' = split, team' = team
  PROVE  num_threads' = num_threads /\ \A w, r : Owner(w, r)' = Owner(w, r)
<1>1. num_threads' = num_threads
  BY DEF num_threads, n_threads
<1>2. ASSUME NEW w, NEW r
      PROVE  Owner(w, r)' = Owner(w, r)
  BY <1>1 DEF Owner, CallerAlone, ChunkLen
<1> QED  BY <1>1, <1>2

(* A step in which one thread moves among its own rows, or into or out of  *)
(* the barrier, keeps what is said of the team.                            *)
LEMMA ThreadMoves ==
  ASSUME ScopedInv, NEW t \in team,
         UNCHANGED <<split, weight, team>>, claimed' \in Nat,
         \A u \in team \ {t} : pc'[u] = pc[u] /\ left'[u] = left[u] /\ bpc'[u] = bpc[u],
         pc' \in [Thread -> {"start", "rows", "barrier", "done"}],
         row' \in [Thread -> Nat], until' \in [Thread -> Nat],
         left' \in [Thread -> Nat], bpc' \in [Thread -> BarrierPC],
         pc'[t] # "barrier" => bpc'[t] = "out",
         weight_idx(t)' \in Weight,
         pc'[t] = "barrier" => split = "strided" /\ weight_idx(t)' < Len(OutSize),
         DOMAIN written' = Weight,
         \A w \in Weight : written'[w] \in [Row(w) -> Seq(Thread)]
  PROVE  /\ TypeOK' /\ Linked'
         /\ \A u \in team \ {t} : weight_idx(u)' = weight_idx(u)
<1>1. ASSUME NEW u \in team, u # t
      PROVE  weight_idx(u)' = weight_idx(u)
  BY <1>1 DEF weight_idx
<1>2. TypeOK'
  <2>1. \A u \in team : weight_idx(u)' \in Weight
    BY <1>1, Typing
  <2> QED  BY <2>1, Typing DEF TypeOK
<1>3. Linked'
  <2>1. num_threads' = num_threads
    BY OwnerKept
  <2>2. ASSUME NEW u \in team
        PROVE  /\ pc'[u] # "barrier" => bpc'[u] = "out"
               /\ pc'[u] = "barrier" => split = "strided" /\ weight_idx(u)' < Len(OutSize)
    BY <1>1 DEF ScopedInv, Linked
  <2>3. num_threads \in 1..MaxThreads /\ team = 0..(num_threads - 1)
    BY DEF ScopedInv, Linked
  <2> QED  BY <2>1, <2>2, <2>3 DEF Linked
<1> QED  BY <1>1, <1>2, <1>3

LEMMA TakeMoves ==
  ASSUME ScopedInv, NEW t \in team, NEW a \in Nat, NEW b \in Nat, pc[t] = "start",
         Take(t, a, b), UNCHANGED <<split, weight, written, roundsVars>>, claimed' \in Nat
  PROVE  /\ TypeOK' /\ Linked'
         /\ row'[t] = a /\ until'[t] = b /\ pc'[t] = "rows"
         /\ \A u \in team : weight_idx(u)' = weight_idx(u)
         /\ \A u \in team \ {t} : pc'[u] = pc[u] /\ row'[u] = row[u] /\ until'[u] = until[u]
<1>1. /\ pc' = [pc EXCEPT ![t] = "rows"]
      /\ row' = [row EXCEPT ![t] = a] /\ until' = [until EXCEPT ![t] = b]
      /\ UNCHANGED <<split, weight, written, team, left, bpc>>
  BY DEF Take, roundsVars
<1>2. t \in Thread /\ team \subseteq Thread
  BY Typing
<1>3. \A u \in team : weight_idx(u)' = weight_idx(u)
  BY <1>1 DEF weight_idx
<1>4. /\ pc' \in [Thread -> {"start", "rows", "barrier", "done"}] /\ pc'[t] = "rows"
      /\ \A u \in team \ {t} : pc'[u] = pc[u]
  BY <1>1, <1>2, Typing
<1>5. /\ row' \in [Thread -> Nat] /\ row'[t] = a
      /\ \A u \in team \ {t} : row'[u] = row[u]
  BY <1>1, <1>2, Typing
<1>6. /\ until' \in [Thread -> Nat] /\ until'[t] = b
      /\ \A u \in team \ {t} : until'[u] = until[u]
  BY <1>1, <1>2, Typing
<1>7. TypeOK'
  <2>1. /\ split' \in Split /\ weight' \in Weight /\ DOMAIN written' = Weight
        /\ \A w \in Weight : written'[w] \in [Row(w) -> Seq(Thread)]
    BY <1>1, Typing
  <2>2. \A u \in team' : weight_idx(u)' \in Weight
    BY <1>1, <1>3, Typing
  <2> QED  BY <1>4, <1>5, <1>6, <2>1, <2>2 DEF TypeOK
<1>8. Linked'
  <2>1. num_threads' = num_threads
    BY <1>1, OwnerKept
  <2>2. bpc[t] = "out"
    BY DEF ScopedInv, Linked
  <2>3. ASSUME NEW u \in team
        PROVE  /\ pc'[u] # "barrier" => bpc'[u] = "out"
               /\ pc'[u] = "barrier" => split = "strided" /\ weight_idx(u)' < Len(OutSize)
    BY <1>1, <1>3, <1>4, <2>2 DEF ScopedInv, Linked
  <2>4. num_threads \in 1..MaxThreads /\ team = 0..(num_threads - 1)
    BY DEF ScopedInv, Linked
  <2> QED  BY <1>1, <2>1, <2>3, <2>4, Typing DEF Linked
<1> QED  BY <1>3, <1>4, <1>5, <1>6, <1>7, <1>8

(* A step that writes nothing keeps the owned rows if the thread that      *)
(* moves is past the same rows as before.                                  *)
LEMMA RowsKept ==
  ASSUME ScopedInv, split # "claimed", NEW t \in team,
         UNCHANGED <<split, weight, team, written>>,
         \A u \in team \ {t} : pc'[u] = pc[u] /\ row'[u] = row[u] /\ until'[u] = until[u],
         \A u \in team \ {t} : weight_idx(u)' = weight_idx(u),
         \A w \in Weight : \A r \in Row(w) : Owner(w, r) = t => (Past(t, w, r)' <=> Past(t, w, r)),
         TakesOwnRows(t)'
  PROVE  OwnedRows'
<1>1. num_threads' = num_threads /\ \A w, r : Owner(w, r)' = Owner(w, r)
  BY OwnerKept
<1>2. WrittenByOwner /\ \A u \in team : TakesOwnRows(u)
  BY DEF ScopedInv, OwnedRows
<1>3. WrittenByOwner'
  <2> SUFFICES ASSUME NEW w \in Weight, NEW r \in Row(w)
               PROVE  written'[w][r] = IF Past(Owner(w, r), w, r)' THEN <<Owner(w, r)'>> ELSE <<>>
    BY DEF WrittenByOwner
  <2>1. PICK o \in team : o = Owner(w, r)
    BY OwnerInTeam
  <2>2. o = Owner(w, r)'
    BY <1>1, <2>1
  <2>3. Past(o, w, r)' <=> Past(o, w, r)
    <3>1. CASE o = t
      BY <2>1, <3>1
    <3>2. CASE o # t
      BY <3>2 DEF Past
    <3> QED  BY <3>1, <3>2
  <2>4. Past(Owner(w, r), w, r)' <=> Past(o, w, r)'
    BY <2>2 DEF Past, weight_idx
  <2>5. written[w][r] = IF Past(o, w, r) THEN <<o>> ELSE <<>>
    BY <1>2, <2>1 DEF WrittenByOwner
  <2> QED  BY <2>2, <2>3, <2>4, <2>5
<1>4. ASSUME NEW u \in team
      PROVE  TakesOwnRows(u)'
  <2>1. CASE u = t
    BY <2>1 DEF TakesOwnRows, weight_idx
  <2>2. CASE u # t
    BY <1>1, <1>2, <2>2 DEF TakesOwnRows
  <2> QED  BY <2>1, <2>2
<1> QED  BY <1>3, <1>4 DEF OwnedRows

-----------------------------------------------------------------------------
(* A thread of the strided loop starts at its own number: the first row of *)
(* its residue.                                                            *)
LEMMA StartStridedInv ==
  ASSUME ScopedInv, NEW t \in team, StartStrided(t)
  PROVE  ScopedInv'
<1> DEFINE w == weight_idx(t)
           m == OutSize[w]
<1>1. /\ split = "strided" /\ pc[t] = "start" /\ Take(t, t, m)
      /\ UNCHANGED <<split, claimed, weight, written, roundsVars>>
      /\ team' = team
  BY DEF StartStrided, roundsVars
<1>2. t \in Nat /\ w \in Weight /\ m \in Nat /\ claimed \in Nat
      /\ num_threads \in Nat \ {0} /\ t < num_threads
  BY Typing
<1>3. /\ TypeOK' /\ Linked'
      /\ row'[t] = t /\ until'[t] = m /\ pc'[t] = "rows"
      /\ \A u \in team : weight_idx(u)' = weight_idx(u)
      /\ \A u \in team \ {t} : pc'[u] = pc[u] /\ row'[u] = row[u] /\ until'[u] = until[u]
  <2> HIDE DEF m
  <2> QED  BY <1>1, <1>2, TakeMoves
<1>4. TakesOwnRows(t)'
  <2>1. num_threads' = num_threads /\ \A v, r : Owner(v, r)' = Owner(v, r)
    BY <1>1, OwnerKept
  <2>2. t % num_threads = t
    BY <1>2, SmallResidue
  <2>3. \A r \in Row(w) : r < m
    BY <1>2 DEF Row
  <2> QED  BY <1>1, <1>2, <1>3, <2>1, <2>2, <2>3 DEF TakesOwnRows
<1>5. ASSUME NEW v \in Weight, NEW r \in Row(v), Owner(v, r) = t
      PROVE  Past(t, v, r)' <=> Past(t, v, r)
  <2>1. r \in Nat /\ r % num_threads = t
    BY <1>1, <1>5, Typing DEF Row, Owner
  <2>2. ~(r < t)
    <3>1. SUFFICES ASSUME r < t PROVE FALSE
      OBVIOUS
    <3>2. r < num_threads
      BY <1>2, <2>1, <3>1
    <3>3. r % num_threads = r
      BY <1>2, <2>1, <3>2, SmallResidue
    <3> QED  BY <1>2, <2>1, <3>1, <3>3
  <2> QED  BY <1>1, <1>3, <2>2 DEF Past
<1>6. OwnedRows'
  BY <1>1, <1>3, <1>4, <1>5, RowsKept
<1>7. ClaimedRows'
  BY <1>1 DEF ClaimedRows
<1> QED  BY <1>3, <1>6, <1>7 DEF ScopedInv

(* A thread of parallel_chunks takes the rows of its chunk.                *)
LEMMA StartChunkInv ==
  ASSUME ScopedInv, NEW t \in team, StartChunk(t)
  PROVE  ScopedInv'
<1> DEFINE m == OutSize[weight]
           s == t * ChunkLen(m)
           a == IF CallerAlone(m) THEN 0 ELSE s
           b == IF CallerAlone(m) THEN IF t = 0 THEN m ELSE 0 ELSE Lesser(s + ChunkLen(m), m)
<1>1. /\ split \in {"chunked", "stolen"} /\ pc[t] = "start" /\ Take(t, a, b)
      /\ UNCHANGED <<split, claimed, weight, written, roundsVars>>
      /\ team' = team
  BY DEF StartChunk, roundsVars
<1>2. claimed \in Nat
  BY Typing
<1>3. t \in Nat /\ m \in Nat /\ weight \in Weight
  BY Typing
<1>4. weight_idx(t) = weight
  BY <1>1 DEF weight_idx
<1>5. /\ a \in Nat /\ b \in Nat /\ b <= m
      /\ \A r \in Nat : a <= r /\ r < b => r < m /\ Owner(weight, r) = t
      /\ \A r \in Row(weight) : Owner(weight, r) = t => a <= r /\ r < b
  <2>1. CASE CallerAlone(m)
    <3>1. \A r : Owner(weight, r) = 0
      BY <1>1, <2>1 DEF Owner
    <3>2. a = 0 /\ b = IF t = 0 THEN m ELSE 0
      BY <2>1
    <3>3. \A r \in Row(weight) : r \in Nat /\ r < m
      BY <1>3 DEF Row
    <3> HIDE DEF a, b, m
    <3> QED  BY <1>3, <3>1, <3>2, <3>3
  <2>2. CASE ~CallerAlone(m)
    <3> DEFINE c == ChunkLen(m)
    <3>1. m > 0
      <4>1. num_threads \in Nat
        BY Typing
      <4> QED  BY <1>3, <2>2, <4>1 DEF CallerAlone
    <3>2. /\ c \in Nat /\ s \in Nat
          /\ \A r \in Nat : Owner(weight, r) = t <=> s <= r /\ r < s + c
      BY <1>1, <1>3, <2>2, <3>1, ChunkOwner
    <3>3. a = s /\ b = IF s + c <= m THEN s + c ELSE m
      BY <2>2 DEF Lesser
    <3>4. \A r \in Row(weight) : r \in Nat /\ r < m
      BY <1>3 DEF Row
    <3> HIDE DEF a, b, c, m, s
    <3> QED  BY <1>3, <3>2, <3>3, <3>4
  <2> QED  BY <2>1, <2>2
<1> HIDE DEF a, b, s
<1>6. /\ TypeOK' /\ Linked'
      /\ row'[t] = a /\ until'[t] = b /\ pc'[t] = "rows"
      /\ \A u \in team : weight_idx(u)' = weight_idx(u)
      /\ \A u \in team \ {t} : pc'[u] = pc[u] /\ row'[u] = row[u] /\ until'[u] = until[u]
  BY <1>1, <1>2, <1>5, TakeMoves
<1>7. TakesOwnRows(t)'
  <2>1. \A w, r : Owner(w, r)' = Owner(w, r)
    BY <1>1, OwnerKept
  <2>2. \A r \in a..(b - 1) : Owner(weight, r) = t
    BY <1>5
  <2> QED  BY <1>1, <1>4, <1>5, <1>6, <2>1, <2>2 DEF TakesOwnRows
<1>8. ASSUME NEW w \in Weight, NEW r \in Row(w), Owner(w, r) = t
       PROVE  Past(t, w, r)' <=> Past(t, w, r)
  <2>1. w = weight => ~(r < a)
    BY <1>3, <1>5, <1>8 DEF Row
  <2> QED  BY <1>1, <1>4, <1>6, <2>1 DEF Past
<1>9. OwnedRows'
  BY <1>1, <1>6, <1>7, <1>8, RowsKept
<1>10. ClaimedRows'
  BY <1>1 DEF ClaimedRows
<1> QED  BY <1>6, <1>9, <1>10 DEF ScopedInv

(* A claim takes rows nobody has: those from the counter on.               *)
LEMMA ClaimInv ==
  ASSUME ScopedInv, NEW t \in team, Claim(t)
  PROVE  ScopedInv'
<1> DEFINE m == OutSize[weight]
           b == Lesser(claimed + chunk_size, m)
<1>1. /\ split = "claimed" /\ pc[t] = "start" /\ claimed' = claimed + chunk_size
      /\ UNCHANGED <<split, weight, written, roundsVars>>
      /\ team' = team
  BY DEF Claim, roundsVars
<1>2. /\ claimed \in Nat /\ claimed' \in Nat /\ claimed < claimed'
      /\ m \in Nat /\ weight \in Weight /\ chunk_size \in Nat \ {0} /\ t \in Thread
  BY <1>1, Typing
<1>3. /\ \A u \in team : TakesClaimed(u)
      /\ TakenApart /\ WrittenIfComputed
  BY <1>1 DEF ScopedInv, ClaimedRows
<1>4. /\ \A u \in team \ {t} : \A r \in Nat : Takes(u, r) => r < claimed
      /\ \A r : ~Takes(t, r)
  <2>1. ASSUME NEW u \in team, NEW r \in Nat, Takes(u, r)
        PROVE  r < claimed
    <3>1. until[u] \in Nat /\ r < until[u] /\ until[u] <= claimed
      BY <1>3, <2>1, Typing DEF TakesClaimed, Takes
    <3> QED  BY <1>2, <3>1
  <2> QED  BY <1>1, <2>1 DEF Takes
<1>5. CASE claimed >= m
  <2>1. pc' = [pc EXCEPT ![t] = "done"] /\ UNCHANGED <<row, until>>
    BY <1>5 DEF Claim
  <2>2. pc'[t] = "done" /\ \A u \in team \ {t} : pc'[u] = pc[u]
    BY <1>2, <2>1, Typing
  <2>3. \A u \in team : weight_idx(u)' = weight_idx(u)
    BY <1>1 DEF weight_idx, roundsVars
  <2>4. TypeOK'
    BY <1>1, <1>2, <2>1, <2>3, Typing DEF TypeOK
  <2>5. Linked'
    <3>1. num_threads' = num_threads /\ UNCHANGED <<left, bpc>>
      BY <1>1, OwnerKept DEF roundsVars
    <3>2. bpc[t] = "out"
      BY <1>1 DEF ScopedInv, Linked
    <3> QED  BY <1>1, <2>2, <2>3, <3>1, <3>2 DEF ScopedInv, Linked
  <2>6. \A u \in team : \A r : Takes(u, r)' <=> Takes(u, r)
    BY <1>1, <2>1, <2>2 DEF Takes
  <2>7. \A u \in team : TakesClaimed(u)'
    <3> SUFFICES ASSUME NEW u \in team
                 PROVE  /\ pc'[u] = "rows" => until[u] <= m /\ until[u] <= claimed'
                        /\ pc'[u] = "done" => m <= claimed'
      BY <1>1, <2>1 DEF TakesClaimed
    <3>1. pc[u] = "rows" => until[u] <= m /\ until[u] <= claimed
      BY <1>3 DEF TakesClaimed
    <3>2. until[u] \in Nat
      BY Typing
    <3>3. pc'[u] = "rows" => pc[u] = "rows"
      BY <2>2
    <3> HIDE DEF m
    <3> QED  BY <1>2, <1>5, <3>1, <3>2, <3>3
  <2>8. TakenApart'
    BY <1>1, <1>3, <2>6 DEF TakenApart
  <2>9. WrittenIfComputed'
    <3>1. ASSUME NEW w \in Weight, NEW r \in Row(w)
          PROVE  Computed(w, r)' <=> Computed(w, r)
      <4>1. w = weight => r < claimed /\ r < claimed'
        BY <1>2, <1>5 DEF Row
      <4> QED  BY <1>1, <2>6, <4>1 DEF Computed
    <3> QED  BY <1>1, <1>3, <3>1 DEF WrittenIfComputed
  <2>10. ClaimedRows' /\ OwnedRows'
    BY <1>1, <2>7, <2>8, <2>9 DEF ClaimedRows, OwnedRows
  <2> QED  BY <2>4, <2>5, <2>10 DEF ScopedInv
<1>6. CASE claimed < m
  <2>1. Take(t, claimed, b)
    BY <1>2, <1>6 DEF Claim
  <2>2. b \in Nat /\ b <= m /\ b <= claimed' /\ claimed < b
        /\ \A r \in Nat : r < b <=> r < claimed' /\ r < m
    BY <1>1, <1>2, <1>6 DEF Lesser
  <2> HIDE DEF b
  <2>3. /\ TypeOK' /\ Linked'
        /\ row'[t] = claimed /\ until'[t] = b /\ pc'[t] = "rows"
        /\ \A u \in team \ {t} : pc'[u] = pc[u] /\ row'[u] = row[u] /\ until'[u] = until[u]
    BY <1>1, <1>2, <2>1, <2>2, TakeMoves
  <2>4. \A r : Takes(t, r)' <=> claimed <= r /\ r < b
    BY <2>3 DEF Takes
  <2>5. \A u \in team \ {t} : \A r : Takes(u, r)' <=> Takes(u, r)
    BY <2>3 DEF Takes
  <2>6. ASSUME NEW u \in team
        PROVE  TakesClaimed(u)'
    <3>1. CASE u = t
      BY <1>1, <2>2, <2>3, <3>1 DEF TakesClaimed
    <3>2. CASE u # t
      <4>1. until[u] \in Nat /\ pc'[u] = pc[u] /\ until'[u] = until[u]
        BY <2>3, <3>2, Typing
      <4>2. /\ pc[u] = "rows" => until[u] <= m /\ until[u] <= claimed
            /\ pc[u] = "done" => m <= claimed
        BY <1>3 DEF TakesClaimed
      <4>3. /\ pc[u] = "rows" => until[u] <= m /\ until[u] <= claimed'
            /\ pc[u] = "done" => m <= claimed'
        <5> HIDE DEF m
        <5> QED  BY <1>2, <4>1, <4>2
      <4> QED  BY <1>1, <4>1, <4>3 DEF TakesClaimed
    <3> QED  BY <3>1, <3>2
  <2>7. TakenApart'
    <3>1. \A r \in Row(weight) : \A u \in team \ {t} : ~(Takes(t, r)' /\ Takes(u, r)')
      BY <1>2, <1>4, <2>4, <2>5 DEF Row
    <3> QED  BY <1>1, <1>3, <2>5, <3>1 DEF TakenApart
  <2>8. WrittenIfComputed'
    <3>1. ASSUME NEW w \in Weight, NEW r \in Row(w)
          PROVE  Computed(w, r)' <=> Computed(w, r)
      <4>1. w = weight => r \in Nat /\ r < m
        BY <1>2 DEF Row
      <4>2. w = weight /\ r < claimed => ~Takes(t, r)' /\ r < claimed'
        BY <1>2, <2>4, <4>1
      <4>3. w = weight /\ ~(r < claimed) /\ r < claimed' => Takes(t, r)'
        BY <1>2, <2>2, <2>4, <4>1
      <4> QED  BY <1>1, <1>4, <2>5, <4>2, <4>3 DEF Computed
    <3> QED  BY <1>1, <1>3, <3>1 DEF WrittenIfComputed
  <2>9. ClaimedRows' /\ OwnedRows'
    BY <1>1, <2>6, <2>7, <2>8 DEF ClaimedRows, OwnedRows
  <2> QED  BY <2>3, <2>9 DEF ScopedInv
<1> QED  BY <1>2, <1>5, <1>6

(* The end of a thread's rows: it is past all of its own.                  *)
LEMMA EndRowsInv ==
  ASSUME ScopedInv, NEW t \in team, EndRows(t)
  PROVE  ScopedInv'
<1> DEFINE p == CASE split = "strided" /\ weight_idx(t) < Len(OutSize) -> "barrier"
                  [] split = "claimed" -> "start"
                  [] OTHER -> "done"
<1>1. /\ pc[t] = "rows" /\ row[t] >= until[t] /\ pc' = [pc EXCEPT ![t] = p]
      /\ UNCHANGED <<split, claimed, weight, row, until, written, team, left, bpc>>
  BY DEF EndRows, roundsVars
<1>2. /\ p \in {"barrier", "start", "done"} /\ (p = "start" <=> split = "claimed")
      /\ p = "barrier" => split = "strided" /\ weight_idx(t) < Len(OutSize)
  OBVIOUS
<1> HIDE DEF p
<1>3. /\ t \in Thread /\ weight_idx(t) \in Weight /\ row[t] \in Nat /\ until[t] \in Nat
      /\ pc'[t] = p /\ \A u \in team \ {t} : pc'[u] = pc[u]
  BY <1>1, Typing
<1>4. \A u \in team : weight_idx(u)' = weight_idx(u)
  BY <1>1 DEF weight_idx
<1>5. TypeOK'
  <2>1. pc' \in [Thread -> {"start", "rows", "barrier", "done"}]
    BY <1>1, <1>2, <1>3, Typing
  <2> QED  BY <1>1, <1>4, <2>1, Typing DEF TypeOK
<1>6. Linked'
  <2>1. num_threads' = num_threads
    BY <1>1, OwnerKept
  <2>2. bpc[t] = "out"
    BY <1>1 DEF ScopedInv, Linked
  <2> QED  BY <1>1, <1>2, <1>3, <1>4, <2>1, <2>2 DEF ScopedInv, Linked
<1>7. OwnedRows'
  <2>1. CASE split = "claimed"
    BY <1>1, <2>1 DEF OwnedRows
  <2>2. CASE split # "claimed"
    <3>1. TakesOwnRows(t)'
      BY <1>2, <1>3, <2>2 DEF TakesOwnRows
    <3>2. ASSUME NEW w \in Weight, NEW r \in Row(w), Owner(w, r) = t
          PROVE  Past(t, w, r)' <=> Past(t, w, r)
      <4>1. w = weight_idx(t) => r < until[t]
        BY <1>1, <2>2, <3>2 DEF ScopedInv, OwnedRows, TakesOwnRows
      <4>2. w = weight_idx(t) => r < row[t]
        BY <1>1, <1>3, <4>1 DEF Row
      <4> QED  BY <1>1, <1>2, <1>3, <1>4, <2>2, <4>2 DEF Past
    <3> QED  BY <1>1, <1>3, <1>4, <2>2, <3>1, <3>2, RowsKept
  <2> QED  BY <2>1, <2>2
<1>8. ClaimedRows'
  <2> SUFFICES ASSUME split = "claimed"
               PROVE  (\A u \in team : TakesClaimed(u)') /\ TakenApart' /\ WrittenIfComputed'
    BY <1>1 DEF ClaimedRows
  <2>1. (\A u \in team : TakesClaimed(u)) /\ TakenApart /\ WrittenIfComputed
    BY DEF ScopedInv, ClaimedRows
  <2>2. pc'[t] = "start"
    BY <1>2, <1>3
  <2>3. \A u \in team : TakesClaimed(u)'
    BY <1>1, <1>3, <2>1, <2>2 DEF TakesClaimed
  <2>4. ASSUME NEW u \in team, NEW r \in Nat
        PROVE  Takes(u, r)' <=> Takes(u, r)
    <3>1. CASE u = t
      BY <1>1, <1>3, <2>2, <3>1 DEF Takes
    <3>2. CASE u # t
      BY <1>1, <1>3, <3>2 DEF Takes
    <3> QED  BY <3>1, <3>2
  <2>5. \A w \in Weight : \A r \in Row(w) : r \in Nat
    BY DEF Row
  <2>6. TakenApart'
    BY <1>1, <2>1, <2>4, <2>5, Typing DEF TakenApart
  <2>7. ASSUME NEW w \in Weight, NEW r \in Row(w)
        PROVE  Computed(w, r)' <=> Computed(w, r)
    BY <1>1, <2>4, <2>5 DEF Computed
  <2>8. WrittenIfComputed'
    BY <1>1, <2>1, <2>7 DEF WrittenIfComputed
  <2> QED  BY <2>3, <2>6, <2>8
<1> QED  BY <1>5, <1>6, <1>7, <1>8 DEF ScopedInv

(* What a write does, whatever the split: thread t writes row x of w.      *)
Writes(t, w, x) ==
  /\ w \in Weight /\ x \in Row(w) /\ x \in Nat
  /\ x < until[t] /\ until[t] \in Nat
  /\ UNCHANGED <<split, claimed, weight, pc, until, team, left, bpc>>
  /\ TypeOK' /\ Linked'
  /\ \A u \in team : weight_idx(u)' = weight_idx(u)
  /\ row'[t] = x + (IF split = "strided" THEN num_threads ELSE 1)
  /\ \A u \in team \ {t} : row'[u] = row[u]
  /\ written'[w][x] = Append(written[w][x], t)
  /\ \A v \in Weight : \A r \in Row(v) : (v # w \/ r # x) => written'[v][r] = written[v][r]

LEMMA WriteEffect ==
  ASSUME ScopedInv, NEW t \in team, WriteRow(t), NEW w, w = weight_idx(t), NEW x, x = row[t],
         x < OutSize[w]
  PROVE  Writes(t, w, x)
<1> DEFINE d == IF split = "strided" THEN num_threads ELSE 1
<1>1. /\ pc[t] = "rows" /\ x < until[t]
      /\ written' = [written EXCEPT ![w][x] = Append(@, t)]
      /\ row' = [row EXCEPT ![t] = @ + d]
      /\ UNCHANGED <<split, claimed, weight, pc, until, team, left, bpc>>
  BY DEF WriteRow, roundsVars
<1>2. /\ t \in Thread /\ w \in Weight /\ x \in Nat /\ OutSize[w] \in Nat
      /\ until[t] \in Nat /\ d \in Nat /\ DOMAIN written = Weight
  BY Typing
<1>3. x \in Row(w)
  BY <1>2 DEF Row
<1> HIDE DEF d
<1>4. row' \in [Thread -> Nat] /\ row'[t] = x + d /\ \A u \in team \ {t} : row'[u] = row[u]
  BY <1>1, <1>2, Typing
<1>5. written[w] \in [Row(w) -> Seq(Thread)] /\ Append(written[w][x], t) \in Seq(Thread)
  BY <1>2, <1>3, Typing
<1>6. /\ DOMAIN written' = Weight
      /\ written'[w] = [written[w] EXCEPT ![x] = Append(@, t)]
      /\ \A v \in Weight : v # w => written'[v] = written[v]
  BY <1>1, <1>2
<1>7. /\ written'[w] \in [Row(w) -> Seq(Thread)]
      /\ written'[w][x] = Append(written[w][x], t)
      /\ \A r \in Row(w) : r # x => written'[w][r] = written[w][r]
  BY <1>3, <1>5, <1>6
<1>8. \A u \in team : weight_idx(u)' = weight_idx(u)
  BY <1>1 DEF weight_idx
<1>9. TypeOK'
  <2>1. \A v \in Weight : written'[v] \in [Row(v) -> Seq(Thread)]
    BY <1>6, <1>7, Typing
  <2>2. \A u \in team' : weight_idx(u)' \in Weight
    BY <1>1, <1>8, Typing
  <2>3. /\ split' \in Split /\ claimed' \in Nat /\ weight' \in Weight
        /\ pc' \in [Thread -> {"start", "rows", "barrier", "done"}] /\ until' \in [Thread -> Nat]
    BY <1>1, Typing
  <2> QED  BY <1>4, <1>6, <2>1, <2>2, <2>3 DEF TypeOK
<1>10. Linked'
  <2>1. num_threads' = num_threads
    BY <1>1, OwnerKept
  <2> QED  BY <1>1, <1>8, <2>1 DEF ScopedInv, Linked
<1> QED  BY <1>1, <1>2, <1>3, <1>4, <1>6, <1>7, <1>8, <1>9, <1>10 DEF d, Writes

(* A thread writes a row of its own, and goes on behind it.                *)
LEMMA WriteOwnRow ==
  ASSUME ScopedInv, NEW t \in team, WriteRow(t), split # "claimed"
  PROVE  ScopedInv'
<1>1. PICK w, x : w = weight_idx(t) /\ x = row[t]
  OBVIOUS
<1>2. /\ WrittenByOwner /\ TakesOwnRows(t) /\ \A u \in team : TakesOwnRows(u)
      /\ pc[t] = "rows" /\ row[t] < until[t]
  BY DEF ScopedInv, OwnedRows, WriteRow
<1>3. x < OutSize[w]
  <2>1. until[t] <= OutSize[w] /\ until[t] \in Nat /\ OutSize[w] \in Nat /\ x \in Nat
    BY <1>1, <1>2, Typing DEF TakesOwnRows
  <2> QED  BY <1>1, <1>2, <2>1
<1>4. /\ w \in Weight /\ x \in Row(w) /\ x \in Nat
      /\ x < until[t] /\ until[t] \in Nat
      /\ UNCHANGED <<split, claimed, weight, pc, until, team, left, bpc>>
      /\ TypeOK' /\ Linked'
      /\ \A u \in team : weight_idx(u)' = weight_idx(u)
      /\ row'[t] = x + (IF split = "strided" THEN num_threads ELSE 1)
      /\ \A u \in team \ {t} : row'[u] = row[u]
      /\ written'[w][x] = Append(written[w][x], t)
      /\ \A v \in Weight : \A r \in Row(v) : (v # w \/ r # x) => written'[v][r] = written[v][r]
  <2>1. Writes(t, w, x)
    BY <1>1, <1>3, WriteEffect
  <2> QED  BY <2>1 DEF Writes
<1>5. num_threads' = num_threads /\ \A v, r : Owner(v, r)' = Owner(v, r)
  BY <1>4, OwnerKept
<1>6. /\ num_threads \in Nat \ {0} /\ row'[t] \in Nat /\ x < row'[t] /\ t \in Nat /\ t < num_threads
      /\ w \in Nat /\ ~(w < w) /\ ~(x < x)
      /\ split # "strided" => w = weight
  <2>1. w \in Nat
    BY <1>4, Weights
  <2>2. num_threads \in Nat \ {0} /\ t \in Nat /\ t < num_threads /\ w \in Nat
    BY <2>1, Typing
  <2>3. row'[t] \in Nat /\ x < row'[t] /\ ~(w < w) /\ ~(x < x)
    BY <1>4, <2>2
  <2> QED  BY <1>1, <2>2, <2>3 DEF weight_idx
<1>7. Owner(w, x) = t
  <2>1. CASE split = "strided"
    BY <1>1, <1>2, <2>1 DEF TakesOwnRows, Owner
  <2>2. CASE split # "strided"
    <3>1. x \in row[t]..(until[t] - 1)
      BY <1>1, <1>4
    <3> QED  BY <1>2, <1>6, <2>2, <3>1 DEF TakesOwnRows
  <2> QED  BY <2>1, <2>2
<1>8. ASSUME NEW r \in Row(w), Owner(w, r) = t
      PROVE  r < row'[t] <=> r < x \/ r = x
  <2>1. r \in Nat
    BY <1>4, Typing DEF Row
  <2>2. CASE split = "strided"
    <3>1. r % num_threads = x % num_threads
      BY <1>7, <1>8, <2>2 DEF Owner
    <3>2. x < r => x + num_threads <= r
      BY <1>4, <1>6, <2>1, <3>1, ResidueGap
    <3> QED  BY <1>4, <1>6, <2>1, <2>2, <3>2
  <2>3. CASE split # "strided"
    BY <1>4, <2>1, <2>3
  <2> QED  BY <2>2, <2>3
<1>9. WrittenByOwner'
  <2> SUFFICES ASSUME NEW v \in Weight, NEW r \in Row(v)
               PROVE  written'[v][r] = IF Past(Owner(v, r), v, r)' THEN <<Owner(v, r)'>> ELSE <<>>
    BY DEF WrittenByOwner
  <2>1. PICK o \in team : o = Owner(v, r)
    BY OwnerInTeam
  <2>2. Past(Owner(v, r), v, r)' <=> Past(o, v, r)'
    BY <1>5, <2>1 DEF Past, weight_idx
  <2>3. written[v][r] = IF Past(o, v, r) THEN <<o>> ELSE <<>>
    BY <1>2, <2>1 DEF WrittenByOwner
  <2>4. CASE v = w /\ r = x
    <3>1. ~Past(t, w, x)
      BY <1>1, <1>2, <1>6 DEF Past
    <3>2. Past(t, w, x)'
      BY <1>1, <1>2, <1>4, <1>6 DEF Past
    <3>3. o = t /\ written[v][r] = <<>>
      BY <1>7, <2>1, <2>3, <2>4, <3>1
    <3>4. written'[v][r] = <<t>>
      BY <1>4, <2>4, <3>3
    <3> QED  BY <1>5, <2>1, <2>2, <2>4, <3>2, <3>3, <3>4
  <2>5. CASE ~(v = w /\ r = x)
    <3>1. written'[v][r] = written[v][r]
      BY <1>4, <2>5
    <3>2. Past(o, v, r)' <=> Past(o, v, r)
      <4>1. CASE o # t
        BY <1>4, <4>1 DEF Past
      <4>2. CASE o = t /\ v # w
        BY <1>1, <1>4, <4>2 DEF Past
      <4>3. CASE o = t /\ v = w
        <5>1. r < row'[t] <=> r < row[t]
          BY <1>1, <1>8, <2>1, <2>5, <4>3
        <5> QED  BY <1>1, <1>4, <4>3, <5>1 DEF Past
      <4> QED  BY <4>1, <4>2, <4>3
    <3> QED  BY <1>5, <2>1, <2>2, <2>3, <3>1, <3>2
  <2> QED  BY <2>4, <2>5
<1>10. ASSUME NEW u \in team
       PROVE  TakesOwnRows(u)'
  <2>1. CASE u # t
    BY <1>2, <1>4, <1>5, <2>1 DEF TakesOwnRows
  <2>2. CASE u = t
    <3>1. split = "strided" => row'[t] % num_threads = t
      <4>1. HAVE split = "strided"
      <4>2. x % num_threads = t /\ row'[t] = x + num_threads
        BY <1>1, <1>2, <1>4, <4>1 DEF TakesOwnRows
      <4>3. (x + num_threads) % num_threads = x % num_threads
        BY <1>4, <1>6, NextResidue
      <4> QED  BY <4>2, <4>3
    <3>2. split # "strided" => \A r \in row'[t]..(until[t] - 1) : Owner(weight, r) = t
      BY <1>1, <1>2, <1>4, <1>6 DEF TakesOwnRows
    <3> QED  BY <1>2, <1>4, <1>5, <2>2, <3>1, <3>2 DEF TakesOwnRows
  <2> QED  BY <2>1, <2>2
<1> QED  BY <1>4, <1>9, <1>10 DEF ScopedInv, OwnedRows, ClaimedRows

(* A thread writes the first of the rows it has taken, and no longer has   *)
(* it.                                                                     *)
LEMMA WriteClaimedRow ==
  ASSUME ScopedInv, NEW t \in team, WriteRow(t), split = "claimed"
  PROVE  ScopedInv'
<1>1. PICK w, x : w = weight_idx(t) /\ x = row[t]
  OBVIOUS
<1>2. /\ \A u \in team : TakesClaimed(u)
      /\ TakenApart /\ WrittenIfComputed
      /\ pc[t] = "rows" /\ row[t] < until[t]
  BY DEF ScopedInv, ClaimedRows, WriteRow
<1>3. w = weight
  BY <1>1 DEF weight_idx
<1>4. x < OutSize[w] /\ x < claimed
  <2>1. /\ until[t] <= OutSize[w] /\ until[t] <= claimed
        /\ until[t] \in Nat /\ OutSize[w] \in Nat /\ x \in Nat /\ claimed \in Nat
    BY <1>1, <1>2, <1>3, Typing DEF TakesClaimed
  <2> QED  BY <1>1, <1>2, <2>1
<1>5. /\ w \in Weight /\ x \in Row(w) /\ x \in Nat
      /\ x < until[t] /\ until[t] \in Nat
      /\ UNCHANGED <<split, claimed, weight, pc, until, team, left, bpc>>
      /\ TypeOK' /\ Linked'
      /\ row'[t] = x + (IF split = "strided" THEN num_threads ELSE 1)
      /\ \A u \in team \ {t} : row'[u] = row[u]
      /\ written'[w][x] = Append(written[w][x], t)
      /\ \A v \in Weight : \A r \in Row(v) : (v # w \/ r # x) => written'[v][r] = written[v][r]
  <2>1. Writes(t, w, x)
    BY <1>1, <1>4, WriteEffect
  <2> QED  BY <2>1 DEF Writes
<1>6. \A u \in team \ {t} : \A r : Takes(u, r)' <=> Takes(u, r)
  BY <1>5 DEF Takes
<1>7. \A r \in Nat : Takes(t, r)' <=> Takes(t, r) /\ r # x
  BY <1>1, <1>5 DEF Takes
<1>8. Takes(t, x) /\ \A u \in team \ {t} : ~Takes(u, x)
  <2>1. Takes(t, x)
    BY <1>1, <1>2, <1>5 DEF Takes
  <2> QED  BY <1>2, <1>3, <1>5, <2>1 DEF TakenApart
<1>9. \A u \in team : TakesClaimed(u)'
  BY <1>2, <1>5 DEF TakesClaimed
<1>10. \A v \in Weight : \A r \in Row(v) : r \in Nat
  BY DEF Row
<1>11. TakenApart'
  BY <1>2, <1>3, <1>5, <1>6, <1>7, <1>10 DEF TakenApart
<1>12. WrittenIfComputed'
  <2> SUFFICES ASSUME NEW v \in Weight, NEW r \in Row(v)
               PROVE  Len(written'[v][r]) = IF Computed(v, r)' THEN 1 ELSE 0
    BY DEF WrittenIfComputed
  <2>1. CASE v = w /\ r = x
    <3>1. ~Computed(w, x)
      <4>1. w \in Nat /\ ~(w < w)
        BY <1>5, Weights
      <4> QED  BY <1>3, <1>8, <4>1 DEF Computed
    <3>2. \A u \in team : ~Takes(u, x)'
      BY <1>5, <1>6, <1>7, <1>8
    <3>3. Computed(w, x)'
      BY <1>3, <1>4, <1>5, <3>2 DEF Computed
    <3>4. written[w][x] \in Seq(Thread) /\ Len(written[w][x]) = 0
      BY <1>2, <1>5, <3>1, Typing DEF WrittenIfComputed
    <3>5. Len(Append(written[w][x], t)) = 1
      BY <3>4
    <3> QED  BY <1>5, <2>1, <3>3, <3>5
  <2>2. CASE ~(v = w /\ r = x)
    <3>1. v = w => r # x
      BY <2>2
    <3>2. Computed(v, r)' <=> Computed(v, r)
      BY <1>3, <1>5, <1>6, <1>7, <1>10, <3>1 DEF Computed
    <3> QED  BY <1>2, <1>5, <2>2, <3>2 DEF WrittenIfComputed
  <2> QED  BY <2>1, <2>2
<1> QED  BY <1>5, <1>9, <1>11, <1>12 DEF ScopedInv, OwnedRows, ClaimedRows

-----------------------------------------------------------------------------
LEMMA Unchanged ==
  ASSUME ScopedInv, UNCHANGED local, team' = team, left' = left,
         bpc' \in [Thread -> BarrierPC],
         \A u \in team : pc[u] # "barrier" => bpc'[u] = bpc[u]
  PROVE  ScopedInv'
<1>1. /\ split' = split /\ claimed' = claimed /\ weight' = weight /\ pc' = pc
      /\ row' = row /\ until' = until /\ written' = written
  BY DEF local
<1>2. num_threads' = num_threads /\ \A w, r : Owner(w, r)' = Owner(w, r)
  BY <1>1, OwnerKept
<1>3. \A u : weight_idx(u)' = weight_idx(u)
  BY <1>1 DEF weight_idx
<1>4. TypeOK'
  BY <1>1, <1>3 DEF ScopedInv, TypeOK
<1>5. Linked'
  <2>1. ASSUME NEW u \in team
        PROVE  /\ pc[u] # "barrier" => bpc'[u] = "out"
               /\ pc[u] = "barrier" => split = "strided" /\ weight_idx(u) < Len(OutSize)
    BY DEF ScopedInv, Linked
  <2>2. num_threads \in 1..MaxThreads /\ team = 0..(num_threads - 1) /\ left \in [Thread -> Nat]
    BY DEF ScopedInv, Linked
  <2> QED  BY <1>1, <1>2, <1>3, <2>1, <2>2 DEF Linked
<1>6. OwnedRows'
  <2>1. \A u, w, r : Past(u, w, r)' <=> Past(u, w, r)
    BY <1>1, <1>3 DEF Past
  <2> SUFFICES ASSUME split # "claimed"
               PROVE  WrittenByOwner' /\ \A u \in team : TakesOwnRows(u)'
    BY <1>1 DEF OwnedRows
  <2>2. WrittenByOwner /\ \A u \in team : TakesOwnRows(u)
    BY DEF ScopedInv, OwnedRows
  <2>3. \A u \in team : TakesOwnRows(u)'
    BY <1>1, <1>2, <1>3, <2>2 DEF TakesOwnRows
  <2>4. ASSUME NEW w \in Weight, NEW r \in Row(w)
        PROVE  written'[w][r] = IF Past(Owner(w, r), w, r)' THEN <<Owner(w, r)'>> ELSE <<>>
    <3>1. Past(Owner(w, r), w, r)' <=> Past(Owner(w, r), w, r)
      BY <1>1, <1>2 DEF Past, weight_idx
    <3> QED  BY <1>1, <1>2, <2>2, <3>1 DEF WrittenByOwner
  <2> QED  BY <2>3, <2>4 DEF WrittenByOwner
<1>7. ClaimedRows'
  <2>1. \A u, r : Takes(u, r)' <=> Takes(u, r)
    BY <1>1 DEF Takes
  <2>2. \A w, r : Computed(w, r)' <=> Computed(w, r)
    BY <1>1, <2>1 DEF Computed
  <2>3. \A u : TakesClaimed(u)' <=> TakesClaimed(u)
    BY <1>1 DEF TakesClaimed
  <2>4. TakenApart' <=> TakenApart
    BY <1>1, <2>1 DEF TakenApart
  <2>5. WrittenIfComputed' <=> WrittenIfComputed
    BY <1>1, <2>2 DEF WrittenIfComputed
  <2> QED  BY <1>1, <2>3, <2>4, <2>5 DEF ScopedInv, ClaimedRows
<1> QED  BY <1>4, <1>5, <1>6, <1>7 DEF ScopedInv

LEMMA InBarrierInv ==
  ASSUME ScopedInv, NEW t \in team, InBarrier(t)
  PROVE  ScopedInv'
<1>1. /\ pc[t] = "barrier" /\ UNCHANGED local /\ team' = team /\ left' = left
      /\ bpc' \in [Thread -> BarrierPC]
      /\ \A u \in team \ {t} : bpc'[u] = bpc[u]
  BY BarrierMoves
<1> QED  BY <1>1, Unchanged

(* A thread that leaves the barrier is past the rows it had, and at the    *)
(* next output it is past none.                                            *)
LEMMA LeaveBarrierInv ==
  ASSUME ScopedInv, NEW t \in team, LeaveBarrier(t)
  PROVE  ScopedInv'
<1>1. /\ pc[t] = "barrier" /\ pc' = [pc EXCEPT ![t] = "start"]
      /\ UNCHANGED <<split, claimed, weight, row, until, written>>
      /\ team' = team /\ left' = [left EXCEPT ![t] = @ + 1]
      /\ bpc' \in [Thread -> BarrierPC] /\ bpc'[t] = "out"
      /\ \A u \in team \ {t} : bpc'[u] = bpc[u]
  BY BarrierLeft
<1>2. split = "strided" /\ weight_idx(t) < Len(OutSize)
  BY <1>1 DEF ScopedInv, Linked
<1>3. /\ t \in Thread /\ left[t] \in Nat /\ weight_idx(t) \in Weight
      /\ Len(OutSize) \in Nat /\ Weight = 1..Len(OutSize) /\ claimed \in Nat
  BY Typing
<1>4. /\ pc' \in [Thread -> {"start", "rows", "barrier", "done"}] /\ pc'[t] = "start"
      /\ \A u \in team \ {t} : pc'[u] = pc[u]
  BY <1>1, <1>3, Typing
<1>5. /\ left' \in [Thread -> Nat] /\ left'[t] = left[t] + 1
      /\ \A u \in team \ {t} : left'[u] = left[u]
  BY <1>1, <1>3, Typing
<1>6. /\ weight_idx(t) = left[t] + 1 /\ weight_idx(t)' = left[t] + 2
      /\ weight_idx(t)' = weight_idx(t) + 1 /\ weight_idx(t)' \in Weight
  BY <1>1, <1>2, <1>3, <1>5 DEF weight_idx
<1>7. TypeOK' /\ Linked' /\ \A u \in team \ {t} : weight_idx(u)' = weight_idx(u)
  <2>1. /\ row' \in [Thread -> Nat] /\ until' \in [Thread -> Nat] /\ claimed' \in Nat
        /\ DOMAIN written' = Weight
        /\ \A w \in Weight : written'[w] \in [Row(w) -> Seq(Thread)]
    BY <1>1, Typing
  <2>2. \A u \in team \ {t} : pc'[u] = pc[u] /\ left'[u] = left[u] /\ bpc'[u] = bpc[u]
    BY <1>1, <1>4, <1>5
  <2>3. pc'[t] # "barrier"
    BY <1>4
  <2>4. UNCHANGED <<split, weight, team>>
    BY <1>1
  <2>5. bpc' \in [Thread -> BarrierPC] /\ (pc'[t] # "barrier" => bpc'[t] = "out")
    BY <1>1
  <2> QED  BY <1>4, <1>5, <1>6, <2>1, <2>2, <2>3, <2>4, <2>5, ThreadMoves
<1>8. TakesOwnRows(t)'
  BY <1>4 DEF TakesOwnRows
<1>9. ASSUME NEW w \in Weight, NEW r \in Row(w)
      PROVE  Past(t, w, r)' <=> Past(t, w, r)
  <2>1. w \in Nat /\ weight_idx(t) \in Nat
    BY <1>3, <1>9, Weights
  <2>2. w < weight_idx(t) + 1 <=> w < weight_idx(t) \/ w = weight_idx(t)
    BY <2>1
  <2> QED  BY <1>1, <1>4, <1>6, <2>2 DEF Past
<1>10. OwnedRows'
  BY <1>1, <1>2, <1>4, <1>7, <1>8, <1>9, RowsKept
<1>11. ClaimedRows'
  BY <1>1, <1>2 DEF ClaimedRows
<1> QED  BY <1>7, <1>10, <1>11 DEF ScopedInv

(* When the threads of a scope are joined all its rows are written.        *)
LEMMA NextScopeInv ==
  ASSUME ScopedInv, NextScope
  PROVE  ScopedInv'
<1>1. /\ \A t \in team : pc[t] = "done"
      /\ split # "strided" /\ weight < Len(OutSize) /\ weight' = weight + 1 /\ claimed' = 0
      /\ pc' = [t \in Thread |-> "start"]
      /\ UNCHANGED <<split, row, until, written, team, left, bpc>>
  BY DEF NextScope, Joined, roundsVars
<1>2. weight \in Weight /\ weight' \in Weight /\ weight \in Nat /\ OutSize[weight] \in Nat
  BY <1>1, Typing
<1>3. \A t \in team : pc'[t] = "start"
  BY <1>1, Typing
<1>4. \A t \in team : weight_idx(t)' = weight' /\ weight_idx(t) = weight
  BY <1>1 DEF weight_idx
<1>5. TypeOK'
  <2>1. pc' \in [Thread -> {"start", "rows", "barrier", "done"}]
    BY <1>1
  <2> QED  BY <1>1, <1>2, <1>4, <2>1, Typing DEF TypeOK
<1>6. Linked'
  <2>1. num_threads' = num_threads
    BY <1>1, OwnerKept
  <2> QED  BY <1>1, <1>3, <1>4, <2>1 DEF ScopedInv, Linked
<1>7. \A w \in Weight : w < weight' <=> w < weight \/ w = weight
  <2> SUFFICES ASSUME NEW w \in Weight
               PROVE  w < weight' <=> w < weight \/ w = weight
    OBVIOUS
  <2> QED  BY <1>1, <1>2, Weights
<1>8. OwnedRows'
  <2> SUFFICES ASSUME split # "claimed"
               PROVE  WrittenByOwner' /\ \A u \in team : TakesOwnRows(u)'
    BY <1>1 DEF OwnedRows
  <2>1. WrittenByOwner
    BY DEF ScopedInv, OwnedRows
  <2>2. \A w, r : Owner(w, r)' = Owner(w, r)
    BY <1>1, OwnerKept
  <2>3. ASSUME NEW w \in Weight, NEW r \in Row(w)
        PROVE  written'[w][r] = IF Past(Owner(w, r), w, r)' THEN <<Owner(w, r)'>> ELSE <<>>
    <3>1. PICK o \in team : o = Owner(w, r)
      BY OwnerInTeam
    <3>2. Past(Owner(w, r), w, r)' <=> Past(o, w, r)'
      BY <2>2, <3>1 DEF Past, weight_idx
    <3>3. Past(o, w, r)' <=> w < weight'
      BY <1>3, <1>4 DEF Past
    <3>4. Past(o, w, r) <=> w < weight \/ w = weight
      BY <1>1, <1>4 DEF Past
    <3> QED  BY <1>1, <1>7, <2>1, <2>2, <3>1, <3>2, <3>3, <3>4 DEF WrittenByOwner
  <2> QED  BY <1>3, <2>3 DEF WrittenByOwner, TakesOwnRows
<1>9. ClaimedRows'
  <2> SUFFICES ASSUME split = "claimed"
               PROVE  (\A u \in team : TakesClaimed(u)') /\ TakenApart' /\ WrittenIfComputed'
    BY <1>1 DEF ClaimedRows
  <2>1. (\A u \in team : TakesClaimed(u)) /\ WrittenIfComputed
    BY DEF ScopedInv, ClaimedRows
  <2>2. OutSize[weight] <= claimed /\ claimed \in Nat
    <3>1. 0 \in team
      BY Typing
    <3> QED  BY <1>1, <2>1, <3>1, Typing DEF TakesClaimed
  <2>3. ASSUME NEW w \in Weight, NEW r \in Row(w)
        PROVE  Computed(w, r)' <=> Computed(w, r)
    <3>1. r \in Nat /\ ~(r < 0)
      BY Typing DEF Row
    <3>2. w = weight => r < claimed
      BY <1>2, <2>2, <3>1 DEF Row
    <3>3. \A t \in team : ~Takes(t, r)
      BY <1>1 DEF Takes
    <3> QED  BY <1>1, <1>7, <3>1, <3>2, <3>3 DEF Computed
  <2>4. WrittenIfComputed'
    BY <1>1, <2>1, <2>3 DEF WrittenIfComputed
  <2> QED  BY <1>1, <1>3, <2>4 DEF TakesClaimed, TakenApart, Takes
<1> QED  BY <1>5, <1>6, <1>8, <1>9 DEF ScopedInv

-----------------------------------------------------------------------------
LEMMA InitScoped == Init => ScopedInv
<1> SUFFICES ASSUME Init
             PROVE  ScopedInv
  OBVIOUS
<1>1. PICK n \in 1..MaxThreads : team = 0..(n - 1)
  BY DEF Init
<1>2. num_threads = n
  <2>1. n \in Nat \ {0} /\ 0 \in Int /\ n - 1 \in Int
    BY ThreadsAssumption
  <2>2. Cardinality(0..(n - 1)) = n
    BY <2>1, FS_Interval
  <2> QED  BY <1>1, <2>2 DEF num_threads, n_threads
<1>3. /\ \A t \in Thread : pc[t] = "start" /\ left[t] = 0 /\ bpc[t] = "out"
      /\ left \in [Thread -> Nat] /\ bpc \in [Thread -> BarrierPC]
      /\ split \in Split /\ claimed = 0 /\ weight = 1
      /\ pc \in [Thread -> {"start", "rows", "barrier", "done"}]
      /\ row \in [Thread -> Nat] /\ until \in [Thread -> Nat]
      /\ written = [w \in Weight |-> [r \in Row(w) |-> <<>>]]
  BY DEF Init, RoundsInit, BarrierInit, BarrierPC
<1>4. team \subseteq Thread /\ 1 \in Weight
  BY <1>1, ThreadsAssumption, OutSizeAssumption DEF Weight
<1>5. \A t \in team : weight_idx(t) = 1 /\ pc[t] = "start" /\ bpc[t] = "out"
  BY <1>3, <1>4 DEF weight_idx
<1>6. /\ DOMAIN written = Weight
      /\ \A w \in Weight : written[w] \in [Row(w) -> Seq(Thread)]
      /\ \A w \in Weight : \A r \in Row(w) : written[w][r] = <<>>
  BY <1>3
<1>7. TypeOK
  BY <1>3, <1>4, <1>5, <1>6 DEF TypeOK
<1>8. Linked
  BY <1>1, <1>2, <1>3, <1>5 DEF Linked
<1>9. \A t \in team : \A w \in Weight : \A r \in Row(w) : ~Past(t, w, r)
  <2>1. \A w \in Weight : ~(w < 1)
    BY OutSizeAssumption DEF Weight
  <2> QED  BY <1>5, <2>1 DEF Past
<1>10. WrittenIfComputed /\ TakenApart /\ \A t \in team : TakesClaimed(t)
  <2>1. \A w \in Weight : \A r \in Row(w) : ~(w < weight) /\ ~(r < claimed)
    BY <1>3, OutSizeAssumption DEF Weight, Row
  <2> QED  BY <1>5, <1>6, <2>1 DEF WrittenIfComputed, Computed, TakenApart, Takes, TakesClaimed
<1>11. OwnedRows
  <2>1. \A w \in Weight : \A r \in Row(w) : Owner(w, r) \in team
    BY <1>8, OwnerOfRow
  <2> QED  BY <1>5, <1>6, <1>9, <2>1 DEF OwnedRows, WrittenByOwner, TakesOwnRows
<1> QED  BY <1>7, <1>8, <1>10, <1>11 DEF ScopedInv, ClaimedRows

LEMMA NextScoped == ScopedInv /\ [Next]_vars => ScopedInv'
<1> SUFFICES ASSUME ScopedInv, [Next]_vars
             PROVE  ScopedInv'
  OBVIOUS
<1>1. CASE UNCHANGED vars
  BY <1>1, Typing, Unchanged DEF vars, roundsVars
<1>2. CASE Return
  BY <1>2, Typing, Unchanged DEF Return, vars, roundsVars
<1>3. CASE NextScope
  BY <1>3, NextScopeInv
<1>4. ASSUME NEW t \in team, ThreadStep(t)
      PROVE  ScopedInv'
  <2>1. CASE StartStrided(t)
    BY <2>1, StartStridedInv
  <2>2. CASE Claim(t)
    BY <2>2, ClaimInv
  <2>3. CASE StartChunk(t)
    BY <2>3, StartChunkInv
  <2>4. CASE WriteRow(t)
    BY <2>4, WriteOwnRow, WriteClaimedRow
  <2>5. CASE EndRows(t)
    BY <2>5, EndRowsInv
  <2>6. CASE InBarrier(t)
    BY <2>6, InBarrierInv
  <2>7. CASE LeaveBarrier(t)
    BY <2>7, LeaveBarrierInv
  <2> QED  BY <1>4, <2>1, <2>2, <2>3, <2>4, <2>5, <2>6, <2>7 DEF ThreadStep
<1> QED  BY <1>1, <1>2, <1>3, <1>4 DEF Next

(* The invariant of the parallel loops, for every number of threads, every *)
(* size of the outputs and every size of a claim: each row has one thread  *)
(* that computes it, or is claimed by one.  (the loops of cpu/threaded.rs  *)
(* and cpu/thread_pool.rs)                                                 *)
THEOREM ScopedInvariantHolds == SafeSpec => []ScopedInv
BY InitScoped, NextScoped, PTL DEF SafeSpec

LEMMA WrittenAtMostOnce == ScopedInv => WrittenOnce
<1> SUFFICES ASSUME ScopedInv, NEW w \in Weight, NEW r \in Row(w)
             PROVE  Len(written[w][r]) <= 1
  BY DEF WrittenOnce
<1>1. CASE split = "claimed"
  <2>1. Len(written[w][r]) = IF Computed(w, r) THEN 1 ELSE 0
    BY <1>1 DEF ScopedInv, ClaimedRows, WrittenIfComputed
  <2> QED  BY <2>1
<1>2. CASE split # "claimed"
  <2>1. written[w][r] = <<Owner(w, r)>> \/ written[w][r] = <<>>
    BY <1>2 DEF ScopedInv, OwnedRows, WrittenByOwner
  <2>2. \A x : Len(<<x>>) = 1
    OBVIOUS
  <2>3. Len(<<>>) = 0
    OBVIOUS
  <2> DEFINE l == Len(written[w][r])
  <2>4. l = 0 \/ l = 1
    BY <2>1, <2>2, <2>3
  <2> HIDE DEF l
  <2>5. l <= 1
    BY <2>4
  <2> QED  BY <2>5 DEF l
<1> QED  BY <1>1, <1>2

(* The raw pointers that the threads of a scope write through do not race: *)
(* no row is ever written twice, whichever way the rows are split.         *)
THEOREM NoRowIsWrittenTwice == SafeSpec => []WrittenOnce
BY ScopedInvariantHolds, WrittenAtMostOnce, PTL

-----------------------------------------------------------------------------
(* The strided loop runs the barrier as SpinBarrierRounds does, so what is *)
(* proved of it holds here.                                                *)
LEMMA BarrierRuns == SafeSpec => SafeRounds
<1>1. Init => RoundsInit
  BY DEF Init
<1>2. [Next]_vars => [RoundsNext]_roundsVars
  <2>1. ASSUME NEW t \in team, InBarrier(t) \/ LeaveBarrier(t)
        PROVE  RoundsNext
    BY <2>1 DEF InBarrier, LeaveBarrier, RoundsNext
  <2>2. [Next]_vars =>
          UNCHANGED roundsVars \/ \E t \in team : InBarrier(t) \/ LeaveBarrier(t)
    BY DEF Next, vars, Return, NextScope, ThreadStep,
           StartStrided, Claim, StartChunk, WriteRow, EndRows
  <2> QED  BY <2>1, <2>2
<1> QED  BY <1>1, <1>2, PTL DEF SafeSpec, SafeRounds

(* What the loop needs of its barrier.                                     *)
Paced ==
  /\ entered \in [Thread -> Nat]
  /\ \A t, u \in team : left[t] <= entered[u]
  /\ \A t \in team : entered[t] <= left[t] + 1 /\ (bpc[t] = "out" => entered[t] = left[t])

LEMMA BarrierPaces == SafeSpec => []Paced
<1>1. BarrierInv => Paced
  <2> SUFFICES ASSUME BarrierInv
               PROVE  Paced
    OBVIOUS
  <2>1. /\ entered \in [Thread -> Nat] /\ left \in [Thread -> Nat] /\ released \in Nat
        /\ team \subseteq Thread
        /\ bpc \in [Thread -> {"out", "add", "last", "publish", "spin"}]
    BY DEF BarrierInv, RoundsTypeOK, BarrierTypeOK, BarrierPC
  <2>2. ASSUME NEW t \in team
        PROVE  entered[t] <= left[t] + 1 /\ (bpc[t] = "out" => entered[t] = left[t])
    BY <2>1 DEF BarrierInv, Places, PlaceOf
  <2>3. \A t, u \in team : left[t] <= entered[u]
    BY InvImpliesRendezvous DEF NobodyLeavesEarly
  <2> QED  BY <2>1, <2>2, <2>3 DEF Paced
<1> QED  BY <1>1, BarrierInvariantHolds, BarrierRuns, PTL

(* A thread at an output is past the rows of those before, and so is every *)
(* other thread: the barrier does not let it leave before they are in it.  *)
LEMMA PhasesFollow == ScopedInv /\ Paced => PhasesAreSeparate
<1> SUFFICES ASSUME ScopedInv, Paced
             PROVE  PhasesAreSeparate
  OBVIOUS
<1>1. ASSUME NEW t \in team, NEW o \in team, split = "strided"
      PROVE  /\ left[t] \in Nat /\ left[o] \in Nat
             /\ left[t] <= left[o] + 1
             /\ left[t] > left[o] => pc[o] = "barrier"
  <2>1. left[t] \in Nat /\ left[o] \in Nat /\ entered[o] \in Nat
    BY Typing DEF Paced
  <2>2. left[t] <= entered[o] /\ entered[o] <= left[o] + 1 /\ (bpc[o] = "out" => entered[o] = left[o])
    BY DEF Paced
  <2>3. pc[o] # "barrier" => bpc[o] = "out"
    BY DEF ScopedInv, Linked
  <2> QED  BY <2>1, <2>2, <2>3
<1>2. ASSUME NEW t \in team, NEW w \in 1..(weight_idx(t) - 1), NEW r \in Row(w)
      PROVE  written[w][r] # <<>>
  <2>1. w \in Weight /\ w \in Nat /\ w < weight_idx(t) /\ weight_idx(t) \in Nat
    <3>1. weight_idx(t) \in Weight /\ weight_idx(t) \in Nat
      BY Typing, Weights
    <3> QED  BY <1>2, <3>1, OutSizeAssumption DEF Weight
  <2>2. CASE split = "claimed"
    <3>1. Computed(w, r)
      BY <2>1, <2>2 DEF Computed, weight_idx
    <3>2. Len(written[w][r]) = 1
      BY <2>1, <2>2, <3>1 DEF ScopedInv, ClaimedRows, WrittenIfComputed
    <3>3. Len(<<>>) = 0 /\ 0 # 1
      OBVIOUS
    <3> QED  BY <3>2, <3>3, Zenon
  <2>3. CASE split # "claimed"
    <3>1. PICK o \in team : o = Owner(w, r)
      BY <2>1, OwnerInTeam
    <3>2. Past(o, w, r)
      <4>1. CASE split # "strided"
        BY <2>1, <4>1 DEF Past, weight_idx
      <4>2. CASE split = "strided"
        <5>1. /\ left[t] \in Nat /\ left[o] \in Nat /\ left[t] <= left[o] + 1
              /\ left[t] > left[o] => pc[o] = "barrier"
          BY <1>1, <4>2
        <5>2. weight_idx(t) = left[t] + 1 /\ weight_idx(o) = left[o] + 1
          BY <4>2 DEF weight_idx
        <5>3. w < weight_idx(o) \/ (w = weight_idx(o) /\ left[t] > left[o])
          BY <2>1, <5>1, <5>2
        <5> QED  BY <5>1, <5>3 DEF Past
      <4> QED  BY <4>1, <4>2
    <3>3. written[w][r] = <<o>>
      BY <2>1, <2>3, <3>1, <3>2 DEF ScopedInv, OwnedRows, WrittenByOwner
    <3> QED  BY <3>3
  <2> QED  BY <2>2, <2>3
<1>3. ASSUME NEW t \in team, NEW u \in team, weight_idx(t) < weight_idx(u)
      PROVE  weight_idx(u) = weight_idx(t) + 1 /\ pc[t] = "barrier"
  <2>1. CASE split # "strided"
    <3>1. weight_idx(t) = weight /\ weight_idx(u) = weight /\ ~(weight < weight)
      BY <2>1, Typing, Weights DEF weight_idx
    <3> QED  BY <1>3, <3>1
  <2>2. CASE split = "strided"
    <3>1. weight_idx(t) = left[t] + 1 /\ weight_idx(u) = left[u] + 1
      BY <2>2 DEF weight_idx
    <3>2. /\ left[u] \in Nat /\ left[t] \in Nat /\ left[u] <= left[t] + 1
          /\ left[u] > left[t] => pc[t] = "barrier"
      BY <1>1, <2>2
    <3> QED  BY <1>3, <3>1, <3>2
  <2> QED  BY <2>1, <2>2
<1> QED  BY <1>2, <1>3 DEF PhasesAreSeparate

(* No thread works on an output while a row of an earlier one is missing,  *)
(* though nothing but the SpinBarrier (in gemv_batch_with_barrier) keeps   *)
(* the threads together: for any number of threads and of products.        *)
THEOREM OutputsAreInOrder == SafeSpec => []PhasesAreSeparate
BY ScopedInvariantHolds, BarrierPaces, PhasesFollow, PTL
=============================================================================
