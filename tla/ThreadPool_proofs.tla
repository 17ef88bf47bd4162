-------------------------- MODULE ThreadPool_proofs --------------------------
(***************************************************************************)
(* A call of ThreadPool::parallel() that begins while the workers are      *)
(* parked is joined, for any number of workers and of calls: no closure is *)
(* run twice, and the owner returns only when its closure has been run.    *)
(***************************************************************************)
EXTENDS ThreadPool, FiniteSetTheorems, TLAPS

LEMMA Typing ==
  ASSUME TypeOK
  PROVE  /\ team \subseteq Thread /\ Caller \in team /\ Worker \subseteq Thread
         /\ IsFiniteSet(team) /\ n_threads \in Nat
         /\ counter \in Nat
         /\ passed \in 0..(Wrap - 1)
         /\ bpc \in [Thread -> BarrierPC]
         /\ seen \in [Thread -> 0..(Wrap - 1)]
         /\ pc \in [Thread -> WorkerPC \cup CallerPC]
         /\ item \in [Thread -> 0..MaxCalls]
         /\ work \in 0..MaxCalls /\ calls \in 0..MaxCalls
         /\ asleep \subseteq Worker
         /\ took \in [Call -> SUBSET Thread]
         /\ done \in [Call -> SUBSET Thread]
<1>1. IsFiniteSet(team)
  BY ThreadAssumption, FS_Subset DEF TypeOK, BarrierTypeOK
<1>2. n_threads \in Nat
  BY <1>1, FS_CardinalityType DEF n_threads
<1>3. QED
  BY <1>1, <1>2 DEF TypeOK, BarrierTypeOK, Worker

(* The steps by what they change. *)
LEMMA StepCases ==
  ASSUME TypeOK, [Next]_vars
  PROVE  \/ UNCHANGED vars
         \/ \E w \in Worker :
              \/ LockSlot(w) \/ TestReady(w) \/ Sleep(w) \/ Exit(w) \/ SpuriousWakeup(w)
              \/ Take(w)
              \/ RunItem(w)
         \/ \E t \in team : InBarrier(t) \/ LeaveBarrier(t)
         \/ BeginParallel
         \/ FinishReset
         \/ FillSlot \/ SetReady \/ BeginDrop \/ DropReady \/ Join
         \/ Notify \/ DropNotify
         \/ RunSelf
         \/ EndParallel
<1>1. Worker \subseteq team /\ Caller \in team
  BY DEF TypeOK, Worker
<1>2. ASSUME NEW w \in Worker, WorkerStep(w)
      PROVE  \/ LockSlot(w) \/ TestReady(w) \/ Sleep(w) \/ Exit(w)
             \/ Take(w) \/ RunItem(w)
             \/ \E t \in team : InBarrier(t) \/ LeaveBarrier(t)
  BY <1>1, <1>2 DEF WorkerStep
<1>3. CASE CallerStep
  BY <1>1, <1>3 DEF CallerStep
<1>4. QED
  BY <1>2, <1>3 DEF Next

LEMMA SuccType ==
  ASSUME NEW p \in 0..(Wrap - 1)
  PROVE  Succ(p) \in 0..(Wrap - 1)
BY WrapAssumption DEF Succ

(* A step of the barrier, by the thread t: what InBarrier and LeaveBarrier *)
(* change of it.                                                           *)
LEMMA BarrierSteps ==
  ASSUME NEW t, InBarrier(t) \/ LeaveBarrier(t)
  PROVE  /\ pc[t] = "barrier"
         /\ LoadPassed(t) \/ Arrive(t) \/ ZeroCounter(t) \/ Publish(t) \/ SpinExit(t) \/ WaitSolo(t)
         /\ UNCHANGED <<team, work, lock, asleep, work_ready, stop, item, calls, spurious, history>>
         /\ \/ pc' = pc
            \/ Goto(t, IF t = Caller THEN "unready" ELSE "lock")
BY DEF InBarrier, LeaveBarrier, LoadPassed, Arrive, ZeroCounter, Publish, SpinExit, WaitSolo,
       barrierVars, pool

LEMMA BarrierTypes ==
  ASSUME TypeOK, NEW t \in team, InBarrier(t) \/ LeaveBarrier(t)
  PROVE  BarrierTypeOK'
<1> USE DEF TypeOK, BarrierTypeOK, BarrierPC
<1>1. CASE LoadPassed(t)
  BY <1>1 DEF LoadPassed
<1>2. CASE Arrive(t)
  BY <1>2 DEF Arrive
<1>3. CASE ZeroCounter(t)
  BY <1>3 DEF ZeroCounter
<1>4. CASE Publish(t)
  BY <1>4, SuccType DEF Publish
<1>5. CASE SpinExit(t)
  BY <1>5 DEF SpinExit
<1>6. CASE WaitSolo(t)
  BY <1>6 DEF WaitSolo, barrierVars
<1>7. QED
  BY <1>1, <1>2, <1>3, <1>4, <1>5, <1>6, BarrierSteps

-----------------------------------------------------------------------------
LEMMA TypeInductive ==
  ASSUME TypeOK, Closures, [Next]_vars
  PROVE  TypeOK'
<1> USE DEF TypeOK
<1> DEFINE Same == UNCHANGED barrierVars
<1>0. Same => BarrierTypeOK' /\ team' = team /\ Worker' = Worker
  BY DEF BarrierTypeOK, barrierVars, Worker
<1>1. CASE UNCHANGED vars
  BY <1>0, <1>1 DEF vars, pool, history
<1>2. ASSUME NEW w \in Worker,
             LockSlot(w) \/ TestReady(w) \/ Sleep(w) \/ Exit(w) \/ SpuriousWakeup(w)
      PROVE  TypeOK'
  <2>1. w \in Thread /\ Same /\ UNCHANGED <<work, item, calls, work_ready, stop, history>>
    BY <1>2, Typing DEF LockSlot, TestReady, Sleep, Exit, SpuriousWakeup
  <2>2. pc' \in [Thread -> WorkerPC \cup CallerPC]
    BY <1>2, <2>1 DEF LockSlot, TestReady, Sleep, Exit, SpuriousWakeup, Goto, WorkerPC
  <2>3. lock' \in Thread \cup {NoThread} /\ asleep' \subseteq Worker /\ spurious' \in 0..MaxSpurious
    BY <1>2, <2>1, BoundAssumption DEF LockSlot, TestReady, Sleep, Exit, SpuriousWakeup
  <2>4. QED
    BY <1>0, <2>1, <2>2, <2>3 DEF history
<1>3. ASSUME NEW w \in Worker, Take(w)
      PROVE  TypeOK'
  <2>1. w \in Thread /\ Same
    BY <1>3, Typing DEF Take
  <2>2. pc' \in [Thread -> WorkerPC \cup CallerPC]
    BY <1>3, <2>1 DEF Take, Goto, WorkerPC
  <2>3. took' \in [Call -> SUBSET Thread]
    BY <1>3, <2>1 DEF Take
  <2>4. item' \in [Thread -> 0..MaxCalls] /\ work' \in 0..MaxCalls
    BY <1>3, <2>1, BoundAssumption DEF Take, NoWork
  <2>5. QED
    BY <1>0, <1>3, <2>1, <2>2, <2>3, <2>4 DEF Take
<1>4. ASSUME NEW w \in Worker, RunItem(w)
      PROVE  TypeOK'
  <2>1. w \in Thread /\ Same
    BY <1>4, Typing DEF RunItem
  <2>2. pc' \in [Thread -> WorkerPC \cup CallerPC]
    BY <1>4, <2>1 DEF RunItem, Goto, WorkerPC
  <2>3. done' \in [Call -> SUBSET Thread]
    BY <1>4, <2>1 DEF RunItem
  <2>4. item' \in [Thread -> 0..MaxCalls]
    BY <1>4, <2>1, BoundAssumption DEF RunItem, NoWork
  <2>5. QED
    BY <1>0, <1>4, <2>1, <2>2, <2>3, <2>4 DEF RunItem
<1>5. ASSUME NEW t \in team, InBarrier(t) \/ LeaveBarrier(t)
      PROVE  TypeOK'
  <2>1. BarrierTypeOK'
    BY <1>5, BarrierTypes
  <2>2. pc' \in [Thread -> WorkerPC \cup CallerPC]
    BY <1>5, BarrierSteps, Typing DEF Goto, WorkerPC, CallerPC
  <2>3. QED
    BY <1>5, <2>1, <2>2, BarrierSteps DEF history, Worker
<1>6. CASE BeginParallel
  <2>1. BarrierTypeOK' /\ team' = team /\ Worker' = Worker
    BY <1>6 DEF BeginParallel, ResetCounter, BarrierTypeOK, Worker
  <2>2. pc' \in [Thread -> WorkerPC \cup CallerPC]
    BY <1>6, Typing DEF BeginParallel, Goto, CallerPC
  <2>3. calls' \in 0..MaxCalls /\ clean' \subseteq Call
    BY <1>6, BoundAssumption DEF BeginParallel, Call
  <2>4. QED
    BY <1>6, <2>1, <2>2, <2>3 DEF BeginParallel
<1>7. CASE FinishReset
  <2>1. BarrierTypeOK' /\ team' = team /\ Worker' = Worker
    BY <1>7, WrapAssumption DEF FinishReset, ResetPassed, BarrierTypeOK, Worker
  <2>2. pc' \in [Thread -> WorkerPC \cup CallerPC]
    BY <1>7, Typing DEF FinishReset, Goto, CallerPC
  <2>3. QED
    BY <1>7, <2>1, <2>2 DEF FinishReset, history
<1>8. CASE FillSlot \/ SetReady \/ BeginDrop \/ DropReady \/ Join
  <2>1. Same /\ UNCHANGED <<lock, asleep, item, calls, spurious, history>>
    BY <1>8 DEF FillSlot, SetReady, BeginDrop, DropReady, Join
  <2>2. pc' \in [Thread -> WorkerPC \cup CallerPC]
    BY <1>8, Typing DEF FillSlot, SetReady, BeginDrop, DropReady, Join, Goto, CallerPC
  <2>3. work' \in 0..MaxCalls /\ work_ready' \in BOOLEAN /\ stop' \in BOOLEAN
    BY <1>8 DEF FillSlot, SetReady, BeginDrop, DropReady, Join
  <2>4. QED
    BY <1>0, <2>1, <2>2, <2>3 DEF history
<1>9. CASE Notify \/ DropNotify
  <2>1. /\ Same /\ asleep' = {}
        /\ UNCHANGED <<lock, work, work_ready, stop, item, calls, spurious, history>>
    BY <1>9 DEF Notify, DropNotify, WakeAll
  <2>2. pc' \in [Thread -> WorkerPC \cup CallerPC]
    BY <1>9, Typing DEF Notify, DropNotify, WakeAll, CallerPC, WorkerPC
  <2>3. QED
    BY <1>0, <2>1, <2>2 DEF history
<1>10. CASE RunSelf
  <2>1. /\ Same
        /\ UNCHANGED <<lock, asleep, work, work_ready, stop, item, calls, spurious, took, returned, clean>>
    BY <1>10 DEF RunSelf
  <2>2. pc' \in [Thread -> WorkerPC \cup CallerPC]
    BY <1>10, Typing DEF RunSelf, Goto, CallerPC
  <2>3. done' \in [Call -> SUBSET Thread]
    BY <1>10, Typing DEF RunSelf
  <2>4. QED
    BY <1>0, <2>1, <2>2, <2>3
<1>11. CASE EndParallel
  <2>1. Same /\ UNCHANGED <<lock, asleep, work, stop, item, calls, spurious, took, done, clean>>
        /\ work_ready' \in BOOLEAN
    BY <1>11 DEF EndParallel
  <2>2. pc' \in [Thread -> WorkerPC \cup CallerPC]
    BY <1>11, Typing DEF EndParallel, Goto, CallerPC
  <2>3. returned' \subseteq Call
    BY <1>11 DEF EndParallel, Closures, InCall, Call
  <2>4. QED
    BY <1>0, <2>1, <2>2, <2>3
<1>12. QED
  BY <1>1, <1>2, <1>3, <1>4, <1>5, <1>6, <1>7, <1>8, <1>9, <1>10, <1>11, StepCases

-----------------------------------------------------------------------------
LEMMA PlacesInductive ==
  ASSUME TypeOK, Places, [Next]_vars
  PROVE  Places'
<1> USE DEF Places
<1>0. /\ pc \in [Thread -> WorkerPC \cup CallerPC] /\ bpc \in [Thread -> BarrierPC]
      /\ team \subseteq Thread /\ Caller \in Thread /\ Caller \notin Worker
      /\ Worker \subseteq Thread /\ asleep \subseteq Worker
  BY Typing DEF Worker
<1>1. CASE UNCHANGED vars
  BY <1>1 DEF vars, pool, barrierVars, Worker
<1>2. ASSUME NEW w \in Worker,
             LockSlot(w) \/ TestReady(w) \/ Sleep(w) \/ Exit(w) \/ SpuriousWakeup(w)
      PROVE  Places'
  <2>1. UNCHANGED <<bpc, work_ready, stop>> /\ Worker' = Worker
    BY <1>2 DEF LockSlot, TestReady, Sleep, Exit, SpuriousWakeup, barrierVars, Worker
  <2>2. PICK l \in {"lock", "check", "sleepy", "asleep", "loaded", "exit"} :
          pc' = [pc EXCEPT ![w] = l] /\ (asleep' \subseteq asleep \/ l = "asleep")
    BY <1>2 DEF LockSlot, TestReady, Sleep, Exit, SpuriousWakeup, Goto
  <2>3. pc[w] # "barrier" /\ bpc[w] = "out"
    BY <1>0, <1>2 DEF LockSlot, TestReady, Sleep, Exit, SpuriousWakeup
  <2>4. \A v \in asleep' : pc'[v] = "asleep"
    BY <1>0, <1>2 DEF LockSlot, TestReady, Sleep, Exit, SpuriousWakeup, Goto
  <2>5. pc'[Caller] = pc[Caller] /\ \A t \in Thread \ {w} : pc'[t] = pc[t]
    BY <1>0, <2>2
  <2>6. pc'[w] \in WorkerPC
    BY <1>0, <2>2 DEF WorkerPC
  <2>7. QED
    BY <1>0, <2>1, <2>3, <2>4, <2>5, <2>6
<1>3. ASSUME NEW w \in Worker, Take(w) \/ RunItem(w)
      PROVE  Places'
  <2>1. UNCHANGED <<bpc, asleep, work_ready, stop>> /\ Worker' = Worker
    BY <1>3 DEF Take, RunItem, barrierVars, Worker
  <2>2. PICK l \in {"run", "barrier"} : pc' = [pc EXCEPT ![w] = l]
    BY <1>3 DEF Take, RunItem, Goto
  <2>3. pc[w] \notin {"barrier", "asleep"} /\ bpc[w] = "out"
    BY <1>0, <1>3 DEF Take, RunItem
  <2>4. pc'[Caller] = pc[Caller] /\ \A t \in Thread \ {w} : pc'[t] = pc[t]
    BY <1>0, <2>2
  <2>5. pc'[w] \in WorkerPC
    BY <1>0, <2>2 DEF WorkerPC
  <2>6. QED
    BY <1>0, <2>1, <2>3, <2>4, <2>5
<1>4. ASSUME NEW t \in team, InBarrier(t) \/ LeaveBarrier(t)
      PROVE  Places'
  <2>1. UNCHANGED <<team, asleep, work_ready, stop>> /\ Worker' = Worker /\ pc[t] = "barrier"
    BY <1>4, BarrierSteps DEF Worker
  <2>2. \A u \in Thread \ {t} : pc'[u] = pc[u] /\ bpc'[u] = bpc[u]
    BY <1>0, <1>4 DEF InBarrier, LeaveBarrier, LoadPassed, Arrive, ZeroCounter, Publish, SpinExit,
       WaitSolo, barrierVars, pool, Goto
  <2>3. pc'[t] = "barrier" \/ (bpc'[t] = "out" /\ pc'[t] = IF t = Caller THEN "unready" ELSE "lock")
    BY <1>0, <1>4 DEF InBarrier, LeaveBarrier, Publish, SpinExit, WaitSolo, barrierVars, pool, Goto
  <2>4. pc'[Caller] \in CallerPC /\ (t = Caller => pc'[Caller] \in {"barrier", "unready"})
    BY <1>0, <2>2, <2>3 DEF CallerPC
  <2>5. \A w \in Worker : pc'[w] \in WorkerPC
    BY <1>0, <2>2, <2>3 DEF WorkerPC, Worker
  <2>6. \A w \in asleep : pc'[w] = "asleep"
    BY <1>0, <2>1, <2>2
  <2>7. (t # Caller => pc'[Caller] = pc[Caller]) /\ (t = Caller => pc[Caller] = "barrier")
    BY <1>0, <2>1, <2>2
  <2>8. \A u \in Thread : bpc'[u] # "out" => pc'[u] = "barrier"
    BY <1>0, <2>2, <2>3
  <2>9. QED
    BY <2>1, <2>4, <2>5, <2>6, <2>7, <2>8
<1>5. ASSUME NEW l \in CallerPC \ {"barrier"}, Goto(Caller, l), UNCHANGED <<team, asleep, bpc>>,
             pc[Caller] # "barrier",
             work_ready' => l \notin {"idle", "reset", "slot", "ready"},
             stop' => l \in {"stopping", "waking", "joining", "gone"}
      PROVE  Places'
  <2>1. pc'[Caller] = l /\ \A t \in Thread \ {Caller} : pc'[t] = pc[t]
    BY <1>0, <1>5 DEF Goto
  <2>2. Worker' = Worker /\ bpc[Caller] = "out"
    BY <1>0, <1>5 DEF Worker
  <2>3. QED
    BY <1>0, <1>5, <2>1, <2>2
<1>6. CASE BeginParallel
  <2>1. Goto(Caller, "reset") /\ UNCHANGED <<team, asleep, bpc, work_ready, stop>>
        /\ pc[Caller] = "idle"
    BY <1>6 DEF BeginParallel, ResetCounter
  <2>2. QED
    BY <1>5, <2>1 DEF CallerPC
<1>7. CASE FinishReset
  <2>1. Goto(Caller, "slot") /\ UNCHANGED <<team, asleep, bpc, work_ready, stop>>
        /\ pc[Caller] = "reset"
    BY <1>7 DEF FinishReset, ResetPassed
  <2>2. QED
    BY <1>5, <2>1 DEF CallerPC
<1>8. CASE FillSlot \/ SetReady \/ BeginDrop \/ DropReady \/ Join
  <2>1. UNCHANGED <<team, asleep, bpc>>
    BY <1>8 DEF FillSlot, SetReady, BeginDrop, DropReady, Join, barrierVars
  <2>2. CASE FillSlot
    BY <1>5, <2>1, <2>2 DEF FillSlot, CallerPC
  <2>3. CASE SetReady
    BY <1>5, <2>1, <2>3 DEF SetReady, CallerPC
  <2>4. CASE BeginDrop
    BY <1>5, <2>1, <2>4 DEF BeginDrop, CallerPC
  <2>5. CASE DropReady
    BY <1>5, <2>1, <2>5 DEF DropReady, CallerPC
  <2>6. CASE Join
    BY <1>5, <2>1, <2>6 DEF Join, CallerPC
  <2>7. QED
    BY <1>8, <2>2, <2>3, <2>4, <2>5, <2>6
<1>9. CASE Notify \/ DropNotify
  <2>1. UNCHANGED <<team, bpc, work_ready, stop>> /\ asleep' = {} /\ Worker' = Worker
    BY <1>9 DEF Notify, DropNotify, WakeAll, barrierVars, Worker
  <2>2. \A w \in Thread \ {Caller} : pc'[w] = IF w \in asleep THEN "lock" ELSE pc[w]
    BY <1>9 DEF Notify, DropNotify, WakeAll
  <2>3. \/ pc[Caller] = "notify" /\ pc'[Caller] = "run"
        \/ pc[Caller] = "waking" /\ pc'[Caller] = "joining"
    BY <1>0, <1>9 DEF Notify, DropNotify, WakeAll
  <2>4. \A t \in Thread : bpc[t] # "out" => pc'[t] = "barrier"
    BY <1>0, <2>2, <2>3
  <2>5. \A w \in Worker : pc'[w] \in WorkerPC
    BY <1>0, <2>2 DEF WorkerPC
  <2>6. QED
    BY <2>1, <2>3, <2>4, <2>5 DEF CallerPC
<1>10. CASE RunSelf
  <2>1. /\ Worker' = Worker /\ UNCHANGED <<team, asleep, bpc, work_ready, stop>>
        /\ pc[Caller] = "run" /\ pc'[Caller] = "barrier"
        /\ \A t \in Thread \ {Caller} : pc'[t] = pc[t]
    BY <1>0, <1>10 DEF RunSelf, Goto, barrierVars, Worker
  <2>2. QED
    BY <1>0, <2>1 DEF CallerPC
<1>11. CASE EndParallel
  <2>1. Goto(Caller, "idle") /\ UNCHANGED <<team, asleep, bpc, stop>>
        /\ pc[Caller] = "unready" /\ work_ready' = FALSE
    BY <1>11 DEF EndParallel, barrierVars
  <2>2. QED
    BY <1>5, <2>1 DEF CallerPC
<1>12. QED
  BY <1>1, <1>2, <1>3, <1>4, <1>6, <1>7, <1>8, <1>9, <1>10, <1>11, StepCases

-----------------------------------------------------------------------------
LEMMA ClosuresInductive ==
  ASSUME TypeOK, Places, Closures, TakenOnce, [Next]_vars
  PROVE  Closures' /\ TakenOnce'
<1>0. /\ pc \in [Thread -> WorkerPC \cup CallerPC] /\ item \in [Thread -> 0..MaxCalls]
      /\ took \in [Call -> SUBSET Thread] /\ done \in [Call -> SUBSET Thread]
      /\ Caller \in Thread /\ Caller \notin Worker /\ Worker \subseteq Thread
      /\ asleep \subseteq Worker
      /\ work \in 0..MaxCalls /\ calls \in 0..MaxCalls /\ MaxCalls \in Nat
  BY Typing, BoundAssumption DEF Worker
<1>F. ASSUME UNCHANGED <<team, work, calls, returned, clean, took, item, done>>,
             \A w \in Worker : pc'[w] = "run" <=> pc[w] = "run",
             pc'[Caller] \in {"reset", "slot"} => pc[Caller] \in {"reset", "slot"},
             InCall' => InCall,
             pc'[Caller] \in {"barrier", "unready"} => pc[Caller] \in {"barrier", "unready"}
      PROVE  Closures' /\ TakenOnce'
  BY <1>F DEF Closures, TakenOnce, Worker
<1>1. CASE UNCHANGED vars
  BY <1>1, <1>F DEF vars, pool, history, barrierVars, InCall
<1>2. ASSUME NEW w \in Worker,
             LockSlot(w) \/ TestReady(w) \/ Sleep(w) \/ Exit(w) \/ SpuriousWakeup(w)
      PROVE  Closures' /\ TakenOnce'
  <2>1. UNCHANGED <<team, work, calls, returned, clean, took, item, done>>
    BY <1>2 DEF LockSlot, TestReady, Sleep, Exit, SpuriousWakeup, barrierVars, history
  <2>2. /\ pc[w] # "run" /\ pc'[w] # "run"
        /\ \A t \in Thread \ {w} : pc'[t] = pc[t]
    BY <1>0, <1>2 DEF LockSlot, TestReady, Sleep, Exit, SpuriousWakeup, Goto, Places
  <2>3. pc'[Caller] = pc[Caller]
    BY <1>0, <2>2
  <2>4. QED
    BY <1>0, <1>F, <2>1, <2>2, <2>3 DEF InCall
<1>3. ASSUME NEW w \in Worker, Take(w)
      PROVE  Closures' /\ TakenOnce'
  <2>1. /\ UNCHANGED <<calls, returned, clean, done>> /\ Worker' = Worker
        /\ work' = NoWork /\ item' = [item EXCEPT ![w] = work]
        /\ took' = [c \in Call |-> took[c] \cup (IF c = work THEN {w} ELSE {})]
    BY <1>3 DEF Take, barrierVars, Worker
  <2>2. /\ pc[w] = "loaded" /\ pc'[w] = IF work = NoWork THEN "barrier" ELSE "run"
        /\ \A t \in Thread \ {w} : pc'[t] = pc[t]
    BY <1>0, <1>3 DEF Take, Goto
  <2>3. pc'[Caller] = pc[Caller]
    BY <1>0, <2>2
  <2>4. \A c \in Call : c # work => took'[c] = took[c]
    BY <1>0, <2>1
  <2>5. \A c \in Call : c = work => took[c] = {} /\ took'[c] = {w} /\ c <= calls
                                  /\ ~(c = calls /\ pc[Caller] \in {"reset", "slot"})
    BY <1>0, <2>1 DEF Closures
  <2>6. TakenOnce'
    BY <2>4, <2>5 DEF TakenOnce
  <2>7. \A c \in Call :
          (c > calls \/ c = work' \/ (c = calls /\ pc'[Caller] \in {"reset", "slot"})) => took'[c] = {}
    <3> SUFFICES ASSUME NEW c \in Call,
                        c > calls \/ c = work' \/ (c = calls /\ pc'[Caller] \in {"reset", "slot"})
                 PROVE  took'[c] = {}
      OBVIOUS
    <3>1. c # NoWork
      BY DEF Call, NoWork
    <3>2. c # work
      BY <1>0, <2>1, <2>3, <2>5, <3>1 DEF Call
    <3>3. QED
      BY <2>1, <2>3, <2>4, <3>1, <3>2 DEF Closures
  <2>8. \A c \in Call : \A v \in took'[c] :
          v \in Worker /\ (v \in done[c] \/ (pc'[v] = "run" /\ item'[v] = c))
    <3> SUFFICES ASSUME NEW c \in Call, NEW v \in took'[c]
                 PROVE  v \in Worker /\ (v \in done[c] \/ (pc'[v] = "run" /\ item'[v] = c))
      OBVIOUS
    <3>1. CASE c = work
      <4>1. v = w /\ c # NoWork
        BY <2>5, <3>1 DEF Call, NoWork
      <4>2. QED
        BY <1>0, <2>1, <2>2, <3>1, <4>1
    <3>2. CASE c # work
      <4>1. v \in took[c]
        BY <2>4, <3>2
      <4>2. v \in Worker /\ (v \in done[c] \/ (pc[v] = "run" /\ item[v] = c))
        BY <4>1 DEF Closures
      <4>3. v # w => pc'[v] = pc[v] /\ item'[v] = item[v]
        BY <1>0, <2>1, <2>2, <4>2
      <4>4. QED
        BY <2>2, <4>2, <4>3
    <3>3. QED
      BY <3>1, <3>2
  <2>9. \A v \in Worker : pc'[v] = "run" => item'[v] # NoWork
    BY <1>0, <2>1, <2>2 DEF Closures
  <2>10. work' <= calls /\ (pc'[Caller] \in {"reset", "slot"} => work' # calls)
    BY <1>0, <2>1, <2>3 DEF Closures, NoWork, InCall
  <2>11. InCall' => calls > 0
    BY <2>3 DEF InCall, Closures
  <2>12. QED
    BY <2>1, <2>3, <2>6, <2>7, <2>8, <2>9, <2>10, <2>11 DEF Closures
<1>4. ASSUME NEW w \in Worker, RunItem(w)
      PROVE  Closures' /\ TakenOnce'
  <2>1. /\ UNCHANGED <<work, calls, returned, clean, took>> /\ Worker' = Worker
        /\ item' = [item EXCEPT ![w] = NoWork]
        /\ done' = [done EXCEPT ![item[w]] = @ \cup {w}]
    BY <1>4 DEF RunItem, barrierVars, Worker
  <2>2. /\ pc[w] = "run" /\ pc'[w] = "barrier"
        /\ \A t \in Thread \ {w} : pc'[t] = pc[t]
    BY <1>0, <1>4 DEF RunItem, Goto
  <2>3. pc'[Caller] = pc[Caller]
    BY <1>0, <2>2
  <2>4. \A c \in Call : done[c] \subseteq done'[c] /\ (c = item[w] => w \in done'[c])
    BY <1>0, <2>1
  <2>5. \A c \in Call : \A v \in took[c] :
          v \in Worker /\ (v \in done'[c] \/ (pc'[v] = "run" /\ item'[v] = c))
    <3> SUFFICES ASSUME NEW c \in Call, NEW v \in took[c]
                 PROVE  v \in Worker /\ (v \in done'[c] \/ (pc'[v] = "run" /\ item'[v] = c))
      OBVIOUS
    <3>1. v \in Worker /\ (v \in done[c] \/ (pc[v] = "run" /\ item[v] = c))
      BY DEF Closures
    <3>2. v # w => pc'[v] = pc[v] /\ item'[v] = item[v]
      BY <1>0, <2>1, <2>2, <3>1
    <3>3. QED
      BY <2>4, <3>1, <3>2
  <2>6. \A v \in Worker : pc'[v] = "run" => item'[v] # NoWork
    BY <1>0, <2>1, <2>2 DEF Closures
  <2>7. pc'[Caller] \in {"barrier", "unready"} => Caller \in done'[calls]
    <3> SUFFICES ASSUME pc'[Caller] \in {"barrier", "unready"}
                 PROVE  Caller \in done'[calls]
      OBVIOUS
    <3>1. Caller \in done[calls] /\ calls > 0
      BY <2>3 DEF Closures, InCall
    <3>2. calls \in Call
      BY <1>0, <3>1 DEF Call
    <3>3. QED
      BY <2>4, <3>1, <3>2
  <2>8. InCall' => calls > 0
    BY <2>3 DEF InCall, Closures
  <2>9. QED
    BY <2>1, <2>3, <2>5, <2>6, <2>7, <2>8 DEF Closures, TakenOnce
<1>5. ASSUME NEW t \in team, InBarrier(t) \/ LeaveBarrier(t)
      PROVE  Closures' /\ TakenOnce'
  <2>1. UNCHANGED <<team, work, calls, returned, clean, took, item, done>> /\ pc[t] = "barrier"
    BY <1>5, BarrierSteps DEF history
  <2>2. /\ pc'[t] \in {"barrier", IF t = Caller THEN "unready" ELSE "lock"}
        /\ \A u \in Thread \ {t} : pc'[u] = pc[u]
    BY <1>0, <1>5, <2>1, BarrierSteps, Typing DEF Goto
  <2>3. pc'[Caller] = pc[Caller] \/ (pc[Caller] = "barrier" /\ pc'[Caller] \in {"barrier", "unready"})
    BY <1>0, <2>1, <2>2
  <2>4. \A w \in Worker : pc'[w] = "run" <=> pc[w] = "run"
    BY <1>0, <2>1, <2>2
  <2>5. QED
    BY <1>F, <2>1, <2>3, <2>4 DEF InCall
<1>6. CASE BeginParallel
  <2>1. /\ pc[Caller] = "idle" /\ calls' = calls + 1 /\ clean' \subseteq clean \cup {calls + 1}
        /\ UNCHANGED <<work, took, item, done, returned>> /\ Worker' = Worker
    BY <1>6 DEF BeginParallel, ResetCounter, Worker
  <2>2. pc'[Caller] = "reset" /\ \A t \in Thread \ {Caller} : pc'[t] = pc[t]
    BY <1>0, <1>6 DEF BeginParallel, Goto
  <2>3. work' <= calls' /\ work' # calls' /\ calls' > 0
    BY <1>0, <2>1 DEF Closures
  <2>4. returned' \cup clean' \subseteq 1..calls'
    BY <1>0, <2>1 DEF Closures
  <2>5. \A c \in Call : c > calls' \/ c = work' \/ c = calls' => took'[c] = {}
    BY <1>0, <2>1 DEF Closures, Call
  <2>6. \A w \in Worker : pc'[w] = pc[w]
    BY <1>0, <2>2
  <2>7. \A c \in Call : \A w \in took[c] :
          w \in Worker /\ (w \in done[c] \/ (pc'[w] = "run" /\ item[w] = c))
    BY <2>6 DEF Closures
  <2>8. QED
    BY <2>1, <2>2, <2>3, <2>4, <2>5, <2>6, <2>7 DEF Closures, TakenOnce
<1>7. CASE FinishReset
  <2>1. UNCHANGED <<team, work, calls, returned, clean, took, item, done>> /\ pc[Caller] = "reset"
    BY <1>7 DEF FinishReset, ResetPassed, history
  <2>2. pc'[Caller] = "slot" /\ \A t \in Thread \ {Caller} : pc'[t] = pc[t]
    BY <1>0, <1>7 DEF FinishReset, Goto
  <2>3. QED
    BY <1>0, <1>F, <2>1, <2>2 DEF InCall
<1>8. CASE FillSlot
  <2>1. /\ UNCHANGED <<calls, took, item, done, returned, clean>> /\ Worker' = Worker
        /\ work' = calls /\ pc[Caller] = "slot"
    BY <1>8 DEF FillSlot, barrierVars, history, Worker
  <2>2. pc'[Caller] = "ready" /\ \A t \in Thread \ {Caller} : pc'[t] = pc[t]
    BY <1>0, <1>8 DEF FillSlot, Goto
  <2>3. \A w \in Worker : pc'[w] = pc[w]
    BY <1>0, <2>2
  <2>4. \A c \in Call : c > calls \/ c = work' => took[c] = {}
    BY <2>1 DEF Closures
  <2>5. calls > 0
    BY <2>1 DEF Closures, InCall
  <2>6. \A c \in Call : \A w \in took[c] :
          w \in Worker /\ (w \in done[c] \/ (pc'[w] = "run" /\ item[w] = c))
    BY <2>3 DEF Closures
  <2>7. QED
    BY <1>0, <2>1, <2>2, <2>3, <2>4, <2>5, <2>6 DEF Closures, TakenOnce
<1>9. CASE SetReady \/ BeginDrop \/ DropReady \/ Join
  <2>1. UNCHANGED <<team, work, calls, returned, clean, took, item, done>>
    BY <1>9 DEF SetReady, BeginDrop, DropReady, Join, barrierVars, history
  <2>2. /\ \/ pc[Caller] = "ready" /\ pc'[Caller] = "notify"
           \/ pc'[Caller] \in {"stopping", "waking", "gone"}
        /\ \A t \in Thread \ {Caller} : pc'[t] = pc[t]
    BY <1>0, <1>9 DEF SetReady, BeginDrop, DropReady, Join, Goto
  <2>3. QED
    BY <1>0, <1>F, <2>1, <2>2 DEF InCall
<1>10. CASE Notify \/ DropNotify
  <2>1. UNCHANGED <<team, work, calls, returned, clean, took, item, done>>
    BY <1>10 DEF Notify, DropNotify, WakeAll, barrierVars, history
  <2>2. \A w \in Thread \ {Caller} : pc'[w] = IF w \in asleep THEN "lock" ELSE pc[w]
    BY <1>10 DEF Notify, DropNotify, WakeAll
  <2>3. \/ pc[Caller] = "notify" /\ pc'[Caller] = "run"
        \/ pc[Caller] = "waking" /\ pc'[Caller] = "joining"
    BY <1>0, <1>10 DEF Notify, DropNotify, WakeAll
  <2>4. \A w \in Worker : pc'[w] = "run" <=> pc[w] = "run"
    BY <1>0, <2>2 DEF Places
  <2>5. QED
    BY <1>F, <2>1, <2>3, <2>4 DEF InCall
<1>11. CASE RunSelf
  <2>1. /\ UNCHANGED <<work, calls, took, item, returned, clean>> /\ Worker' = Worker
        /\ pc[Caller] = "run" /\ done' = [done EXCEPT ![calls] = @ \cup {Caller}]
    BY <1>11 DEF RunSelf, barrierVars, Worker
  <2>2. pc'[Caller] = "barrier" /\ \A t \in Thread \ {Caller} : pc'[t] = pc[t]
    BY <1>0, <1>11 DEF RunSelf, Goto
  <2>3. \A w \in Worker : pc'[w] = pc[w]
    BY <1>0, <2>2
  <2>4. calls > 0 /\ calls \in Call
    BY <1>0, <2>1 DEF Closures, InCall, Call
  <2>5. Caller \in done'[calls] /\ \A c \in Call : done[c] \subseteq done'[c]
    BY <1>0, <2>1, <2>4
  <2>6. \A c \in Call : \A w \in took[c] :
          w \in Worker /\ (w \in done'[c] \/ (pc'[w] = "run" /\ item[w] = c))
    BY <2>3, <2>5 DEF Closures
  <2>7. QED
    BY <2>1, <2>2, <2>3, <2>4, <2>5, <2>6 DEF Closures, TakenOnce
<1>12. CASE EndParallel
  <2>1. /\ UNCHANGED <<work, calls, took, item, done, clean>> /\ Worker' = Worker
        /\ returned' = returned \cup {calls} /\ pc[Caller] = "unready"
    BY <1>12 DEF EndParallel, barrierVars, Worker
  <2>2. pc'[Caller] = "idle" /\ \A t \in Thread \ {Caller} : pc'[t] = pc[t]
    BY <1>0, <1>12 DEF EndParallel, Goto
  <2>3. \A w \in Worker : pc'[w] = pc[w]
    BY <1>0, <2>2
  <2>4. calls \in 1..calls
    BY <1>0, <2>1 DEF Closures, InCall
  <2>5. \A c \in Call : \A w \in took[c] :
          w \in Worker /\ (w \in done[c] \/ (pc'[w] = "run" /\ item[w] = c))
    BY <2>3 DEF Closures
  <2>6. QED
    BY <2>1, <2>2, <2>3, <2>4, <2>5 DEF Closures, TakenOnce, InCall
<1>13. QED
  BY <1>1, <1>2, <1>3, <1>4, <1>5, <1>6, <1>7, <1>8, <1>9, <1>10, <1>11, <1>12, StepCases

-----------------------------------------------------------------------------
(* The closures taken and run only accumulate, and only the closure in the *)
(* slot is taken.                                                          *)
LEMMA HistoryGrows ==
  ASSUME TypeOK, [Next]_vars, NEW c \in Call
  PROVE  /\ team' = team /\ Worker' = Worker
         /\ done[c] \subseteq done'[c]
         /\ took'[c] = took[c] \/ (c = work /\ \E w \in Worker : Take(w))
<1>0. took \in [Call -> SUBSET Thread] /\ done \in [Call -> SUBSET Thread]
  BY Typing
<1>1. CASE UNCHANGED vars
  BY <1>1 DEF vars, pool, history, barrierVars, Worker
<1>2. ASSUME NEW w \in Worker,
             LockSlot(w) \/ TestReady(w) \/ Sleep(w) \/ Exit(w) \/ SpuriousWakeup(w)
      PROVE  UNCHANGED <<team, took, done>>
  BY <1>2 DEF LockSlot, TestReady, Sleep, Exit, SpuriousWakeup, barrierVars, history
<1>3. ASSUME NEW w \in Worker, Take(w)
      PROVE  UNCHANGED <<team, done>> /\ (c # work => took'[c] = took[c])
  BY <1>0, <1>3 DEF Take, barrierVars
<1>4. ASSUME NEW w \in Worker, RunItem(w)
      PROVE  UNCHANGED <<team, took>> /\ done[c] \subseteq done'[c]
  BY <1>0, <1>4 DEF RunItem, barrierVars
<1>5. ASSUME NEW t \in team, InBarrier(t) \/ LeaveBarrier(t)
      PROVE  UNCHANGED <<team, took, done>>
  BY <1>5, BarrierSteps DEF history
<1>6. CASE BeginParallel \/ FinishReset
  BY <1>6 DEF BeginParallel, ResetCounter, FinishReset, ResetPassed, history, Worker
<1>7. CASE FillSlot \/ SetReady \/ BeginDrop \/ DropReady \/ Join \/ Notify \/ DropNotify
  BY <1>7 DEF FillSlot, SetReady, BeginDrop, DropReady, Join, Notify, DropNotify,
     barrierVars, history, Worker
<1>8. CASE RunSelf
  BY <1>0, <1>8 DEF RunSelf, barrierVars, Worker
<1>9. CASE EndParallel
  BY <1>9 DEF EndParallel, barrierVars, Worker
<1>10. QED
  BY <1>1, <1>2, <1>3, <1>4, <1>5, <1>6, <1>7, <1>8, <1>9, StepCases DEF Worker

LEMMA JoinedStays ==
  ASSUME TypeOK, Closures, [Next]_vars, NEW c \in Call, Joined(c)
  PROVE  Joined(c)'
<1>1. took'[c] = took[c]
  <2>1. CASE c = work /\ \E w \in Worker : Take(w)
    <3>1. took[c] = {} /\ took[c] # {}
      BY <2>1 DEF Closures, Joined
    <3>2. QED
      BY <3>1
  <2>2. QED
    BY <2>1, HistoryGrows
<1>2. QED
  BY <1>1, HistoryGrows DEF Joined

(* Everybody is in the barrier or has nothing to do with it. *)
LEMMA TeamParts ==
  ASSUME TypeOK
  PROVE  team = Worker \cup {Caller} /\ Caller \notin Worker
BY DEF TypeOK, Worker

(* What does not touch the barrier or the slot keeps the first episode.    *)
LEMMA EpisodeFrame ==
  ASSUME FirstEpisode, UNCHANGED <<team, passed, seen, counter, bpc, work, calls, took>>,
         \A w \in Worker : pc'[w] \in {"run", "barrier"} => pc[w] \in {"run", "barrier"}
  PROVE  FirstEpisode'
<1>1. Worker' = Worker /\ Arrived' = Arrived
  BY DEF Worker, Arrived
<1>2. QED
  BY <1>1 DEF FirstEpisode

(* The first worker takes the closure of the call, which is in the slot.   *)
LEMMA EpisodeTake ==
  ASSUME TypeOK, FirstEpisode, calls > 0, NEW w \in Worker, Take(w)
  PROVE  FirstEpisode'
<1>1. UNCHANGED <<team, passed, seen, counter, bpc, calls>> /\ Worker' = Worker
  BY DEF Take, barrierVars, Worker
<1>2. calls \in Call /\ took \in [Call -> SUBSET Thread]
  BY Typing DEF Call
<1>3. took'[calls] # {}
  <2>1. took'[calls] = took[calls] \cup (IF calls = work THEN {w} ELSE {})
    BY <1>2 DEF Take
  <2>2. took[calls] = {} => work = calls
    BY DEF FirstEpisode
  <2>3. QED
    BY <2>1, <2>2
<1>4. Arrived' = Arrived
  BY <1>1 DEF Arrived
<1>5. QED
  BY <1>1, <1>3, <1>4 DEF FirstEpisode

(* A step of the barrier in the first episode keeps it, or is the release: *)
(* by then the caller has run the closure, and a worker has taken it and   *)
(* finished it.                                                            *)
LEMMA EpisodeBarrier ==
  ASSUME TypeOK, Places, Closures, calls > 0, FirstEpisode,
         pc[Caller] \in {"notify", "run", "barrier"},
         NEW t \in team, InBarrier(t) \/ LeaveBarrier(t)
  PROVE  \/ FirstEpisode' /\ pc'[Caller] = pc[Caller]
         \/ Joined(calls)
<1>0. /\ pc \in [Thread -> WorkerPC \cup CallerPC] /\ bpc \in [Thread -> BarrierPC]
      /\ seen \in [Thread -> 0..(Wrap - 1)] /\ counter \in Nat
      /\ team \subseteq Thread /\ Caller \in team
      /\ Caller \notin Worker /\ team = Worker \cup {Caller}
      /\ calls \in Call /\ IsFiniteSet(team) /\ n_threads \in Nat
  BY Typing, TeamParts DEF Call
<1>1. /\ pc[t] = "barrier"
      /\ UNCHANGED <<team, work, calls, took, done>> /\ Worker' = Worker
  BY BarrierSteps DEF history, Worker
<1>2. ASSUME pc[Caller] = "barrier", \A w \in Worker : pc[w] = "barrier"
      PROVE  Joined(calls)
  <2>1. Caller \in done[calls]
    BY <1>2 DEF Closures
  <2>2. Worker # {} => took[calls] # {}
    BY <1>2 DEF FirstEpisode
  <2>3. took[calls] \subseteq done[calls]
    BY <1>0, <1>2 DEF Closures
  <2>4. QED
    BY <2>1, <2>2, <2>3 DEF Joined
<1>3. ASSUME pc' = pc, passed' = passed,
             \A u \in team : bpc'[u] # "out" => seen'[u] = 0,
             (\A u \in team : bpc'[u] # "publish") => counter' = Cardinality(Arrived'),
             \A u \in team :
               bpc'[u] \in {"last", "publish"} => \A v \in team \ {u} : bpc'[v] = "spin"
      PROVE  FirstEpisode' /\ pc'[Caller] = pc[Caller]
  BY <1>1, <1>3 DEF FirstEpisode
<1>4. CASE LoadPassed(t)
  <2>1. /\ pc' = pc /\ bpc[t] = "out" /\ UNCHANGED <<counter, passed>>
        /\ bpc' = [bpc EXCEPT ![t] = "add"] /\ seen' = [seen EXCEPT ![t] = passed]
    BY <1>4 DEF LoadPassed, InBarrier, LeaveBarrier, Publish, SpinExit, WaitSolo, pool, barrierVars
  <2>2. Arrived' = Arrived
    BY <1>0, <1>1, <2>1 DEF Arrived
  <2>3. \A u \in team : bpc[u] \notin {"last", "publish"}
    BY <1>0, <2>1 DEF FirstEpisode
  <2>4. \A u \in team : bpc'[u] \notin {"last", "publish"}
    BY <1>0, <2>1, <2>3
  <2>5. \A u \in team : bpc'[u] # "out" => seen'[u] = 0
    BY <1>0, <2>1 DEF FirstEpisode
  <2>6. counter' = Cardinality(Arrived')
    BY <2>1, <2>2, <2>3 DEF FirstEpisode
  <2>7. QED
    BY <1>3, <2>1, <2>4, <2>5, <2>6
<1>5. CASE Arrive(t)
  <2>1. /\ pc' = pc /\ bpc[t] = "add" /\ counter' = counter + 1 /\ UNCHANGED <<passed, seen>>
        /\ bpc' = [bpc EXCEPT ![t] = IF counter = n_threads - 1 THEN "last" ELSE "spin"]
    BY <1>5 DEF Arrive, InBarrier, LeaveBarrier, Publish, SpinExit, WaitSolo, pool, barrierVars
  <2>2. \A u \in team : bpc[u] \notin {"last", "publish"}
    BY <1>0, <2>1 DEF FirstEpisode
  <2>3. counter = Cardinality(Arrived)
    BY <2>2 DEF FirstEpisode
  <2>4. Arrived' = Arrived \cup {t} /\ t \notin Arrived /\ Arrived \subseteq team
    BY <1>0, <1>1, <2>1 DEF Arrived
  <2>5. IsFiniteSet(Arrived) /\ Cardinality(Arrived') = counter + 1
    BY <1>0, <2>3, <2>4, FS_Subset, FS_AddElement
  <2>6. ASSUME counter = n_threads - 1
        PROVE  \A v \in team \ {t} : bpc[v] = "spin"
    <3>1. IsFiniteSet(Arrived') /\ Arrived' \subseteq team /\ Cardinality(Arrived') = Cardinality(team)
      BY <1>0, <2>4, <2>5, <2>6, FS_AddElement DEF n_threads
    <3>2. Arrived' = team
      BY <1>0, <3>1, FS_Subset
    <3>3. QED
      BY <2>2, <2>4, <3>2 DEF Arrived
  <2>7. \A u \in team : bpc'[u] # "out" => seen'[u] = 0
    BY <1>0, <2>1 DEF FirstEpisode
  <2>8. \A u \in team :
          bpc'[u] \in {"last", "publish"} => \A v \in team \ {u} : bpc'[v] = "spin"
    BY <1>0, <2>1, <2>2, <2>6
  <2>9. QED
    BY <1>3, <2>1, <2>5, <2>7, <2>8
<1>6. CASE ZeroCounter(t)
  <2>1. /\ pc' = pc /\ bpc[t] = "last" /\ UNCHANGED <<passed, seen>>
        /\ bpc' = [bpc EXCEPT ![t] = "publish"]
    BY <1>6 DEF ZeroCounter, InBarrier, LeaveBarrier, Publish, SpinExit, WaitSolo, pool, barrierVars
  <2>2. \A v \in team \ {t} : bpc[v] = "spin" /\ bpc'[v] = "spin"
    BY <1>0, <2>1 DEF FirstEpisode
  <2>3. bpc'[t] = "publish"
    BY <1>0, <2>1
  <2>4. \A u \in team : bpc'[u] # "out" => seen'[u] = 0
    BY <1>0, <2>1, <2>2 DEF FirstEpisode
  <2>5. QED
    BY <1>3, <2>1, <2>2, <2>3, <2>4
<1>7. CASE Publish(t)
  <2>1. \A v \in team \ {t} : bpc[v] = "spin"
    BY <1>7 DEF Publish, FirstEpisode
  <2>2. \A v \in team : pc[v] = "barrier"
    BY <1>0, <1>1, <2>1 DEF Places
  <2>3. QED
    BY <1>0, <1>2, <2>2
<1>8. CASE SpinExit(t)
  BY <1>0, <1>8 DEF SpinExit, FirstEpisode
<1>9. CASE WaitSolo(t)
  <2>1. Cardinality(team) = 1
    BY <1>9 DEF WaitSolo, n_threads
  <2>2. team = {t}
    BY <1>0, <2>1, FS_Singleton
  <2>3. QED
    BY <1>0, <1>1, <1>2, <2>2
<1>10. QED
  BY <1>4, <1>5, <1>6, <1>7, <1>8, <1>9, BarrierSteps

-----------------------------------------------------------------------------
(* The call in progress, if it began clean. *)
LEMMA CleanCallInductive ==
  ASSUME TypeOK, Places, Closures, CleanCall, [Next]_vars
  PROVE  CleanCall'
<1> SUFFICES ASSUME calls' \in clean'
             PROVE  /\ pc'[Caller] \in {"reset", "slot", "ready"} => Fresh'
                    /\ pc'[Caller] \in {"notify", "run", "barrier"} => FirstEpisode' \/ Joined(calls)'
                    /\ pc'[Caller] = "unready" => Joined(calls)'
  BY DEF CleanCall
<1> DEFINE Goal == /\ pc'[Caller] \in {"reset", "slot", "ready"} => Fresh'
                   /\ pc'[Caller] \in {"notify", "run", "barrier"} => FirstEpisode' \/ Joined(calls)'
                   /\ pc'[Caller] = "unready" => Joined(calls)'
<1>0. /\ pc \in [Thread -> WorkerPC \cup CallerPC] /\ bpc \in [Thread -> BarrierPC]
      /\ took \in [Call -> SUBSET Thread]
      /\ Caller \in Thread /\ Caller \notin Worker /\ Worker \subseteq Thread
      /\ Caller \in team /\ team = Worker \cup {Caller} /\ asleep \subseteq Worker
      /\ calls \in 0..MaxCalls /\ MaxCalls \in Nat
  BY Typing, TeamParts, BoundAssumption DEF Worker
<1>J. ASSUME UNCHANGED calls, calls \in Call, Joined(calls)
      PROVE  Joined(calls)'
  <2>1. PICK c \in Call : c = calls
    BY <1>J
  <2>2. Joined(c)'
    BY <1>J, <2>1, JoinedStays
  <2>3. QED
    BY <1>J, <2>1, <2>2 DEF Joined
<1>C. ASSUME UNCHANGED <<calls, clean>>, InCall
      PROVE  /\ calls \in clean /\ calls \in Call /\ calls > 0
             /\ pc[Caller] \in {"reset", "slot", "ready"} => Fresh
             /\ pc[Caller] \in {"notify", "run", "barrier"} => FirstEpisode \/ Joined(calls)
             /\ pc[Caller] = "unready" => Joined(calls)
  BY <1>0, <1>C DEF CleanCall, Closures, Call
(* A step of a worker outside the barrier. *)
<1>W. ASSUME NEW w \in Worker, NEW l, pc' = [pc EXCEPT ![w] = l], UNCHANGED <<calls, clean, team>>,
             Fresh => Fresh',
             calls > 0 /\ FirstEpisode => FirstEpisode'
      PROVE  Goal
  <2>1. pc'[Caller] = pc[Caller]
    BY <1>0, <1>W
  <2>2. CASE InCall
    BY <1>C, <1>J, <1>W, <2>1, <2>2
  <2>3. CASE ~InCall
    BY <2>1, <2>3 DEF InCall
  <2>4. QED
    BY <2>2, <2>3
<1>1. CASE UNCHANGED vars
  <2>1. UNCHANGED <<team, passed, seen, counter, bpc, work, calls, clean, took, done, pc>>
    BY <1>1 DEF vars, pool, history, barrierVars
  <2>2. Fresh => Fresh'
    BY <2>1 DEF Fresh, Parked, Worker
  <2>3. FirstEpisode => FirstEpisode'
    BY <2>1, EpisodeFrame
  <2>4. CASE InCall
    BY <1>C, <1>J, <2>1, <2>2, <2>3, <2>4
  <2>5. CASE ~InCall
    BY <2>1, <2>5 DEF InCall
  <2>6. QED
    BY <2>4, <2>5
<1>2. ASSUME NEW w \in Worker,
             LockSlot(w) \/ TestReady(w) \/ Sleep(w) \/ Exit(w) \/ SpuriousWakeup(w)
      PROVE  Goal
  <2>1. UNCHANGED <<team, passed, seen, counter, bpc, work, calls, took, clean, work_ready, stop>>
        /\ Worker' = Worker
    BY <1>2 DEF LockSlot, TestReady, Sleep, Exit, SpuriousWakeup, barrierVars, history, Worker
  <2>2. PICK l \in {"lock", "check", "sleepy", "asleep", "loaded", "exit"} :
          /\ pc' = [pc EXCEPT ![w] = l]
          /\ l = "loaded" => work_ready \/ stop
          /\ l = "exit" => stop
    BY <1>2 DEF LockSlot, TestReady, Sleep, Exit, SpuriousWakeup, Goto
  <2>3. pc'[w] = l /\ pc'[Caller] = pc[Caller] /\ \A v \in Worker \ {w} : pc'[v] = pc[v]
    BY <1>0, <2>2
  <2>4. pc'[Caller] \in {"reset", "slot", "ready"} => l \in {"lock", "check", "sleepy", "asleep"}
    BY <2>2, <2>3 DEF Places
  <2>5. pc'[Caller] \in {"reset", "slot", "ready"} /\ Fresh => Fresh'
    BY <2>1, <2>3, <2>4 DEF Fresh, Parked
  <2>6. FirstEpisode => FirstEpisode'
    <3>1. \A v \in Worker : pc'[v] \in {"run", "barrier"} => pc[v] \in {"run", "barrier"}
      BY <2>3
    <3>2. QED
      BY <2>1, <3>1, EpisodeFrame
  <2>7. CASE InCall
    BY <1>C, <1>J, <2>1, <2>3, <2>5, <2>6, <2>7
  <2>8. CASE ~InCall
    BY <2>3, <2>8 DEF InCall
  <2>9. QED
    BY <2>7, <2>8
<1>3. ASSUME NEW w \in Worker, Take(w)
      PROVE  Goal
  <2>1. PICK l : pc' = [pc EXCEPT ![w] = l]
    BY <1>3 DEF Take, Goto
  <2>2. UNCHANGED <<calls, clean, team>>
    BY <1>3 DEF Take, barrierVars
  <2>3. ~Fresh
    BY <1>3 DEF Take, Fresh, Parked
  <2>4. calls > 0 /\ FirstEpisode => FirstEpisode'
    BY <1>3, EpisodeTake
  <2>5. QED
    BY <1>W, <2>1, <2>2, <2>3, <2>4
<1>4. ASSUME NEW w \in Worker, RunItem(w)
      PROVE  Goal
  <2>1. pc' = [pc EXCEPT ![w] = "barrier"] /\ pc[w] = "run"
        /\ UNCHANGED <<team, passed, seen, counter, bpc, work, calls, took, clean>>
    BY <1>4 DEF RunItem, Goto, barrierVars
  <2>2. ~Fresh
    BY <2>1 DEF Fresh, Parked
  <2>3. \A v \in Worker : pc'[v] \in {"run", "barrier"} => pc[v] \in {"run", "barrier"}
    BY <1>0, <2>1
  <2>4. FirstEpisode => FirstEpisode'
    BY <2>1, <2>3, EpisodeFrame
  <2>5. QED
    BY <1>W, <2>1, <2>2, <2>4
<1>5. ASSUME NEW t \in team, InBarrier(t) \/ LeaveBarrier(t)
      PROVE  Goal
  <2>1. pc[t] = "barrier" /\ UNCHANGED <<team, work, calls, took, done, clean>> /\ Worker' = Worker
    BY <1>5, BarrierSteps DEF history, Worker
  <2>2. /\ pc'[t] \in {"barrier", IF t = Caller THEN "unready" ELSE "lock"}
        /\ \A u \in Thread \ {t} : pc'[u] = pc[u]
    BY <1>0, <1>5, <2>1, BarrierSteps, Typing DEF Goto
  <2>3. CASE pc[Caller] \in {"notify", "run", "barrier"}
    <3>1. calls \in Call /\ calls > 0 /\ (FirstEpisode \/ Joined(calls))
      BY <1>C, <2>1, <2>3 DEF InCall
    <3>2. (FirstEpisode' /\ pc'[Caller] = pc[Caller]) \/ Joined(calls)
      BY <1>5, <2>3, <3>1, EpisodeBarrier
    <3>3. CASE Joined(calls)
      <4>1. Joined(calls)'
        BY <1>J, <2>1, <3>1, <3>3
      <4>2. pc'[Caller] \notin {"reset", "slot", "ready"}
        BY <1>0, <2>1, <2>2, <2>3
      <4>3. QED
        BY <4>1, <4>2
    <3>4. QED
      BY <2>3, <3>2, <3>3
  <2>4. CASE pc[Caller] \in {"reset", "slot", "ready"}
    <3>1. Fresh /\ t # Caller
      BY <1>C, <2>1, <2>4 DEF InCall
    <3>2. t \in Worker
      BY <1>0, <3>1
    <3>3. QED
      BY <2>1, <3>1, <3>2 DEF Fresh, Parked
  <2>5. CASE pc[Caller] \notin {"notify", "run", "barrier", "reset", "slot", "ready"}
    <3>1. t # Caller /\ pc'[Caller] = pc[Caller]
      BY <1>0, <2>1, <2>2, <2>5
    <3>2. pc[Caller] = "unready" => Joined(calls)'
      BY <1>C, <1>J, <2>1 DEF InCall
    <3>3. QED
      BY <2>5, <3>1, <3>2
  <2>6. QED
    BY <2>3, <2>4, <2>5
<1>6. CASE BeginParallel
  <2>1. /\ calls' = calls + 1 /\ clean' = IF Parked THEN clean \cup {calls + 1} ELSE clean
        /\ counter' = 0 /\ UNCHANGED <<team, passed, seen, bpc, work, took>> /\ Worker' = Worker
        /\ calls < MaxCalls
    BY <1>6 DEF BeginParallel, ResetCounter, Worker
  <2>2. pc'[Caller] = "reset" /\ \A w \in Worker : pc'[w] = pc[w]
    BY <1>0, <1>6 DEF BeginParallel, Goto
  <2>3. Parked
    <3>1. calls + 1 \notin clean
      BY <1>0 DEF Closures
    <3>2. QED
      BY <2>1, <3>1
  <2>4. took[calls + 1] = {}
    BY <1>0, <2>1 DEF Closures, Call
  <2>5. Fresh'
    BY <2>1, <2>2, <2>3, <2>4 DEF Fresh, Parked
  <2>6. QED
    BY <2>2, <2>5
<1>7. CASE FinishReset \/ FillSlot
  <2>1. /\ UNCHANGED <<team, counter, calls, took, clean>> /\ Worker' = Worker
        /\ \/ pc[Caller] = "reset" /\ passed' = 0
           \/ pc[Caller] = "slot" /\ passed' = passed
    BY <1>7 DEF FinishReset, ResetPassed, FillSlot, history, barrierVars, Worker
  <2>2. /\ pc'[Caller] = "slot" \/ (pc'[Caller] = "ready" /\ work' = calls)
        /\ \A w \in Worker : pc'[w] = pc[w]
    BY <1>0, <1>7 DEF FinishReset, FillSlot, Goto
  <2>3. Fresh
    BY <1>C, <2>1 DEF InCall
  <2>4. Fresh'
    BY <2>1, <2>2, <2>3 DEF Fresh, Parked
  <2>5. QED
    BY <2>2, <2>4
<1>8. CASE SetReady
  <2>1. UNCHANGED <<team, passed, seen, counter, bpc, work, calls, took, clean>> /\ Worker' = Worker
        /\ pc[Caller] = "ready"
    BY <1>8 DEF SetReady, history, barrierVars, Worker
  <2>2. pc'[Caller] = "notify" /\ \A w \in Worker : pc'[w] = pc[w]
    BY <1>0, <1>8 DEF SetReady, Goto
  <2>3. Fresh
    BY <1>C, <2>1 DEF InCall
  <2>4. \A t \in team : bpc[t] = "out"
    <3>1. bpc[Caller] = "out"
      BY <1>0, <2>1 DEF Places
    <3>2. \A w \in Worker : bpc[w] = "out"
      BY <1>0, <2>3 DEF Fresh, Parked, Places
    <3>3. QED
      BY <1>0, <3>1, <3>2
  <2>5. Arrived' = {} /\ counter' = Cardinality(Arrived')
    BY <2>1, <2>3, <2>4, FS_EmptySet DEF Arrived, Fresh
  <2>6. \A w \in Worker : pc'[w] \notin {"run", "barrier"}
    BY <2>2, <2>3 DEF Fresh, Parked
  <2>7. FirstEpisode'
    BY <2>1, <2>3, <2>4, <2>5, <2>6 DEF FirstEpisode, Fresh
  <2>8. QED
    BY <2>2, <2>7
<1>9. CASE BeginDrop \/ DropReady \/ Join \/ DropNotify \/ EndParallel
  <2>1. pc'[Caller] \in {"stopping", "waking", "joining", "gone", "idle"}
    BY <1>0, <1>9 DEF BeginDrop, DropReady, Join, DropNotify, WakeAll, EndParallel, Goto
  <2>2. QED
    BY <2>1
<1>10. CASE Notify \/ RunSelf
  <2>1. UNCHANGED <<team, passed, seen, counter, bpc, work, calls, took, clean>>
    BY <1>10 DEF Notify, RunSelf, history, barrierVars
  <2>2. /\ pc[Caller] \in {"notify", "run"} /\ pc'[Caller] \in {"run", "barrier"}
        /\ \A w \in Worker : pc'[w] = pc[w] \/ pc'[w] = "lock"
    BY <1>0, <1>10 DEF Notify, WakeAll, RunSelf, Goto
  <2>3. FirstEpisode => FirstEpisode'
    BY <2>1, <2>2, EpisodeFrame
  <2>4. QED
    BY <1>C, <1>J, <2>1, <2>2, <2>3 DEF InCall
<1>11. QED
  BY <1>1, <1>2, <1>3, <1>4, <1>5, <1>6, <1>7, <1>8, <1>9, <1>10, StepCases

(* The calls that returned. *)
LEMMA JoinedInductive ==
  ASSUME TypeOK, Closures, CleanCall, CleanCallIsJoined, [Next]_vars
  PROVE  CleanCallIsJoined'
<1> SUFFICES ASSUME NEW c \in returned' \cap clean'
             PROVE  Joined(c)'
  BY DEF CleanCallIsJoined
<1>0. calls \in 0..MaxCalls /\ MaxCalls \in Nat /\ returned \cup clean \subseteq 1..calls
  BY Typing, BoundAssumption DEF Closures
<1>1. \/ UNCHANGED <<returned, clean>>
      \/ BeginParallel
      \/ EndParallel
  BY StepCases, BarrierSteps
     DEF vars, history, LockSlot, TestReady, Sleep, Exit, SpuriousWakeup, Take, RunItem, FinishReset,
         FillSlot, SetReady, BeginDrop, DropReady, Join, Notify, DropNotify, RunSelf
<1>2. c \in Call /\ Joined(c)
  <2>1. CASE UNCHANGED <<returned, clean>>
    BY <1>0, <2>1 DEF CleanCallIsJoined, Call
  <2>2. CASE BeginParallel
    <3>1. returned' = returned /\ clean' \subseteq clean \cup {calls + 1}
      BY <2>2 DEF BeginParallel
    <3>2. c # calls + 1 /\ c \in clean
      BY <1>0, <3>1
    <3>3. QED
      BY <1>0, <3>1, <3>2 DEF CleanCallIsJoined, Call
  <2>3. CASE EndParallel
    <3>1. returned' = returned \cup {calls} /\ clean' = clean /\ pc[Caller] = "unready"
      BY <2>3 DEF EndParallel
    <3>2. CASE c = calls
      BY <1>0, <3>1, <3>2 DEF CleanCall, Call
    <3>3. CASE c # calls
      BY <1>0, <3>1, <3>3 DEF CleanCallIsJoined, Call
    <3>4. QED
      BY <3>2, <3>3
  <2>4. QED
    BY <1>1, <2>1, <2>2, <2>3
<1>3. QED
  BY <1>2, JoinedStays

-----------------------------------------------------------------------------
LEMMA InitInv == Init => PoolInv
<1> SUFFICES ASSUME Init
             PROVE  PoolInv
  OBVIOUS
<1>1. TypeOK
  <2>1. BarrierTypeOK /\ Caller \in team
    BY WrapAssumption DEF Init, BarrierInit, BarrierTypeOK, BarrierPC
  <2>2. pc \in [Thread -> WorkerPC \cup CallerPC]
    BY DEF Init, WorkerPC, CallerPC
  <2>3. work \in 0..MaxCalls /\ calls \in 0..MaxCalls /\ spurious \in 0..MaxSpurious
    BY BoundAssumption DEF Init, NoWork
  <2>4. item \in [Thread -> 0..MaxCalls]
    BY BoundAssumption DEF Init, NoWork
  <2>5. QED
    BY <2>1, <2>2, <2>3, <2>4 DEF Init, TypeOK
<1>2. Caller \in Thread /\ Worker \subseteq Thread /\ Caller \notin Worker
  BY <1>1, Typing DEF Worker
<1>3. Places
  BY <1>2 DEF Init, BarrierInit, Places, WorkerPC, CallerPC
<1>4. Closures
  BY <1>2 DEF Init, Closures, InCall, NoWork
<1>5. TakenOnce /\ CleanCall /\ CleanCallIsJoined
  BY DEF Init, TakenOnce, CleanCall, CleanCallIsJoined
<1>6. QED
  BY <1>1, <1>3, <1>4, <1>5 DEF PoolInv

LEMMA PoolInvInductive ==
  ASSUME PoolInv, [Next]_vars
  PROVE  PoolInv'
BY TypeInductive, PlacesInductive, ClosuresInductive, CleanCallInductive, JoinedInductive
   DEF PoolInv

(* ThreadPool::parallel, the worker loop, SpinBarrier::wait and reset(): a *)
(* closure is taken by at most one worker, in every interleaving, and what *)
(* the threads know of each other through the slot, the two flags and the  *)
(* barrier is consistent.                                                  *)
THEOREM PoolInvariantHolds == Spec => []PoolInv
BY InitInv, PoolInvInductive, PTL DEF Spec

(* ThreadPool::parallel: a call that began with every worker parked has    *)
(* returned only after the caller and the worker that took it have run the *)
(* closure to the end.                                                     *)
THEOREM CleanCallsAreJoined == Spec => []CleanCallIsJoined
<1>1. PoolInv => CleanCallIsJoined
  BY DEF PoolInv
<1>2. QED
  BY <1>1, PoolInvariantHolds, PTL

(* work_lock.take(): no closure is run by two workers, clean call or not.  *)
THEOREM ClosuresAreTakenOnce == Spec => []TakenOnce
<1>1. PoolInv => TakenOnce
  BY DEF PoolInv
<1>2. QED
  BY <1>1, PoolInvariantHolds, PTL
=============================================================================
