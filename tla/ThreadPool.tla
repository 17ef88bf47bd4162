------------------------------ MODULE ThreadPool ------------------------------
(***************************************************************************)
(* ThreadPool (cpu/thread_pool.rs): persistent workers that sleep on a     *)
(* condition variable, a single work slot behind a mutex, and a SpinBarrier*)
(* that ends a call of parallel().  Every lock operation and every atomic  *)
(* access that another thread can observe is a step of its own.            *)
(*                                                                         *)
(* One thread owns the pool and calls it, a call at a time; parallel(&self)*)
(* would let several threads share it, which no code of the repository     *)
(* does.                                                                   *)
(*                                                                         *)
(* A call of parallel() is identified by its number; its closure is the    *)
(* work item of that number.  Memory is sequentially consistent here: the  *)
(* Relaxed accesses of the code can only add behaviours.                   *)
(***************************************************************************)
EXTENDS SpinBarrier

CONSTANTS
  Caller,       \* the thread that owns the pool (ith = 0)
  NoThread,     \* the mutex is free
  MaxCalls,     \* bound on the calls of parallel()
  MaxSpurious   \* bound on the spurious wakeups of the condition variable

ASSUME CallerAssumption == Caller \in Thread /\ NoThread \notin Thread
ASSUME BoundAssumption == MaxCalls \in Nat /\ MaxSpurious \in Nat

NoWork == 0
Call == 1..MaxCalls

VARIABLES
  work,         \* Mutex<Option<WorkItem>>: the slot
  lock,         \* Mutex: its holder
  asleep,       \* Condvar: the workers inside wait()
  work_ready,   \* AtomicBool
  stop,         \* AtomicBool
  pc,           \* control state of every thread
  item,         \* the item a worker took out of the slot
  calls,        \* parallel() calls begun so far
  spurious      \* spurious wakeups so far

(* History: who took and who finished each call's closure, which calls     *)
(* have returned, and which began with every worker parked.                *)
VARIABLES took, done, returned, clean

pool == <<work, lock, asleep, work_ready, stop, pc, item, calls, spurious>>
history == <<took, done, returned, clean>>
vars == <<barrierVars, pool, history>>

Worker == team \ {Caller}

WorkerPC == {"lock", "check", "sleepy", "asleep", "loaded", "run", "barrier", "exit"}
CallerPC == {"idle", "reset", "slot", "ready", "notify", "run", "barrier", "unready",
             "stopping", "waking", "joining", "gone"}

Init ==
  /\ team \in {T \in SUBSET Thread : Caller \in T}
  /\ BarrierInit
  /\ work = NoWork
  /\ lock = NoThread
  /\ asleep = {}
  /\ work_ready = FALSE
  /\ stop = FALSE
  /\ pc = [t \in Thread |-> IF t = Caller THEN "idle" ELSE "lock"]
  /\ item = [t \in Thread |-> NoWork]
  /\ calls = 0
  /\ spurious = 0
  /\ took = [c \in Call |-> {}]
  /\ done = [c \in Call |-> {}]
  /\ returned = {}
  /\ clean = {}

Goto(t, label) == pc' = [pc EXCEPT ![t] = label]

-----------------------------------------------------------------------------
(* The worker loop *)

(* state.work.lock(), on entry and when cond.wait() returns *)
LockSlot(w) ==
  /\ pc[w] = "lock"
  /\ lock = NoThread
  /\ lock' = w
  /\ Goto(w, "check")
  /\ UNCHANGED <<barrierVars, work, asleep, work_ready, stop, item, calls, spurious, history>>

(* while !work_ready && !stop *)
TestReady(w) ==
  /\ pc[w] = "check"
  /\ Goto(w, IF work_ready \/ stop THEN "loaded" ELSE "sleepy")
  /\ UNCHANGED <<barrierVars, work, lock, asleep, work_ready, stop, item, calls, spurious,
                 history>>

(* cond.wait(work_lock) releases the mutex and sleeps in one step. *)
Sleep(w) ==
  /\ pc[w] = "sleepy"
  /\ lock' = NoThread
  /\ asleep' = asleep \cup {w}
  /\ Goto(w, "asleep")
  /\ UNCHANGED <<barrierVars, work, work_ready, stop, item, calls, spurious, history>>

SpuriousWakeup(w) ==
  /\ w \in asleep
  /\ spurious < MaxSpurious
  /\ spurious' = spurious + 1
  /\ asleep' = asleep \ {w}
  /\ Goto(w, "lock")
  /\ UNCHANGED <<barrierVars, work, lock, work_ready, stop, item, calls, history>>

(* if stop { return }: dropping the guard unlocks. *)
Exit(w) ==
  /\ pc[w] = "loaded"
  /\ stop
  /\ lock' = NoThread
  /\ Goto(w, "exit")
  /\ UNCHANGED <<barrierVars, work, asleep, work_ready, stop, item, calls, spurious, history>>

(* Seeded variant: the item is cloned out of the slot and stays there. *)
TakeClones(w) ==
  /\ pc[w] = "loaded"
  /\ ~stop
  /\ item' = [item EXCEPT ![w] = work]
  /\ lock' = NoThread
  /\ Goto(w, IF work = NoWork THEN "barrier" ELSE "run")
  /\ took' = [c \in Call |-> took[c] \cup (IF c = work THEN {w} ELSE {})]
  /\ UNCHANGED <<barrierVars, work, asleep, work_ready, stop, calls, spurious, done, returned,
                 clean>>

(* let work = work_lock.take(); drop(work_lock): only one worker gets the  *)
(* item, the others find None and go straight to the barrier.              *)
Take(w) ==
  /\ pc[w] = "loaded"
  /\ ~stop
  /\ item' = [item EXCEPT ![w] = work]
  /\ work' = NoWork
  /\ lock' = NoThread
  /\ Goto(w, IF work = NoWork THEN "barrier" ELSE "run")
  /\ took' = [c \in Call |-> took[c] \cup (IF c = work THEN {w} ELSE {})]
  /\ UNCHANGED <<barrierVars, asleep, work_ready, stop, calls, spurious, done, returned, clean>>

(* (item.func)(ith) *)
RunItem(w) ==
  /\ pc[w] = "run"
  /\ w # Caller
  /\ done' = [done EXCEPT ![item[w]] = @ \cup {w}]
  /\ item' = [item EXCEPT ![w] = NoWork]
  /\ Goto(w, "barrier")
  /\ UNCHANGED <<barrierVars, work, lock, asleep, work_ready, stop, calls, spurious, took,
                 returned, clean>>

-----------------------------------------------------------------------------
(* state.barrier.wait(), by workers and by the caller *)
InBarrier(t) ==
  /\ pc[t] = "barrier"
  /\ LoadPassed(t) \/ Arrive(t) \/ ZeroCounter(t)
  /\ UNCHANGED <<pool, history>>

LeaveBarrier(t) ==
  /\ pc[t] = "barrier"
  /\ Publish(t) \/ SpinExit(t) \/ WaitSolo(t)
  /\ Goto(t, IF t = Caller THEN "unready" ELSE "lock")
  /\ UNCHANGED <<work, lock, asleep, work_ready, stop, item, calls, spurious, history>>

-----------------------------------------------------------------------------
(* parallel(f) *)

(* Every worker is outside the barrier and has yet to see work_ready.      *)
Parked == \A w \in Worker : pc[w] \in {"lock", "check", "sleepy", "asleep"}

(* barrier.reset(), first store *)
BeginParallel ==
  /\ pc[Caller] = "idle"
  /\ calls < MaxCalls
  /\ calls' = calls + 1
  /\ clean' = IF Parked THEN clean \cup {calls + 1} ELSE clean
  /\ ResetCounter
  /\ Goto(Caller, "reset")
  /\ UNCHANGED <<work, lock, asleep, work_ready, stop, item, spurious, took, done, returned>>

(* barrier.reset(), second store *)
FinishReset ==
  /\ pc[Caller] = "reset"
  /\ ResetPassed
  /\ Goto(Caller, "slot")
  /\ UNCHANGED <<work, lock, asleep, work_ready, stop, item, calls, spurious, history>>

(* *work_lock = Some(WorkItem), a critical section of its own *)
FillSlot ==
  /\ pc[Caller] = "slot"
  /\ lock = NoThread
  /\ work' = calls
  /\ Goto(Caller, "ready")
  /\ UNCHANGED <<barrierVars, lock, asleep, work_ready, stop, item, calls, spurious, history>>

SetReady ==
  /\ pc[Caller] = "ready"
  /\ work_ready' = TRUE
  /\ Goto(Caller, "notify")
  /\ UNCHANGED <<barrierVars, work, lock, asleep, stop, item, calls, spurious, history>>

(* cond.notify_all() moves every sleeper back to the mutex. *)
WakeAll(label) ==
  /\ asleep' = {}
  /\ pc' = [t \in Thread |->
              IF t = Caller THEN label ELSE IF t \in asleep THEN "lock" ELSE pc[t]]

(* Seeded variant: notify_one() where the code calls notify_all(). *)
NotifyOnlyOne ==
  /\ pc[Caller] = "notify"
  /\ \/ asleep = {} /\ UNCHANGED asleep /\ Goto(Caller, "run")
     \/ \E w \in asleep : /\ asleep' = asleep \ {w}
                          /\ pc' = [pc EXCEPT ![Caller] = "run", ![w] = "lock"]
  /\ UNCHANGED <<barrierVars, work, lock, work_ready, stop, item, calls, spurious, history>>

Notify ==
  /\ pc[Caller] = "notify"
  /\ WakeAll("run")
  /\ UNCHANGED <<barrierVars, work, lock, work_ready, stop, item, calls, spurious, history>>

(* f(0) *)
RunSelf ==
  /\ pc[Caller] = "run"
  /\ done' = [done EXCEPT ![calls] = @ \cup {Caller}]
  /\ Goto(Caller, "barrier")
  /\ UNCHANGED <<barrierVars, work, lock, asleep, work_ready, stop, item, calls, spurious, took,
                 returned, clean>>

(* work_ready.store(false), after the barrier *)
EndParallel ==
  /\ pc[Caller] = "unready"
  /\ work_ready' = FALSE
  /\ returned' = returned \cup {calls}
  /\ Goto(Caller, "idle")
  /\ UNCHANGED <<barrierVars, work, lock, asleep, stop, item, calls, spurious, took, done, clean>>

-----------------------------------------------------------------------------
(* Drop *)
BeginDrop ==
  /\ pc[Caller] = "idle"
  /\ stop' = TRUE
  /\ Goto(Caller, "stopping")
  /\ UNCHANGED <<barrierVars, work, lock, asleep, work_ready, item, calls, spurious, history>>

DropReady ==
  /\ pc[Caller] = "stopping"
  /\ work_ready' = TRUE
  /\ Goto(Caller, "waking")
  /\ UNCHANGED <<barrierVars, work, lock, asleep, stop, item, calls, spurious, history>>

DropNotify ==
  /\ pc[Caller] = "waking"
  /\ WakeAll("joining")
  /\ UNCHANGED <<barrierVars, work, lock, work_ready, stop, item, calls, spurious, history>>

(* for handle in handles { handle.join() } *)
Join ==
  /\ pc[Caller] = "joining"
  /\ \A w \in Worker : pc[w] = "exit"
  /\ Goto(Caller, "gone")
  /\ UNCHANGED <<barrierVars, work, lock, asleep, work_ready, stop, item, calls, spurious,
                 history>>

-----------------------------------------------------------------------------
WorkerStep(w) ==
  \/ LockSlot(w) \/ TestReady(w) \/ Sleep(w) \/ Exit(w) \/ Take(w) \/ RunItem(w)
  \/ InBarrier(w) \/ LeaveBarrier(w)

CallerStep ==
  \/ FinishReset \/ FillSlot \/ SetReady \/ Notify \/ RunSelf
  \/ InBarrier(Caller) \/ LeaveBarrier(Caller) \/ EndParallel
  \/ DropReady \/ DropNotify \/ Join

Next ==
  \/ BeginParallel \/ BeginDrop \/ CallerStep
  \/ \E w \in Worker : WorkerStep(w) \/ SpuriousWakeup(w)

(* The OS schedules every thread that can run; a mutex that stays free is  *)
(* acquired.  Nothing obliges the owner to begin a call, and nothing       *)
(* obliges the condition variable to wake a sleeper nobody notified.       *)
Fairness ==
  /\ WF_vars(CallerStep)
  /\ \A w \in Thread \ {Caller} : WF_vars(w \in team /\ WorkerStep(w))

Spec == Init /\ [][Next]_vars /\ Fairness

-----------------------------------------------------------------------------
TypeOK ==
  /\ BarrierTypeOK
  /\ Caller \in team
  /\ work \in 0..MaxCalls
  /\ lock \in Thread \cup {NoThread}
  /\ asleep \subseteq Worker
  /\ work_ready \in BOOLEAN
  /\ stop \in BOOLEAN
  /\ pc \in [Thread -> WorkerPC \cup CallerPC]
  /\ item \in [Thread -> 0..MaxCalls]
  /\ calls \in 0..MaxCalls
  /\ spurious \in 0..MaxSpurious
  /\ took \in [Call -> SUBSET Thread]
  /\ done \in [Call -> SUBSET Thread]
  /\ returned \subseteq Call
  /\ clean \subseteq Call

(* What joining a call means: when parallel() has returned, its closure    *)
(* has been run to the end by the caller and, if there are workers, by the *)
(* worker that took it.                                                    *)
Joined(c) ==
  /\ Caller \in done[c]
  /\ Worker # {} => took[c] # {} /\ took[c] \subseteq done[c]

(* A call that begins while every worker is parked is joined: it returns   *)
(* only after one worker has taken the closure and finished it             *)
(* (ThreadPool::parallel, the worker loop and SpinBarrier::wait together). *)
CleanCallIsJoined == \A c \in returned \cap clean : Joined(c)

(* A closure is never run by two workers, in whatever order they reach the *)
(* slot and however late one of them is (work_lock.take()).                *)
TakenOnce ==
  \A c \in Call : \A v, w \in took[c] : v = w

(* Where the threads are, and what the two flags say of the owner: a worker *)
(* is inside wait() only at the barrier, and nobody is let past the test of *)
(* the loop before the owner has filled the slot.                           *)
Places ==
  /\ pc[Caller] \in CallerPC
  /\ \A w \in Worker : pc[w] \in WorkerPC
  /\ \A t \in Thread : bpc[t] # "out" => pc[t] = "barrier"
  /\ \A w \in asleep : pc[w] = "asleep"
  /\ work_ready => pc[Caller] \notin {"idle", "reset", "slot", "ready"}
  /\ stop => pc[Caller] \in {"stopping", "waking", "joining", "gone"}

InCall == pc[Caller] \in {"reset", "slot", "ready", "notify", "run", "barrier", "unready"}

(* A closure in the slot, or yet to be put there, was taken by nobody; one *)
(* that was taken is being run or was run to the end.                      *)
Closures ==
  /\ work <= calls
  /\ pc[Caller] \in {"reset", "slot"} => work # calls
  /\ InCall => calls > 0
  /\ returned \cup clean \subseteq 1..calls
  /\ \A c \in Call :
       c > calls \/ c = work \/ (c = calls /\ pc[Caller] \in {"reset", "slot"}) => took[c] = {}
  /\ \A c \in Call : \A w \in took[c] :
       w \in Worker /\ (w \in done[c] \/ (pc[w] = "run" /\ item[w] = c))
  /\ \A w \in Worker : pc[w] = "run" => item[w] # NoWork
  /\ pc[Caller] \in {"barrier", "unready"} => Caller \in done[calls]

(* A clean call up to the moment work_ready is set: nobody is near the     *)
(* barrier, which is being reset.                                          *)
Fresh ==
  /\ Parked
  /\ counter = 0
  /\ pc[Caller] # "reset" => passed = 0
  /\ took[calls] = {}
  /\ pc[Caller] = "ready" => work = calls

Arrived == {t \in team : bpc[t] \in {"spin", "last", "publish"}}

(* A clean call in the first episode of the barrier since the reset: all   *)
(* who are in it wait for the same release, and a worker that is past the  *)
(* slot left nothing there.                                                *)
FirstEpisode ==
  /\ passed = 0
  /\ \A t \in team : bpc[t] # "out" => seen[t] = 0
  /\ (\A t \in team : bpc[t] # "publish") => counter = Cardinality(Arrived)
  /\ \A t \in team :
       bpc[t] \in {"last", "publish"} => \A u \in team \ {t} : bpc[u] = "spin"
  /\ took[calls] = {} => /\ work = calls
                         /\ \A w \in Worker : pc[w] \notin {"run", "barrier"}

(* What a clean call goes through. *)
CleanCall ==
  calls \in clean =>
    /\ pc[Caller] \in {"reset", "slot", "ready"} => Fresh
    /\ pc[Caller] \in {"notify", "run", "barrier"} => FirstEpisode \/ Joined(calls)
    /\ pc[Caller] = "unready" => Joined(calls)

(* The inductive invariant of the pool. *)
PoolInv == TypeOK /\ Places /\ Closures /\ TakenOnce /\ CleanCall /\ CleanCallIsJoined

(* If every worker is asleep when the owner notifies, the owner gets its   *)
(* answer: drop() joins the workers, and parallel() returns if its call    *)
(* was clean, begun while every worker was parked.  This says nothing of   *)
(* the window between a worker's test of work_ready and its wait, in which *)
(* the notification is lost and the owner waits for ever.                  *)
AllAsleep == asleep = Worker
SleepingPoolAnswers ==
  /\ \A c \in Call :
       (pc[Caller] = "notify" /\ calls = c /\ c \in clean /\ AllAsleep) ~> (c \in returned)
  /\ (pc[Caller] = "waking" /\ AllAsleep) ~> (pc[Caller] = "gone")
=============================================================================
