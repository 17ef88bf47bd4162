---------------------------- MODULE BufferManager ----------------------------
(***************************************************************************)
(* BufferManager (buffer/manager.rs) with its two pools: buffers on the    *)
(* GPU and on the host, by id, handed to clients as reference-counted      *)
(* handles.  Each operation runs under one lock and is one action; what    *)
(* interleaves is the clients, who keep their handles, write through them  *)
(* and drop them when they like.                                           *)
(*                                                                         *)
(* One size class: the pools of different classes never exchange buffers,  *)
(* and an id is used with one size.  A pool is a set: a buffer may be      *)
(* taken in any order, not only the last one first.  transfer() and        *)
(* prefetch() do nothing.                                                  *)
(***************************************************************************)
EXTENDS Naturals, FiniteSets

CONSTANTS
  Id,        \* BufferId
  Buffer,    \* what there is memory for, on each device
  None,
  Outdated,  \* data written through a handle that was out of date
  MaxRefs    \* bound on the handles that clients have at a time

ASSUME NoneAssumption == None \notin Id \cup Buffer /\ Outdated \notin Id \cup {None}
ASSUME BoundAssumption == MaxRefs \in Nat

Device == {"Gpu", "Cpu"}
Ref == [device : Device, id : Id, buffer : Buffer]

VARIABLES
  registry,   \* HashMap<BufferId, BufferLocation>
  cache,      \* local_cache and host_cache
  pinned,
  pool,       \* pool and host_pool
  refs,       \* the clients' handles: BufferRef, and the Rc of a registered buffer
  data,       \* whose data a buffer holds
  written     \* history: the device and id of data written since it was placed there

vars == <<registry, cache, pinned, pool, refs, data, written>>

Unknown == [at |-> "None", buffer |-> None]
Remote == [at |-> "Remote", buffer |-> None]
(* BufferLocation::Local with its buffer; Host has a copy of its own. *)
Home(d, b) == IF d = "Gpu" THEN [at |-> "Local", buffer |-> b]
                           ELSE [at |-> "Host", buffer |-> None]
Location == {Unknown, Remote} \cup {Home(d, b) : d \in Device, b \in Buffer}

Init ==
  /\ registry = [i \in Id |-> Unknown]
  /\ cache = [d \in Device |-> [i \in Id |-> None]]
  /\ pinned = {}
  /\ pool = [d \in Device |-> {}]
  /\ refs = {}
  /\ data = [d \in Device |-> [b \in Buffer |-> None]]
  /\ written = {}

(* A handle of the clients: what keeps Rc::try_unwrap from succeeding. *)
Held(d, b) == \E r \in refs : r.device = d /\ r.buffer = b

(* Memory that nobody refers to can be allocated. *)
Free(d) ==
  {b \in Buffer \ pool[d] :
     /\ ~Held(d, b)
     /\ \A i \in Id : cache[d][i] # b /\ (d = "Gpu" => registry[i] # Home(d, b))}

(* BufferPool::get: a buffer of the pool as it is, or a new one. *)
PoolGet(d, b) ==
  \/ /\ b \in pool[d]
     /\ pool' = [pool EXCEPT ![d] = @ \ {b}]
     /\ UNCHANGED data
  \/ /\ pool[d] = {}
     /\ b \in Free(d)
     /\ data' = [data EXCEPT ![d][b] = None]
     /\ UNCHANGED pool

(* The client gets a handle. *)
Hand(d, i, b) ==
  /\ refs' = refs \cup {[device |-> d, id |-> i, buffer |-> b]}
  /\ Cardinality(refs') <= MaxRefs

(* The buffer enters the cache. *)
Place(d, i, b) == cache' = [cache EXCEPT ![d][i] = b]

-----------------------------------------------------------------------------
(* get_or_load, get_or_load_on *)

GetCached(d, i) ==
  /\ cache[d][i] # None
  /\ Hand(d, i, cache[d][i])
  /\ UNCHANGED <<registry, cache, pinned, pool, data, written>>

(* Nothing is cached here: whatever the registry says of another place, a  *)
(* buffer comes from the pool.  (The registry never names this device when *)
(* the cache is empty: the branches that use its buffer are dead code, as  *)
(* RegistryAgrees shows.)                                                  *)
GetNew(d, i) ==
  /\ cache[d][i] = None
  /\ registry[i].at # (IF d = "Gpu" THEN "Local" ELSE "Host")
  /\ \E b \in Buffer :
       /\ PoolGet(d, b)
       /\ Place(d, i, b)
       /\ Hand(d, i, b)
       /\ registry' = IF registry[i] = Unknown THEN [registry EXCEPT ![i] = Home(d, b)]
                                               ELSE registry
  /\ UNCHANGED <<pinned, written>>

(* register, register_host: a buffer of the client's own, with its data.   *)
(* The Box given to register_host is moved, so the client keeps no handle. *)
Register(d, i) ==
  \E b \in Free(d) :
    /\ registry' = [registry EXCEPT ![i] = Home(d, b)]
    /\ Place(d, i, b)
    /\ IF d = "Gpu" THEN Hand(d, i, b) ELSE UNCHANGED refs
    /\ data' = [data EXCEPT ![d][b] = i]
    /\ written' = written \cup {<<d, i>>}
    /\ UNCHANGED <<pinned, pool>>

Pin(i) ==
  /\ i \notin pinned
  /\ pinned' = pinned \cup {i}
  /\ UNCHANGED <<registry, cache, pool, refs, data, written>>

Unpin(i) ==
  /\ i \in pinned
  /\ pinned' = pinned \ {i}
  /\ UNCHANGED <<registry, cache, pool, refs, data, written>>

-----------------------------------------------------------------------------
(* Seeded variant: the pins are forgotten on the GPU. *)
EvictedUnlessHost(d) == {i \in Id : cache[d][i] # None /\ (d = "Cpu" => i \notin pinned)}

Evicted(d) == {i \in Id \ pinned : cache[d][i] # None}

(* Seeded variant: shared buffers of the host are released too. *)
ReleasedShared(d) == {cache[d][i] : i \in Evicted(d)}

(* A buffer of the GPU goes to the pool whoever holds it; one of the host  *)
(* only if the cache has the last reference (Rc::try_unwrap).              *)
Released(d) == {b \in {cache[d][i] : i \in Evicted(d)} : d = "Gpu" \/ ~Held(d, b)}

Evict ==
  /\ pool' = [d \in Device |-> pool[d] \cup Released(d)]
  /\ cache' = [d \in Device |-> [i \in Id |-> IF i \in Evicted(d) THEN None ELSE cache[d][i]]]
  /\ registry' = [i \in Id |-> IF \E d \in Device : i \in Evicted(d) THEN Remote
                               ELSE registry[i]]
  /\ written' = {w \in written : w[2] \in pinned}
  /\ UNCHANGED <<pinned, refs, data>>

-----------------------------------------------------------------------------
(* The clients *)

(* A client writes its data through a handle it still has, in date or not. *)
Write(r) ==
  /\ IF cache[r.device][r.id] = r.buffer
     THEN /\ data' = [data EXCEPT ![r.device][r.buffer] = r.id]
          /\ written' = written \cup {<<r.device, r.id>>}
     ELSE /\ data' = [data EXCEPT ![r.device][r.buffer] = Outdated]
          /\ UNCHANGED written
  /\ UNCHANGED <<registry, cache, pinned, pool, refs>>

Drop(r) ==
  /\ refs' = refs \ {r}
  /\ UNCHANGED <<registry, cache, pinned, pool, data, written>>

Next ==
  \/ \E d \in Device, i \in Id : GetCached(d, i) \/ GetNew(d, i) \/ Register(d, i)
  \/ \E i \in Id : Pin(i) \/ Unpin(i)
  \/ Evict
  \/ \E r \in refs : Write(r) \/ Drop(r)

Spec == Init /\ [][Next]_vars
-----------------------------------------------------------------------------
TypeOK ==
  /\ registry \in [Id -> Location]
  /\ cache \in [Device -> [Id -> Buffer \cup {None}]]
  /\ pinned \subseteq Id
  /\ pool \in [Device -> SUBSET Buffer]
  /\ refs \subseteq Ref
  /\ data \in [Device -> [Buffer -> Id \cup {None, Outdated}]]
  /\ written \subseteq Device \X Id

(* No two ids share a buffer of the caches, and none of these is in a pool *)
(* to be handed out again.                                                 *)
CachesApart ==
  \A d \in Device, i \in Id :
    cache[d][i] # None =>
      /\ cache[d][i] \notin pool[d]
      /\ \A j \in Id : cache[d][j] = cache[d][i] => j = i

(* A buffer of the host is never handed out while somebody holds it under  *)
(* another id.                                                             *)
HostExclusive ==
  \A r \in refs :
    r.device = "Cpu" =>
      /\ r.buffer \notin pool["Cpu"]
      /\ \A j \in Id : cache["Cpu"][j] = r.buffer => j = r.id

(* The registry knows what is cached, and names the GPU or the host only   *)
(* for what is cached there.                                               *)
RegistryAgrees ==
  \A i \in Id :
    /\ \A d \in Device : cache[d][i] # None => registry[i] # Unknown
    /\ registry[i].at = "Local" => cache["Gpu"][i] = registry[i].buffer
    /\ registry[i].at = "Host" => cache["Cpu"][i] # None

(* What a client has written for an id stays in the buffer that the next   *)
(* client gets for it, until the id is evicted, which a pin prevents; and  *)
(* whatever others do: get and write buffers of their own, evict, reuse    *)
(* what the pools hold.  On the host always; on the GPU, where evict()     *)
(* releases buffers that clients still hold, unless one of them writes     *)
(* through a handle from before the eviction.                              *)
WrittenDataIsKept ==
  \A w \in written :
    LET b == cache[w[1]][w[2]] IN
    /\ b # None
    /\ data[w[1]][b] = w[2] \/ (w[1] = "Gpu" /\ data["Gpu"][b] = Outdated)

BufferInv == TypeOK /\ CachesApart /\ HostExclusive /\ RegistryAgrees /\ WrittenDataIsKept
=============================================================================
