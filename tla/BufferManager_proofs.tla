------------------------- MODULE BufferManager_proofs -------------------------
(***************************************************************************)
(* BufferInv is inductive: the four statements about the caches, the       *)
(* pools, the registry and the data keep each other true, for any number   *)
(* of ids, buffers and handles.                                            *)
(***************************************************************************)
EXTENDS BufferManager, TLAPS

(* BufferPool::get returns a buffer that no cache refers to, that no       *)
(* client of the host holds, and that has left the pool; the data of all   *)
(* other buffers is untouched.                                             *)
LEMMA PoolGives ==
  ASSUME TypeOK, CachesApart, HostExclusive,
         NEW d \in Device, NEW b \in Buffer, PoolGet(d, b)
  PROVE  /\ pool' \in [Device -> SUBSET Buffer]
         /\ b \notin pool'[d]
         /\ \A e \in Device : pool'[e] \subseteq pool[e]
         /\ \A j \in Id : cache[d][j] # b
         /\ d = "Cpu" => ~Held(d, b)
         /\ data' \in [Device -> [Buffer -> Id \cup {None, Outdated}]]
         /\ \A e \in Device, c \in Buffer : <<e, c>> # <<d, b>> => data'[e][c] = data[e][c]
<1>1. CASE /\ b \in pool[d]
           /\ pool' = [pool EXCEPT ![d] = @ \ {b}]
           /\ UNCHANGED data
  <2>1. \A j \in Id : cache[d][j] # b
    BY <1>1, NoneAssumption DEF TypeOK, CachesApart
  <2>2. d = "Cpu" => ~Held(d, b)
    BY <1>1 DEF HostExclusive, Held
  <2> QED BY <1>1, <2>1, <2>2 DEF TypeOK
<1>2. CASE /\ pool[d] = {}
           /\ b \in Free(d)
           /\ data' = [data EXCEPT ![d][b] = None]
           /\ UNCHANGED pool
  <2>1. data' \in [Device -> [Buffer -> Id \cup {None, Outdated}]]
    BY <1>2 DEF TypeOK
  <2>2. \A e \in Device, c \in Buffer : <<e, c>> # <<d, b>> => data'[e][c] = data[e][c]
    BY <1>2 DEF TypeOK
  <2>3. (\A j \in Id : cache[d][j] # b) /\ ~Held(d, b) /\ b \notin pool[d]
    BY <1>2 DEF Free
  <2> QED BY <1>2, <2>1, <2>2, <2>3 DEF TypeOK
<1> QED BY <1>1, <1>2 DEF PoolGet

LEMMA HandGives ==
  ASSUME TypeOK, NEW d \in Device, NEW i \in Id, NEW b \in Buffer, Hand(d, i, b)
  PROVE  refs' \subseteq Ref /\ refs' = refs \cup {[device |-> d, id |-> i, buffer |-> b]}
BY DEF TypeOK, Hand, Ref

LEMMA PlaceGives ==
  ASSUME TypeOK, NEW d \in Device, NEW i \in Id, NEW b \in Buffer, Place(d, i, b)
  PROVE  /\ cache' \in [Device -> [Id -> Buffer \cup {None}]]
         /\ cache'[d][i] = b
         /\ \A e \in Device, j \in Id : <<e, j>> # <<d, i>> => cache'[e][j] = cache[e][j]
BY DEF TypeOK, Place

LEMMA HomeIsLocation ==
  ASSUME NEW d \in Device, NEW b \in Buffer
  PROVE  /\ Home(d, b) \in Location
         /\ Home(d, b) # Unknown
         /\ Home(d, b).at = "Local" => d = "Gpu" /\ Home(d, b).buffer = b
         /\ Home(d, b).at = "Host" => d = "Cpu"
BY DEF Home, Location, Unknown, Device

-----------------------------------------------------------------------------
LEMMA InitHolds == Init => BufferInv
<1> SUFFICES ASSUME Init PROVE BufferInv OBVIOUS
<1>1. TypeOK BY DEF Init, TypeOK, Location
<1>2. CachesApart /\ HostExclusive /\ RegistryAgrees /\ WrittenDataIsKept
  BY DEF Init, CachesApart, HostExclusive, RegistryAgrees, WrittenDataIsKept, Unknown
<1> QED BY <1>1, <1>2 DEF BufferInv

(* A new buffer enters the cache of an empty place. *)
LEMMA GetNewStep ==
  ASSUME BufferInv, NEW d \in Device, NEW i \in Id, GetNew(d, i)
  PROVE  BufferInv'
<1> USE DEF BufferInv
<1>1. PICK b \in Buffer :
        /\ PoolGet(d, b)
        /\ Place(d, i, b)
        /\ Hand(d, i, b)
        /\ registry' = IF registry[i] = Unknown THEN [registry EXCEPT ![i] = Home(d, b)]
                                                ELSE registry
  BY DEF GetNew
<1>2. /\ cache[d][i] = None
      /\ UNCHANGED <<pinned, written>>
  BY DEF GetNew
<1>3. /\ pool' \in [Device -> SUBSET Buffer]
      /\ b \notin pool'[d]
      /\ \A e \in Device : pool'[e] \subseteq pool[e]
      /\ \A j \in Id : cache[d][j] # b
      /\ d = "Cpu" => ~Held(d, b)
      /\ data' \in [Device -> [Buffer -> Id \cup {None, Outdated}]]
      /\ \A e \in Device, c \in Buffer : <<e, c>> # <<d, b>> => data'[e][c] = data[e][c]
  BY <1>1, PoolGives
<1>4. /\ cache' \in [Device -> [Id -> Buffer \cup {None}]]
      /\ cache'[d][i] = b
      /\ \A e \in Device, j \in Id : <<e, j>> # <<d, i>> => cache'[e][j] = cache[e][j]
  BY <1>1, PlaceGives
<1>5. refs' \subseteq Ref /\ refs' = refs \cup {[device |-> d, id |-> i, buffer |-> b]}
  BY <1>1, HandGives
<1>6. /\ registry' \in [Id -> Location]
      /\ \A j \in Id \ {i} : registry'[j] = registry[j]
      /\ registry'[i] = IF registry[i] = Unknown THEN Home(d, b) ELSE registry[i]
  BY <1>1, HomeIsLocation DEF TypeOK
<1>7. TypeOK'
  BY <1>2, <1>3, <1>4, <1>5, <1>6 DEF TypeOK
<1>8. CachesApart'
  <2> SUFFICES ASSUME NEW e \in Device, NEW j \in Id, cache'[e][j] # None
               PROVE  /\ cache'[e][j] \notin pool'[e]
                      /\ \A k \in Id : cache'[e][k] = cache'[e][j] => k = j
    BY DEF CachesApart
  <2>1. CASE <<e, j>> = <<d, i>>
    BY <1>3, <1>4, <2>1
  <2>2. CASE <<e, j>> # <<d, i>>
    <3>1. cache'[e][j] = cache[e][j]
      BY <1>4, <2>2
    <3>2. cache[e][j] \notin pool[e] /\ \A k \in Id : cache[e][k] = cache[e][j] => k = j
      BY <3>1 DEF CachesApart
    <3>3. e = d => cache[e][j] # b
      BY <1>3
    <3> QED BY <1>3, <1>4, <2>2, <3>1, <3>2, <3>3
  <2> QED BY <2>1, <2>2
<1>9. HostExclusive'
  <2> SUFFICES ASSUME NEW r \in refs', r.device = "Cpu"
               PROVE  /\ r.buffer \notin pool'["Cpu"]
                      /\ \A j \in Id : cache'["Cpu"][j] = r.buffer => j = r.id
    BY DEF HostExclusive
  <2>1. CASE r \in refs
    <3>1. d = "Cpu" => r.buffer # b
      BY <1>3, <2>1 DEF Held
    <3> QED BY <1>3, <1>4, <2>1, <3>1 DEF HostExclusive, Device
  <2>2. CASE r = [device |-> d, id |-> i, buffer |-> b]
    BY <1>3, <1>4, <2>2, SMTT(20)
  <2> QED BY <1>5, <2>1, <2>2
<1>10. RegistryAgrees'
  <2> SUFFICES ASSUME NEW j \in Id
               PROVE  /\ \A e \in Device : cache'[e][j] # None => registry'[j] # Unknown
                      /\ registry'[j].at = "Local" => cache'["Gpu"][j] = registry'[j].buffer
                      /\ registry'[j].at = "Host" => cache'["Cpu"][j] # None
    BY DEF RegistryAgrees
  <2>1. CASE j # i
    BY <1>4, <1>6, <2>1 DEF RegistryAgrees, Device
  <2>2. CASE j = i /\ registry[i] = Unknown
    BY <1>4, <1>6, <2>2, HomeIsLocation, NoneAssumption
  <2>3. CASE j = i /\ registry[i] # Unknown
    <3>1. registry[i].at # (IF d = "Gpu" THEN "Local" ELSE "Host")
      BY DEF GetNew
    <3> QED BY <1>4, <1>6, <2>3, <3>1 DEF RegistryAgrees, Device
  <2> QED BY <2>1, <2>2, <2>3
<1>11. WrittenDataIsKept'
  <2> SUFFICES ASSUME NEW w \in written
               PROVE  /\ cache'[w[1]][w[2]] # None
                      /\ \/ data'[w[1]][cache'[w[1]][w[2]]] = w[2]
                         \/ w[1] = "Gpu" /\ data'["Gpu"][cache'["Gpu"][w[2]]] = Outdated
    BY <1>2 DEF WrittenDataIsKept
  <2>1. w \in Device \X Id /\ w[1] \in Device /\ w[2] \in Id /\ w = <<w[1], w[2]>>
    BY DEF TypeOK
  <2>2. w # <<d, i>>
    BY <1>2 DEF WrittenDataIsKept
  <2>3. cache'[w[1]][w[2]] = cache[w[1]][w[2]]
    BY <1>4, <2>1, <2>2
  <2>4. cache[w[1]][w[2]] \in Buffer /\ <<w[1], cache[w[1]][w[2]]>> # <<d, b>>
    BY <1>3, <2>1 DEF WrittenDataIsKept, TypeOK
  <2>5. data'[w[1]][cache[w[1]][w[2]]] = data[w[1]][cache[w[1]][w[2]]]
    BY <1>3, <2>1, <2>4
  <2> QED BY <2>3, <2>5 DEF WrittenDataIsKept
<1> QED BY <1>7, <1>8, <1>9, <1>10, <1>11

(* The same with a buffer of the client's own, in place of whatever the    *)
(* cache held.                                                             *)
LEMMA RegisterStep ==
  ASSUME BufferInv, NEW d \in Device, NEW i \in Id, Register(d, i)
  PROVE  BufferInv'
<1> USE DEF BufferInv
<1>1. PICK b \in Free(d) :
        /\ registry' = [registry EXCEPT ![i] = Home(d, b)]
        /\ Place(d, i, b)
        /\ IF d = "Gpu" THEN Hand(d, i, b) ELSE UNCHANGED refs
        /\ data' = [data EXCEPT ![d][b] = i]
        /\ written' = written \cup {<<d, i>>}
        /\ UNCHANGED <<pinned, pool>>
  BY DEF Register
<1>2. /\ b \in Buffer
      /\ b \notin pool[d]
      /\ ~Held(d, b)
      /\ \A j \in Id : cache[d][j] # b
  BY DEF Free
<1>3. /\ cache' \in [Device -> [Id -> Buffer \cup {None}]]
      /\ cache'[d][i] = b
      /\ \A e \in Device, j \in Id : <<e, j>> # <<d, i>> => cache'[e][j] = cache[e][j]
  BY <1>1, <1>2, PlaceGives
<1>4. /\ data' \in [Device -> [Buffer -> Id \cup {None, Outdated}]]
      /\ data'[d][b] = i
      /\ \A e \in Device, c \in Buffer : <<e, c>> # <<d, b>> => data'[e][c] = data[e][c]
  BY <1>1, <1>2 DEF TypeOK
<1>5. /\ refs' \subseteq Ref
      /\ \A r \in refs' : r \in refs \/ (d = "Gpu" /\ r = [device |-> d, id |-> i, buffer |-> b])
  <2>1. CASE d = "Gpu"
    BY <1>1, <1>2, <2>1, HandGives
  <2>2. CASE d # "Gpu"
    BY <1>1, <2>2 DEF TypeOK
  <2> QED BY <2>1, <2>2
<1>6. /\ registry' \in [Id -> Location]
      /\ \A j \in Id \ {i} : registry'[j] = registry[j]
      /\ registry'[i] = Home(d, b)
  BY <1>1, <1>2, HomeIsLocation DEF TypeOK
<1>7. TypeOK'
  BY <1>1, <1>3, <1>4, <1>5, <1>6 DEF TypeOK
<1>8. CachesApart'
  BY <1>1, <1>2, <1>3, NoneAssumption DEF CachesApart, TypeOK
<1>9. HostExclusive'
  <2> SUFFICES ASSUME NEW r \in refs', r.device = "Cpu"
               PROVE  /\ r.buffer \notin pool'["Cpu"]
                      /\ \A j \in Id : cache'["Cpu"][j] = r.buffer => j = r.id
    BY DEF HostExclusive
  <2>1. r \in refs
    BY <1>5
  <2>2. d = "Cpu" => r.buffer # b
    BY <1>2, <2>1 DEF Held
  <2> QED BY <1>1, <1>3, <2>1, <2>2 DEF HostExclusive, Device
<1>10. RegistryAgrees'
  <2> SUFFICES ASSUME NEW j \in Id
               PROVE  /\ \A e \in Device : cache'[e][j] # None => registry'[j] # Unknown
                      /\ registry'[j].at = "Local" => cache'["Gpu"][j] = registry'[j].buffer
                      /\ registry'[j].at = "Host" => cache'["Cpu"][j] # None
    BY DEF RegistryAgrees
  <2>1. CASE j # i
    BY <1>3, <1>6, <2>1 DEF RegistryAgrees, Device
  <2>2. CASE j = i
    BY <1>2, <1>3, <1>6, <2>2, HomeIsLocation, NoneAssumption
  <2> QED BY <2>1, <2>2
<1>11. WrittenDataIsKept'
  <2> SUFFICES ASSUME NEW w \in written'
               PROVE  /\ cache'[w[1]][w[2]] # None
                      /\ \/ data'[w[1]][cache'[w[1]][w[2]]] = w[2]
                         \/ w[1] = "Gpu" /\ data'["Gpu"][cache'["Gpu"][w[2]]] = Outdated
    BY DEF WrittenDataIsKept
  <2>1. CASE w = <<d, i>>
    BY <1>2, <1>3, <1>4, <2>1, NoneAssumption
  <2>2. CASE w \in written /\ w # <<d, i>>
    <3>1. w[1] \in Device /\ w[2] \in Id /\ w = <<w[1], w[2]>>
      BY <2>2 DEF TypeOK
    <3>2. cache'[w[1]][w[2]] = cache[w[1]][w[2]]
      BY <1>3, <2>2, <3>1
    <3>3. cache[w[1]][w[2]] \in Buffer /\ <<w[1], cache[w[1]][w[2]]>> # <<d, b>>
      BY <1>2, <2>2, <3>1 DEF WrittenDataIsKept, TypeOK
    <3>4. data'[w[1]][cache[w[1]][w[2]]] = data[w[1]][cache[w[1]][w[2]]]
      BY <1>4, <3>1, <3>3
    <3> QED BY <2>2, <3>2, <3>4 DEF WrittenDataIsKept
  <2> QED BY <1>1, <2>1, <2>2
<1> QED BY <1>7, <1>8, <1>9, <1>10, <1>11

LEMMA GetCachedStep ==
  ASSUME BufferInv, NEW d \in Device, NEW i \in Id, GetCached(d, i)
  PROVE  BufferInv'
<1> USE DEF BufferInv
<1>1. /\ cache[d][i] \in Buffer
      /\ Hand(d, i, cache[d][i])
      /\ UNCHANGED <<registry, cache, pinned, pool, data, written>>
  BY DEF GetCached, TypeOK
<1>2. refs' \subseteq Ref /\ refs' = refs \cup {[device |-> d, id |-> i, buffer |-> cache[d][i]]}
  BY <1>1, HandGives
<1>3. TypeOK'
  BY <1>1, <1>2 DEF TypeOK
<1>4. CachesApart' /\ RegistryAgrees' /\ WrittenDataIsKept'
  BY <1>1 DEF CachesApart, RegistryAgrees, WrittenDataIsKept
<1>5. HostExclusive'
  BY <1>1, <1>2, NoneAssumption DEF HostExclusive, CachesApart
<1> QED BY <1>3, <1>4, <1>5

(* What is pinned stays; what is evicted and released is in no cache, and  *)
(* no client of the host holds it.                                         *)
LEMMA EvictStep ==
  ASSUME BufferInv, Evict
  PROVE  BufferInv'
<1> USE DEF BufferInv
<1>1. /\ pool' = [d \in Device |-> pool[d] \cup Released(d)]
      /\ cache' = [d \in Device |-> [i \in Id |-> IF i \in Evicted(d) THEN None ELSE cache[d][i]]]
      /\ registry' = [i \in Id |-> IF \E d \in Device : i \in Evicted(d) THEN Remote
                                   ELSE registry[i]]
      /\ written' = {w \in written : w[2] \in pinned}
      /\ UNCHANGED <<pinned, refs, data>>
  BY DEF Evict
<1>2. \A d \in Device : Released(d) \subseteq Buffer
  BY NoneAssumption DEF Released, Evicted, TypeOK
<1>3. \A d \in Device, i \in Id :
        cache'[d][i] # None => cache'[d][i] = cache[d][i] /\ i \notin Evicted(d)
  BY <1>1
<1>4. TypeOK'
  BY <1>1, <1>2 DEF TypeOK, Location
<1>5. CachesApart'
  <2> SUFFICES ASSUME NEW d \in Device, NEW i \in Id, cache'[d][i] # None
               PROVE  /\ cache'[d][i] \notin pool'[d]
                      /\ \A j \in Id : cache'[d][j] = cache'[d][i] => j = i
    BY DEF CachesApart
  <2>1. cache'[d][i] = cache[d][i] /\ i \notin Evicted(d)
    BY <1>3
  <2>2. cache[d][i] \notin Released(d)
    BY <2>1 DEF Released, Evicted, CachesApart
  <2>3. cache[d][i] \notin pool[d]
    BY <2>1 DEF CachesApart
  <2>4. \A j \in Id : cache'[d][j] = cache'[d][i] => j = i
    BY <1>3, <2>1 DEF CachesApart
  <2> QED BY <1>1, <2>1, <2>2, <2>3, <2>4
<1>6. HostExclusive'
  <2> SUFFICES ASSUME NEW r \in refs, r.device = "Cpu"
               PROVE  /\ r.buffer \notin pool'["Cpu"]
                      /\ \A j \in Id : cache'["Cpu"][j] = r.buffer => j = r.id
    BY <1>1 DEF HostExclusive
  <2>1. Held("Cpu", r.buffer) BY DEF Held
  <2>2. r.buffer \notin Released("Cpu") BY <2>1 DEF Released
  <2>3. r.buffer # None BY NoneAssumption DEF TypeOK, Ref
  <2> QED BY <1>1, <1>3, <2>2, <2>3 DEF HostExclusive, Device
<1>7. RegistryAgrees'
  BY <1>1, <1>3 DEF RegistryAgrees, Remote, Unknown, Evicted, Device
<1>8. WrittenDataIsKept'
  <2> SUFFICES ASSUME NEW w \in written, w[2] \in pinned
               PROVE  /\ cache'[w[1]][w[2]] # None
                      /\ \/ data[w[1]][cache'[w[1]][w[2]]] = w[2]
                         \/ w[1] = "Gpu" /\ data["Gpu"][cache'["Gpu"][w[2]]] = Outdated
    BY <1>1 DEF WrittenDataIsKept
  <2>1. w[1] \in Device /\ w[2] \in Id /\ w[2] \notin Evicted(w[1])
    BY DEF TypeOK, Evicted
  <2>2. cache'[w[1]][w[2]] = cache[w[1]][w[2]]
    BY <1>1, <2>1
  <2> QED BY <2>2 DEF WrittenDataIsKept
<1> QED BY <1>4, <1>5, <1>6, <1>7, <1>8

(* A client can reach the data of another id only through a handle from    *)
(* before an eviction, and only on the GPU.                                *)
LEMMA WriteStep ==
  ASSUME BufferInv, NEW r \in refs, Write(r)
  PROVE  BufferInv'
<1> USE DEF BufferInv
<1>1. /\ r.device \in Device /\ r.id \in Id /\ r.buffer \in Buffer
      /\ UNCHANGED <<registry, cache, pinned, pool, refs>>
  BY DEF TypeOK, Ref, Write
<1>2. CASE cache[r.device][r.id] = r.buffer
  <2>1. /\ data' \in [Device -> [Buffer -> Id \cup {None, Outdated}]]
        /\ data'[r.device][r.buffer] = r.id
        /\ \A e \in Device, c \in Buffer :
             <<e, c>> # <<r.device, r.buffer>> => data'[e][c] = data[e][c]
        /\ written' = written \cup {<<r.device, r.id>>}
    <3>1. /\ data' = [data EXCEPT ![r.device][r.buffer] = r.id]
          /\ written' = written \cup {<<r.device, r.id>>}
      BY <1>2 DEF Write
    <3> QED BY <1>1, <3>1 DEF TypeOK
  <2>2. TypeOK'
    BY <1>1, <2>1 DEF TypeOK
  <2>3. WrittenDataIsKept'
    <3> SUFFICES ASSUME NEW w \in written'
                 PROVE  /\ cache[w[1]][w[2]] # None
                        /\ \/ data'[w[1]][cache[w[1]][w[2]]] = w[2]
                           \/ w[1] = "Gpu" /\ data'["Gpu"][cache["Gpu"][w[2]]] = Outdated
      BY <1>1 DEF WrittenDataIsKept
    <3>1. CASE w = <<r.device, r.id>>
      BY <1>1, <1>2, <2>1, <3>1, NoneAssumption
    <3>2. CASE w \in written /\ w # <<r.device, r.id>>
      <4>1. w[1] \in Device /\ w[2] \in Id /\ w = <<w[1], w[2]>>
        BY <3>2 DEF TypeOK
      <4>2. cache[w[1]][w[2]] \in Buffer
        BY <3>2, <4>1 DEF TypeOK, WrittenDataIsKept
      <4>3. <<w[1], cache[w[1]][w[2]]>> # <<r.device, r.buffer>>
        BY <1>1, <1>2, <3>2, <4>1, <4>2, NoneAssumption DEF CachesApart
      <4>4. data'[w[1]][cache[w[1]][w[2]]] = data[w[1]][cache[w[1]][w[2]]]
        BY <2>1, <4>1, <4>2, <4>3
      <4> QED BY <3>2, <4>4 DEF WrittenDataIsKept
    <3> QED BY <2>1, <3>1, <3>2
  <2> QED BY <1>1, <2>2, <2>3 DEF CachesApart, HostExclusive, RegistryAgrees
<1>3. CASE cache[r.device][r.id] # r.buffer
  <2>1. /\ data' \in [Device -> [Buffer -> Id \cup {None, Outdated}]]
        /\ data'[r.device][r.buffer] = Outdated
        /\ \A e \in Device, c \in Buffer :
             <<e, c>> # <<r.device, r.buffer>> => data'[e][c] = data[e][c]
        /\ written' = written
    <3>1. /\ data' = [data EXCEPT ![r.device][r.buffer] = Outdated]
          /\ written' = written
      BY <1>3 DEF Write
    <3> QED BY <1>1, <3>1 DEF TypeOK
  <2>2. TypeOK'
    BY <1>1, <2>1 DEF TypeOK
  <2>3. WrittenDataIsKept'
    <3> SUFFICES ASSUME NEW w \in written
                 PROVE  /\ cache[w[1]][w[2]] # None
                        /\ \/ data'[w[1]][cache[w[1]][w[2]]] = w[2]
                           \/ w[1] = "Gpu" /\ data'["Gpu"][cache["Gpu"][w[2]]] = Outdated
      BY <1>1, <2>1 DEF WrittenDataIsKept
    <3>1. w[1] \in Device /\ w[2] \in Id /\ cache[w[1]][w[2]] \in Buffer
      BY DEF TypeOK, WrittenDataIsKept
    <3>2. CASE <<w[1], cache[w[1]][w[2]]>> = <<r.device, r.buffer>>
      <4>1. r.device # "Cpu"
        BY <1>3, <3>1, <3>2 DEF HostExclusive
      <4> QED BY <1>1, <2>1, <3>1, <3>2, <4>1, NoneAssumption DEF Device
    <3>3. CASE <<w[1], cache[w[1]][w[2]]>> # <<r.device, r.buffer>>
      <4>1. data'[w[1]][cache[w[1]][w[2]]] = data[w[1]][cache[w[1]][w[2]]]
        BY <2>1, <3>1, <3>3
      <4> QED BY <4>1 DEF WrittenDataIsKept
    <3> QED BY <3>2, <3>3
  <2> QED BY <1>1, <2>2, <2>3 DEF CachesApart, HostExclusive, RegistryAgrees
<1> QED BY <1>2, <1>3

LEMMA StepHolds == BufferInv /\ [Next]_vars => BufferInv'
<1> SUFFICES ASSUME BufferInv, [Next]_vars PROVE BufferInv' OBVIOUS
<1>1. ASSUME NEW d \in Device, NEW i \in Id, GetCached(d, i) \/ GetNew(d, i) \/ Register(d, i)
      PROVE BufferInv'
  BY <1>1, GetCachedStep, GetNewStep, RegisterStep
<1>2. ASSUME NEW i \in Id, Pin(i) \/ Unpin(i)
      PROVE BufferInv'
  BY <1>2 DEF Pin, Unpin, BufferInv, TypeOK, CachesApart, HostExclusive, RegistryAgrees,
              WrittenDataIsKept
<1>3. CASE Evict BY <1>3, EvictStep
<1>4. ASSUME NEW r \in refs, Write(r) PROVE BufferInv' BY <1>4, WriteStep
<1>5. ASSUME NEW r \in refs, Drop(r) PROVE BufferInv'
  BY <1>5 DEF Drop, BufferInv, TypeOK, CachesApart, HostExclusive, RegistryAgrees,
              WrittenDataIsKept
<1>6. CASE UNCHANGED vars
  BY <1>6 DEF vars, BufferInv, TypeOK, CachesApart, HostExclusive, RegistryAgrees,
              WrittenDataIsKept
<1> QED BY <1>1, <1>2, <1>3, <1>4, <1>5, <1>6 DEF Next

(* The caches, the pools, the registry and the data agree in every state   *)
(* of BufferManager: no two ids share a cached buffer, and nobody on the   *)
(* host holds a buffer that is handed out under another id.                *)
THEOREM BuffersStayApart == Spec => []BufferInv
BY InitHolds, StepHolds, PTL DEF Spec

(* What a client writes for an id stays there until the id is evicted,     *)
(* whatever the others do (get_or_load, register, evict).                  *)
THEOREM WrittenDataStays == Spec => []WrittenDataIsKept
BY BuffersStayApart, PTL DEF BufferInv
===============================================================================
