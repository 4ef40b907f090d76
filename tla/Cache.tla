------------------------------- MODULE Cache -------------------------------
(***************************************************************************)
(* The cache in front of the Phira API (common/cache, used by              *)
(* integration/phira): entries in memory with a time to live and a sampled *)
(* LRU bound, written to disk a moment after a change, or kept in a Redis  *)
(* server chosen when the process starts.  Callers of GetOrSet for one key *)
(* share one fetch.  A value is the version of the upstream data at the    *)
(* time of its fetch; time passes in units of TTL / CTTL.                  *)
(***************************************************************************)
EXTENDS Naturals, Sequences, FiniteSets

CONSTANTS CKeys, CCallers,
          CMaxMem,     \* maxMem
          LruSample,   \* lruSampleSize
          CTTL,        \* ttl
          CMaxClock    \* bound on time

ASSUME CAssumption == {CMaxMem, LruSample, CTTL, CMaxClock} \subseteq Nat /\ LruSample > 0

VARIABLES mem,        \* key -> [at, used]: time of the fetch, last access
          file,       \* key -> at, the file
          fileOk,     \* the last flush succeeded
          saveTimer, cpending,  \* saveTimer # nil, pending
          accesses,   \* accessCounter
          redis,      \* the Redis client is connected
          store,      \* key -> at, in Redis
          flights,    \* inFlight: key -> the caller that fetches
          caller,     \* GetOrSet calls: [pc, key]
          clock

cVars == <<mem, file, fileOk, saveTimer, cpending, accesses, redis, store, flights, caller, clock>>

Expired(at) == clock - at > CTTL
Put(f, k, v) == [i \in DOMAIN f \cup {k} |-> IF i = k THEN v ELSE f[i]]
Drop(f, ks) == [i \in DOMAIN f \ ks |-> f[i]]
Idle == [pc |-> "idle", key |-> CHOOSE k \in CKeys : TRUE]
Times(f) == [k \in DOMAIN f |-> f[k].at]

CInit ==
  /\ mem = <<>> /\ file = <<>> /\ fileOk = TRUE /\ saveTimer = FALSE /\ cpending = FALSE
  /\ accesses = 0 /\ redis = FALSE /\ store = <<>> /\ flights = <<>>
  /\ caller = [c \in CCallers |-> Idle] /\ clock = 0

\* scheduleSaveLocked
ScheduleSave == saveTimer' = TRUE /\ cpending' = TRUE

\* evictIfNeeded: the least recently used of a random sample goes.
Evicted(m) ==
  IF Cardinality(DOMAIN m) <= CMaxMem THEN {m}
  ELSE { Drop(m, {CHOOSE k \in S : \A i \in S : m[k].used <= m[i].used}) :
         S \in { T \in SUBSET DOMAIN m :
                 Cardinality(T) = IF Cardinality(DOMAIN m) < LruSample THEN Cardinality(DOMAIN m) ELSE LruSample } }

CallerAt(c, pc) == caller' = [caller EXCEPT ![c].pc = pc]

\* Get, the first step of GetOrSet: an expired entry is deleted, a hit is
\* an access and ends the call.  Redis may also fail, which is a miss.
GetOrSet(c, k) ==
  /\ caller[c].pc = "idle" /\ accesses < CMaxClock * 2
  /\ accesses' = accesses + 1
  /\ IF redis
     THEN /\ UNCHANGED mem
          /\ store' = IF k \in DOMAIN store /\ Expired(store[k]) THEN Drop(store, {k}) ELSE store
          /\ \/ k \in DOMAIN store' /\ UNCHANGED caller
             \/ caller' = [caller EXCEPT ![c] = [pc |-> "missed", key |-> k]]
     ELSE /\ UNCHANGED store
          /\ IF k \in DOMAIN mem /\ ~Expired(mem[k].at)
             THEN mem' = [mem EXCEPT ![k].used = accesses'] /\ UNCHANGED caller
             ELSE /\ mem' = Drop(mem, {k})
                  /\ caller' = [caller EXCEPT ![c] = [pc |-> "missed", key |-> k]]
  /\ UNCHANGED <<file, fileOk, saveTimer, cpending, redis, flights, clock>>

\* Under c.mu: join the fetch under way, or begin one.
Join(c) ==
  /\ caller[c].pc = "missed"
  /\ IF caller[c].key \in DOMAIN flights
     THEN CallerAt(c, "waits") /\ UNCHANGED flights
     ELSE CallerAt(c, "fetches") /\ flights' = Put(flights, caller[c].key, c)
  /\ UNCHANGED <<mem, file, fileOk, saveTimer, cpending, accesses, redis, store, clock>>

SetLocal_NoSave(k) ==
  /\ mem' \in Evicted(Put(mem, k, [at |-> clock, used |-> accesses']))
  /\ UNCHANGED <<saveTimer, cpending>>

\* Set on the local backend.
SetLocal(k) ==
  /\ mem' \in Evicted(Put(mem, k, [at |-> clock, used |-> accesses']))
  /\ ScheduleSave

\* The factory (fetch* of the Phira client, with its retries) succeeded: Set.
FetchOk(c) ==
  /\ caller[c].pc = "fetches" /\ CallerAt(c, "closes") /\ accesses' = accesses + 1
  /\ IF redis THEN store' \in {store, Put(store, caller[c].key, clock)} /\ UNCHANGED <<mem, saveTimer, cpending>>
     ELSE SetLocal(caller[c].key) /\ UNCHANGED store
  /\ UNCHANGED <<file, fileOk, redis, flights, clock>>

\* The factory failed: nothing is cached.
FetchFails(c) ==
  /\ caller[c].pc = "fetches" /\ CallerAt(c, "closes")
  /\ UNCHANGED <<mem, file, fileOk, saveTimer, cpending, accesses, redis, store, flights, clock>>

\* The flight is closed: all who wait for it return.
CloseFlight(c) ==
  /\ caller[c].pc = "closes"
  /\ caller' = [d \in CCallers |->
       IF d = c THEN [caller[d] EXCEPT !.pc = "ends"]
       ELSE IF caller[d].pc = "waits" /\ caller[d].key = caller[c].key THEN Idle ELSE caller[d]]
  /\ UNCHANGED <<mem, file, fileOk, saveTimer, cpending, accesses, redis, store, flights, clock>>

\* It leaves inFlight; who joined it in between returns at once.
EndFlight(c) ==
  /\ caller[c].pc = "ends"
  /\ flights' = Drop(flights, {caller[c].key})
  /\ caller' = [d \in CCallers |->
       IF d = c \/ (caller[d].pc = "waits" /\ caller[d].key = caller[c].key) THEN Idle ELSE caller[d]]
  /\ UNCHANGED <<mem, file, fileOk, saveTimer, cpending, accesses, redis, store, clock>>

\* Delete: by the hourly refresh, of entries near their end (KeysNearExpiry
\* finds none under Redis).
Delete(k) ==
  /\ ~redis /\ k \in DOMAIN mem /\ clock - mem[k].at >= CTTL
  /\ mem' = Drop(mem, {k}) /\ ScheduleSave
  /\ UNCHANGED <<file, fileOk, accesses, redis, store, flights, caller, clock>>

\* flushToDiskLocked: errors are swallowed.
Flush(m) ==
  \/ file' = Times(m) /\ fileOk' = TRUE
  \/ file' = file /\ fileOk' = FALSE

\* The timer of the debounced save.
SaveFires ==
  /\ saveTimer /\ saveTimer' = FALSE /\ cpending' = FALSE
  /\ IF cpending THEN Flush(mem) ELSE UNCHANGED <<file, fileOk>>
  /\ UNCHANGED <<mem, accesses, redis, store, flights, caller, clock>>

\* loadFromDisk, when the process starts again; then InitRedis, which moves
\* what was loaded to Redis when Redis is configured and answers.
Restart(connect) ==
  LET live == {k \in DOMAIN file : ~Expired(file[k])} IN
  /\ mem' = IF connect THEN <<>> ELSE [k \in live |-> [at |-> file[k], used |-> accesses]]
  /\ redis' = connect
  /\ store' = IF connect THEN [k \in live \cup DOMAIN store |-> IF k \in live THEN file[k] ELSE store[k]] ELSE store
  /\ saveTimer' = FALSE /\ cpending' = FALSE /\ flights' = <<>> /\ caller' = [c \in CCallers |-> Idle]
  /\ UNCHANGED <<file, fileOk, accesses, clock>>

\* Time passes; Redis lets go of what has expired.
CTick ==
  /\ clock < CMaxClock /\ clock' = clock + 1
  /\ store' = Drop(store, {k \in DOMAIN store : clock' - store[k] > CTTL})
  /\ UNCHANGED <<mem, file, fileOk, saveTimer, cpending, accesses, redis, flights, caller>>

CNext ==
  \/ \E c \in CCallers : \/ \E k \in CKeys : GetOrSet(c, k)
                         \/ Join(c) \/ FetchOk(c) \/ FetchFails(c) \/ CloseFlight(c) \/ EndFlight(c)
  \/ \E k \in CKeys : Delete(k)
  \/ \E b \in BOOLEAN : Restart(b)
  \/ SaveFires \/ CTick

CSpec == CInit /\ [][CNext]_cVars

-----------------------------------------------------------------------------
Alive(f) == [k \in {i \in DOMAIN f : ~Expired(f[i])} |-> f[k]]

\* With no save under way the file holds what the memory holds, expired
\* entries aside (Set, Delete and the save's timer): a restart loses at most
\* what the timer still owed.  A failed flush waits for the next change.
DiskFollows == ~redis /\ ~saveTimer /\ fileOk => Alive(file) = Alive(Times(mem))
=============================================================================
