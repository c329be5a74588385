------------------------------- MODULE Cache -------------------------------
(***************************************************************************)
(* The cached answers of the catalogue: a search, the details of an event  *)
(* and its seat map.  No handler reads two of them, so the model has one   *)
(* key, of any of the three kinds.  What the database would answer is a    *)
(* version that every commit raises; a cached answer is the version it was *)
(* computed from.                                                          *)
(*                                                                         *)
(* Each step of a reader is one command of Redis or one query, or several  *)
(* that no property tells apart.  Redis may fail at any of them, and the   *)
(* code goes on without it.  Time is in ticks; a computation takes at most *)
(* MaxCompute, which may be longer than the mutex lives.                   *)
(***************************************************************************)
EXTENDS Naturals, FiniteSets

CONSTANTS Readers,         \* GET requests under way
          KeyKinds,        \* among "list", "detail", "seats"
          ServicesTtl,     \* cache_services_ttl
          SeatsTtl,        \* cache_seats_ttl
          MutexTtl,        \* lock_timeout_seconds
          MaxPolls,        \* lock_timeout_seconds / wait_interval
          MaxCompute,      \* bound on the ticks a computation takes
          Missing,         \* no entry
          MaxWrites        \* bound on the commits that change the answer

ASSUME CacheAssumption ==
    /\ KeyKinds \subseteq {"list", "detail", "seats"}
    /\ {ServicesTtl, SeatsTtl, MutexTtl, MaxPolls} \subseteq Nat \ {0}
    /\ {MaxCompute, MaxWrites} \subseteq Nat

VARIABLES
    kind,        \* which of the keys it is
    version,     \* commits so far
    shown,       \* the event is there and is_active; no search depends on it
    entry,       \* cache:services:...: what is stored under the key
    entryTtl,    \* and how long it has left
    mutex,       \* lock:cache:services:...: whose token it holds
    mutexTtl,
    reading,     \* what a reader is at
    computed,    \* the version its query has seen
    leads,       \* it won the mutex, or Redis failed when it asked for it
    took,        \* ticks it has been computing
    polls,       \* times it has looked for the leader's answer
    inval,       \* how far the invalidation after a commit is
    age          \* history: ticks since a version was superseded

readers   == <<reading, computed, leads, took, polls>>
stored    == <<entry, entryTtl>>
guarded   == <<mutex, mutexTtl>>
cacheVars == <<kind, version, shown, stored, guarded, readers, inval, age>>

Free    == "free"
Former  == "former"     \* the token of a request that has ended
ASSUME TokenAssumption == {Free, Former} \cap Readers = {}

Ttl      == IF kind = "seats" THEN SeatsTtl ELSE ServicesTtl
Bound    == MaxCompute + Ttl
Versions == 0..MaxWrites
Stale    == entry # Missing /\ entry.version < version

CacheInit ==
    /\ kind \in KeyKinds /\ version = 0 /\ shown = TRUE
    /\ entry = Missing /\ entryTtl = 0 /\ mutex = Free /\ mutexTtl = 0
    /\ reading = [r \in Readers |-> "idle"] /\ computed = [r \in Readers |-> 0]
    /\ leads = [r \in Readers |-> "no"]
    /\ took = [r \in Readers |-> 0] /\ polls = [r \in Readers |-> 0]
    /\ inval = [v \in Versions |-> "none"] /\ age = [v \in Versions |-> 0]

GoTo(r, label) == reading' = [reading EXCEPT ![r] = label]

\* The request is answered, and what it held is forgotten; its token may still be
\* in the mutex.
Answer(r) ==
    /\ GoTo(r, "idle")
    /\ computed' = [computed EXCEPT ![r] = 0] /\ leads' = [leads EXCEPT ![r] = "no"]
    /\ took' = [took EXCEPT ![r] = 0] /\ polls' = [polls EXCEPT ![r] = 0]

---------------------------------------------------------------------------
\* GET requests.

\* mutant: SET without NX
BeginAnyway(r) ==
    /\ reading[r] = "idle"
    /\ mutex' = r /\ mutexTtl' = MutexTtl
    /\ leads' = [leads EXCEPT ![r] = "mutex"]
    /\ GoTo(r, "query")
    /\ UNCHANGED <<kind, version, shown, stored, computed, took, polls, inval, age>>

\* A hit of get_cached is the answer and changes nothing.  After a miss, or an
\* exception, comes SET NX EX of a fresh token; an exception makes everyone a
\* leader.  The seat map has no mutex.
Begin(r) ==
    /\ reading[r] = "idle"
    /\ \/ /\ kind = "seats"
          /\ GoTo(r, "query") /\ UNCHANGED <<guarded, leads>>
       \/ /\ kind # "seats" /\ mutex = Free
          /\ mutex' = r /\ mutexTtl' = MutexTtl
          /\ leads' = [leads EXCEPT ![r] = "mutex"]
          /\ GoTo(r, "query")
       \/ /\ kind # "seats" /\ mutex # Free
          /\ GoTo(r, "wait") /\ UNCHANGED <<guarded, leads>>
       \/ /\ kind # "seats"
          /\ leads' = [leads EXCEPT ![r] = "error"]
          /\ GoTo(r, "query") /\ UNCHANGED guarded
    /\ UNCHANGED <<kind, version, shown, stored, computed, took, polls, inval, age>>

\* A search always finds an answer, the other two if the event is shown.
Finds(r) ==
    /\ shown \/ kind = "list"
    /\ computed' = [computed EXCEPT ![r] = version]
    /\ GoTo(r, "store")
    /\ UNCHANGED <<leads, took, polls>>

\* An HTTPException: the mutex, if there is one, is released and nothing stored.
FindsNothing(r) ==
    /\ ~shown
    /\ \/ kind = "detail" /\ GoTo(r, "release") /\ UNCHANGED <<computed, leads, took, polls>>
       \/ kind = "seats" /\ Answer(r)

Query(r) ==
    /\ reading[r] = "query"
    /\ Finds(r) \/ FindsNothing(r)
    /\ UNCHANGED <<kind, version, shown, stored, guarded, inval, age>>

\* mutant: SET without EX
StoreForEver(r) ==
    /\ reading[r] = "store"
    /\ entry' = [version |-> computed[r], late |-> computed[r] # version]
    /\ entryTtl' = 0
    /\ Answer(r)
    /\ UNCHANGED <<kind, version, shown, guarded, inval, age>>

\* set_cached, with its TTL; the entry notes whether a commit overtook it.
StoreEntry(r) ==
    /\ reading[r] = "store"
    /\ \/ /\ entry' = [version |-> computed[r], late |-> computed[r] # version]
          /\ entryTtl' = Ttl
       \/ UNCHANGED stored
    /\ IF kind = "seats" THEN Answer(r)
       ELSE /\ GoTo(r, "release")
            /\ computed' = [computed EXCEPT ![r] = 0]
            /\ UNCHANGED <<leads, took, polls>>
    /\ UNCHANGED <<kind, version, shown, guarded, inval, age>>

\* mutant: DEL whoever holds the mutex
ReleaseAny(r) ==
    /\ reading[r] = "release"
    /\ mutex' = Free /\ mutexTtl' = 0
    /\ Answer(r)
    /\ UNCHANGED <<kind, version, shown, stored, inval, age>>

\* The Lua script: DEL if the mutex holds the request's own token.
Release(r) ==
    /\ reading[r] = "release"
    /\ \/ mutex = r /\ mutex' = Free /\ mutexTtl' = 0
       \/ mutex # r /\ UNCHANGED guarded
       \/ /\ mutex' = IF mutex = r THEN Former ELSE mutex
          /\ UNCHANGED mutexTtl
    /\ Answer(r)
    /\ UNCHANGED <<kind, version, shown, stored, inval, age>>

\* mutants: the last look is one look later; only the leader's answer ends the wait
PollOnceMore(r) ==
    /\ reading[r] = "wait"
    /\ \/ Answer(r)
       \/ /\ mutex # Free /\ polls[r] < MaxPolls
          /\ polls' = [polls EXCEPT ![r] = @ + 1]
          /\ UNCHANGED <<reading, computed, leads, took>>
    /\ UNCHANGED <<kind, version, shown, stored, guarded, inval, age>>
PollForAnswer(r) ==
    /\ reading[r] = "wait" /\ entry # Missing
    /\ Answer(r)
    /\ UNCHANGED <<kind, version, shown, stored, guarded, inval, age>>

\* A loser sleeps 50 ms and looks for the answer, then whether the mutex is still
\* there.  With the answer, without the mutex, after an error or the last look, it
\* is done: it answers from the cache or the database, and stores nothing.
Poll(r) ==
    /\ reading[r] = "wait"
    /\ \/ Answer(r)
       \/ /\ mutex # Free /\ polls[r] + 1 < MaxPolls
          /\ polls' = [polls EXCEPT ![r] = @ + 1]
          /\ UNCHANGED <<reading, computed, leads, took>>
    /\ UNCHANGED <<kind, version, shown, stored, guarded, inval, age>>

ReaderStep(r) == Query(r) \/ StoreEntry(r) \/ Release(r) \/ Poll(r)

---------------------------------------------------------------------------
\* Commits, and the background task that each leaves behind.

\* A write of one event deletes its two keys and then the searches; creating an
\* event, changing a location and closing a seller's account give no service_id,
\* and every key is scanned for.
Commit ==
    /\ version < MaxWrites
    /\ version' = version + 1
    /\ \/ UNCHANGED shown
       \/ kind # "list" /\ shown' = FALSE
    /\ \E first \in {"delete", "scan_all"} :
           inval' = [inval EXCEPT ![version + 1] = first]
    /\ UNCHANGED <<kind, stored, guarded, readers, age>>

\* mutant: the seat map is forgotten
DeleteDetail(v) ==
    /\ inval[v] = "delete"
    /\ inval' = [inval EXCEPT ![v] = "scan"]
    /\ IF kind = "detail" THEN entry' = Missing /\ entryTtl' = 0 ELSE UNCHANGED stored
    /\ UNCHANGED <<kind, version, shown, guarded, readers, age>>

DeleteKeys(v) ==
    /\ inval[v] = "delete"
    /\ inval' = [inval EXCEPT ![v] = "scan"]
    /\ IF kind \in {"detail", "seats"} THEN entry' = Missing /\ entryTtl' = 0
                                       ELSE UNCHANGED stored
    /\ UNCHANGED <<kind, version, shown, guarded, readers, age>>

\* SCAN finds every key that is there all the while; DEL takes what it found.
Scan(v) ==
    /\ inval[v] \in {"scan", "scan_all"}
    /\ inval' = [inval EXCEPT ![v] =
                    IF entry # Missing /\ (kind = "list" \/ inval[v] = "scan_all")
                    THEN "drop" ELSE "done"]
    /\ UNCHANGED <<kind, version, shown, stored, guarded, readers, age>>

DropFound(v) ==
    /\ inval[v] = "drop"
    /\ inval' = [inval EXCEPT ![v] = "done"]
    /\ entry' = Missing /\ entryTtl' = 0
    /\ UNCHANGED <<kind, version, shown, guarded, readers, age>>

\* Redis fails, which is caught and logged, or the server dies with its tasks.
LoseInvalidation(v) ==
    /\ inval[v] \notin {"none", "done", "lost"}
    /\ inval' = [inval EXCEPT ![v] = "lost"]
    /\ UNCHANGED <<kind, version, shown, stored, guarded, readers, age>>

---------------------------------------------------------------------------
Computing(r) == reading[r] \in {"query", "store", "release"}

CacheTick ==
    /\ \A r \in Readers : Computing(r) => took[r] < MaxCompute
    /\ took' = [r \in Readers |-> IF Computing(r) THEN took[r] + 1 ELSE took[r]]
    /\ entryTtl' = IF entryTtl = 0 THEN 0 ELSE entryTtl - 1
    /\ entry' = IF entryTtl = 1 THEN Missing ELSE entry
    /\ mutexTtl' = IF mutexTtl = 0 THEN 0 ELSE mutexTtl - 1
    /\ mutex' = IF mutexTtl = 1 THEN Free ELSE mutex
    /\ age' = [v \in Versions |-> IF v < version /\ age[v] <= Bound THEN age[v] + 1
                                                                  ELSE age[v]]
    /\ UNCHANGED <<kind, version, shown, reading, computed, leads, polls, inval>>

CacheNext == \/ \E r \in Readers : Begin(r) \/ ReaderStep(r)
             \/ Commit
             \/ \E v \in Versions : DeleteKeys(v) \/ Scan(v) \/ DropFound(v) \/ LoseInvalidation(v)
             \/ CacheTick

---------------------------------------------------------------------------
CacheTypeOK ==
    /\ kind \in KeyKinds /\ version \in Versions /\ shown \in BOOLEAN
    /\ entry \in [version : Versions, late : BOOLEAN] \cup {Missing}
    /\ mutex \in Readers \cup {Free, Former}
    /\ entryTtl \in 0..Ttl /\ mutexTtl \in 0..MutexTtl
    /\ reading \in [Readers -> {"idle", "query", "store", "release", "wait"}]
    /\ computed \in [Readers -> Versions] /\ leads \in [Readers -> {"no", "mutex", "error"}]
    /\ took \in [Readers -> 0..MaxCompute] /\ polls \in [Readers -> 0 .. MaxPolls - 1]
    /\ inval \in [Versions -> {"none", "delete", "scan", "scan_all", "drop", "done", "lost"}]
    /\ age \in [Versions -> 0..Bound + 1]

\* An answer that a commit has made stale is not in the cache for longer than a
\* computation and a TTL, though it was stored after its invalidation, or the
\* invalidation was lost (cache.py:144, services.py:498).
StalenessBounded == Stale => age[entry.version] <= Bound

\* An answer stored before the commit is gone once one invalidation has run to
\* its end: only an answer that was under way then can be stale.
InvalidationReaches ==
    Stale /\ ~entry.late => \A v \in entry.version + 1 .. version : inval[v] # "done"

\* Two requests that won the mutex compute at once only if one of them has been at
\* it for longer than the mutex lives.
OneLeader ==
    \A r, q \in Readers :
        r # q /\ leads[r] = "mutex" /\ leads[q] = "mutex"
            => took[r] >= MutexTtl \/ took[q] >= MutexTtl

\* A leader that was too slow does not release the mutex of its successor.
ReleasesOwn ==
    [][mutex # Free /\ mutex' = Free
          => \/ mutexTtl = 1 /\ UNCHANGED reading
             \/ \E r \in Readers : mutex = r /\ reading[r] = "release"]_cacheVars

\* When the writes have stopped, the cache agrees with the database for good.
CacheConverges == <>[]~Stale

\* Every GET is answered, also when the leader finds nothing to store or stalls.
ReadersAnswered == \A r \in Readers : reading[r] # "idle" ~> reading[r] = "idle"
=============================================================================
