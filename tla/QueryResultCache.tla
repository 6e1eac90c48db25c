-------------------------- MODULE QueryResultCache --------------------------
(***************************************************************************)
(* The row cache of fraiseql-core: a moka store, three reverse indexes     *)
(* (view, list, entity) and an atomic byte counter, shared by every        *)
(* request thread and updated without any common lock.                     *)
(*                                                                         *)
(* A put registers the key in the indexes, charges the counter and then    *)
(* inserts; an invalidation first collects keys from an index and then     *)
(* removes them one by one; moka runs the eviction listener whenever a     *)
(* value leaves the store, including when an insert replaces it.  Each of  *)
(* these is an action of its own, so every interleaving of two calls on    *)
(* the same key is a behaviour.                                            *)
(*                                                                         *)
(* moka itself is external.  A value stays physically in the store after   *)
(* its TTL or an invalidate_all ("dead": get() does not return it) until   *)
(* maintenance, an insert or an invalidate removes it, and only then does  *)
(* the listener run, under moka's lock for the key.                        *)
(***************************************************************************)
EXTENDS Integers, FiniteSets

CONSTANTS
    Threads,           \* request threads that call the cache
    Keys,              \* cache keys (the u64 hashes)
    Views,             \* view names
    Refs,              \* (entity type, entity id) pairs
    ViewsOf,           \* accessed_views of the query behind a key
    Results,           \* query results: [rows, refs, bytes]
    Ttls,              \* ttl_seconds an entry may get; 0 is "no expiry"
    Enabled,           \* CacheConfig.enabled
    CacheListQueries,  \* CacheConfig.cache_list_queries
    MaxEntries,        \* CacheConfig.max_entries
    MaxEntryBytes,     \* CacheConfig.max_entry_bytes
    Budget,            \* CacheConfig.max_total_bytes, in units of entry_overhead()
    Wrap               \* memory_bytes is a usize: arithmetic is modulo Wrap

ASSUME ThreadsAssumption == IsFiniteSet(Threads)
ASSUME KeysAssumption == IsFiniteSet(Keys)
ASSUME ViewsOfAssumption == ViewsOf \in [Keys -> SUBSET Views]
ASSUME ResultsAssumption ==
    Results \subseteq [rows : Nat, refs : SUBSET Refs, bytes : Nat]
ASSUME ConfigAssumption ==
    /\ Ttls \subseteq Nat
    /\ Enabled \in BOOLEAN
    /\ CacheListQueries \in BOOLEAN
    /\ MaxEntries \in Nat \ {0}
    /\ MaxEntryBytes \in Nat
    /\ Budget \in Nat \ {0}
    /\ Wrap \in Nat
    /\ Wrap > Cardinality(Keys) + Cardinality(Threads)

VARIABLES
    store,         \* [Keys -> Entry], phase "absent" when moka holds nothing
    view_index,    \* [Views -> SUBSET Keys]
    list_index,    \* [Views -> SUBSET Keys]
    entity_index,  \* [Refs -> SUBSET Keys]
    memory_bytes,  \* the AtomicUsize, in units of entry_overhead()
    pc,            \* where each thread is in put_arc, invalidate_* or clear
    key,           \* cache_key of the put in progress
    val,           \* the CachedResult of the put in progress
    left,          \* refs still to register, or views/refs still to collect
    todo,          \* keys_to_invalidate
    \* History variables: read by properties only.
    kind,          \* which invalidation the thread runs
    targets,       \* the views or refs it was called with
    fresh,         \* keys inserted by others since it was called
    stripped,      \* a removal of the put's own key hit the indexes since it began
    lossy,         \* keys whose stored value was registered under such a removal
    drift          \* charges that the last clear() forgot

cacheVars == <<store, view_index, list_index, entity_index, memory_bytes>>
callVars  == <<pc, key, val, left, todo>>
history   == <<kind, targets, fresh, stripped, lossy, drift>>
vars      == <<cacheVars, callVars, history>>

-----------------------------------------------------------------------------
(* Values.                                                                 *)

Entry == [phase : {"absent", "live", "dead"}, list : BOOLEAN,
          refs : SUBSET Refs, ttl : Nat]

NoEntry == [phase |-> "absent", list |-> FALSE, refs |-> {}, ttl |-> 0]

\* What put_arc builds from a query result: more than one row is a list.
CachedResult(r, ttl) ==
    [phase |-> "live", list |-> r.rows > 1, refs |-> r.refs, ttl |-> ttl]

Kinds == {"view", "list", "entity"}

PutSteps == {"views", "lists", "refs", "charge", "insert"}
PcStates == {"idle", "collect", "invalidate",
             "clear_views", "clear_entities", "clear_lists", "clear_memory"}
            \cup PutSteps

Present == {k \in Keys : store[k].phase # "absent"}
Live(k) == store[k].phase = "live"

\* Threads that have charged memory_bytes for an entry not yet in the store.
Charged == {t \in Threads : pc[t] = "insert"}

\* Threads that passed the byte gate and have not charged yet.
Gated == {t \in Threads : pc[t] \in PutSteps \ {"insert"}}

\* Thread t is in the middle of a put of k, from the first index update on.
Putting(t, k) == pc[t] \in PutSteps /\ key[t] = k

\* Threads inside one of the invalidation calls.
Invalidating == {t \in Threads : pc[t] \in {"collect", "invalidate"}}

TypeOK ==
    /\ store \in [Keys -> Entry]
    /\ view_index \in [Views -> SUBSET Keys]
    /\ list_index \in [Views -> SUBSET Keys]
    /\ entity_index \in [Refs -> SUBSET Keys]
    /\ memory_bytes \in 0 .. Wrap - 1
    /\ pc \in [Threads -> PcStates]
    /\ key \in [Threads -> Keys]
    /\ val \in [Threads -> Entry]
    /\ left \in [Threads -> SUBSET (Views \cup Refs)]
    /\ todo \in [Threads -> SUBSET Keys]
    /\ kind \in [Threads -> Kinds]
    /\ targets \in [Threads -> SUBSET (Views \cup Refs)]
    /\ fresh \in [Threads -> SUBSET Keys]
    /\ stripped \in [Threads -> BOOLEAN]
    /\ lossy \subseteq Keys
    /\ drift \in Nat

Init ==
    /\ store = [k \in Keys |-> NoEntry]
    /\ view_index = [v \in Views |-> {}]
    /\ list_index = [v \in Views |-> {}]
    /\ entity_index = [r \in Refs |-> {}]
    /\ memory_bytes = 0
    /\ pc = [t \in Threads |-> "idle"]
    /\ key \in [Threads -> Keys]
    /\ val = [t \in Threads |-> NoEntry]
    /\ left = [t \in Threads |-> {}]
    /\ todo = [t \in Threads |-> {}]
    /\ kind = [t \in Threads |-> "view"]
    /\ targets = [t \in Threads |-> {}]
    /\ fresh = [t \in Threads |-> {}]
    /\ stripped = [t \in Threads |-> FALSE]
    /\ lossy = {}
    /\ drift = 0

-----------------------------------------------------------------------------
(* The eviction listener that build_store gives to moka.  It runs with the *)
(* value that leaves the store, whatever the cause.                        *)

\* AtomicUsize::fetch_add and fetch_sub wrap around.
FetchAdd(n) == IF n = Wrap - 1 THEN 0 ELSE n + 1
FetchSub(n) == IF n = 0 THEN Wrap - 1 ELSE n - 1

Without(index, k, tags) ==
    [x \in DOMAIN index |-> IF x \in tags THEN index[x] \ {k} ELSE index[x]]

With(index, k, tags) ==
    [x \in DOMAIN index |-> IF x \in tags THEN index[x] \cup {k} ELSE index[x]]

\* Mutants of the listener.
ListenerKeepsListIndex(k) ==
    /\ memory_bytes' = FetchSub(memory_bytes)
    /\ view_index' = Without(view_index, k, ViewsOf[k])
    /\ UNCHANGED list_index
    /\ entity_index' = Without(entity_index, k, store[k].refs)

ListenerForgetsBytes(k) ==
    /\ UNCHANGED memory_bytes
    /\ view_index' = Without(view_index, k, ViewsOf[k])
    /\ list_index' = IF store[k].list THEN Without(list_index, k, ViewsOf[k]) ELSE list_index
    /\ entity_index' = Without(entity_index, k, store[k].refs)

ListenerSaturates(k) ==
    /\ memory_bytes' = memory_bytes - 1
    /\ view_index' = Without(view_index, k, ViewsOf[k])
    /\ list_index' = IF store[k].list THEN Without(list_index, k, ViewsOf[k]) ELSE list_index
    /\ entity_index' = Without(entity_index, k, store[k].refs)

Listener(k) ==
    /\ memory_bytes' = FetchSub(memory_bytes)
    /\ view_index' = Without(view_index, k, ViewsOf[k])
    /\ list_index' = IF store[k].list THEN Without(list_index, k, ViewsOf[k]) ELSE list_index
    /\ entity_index' = Without(entity_index, k, store[k].refs)

\* moka drops the value of k and notifies the listener: invalidate() by a
\* thread, or maintenance.
Removed(k) ==
    /\ Listener(k)
    /\ store' = [store EXCEPT ![k] = NoEntry]
    /\ stripped' = [t \in Threads |-> stripped[t] \/ Putting(t, k)]
    /\ lossy' = lossy \ {k}

-----------------------------------------------------------------------------
(* put_arc                                                                 *)

\* Mutant: the byte gate is an off-by-one too late.
AdmitsAtBudget(r) ==
    /\ Enabled
    /\ CacheListQueries \/ r.rows <= 1
    /\ r.bytes <= MaxEntryBytes
    /\ memory_bytes <= Budget

\* The early returns of put_arc.  The byte gate reads memory_bytes once.
Admits(r) ==
    /\ Enabled
    /\ CacheListQueries \/ r.rows <= 1
    /\ r.bytes <= MaxEntryBytes
    /\ memory_bytes < Budget

PutStart(t, k, r, ttl) ==
    /\ pc[t] = "idle"
    /\ Admits(r)
    /\ pc' = [pc EXCEPT ![t] = "views"]
    /\ key' = [key EXCEPT ![t] = k]
    /\ val' = [val EXCEPT ![t] = CachedResult(r, ttl)]
    /\ left' = [left EXCEPT ![t] = r.refs]
    /\ stripped' = [stripped EXCEPT ![t] = FALSE]
    /\ UNCHANGED <<cacheVars, todo, kind, targets, fresh, lossy, drift>>

\* Mutant: the list index is skipped.
RegisterViewsOnly(t) ==
    /\ pc[t] = "views"
    /\ view_index' = With(view_index, key[t], ViewsOf[key[t]])
    /\ pc' = [pc EXCEPT ![t] = "refs"]
    /\ UNCHANGED <<store, list_index, entity_index, memory_bytes>>
    /\ UNCHANGED <<key, val, left, todo, history>>

RegisterViews(t) ==
    /\ pc[t] = "views"
    /\ view_index' = With(view_index, key[t], ViewsOf[key[t]])
    /\ pc' = [pc EXCEPT ![t] = IF val[t].list THEN "lists" ELSE "refs"]
    /\ UNCHANGED <<store, list_index, entity_index, memory_bytes>>
    /\ UNCHANGED <<key, val, left, todo, history>>

RegisterList(t) ==
    /\ pc[t] = "lists"
    /\ list_index' = With(list_index, key[t], ViewsOf[key[t]])
    /\ pc' = [pc EXCEPT ![t] = "refs"]
    /\ UNCHANGED <<store, view_index, entity_index, memory_bytes>>
    /\ UNCHANGED <<key, val, left, todo, history>>

RegisterRef(t) ==
    /\ pc[t] = "refs"
    /\ \E r \in left[t] :
          /\ entity_index' = With(entity_index, key[t], {r})
          /\ left' = [left EXCEPT ![t] = @ \ {r}]
    /\ UNCHANGED <<store, view_index, list_index, memory_bytes>>
    /\ UNCHANGED <<pc, key, val, todo, history>>

RegisterRefsDone(t) ==
    /\ pc[t] = "refs"
    /\ left[t] = {}
    /\ pc' = [pc EXCEPT ![t] = "charge"]
    /\ UNCHANGED <<cacheVars, key, val, left, todo, history>>

Charge(t) ==
    /\ pc[t] = "charge"
    /\ memory_bytes' = FetchAdd(memory_bytes)
    /\ pc' = [pc EXCEPT ![t] = "insert"]
    /\ UNCHANGED <<store, view_index, list_index, entity_index>>
    /\ UNCHANGED <<key, val, left, todo, history>>

\* store.insert.  When moka still holds a value for the key, live or dead,
\* the listener runs with that old value once the new one is in.
Insert(t) ==
    LET k == key[t] IN
    /\ pc[t] = "insert"
    /\ store' = [store EXCEPT ![k] = val[t]]
    /\ IF k \in Present
       THEN Listener(k)
       ELSE UNCHANGED <<memory_bytes, view_index, list_index, entity_index>>
    /\ pc' = [pc EXCEPT ![t] = "idle"]
    /\ val' = [val EXCEPT ![t] = NoEntry]
    /\ stripped' = [u \in Threads |->
                      u # t /\ (stripped[u] \/ (k \in Present /\ Putting(u, k)))]
    /\ lossy' = IF k \in Present \/ stripped[t] THEN lossy \cup {k} ELSE lossy \ {k}
    /\ fresh' = [u \in Threads |-> IF u \in Invalidating THEN fresh[u] \cup {k} ELSE fresh[u]]
    /\ UNCHANGED <<key, left, todo, kind, targets, drift>>

-----------------------------------------------------------------------------
(* invalidate_views, invalidate_list_queries, invalidate_by_entity         *)

InvalidateStart(t, what, tags) ==
    /\ pc[t] = "idle"
    /\ Enabled
    /\ pc' = [pc EXCEPT ![t] = "collect"]
    /\ left' = [left EXCEPT ![t] = tags]
    /\ todo' = [todo EXCEPT ![t] = {}]
    /\ kind' = [kind EXCEPT ![t] = what]
    /\ targets' = [targets EXCEPT ![t] = tags]
    /\ fresh' = [fresh EXCEPT ![t] = {}]
    /\ UNCHANGED <<cacheVars, key, val, stripped, lossy, drift>>

invalidate_views(t, vs) == InvalidateStart(t, "view", vs)
invalidate_list_queries(t, vs) == InvalidateStart(t, "list", vs)
invalidate_by_entity(t, r) == InvalidateStart(t, "entity", {r})

IndexOf(what) ==
    CASE what = "view"   -> view_index
      [] what = "list"   -> list_index
      [] what = "entity" -> entity_index

Collect(t) ==
    /\ pc[t] = "collect"
    /\ \E x \in left[t] :
          /\ todo' = [todo EXCEPT ![t] = @ \cup IndexOf(kind[t])[x]]
          /\ left' = [left EXCEPT ![t] = @ \ {x}]
    /\ UNCHANGED <<cacheVars, pc, key, val, history>>

CollectDone(t) ==
    /\ pc[t] = "collect"
    /\ left[t] = {}
    /\ pc' = [pc EXCEPT ![t] = "invalidate"]
    /\ UNCHANGED <<cacheVars, key, val, left, todo, history>>

\* store.invalidate of one collected key; nothing to do when it is gone.
InvalidateKey(t) ==
    /\ pc[t] = "invalidate"
    /\ \E k \in todo[t] :
          /\ todo' = [todo EXCEPT ![t] = @ \ {k}]
          /\ IF k \in Present THEN Removed(k) ELSE UNCHANGED <<cacheVars, stripped, lossy>>
    /\ UNCHANGED <<pc, key, val, left, kind, targets, fresh, drift>>

InvalidateDone(t) ==
    /\ pc[t] = "invalidate"
    /\ todo[t] = {}
    /\ pc' = [pc EXCEPT ![t] = "idle"]
    /\ targets' = [targets EXCEPT ![t] = {}]
    /\ fresh' = [fresh EXCEPT ![t] = {}]
    /\ UNCHANGED <<cacheVars, key, val, left, todo, kind, stripped, lossy, drift>>

-----------------------------------------------------------------------------
(* clear                                                                   *)

\* A cleared index loses the keys of the puts in progress and of the values
\* inserted since invalidate_all.
IndexCleared ==
    /\ stripped' = [t \in Threads |-> pc[t] \in PutSteps]
    /\ lossy' = lossy \cup Present

ClearStart(t) ==
    /\ pc[t] = "idle"
    /\ store' = [k \in Keys |-> IF Live(k) THEN [store[k] EXCEPT !.phase = "dead"] ELSE store[k]]
    /\ pc' = [pc EXCEPT ![t] = "clear_views"]
    /\ UNCHANGED <<view_index, list_index, entity_index, memory_bytes>>
    /\ UNCHANGED <<key, val, left, todo, history>>

ClearViews(t) ==
    /\ pc[t] = "clear_views"
    /\ view_index' = [v \in Views |-> {}]
    /\ pc' = [pc EXCEPT ![t] = "clear_entities"]
    /\ IndexCleared
    /\ UNCHANGED <<store, list_index, entity_index, memory_bytes>>
    /\ UNCHANGED <<key, val, left, todo, kind, targets, fresh, drift>>

ClearEntities(t) ==
    /\ pc[t] = "clear_entities"
    /\ entity_index' = [r \in Refs |-> {}]
    /\ pc' = [pc EXCEPT ![t] = "clear_lists"]
    /\ IndexCleared
    /\ UNCHANGED <<store, view_index, list_index, memory_bytes>>
    /\ UNCHANGED <<key, val, left, todo, kind, targets, fresh, drift>>

ClearLists(t) ==
    /\ pc[t] = "clear_lists"
    /\ list_index' = [v \in Views |-> {}]
    /\ pc' = [pc EXCEPT ![t] = "clear_memory"]
    /\ IndexCleared
    /\ UNCHANGED <<store, view_index, entity_index, memory_bytes>>
    /\ UNCHANGED <<key, val, left, todo, kind, targets, fresh, drift>>

ClearMemory(t) ==
    /\ pc[t] = "clear_memory"
    /\ memory_bytes' = 0
    /\ drift' = Cardinality(Present) + Cardinality(Charged)
    /\ pc' = [pc EXCEPT ![t] = "idle"]
    /\ UNCHANGED <<store, view_index, list_index, entity_index>>
    /\ UNCHANGED <<key, val, left, todo, kind, targets, fresh, stripped, lossy>>

-----------------------------------------------------------------------------
(* moka on its own: per-entry expiry and maintenance.                      *)

\* CacheEntryExpiry: an entry with ttl_seconds = 0 never expires.
Expire(k) ==
    /\ Live(k)
    /\ store[k].ttl # 0
    /\ store' = [store EXCEPT ![k].phase = "dead"]
    /\ UNCHANGED <<view_index, list_index, entity_index, memory_bytes, callVars, history>>

\* Maintenance drops dead values, and live ones when over capacity.
Evict(k) ==
    /\ k \in Present
    /\ ~Live(k) \/ Cardinality(Present) > MaxEntries
    /\ Removed(k)
    /\ UNCHANGED <<callVars, kind, targets, fresh, drift>>

-----------------------------------------------------------------------------
PutAct(t) ==
    \/ \E k \in Keys, r \in Results, ttl \in Ttls : PutStart(t, k, r, ttl)
    \/ RegisterViews(t)
    \/ RegisterList(t)
    \/ RegisterRef(t)
    \/ RegisterRefsDone(t)
    \/ Charge(t)
    \/ Insert(t)

InvalidateAct(t) ==
    \/ \E vs \in SUBSET Views \ {{}} : invalidate_views(t, vs)
    \/ \E v \in Views : invalidate_list_queries(t, {v})
    \/ \E r \in Refs : invalidate_by_entity(t, r)
    \/ Collect(t)
    \/ CollectDone(t)
    \/ InvalidateKey(t)
    \/ InvalidateDone(t)

ClearAct(t) ==
    \/ ClearStart(t)
    \/ ClearViews(t)
    \/ ClearEntities(t)
    \/ ClearLists(t)
    \/ ClearMemory(t)

MokaAct == \E k \in Keys : Expire(k) \/ Evict(k)

Next ==
    \/ \E t \in Threads : PutAct(t) \/ InvalidateAct(t) \/ ClearAct(t)
    \/ MokaAct

Spec == Init /\ [][Next]_vars

-----------------------------------------------------------------------------
(* Properties                                                              *)

\* The byte counter that put_arc's budget gate reads equals the number of
\* values moka physically holds plus the inserts already charged, minus what
\* the last clear() forgot: no interleaving of replace, eviction and
\* invalidation leaks or double-frees a charge.
MemoryConserved ==
    LET use == Cardinality(Present) + Cardinality(Charged)
    IN  memory_bytes = IF use >= drift THEN use - drift ELSE use - drift + Wrap

\* The gate is check-then-act: with every charge accounted for, threads that
\* passed it together overshoot max_total_bytes by at most one entry each.
BudgetOvershootBounded ==
    drift = 0 => Cardinality(Present) + Cardinality(Charged) + Cardinality(Gated)
                   < Budget + Cardinality(Threads)

\* No index outlives what it points to: a key stays in an index only while
\* moka holds a value registered there or a put of that key is under way.
ViewIndexNoDangling ==
    \A v \in Views : \A k \in view_index[v] :
        v \in ViewsOf[k] /\ (k \in Present \/ \E t \in Threads : Putting(t, k))

ListIndexNoDangling ==
    \A v \in Views : \A k \in list_index[v] :
        /\ v \in ViewsOf[k]
        /\ (k \in Present /\ store[k].list) \/ (\E t \in Threads : Putting(t, k) /\ val[t].list)

EntityIndexNoDangling ==
    \A r \in Refs : \A k \in entity_index[r] :
        (k \in Present /\ r \in store[k].refs) \/ (\E t \in Threads : Putting(t, k) /\ r \in val[t].refs)

IndexesNoDangling ==
    ViewIndexNoDangling /\ ListIndexNoDangling /\ EntityIndexNoDangling

InIndexes(k, e) ==
    /\ \A v \in ViewsOf[k] : k \in view_index[v] /\ (e.list => k \in list_index[v])
    /\ \A r \in e.refs : k \in entity_index[r]

\* A cached value is reachable from every index of its views and rows, unless
\* another value of the same key was removed, or the cache cleared, while it
\* was being put.
IndexComplete ==
    \A k \in Keys : Live(k) /\ k \notin lossy => InIndexes(k, store[k])

\* Does invalidation call `what` with `tags` have to remove the value of k?
Matches(what, tags, k) ==
    CASE what = "view"   -> ViewsOf[k] \cap tags # {}
      [] what = "list"   -> store[k].list /\ ViewsOf[k] \cap tags # {}
      [] what = "entity" -> store[k].refs \cap tags # {}

\* When an invalidation is about to return, every value it should have
\* removed is gone, except values inserted while it ran and values the
\* indexes had already lost.
InvalidationComplete ==
    \A t \in Threads : pc[t] = "invalidate" /\ todo[t] = {} =>
        \A k \in Keys : Live(k) /\ Matches(kind[t], targets[t], k) =>
            k \in fresh[t] \/ k \in lossy

\* Stated by docs/modules/cache.md: invalidate_views removes any entry whose
\* accessed views intersect its argument.  For a cache at rest: a live value
\* is in the index of each of its views.
EveryLiveEntryIndexed ==
    (\A t \in Threads : pc[t] = "idle") =>
        \A k \in Keys : Live(k) => \A v \in ViewsOf[k] : k \in view_index[v]

=============================================================================
