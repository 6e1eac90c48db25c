----------------------- MODULE QueryResultCache_proofs -----------------------
(***************************************************************************)
(* Proofs about QueryResultCache for any number of threads, keys, views    *)
(* and entities, any configuration and any interleaving.                   *)
(***************************************************************************)
EXTENDS QueryResultCache, FiniteSetTheorems, TLAPS

(* What the eviction listener does to an index: it drops the key under the *)
(* given tags and leaves the other tags alone.                             *)
LEMMA WithoutFacts ==
    ASSUME NEW S, NEW index \in [S -> SUBSET Keys], NEW k, NEW tags
    PROVE  /\ Without(index, k, tags) \in [S -> SUBSET Keys]
           /\ \A x \in S : Without(index, k, tags)[x]
                            = IF x \in tags THEN index[x] \ {k} ELSE index[x]
  BY DEF Without

-----------------------------------------------------------------------------
(* Types, together with what a call in progress knows about its own locals *)

\* A put still has to register only refs of its own rows, registers a list
\* index only for a list, and an invalidation collects from the index that
\* its targets belong to.
CallOK(t) ==
    /\ pc[t] \in PutSteps => val[t].phase = "live" /\ left[t] \subseteq val[t].refs
    /\ pc[t] = "lists" => val[t].list
    /\ pc[t] \in {"charge", "insert", "invalidate"} => left[t] = {}
    /\ pc[t] = "collect" => left[t] \subseteq targets[t]
    /\ pc[t] \in {"collect", "invalidate"} =>
          targets[t] \subseteq IF kind[t] = "entity" THEN Refs ELSE Views

CallsOK == \A t \in Threads : CallOK(t)

LEMMA EntryFacts ==
    /\ NoEntry \in Entry /\ NoEntry.phase = "absent"
    /\ \A e \in Entry : /\ [e EXCEPT !.phase = "dead"] \in Entry
                        /\ [e EXCEPT !.phase = "dead"].phase = "dead"
                        /\ [e EXCEPT !.phase = "dead"].list = e.list
                        /\ [e EXCEPT !.phase = "dead"].refs = e.refs
  BY DEF NoEntry, Entry

LEMMA WrapFacts == Wrap \in Nat /\ Wrap > 0
  BY ThreadsAssumption, KeysAssumption, ConfigAssumption, FS_CardinalityType

\* The listener keeps the counter a usize and the indexes sets of keys.
LEMMA ListenerType ==
    ASSUME TypeOK, NEW k \in Keys, Listener(k)
    PROVE  /\ memory_bytes' \in 0 .. Wrap - 1
           /\ view_index' \in [Views -> SUBSET Keys]
           /\ list_index' \in [Views -> SUBSET Keys]
           /\ entity_index' \in [Refs -> SUBSET Keys]
<1>1. memory_bytes' \in 0 .. Wrap - 1
  BY WrapFacts DEF TypeOK, Listener, FetchSub
<1> QED
  BY <1>1, WithoutFacts DEF TypeOK, Listener

LEMMA RemovedType ==
    ASSUME TypeOK, NEW k \in Keys, Removed(k)
    PROVE  /\ store' \in [Keys -> Entry]
           /\ memory_bytes' \in 0 .. Wrap - 1
           /\ view_index' \in [Views -> SUBSET Keys]
           /\ list_index' \in [Views -> SUBSET Keys]
           /\ entity_index' \in [Refs -> SUBSET Keys]
           /\ stripped' \in [Threads -> BOOLEAN]
           /\ lossy' \subseteq Keys
<1>1. store' \in [Keys -> Entry]
  BY EntryFacts DEF TypeOK, Removed
<1>2. stripped' \in [Threads -> BOOLEAN] /\ lossy' \subseteq Keys
  BY DEF TypeOK, Removed
<1> QED
  BY <1>1, <1>2, ListenerType DEF Removed

(* The type invariant: in particular memory_bytes stays a usize and every  *)
(* index holds cache keys only, whatever put_arc, invalidate_*, clear and  *)
(* the eviction listener interleave to.                                    *)
THEOREM TypeCorrect == Spec => [](TypeOK /\ CallsOK)
<1> USE ThreadsAssumption, KeysAssumption, ViewsOfAssumption, ResultsAssumption,
        ConfigAssumption
<1>0. /\ Cardinality(Keys) \in Nat
      /\ Cardinality(Threads) \in Nat
      /\ Wrap \in Nat /\ Wrap > 0
  BY FS_CardinalityType
<1>1. Init => TypeOK /\ CallsOK
  BY <1>0 DEF Init, TypeOK, Entry, NoEntry, PcStates, PutSteps, Kinds, CallsOK, CallOK
<1>2. TypeOK /\ CallsOK /\ [Next]_vars => TypeOK'
  <2> SUFFICES ASSUME TypeOK, CallsOK, [Next]_vars PROVE TypeOK'
    OBVIOUS
  <2> USE <1>0 DEF TypeOK
  <2>1. ASSUME NEW t \in Threads, NEW k \in Keys, NEW r \in Results, NEW ttl \in Ttls,
               PutStart(t, k, r, ttl)
        PROVE  TypeOK'
    BY <2>1 DEF PutStart, CachedResult, Entry, cacheVars, PcStates, PutSteps
  <2>2. ASSUME NEW t \in Threads, RegisterViews(t) PROVE TypeOK'
    BY <2>2 DEF RegisterViews, With, history, PcStates, PutSteps
  <2>3. ASSUME NEW t \in Threads, RegisterList(t) PROVE TypeOK'
    BY <2>3 DEF RegisterList, With, history, PcStates, PutSteps
  <2>4. ASSUME NEW t \in Threads, RegisterRef(t) PROVE TypeOK'
    BY <2>4 DEF RegisterRef, With, history
  <2>5. ASSUME NEW t \in Threads, RegisterRefsDone(t) PROVE TypeOK'
    BY <2>5 DEF RegisterRefsDone, history, cacheVars, PcStates, PutSteps
  <2>6. ASSUME NEW t \in Threads, Charge(t) PROVE TypeOK'
    BY <2>6 DEF Charge, FetchAdd, history, PcStates, PutSteps
  <2>7. ASSUME NEW t \in Threads, Insert(t) PROVE TypeOK'
    <3>1. NoEntry \in Entry
      BY DEF NoEntry, Entry
    <3>2. /\ memory_bytes' \in 0 .. Wrap - 1
          /\ view_index' \in [Views -> SUBSET Keys]
          /\ list_index' \in [Views -> SUBSET Keys]
          /\ entity_index' \in [Refs -> SUBSET Keys]
      BY <2>7, ListenerType DEF Insert
    <3> QED
      BY <2>7, <3>1, <3>2 DEF Insert, PcStates
  <2>9. ASSUME NEW t \in Threads, NEW what \in Kinds, NEW tags \in SUBSET (Views \cup Refs),
               InvalidateStart(t, what, tags)
        PROVE  TypeOK'
    BY <2>9 DEF InvalidateStart, cacheVars, PcStates
  <2>10. ASSUME NEW t \in Threads, InvalidateAct(t) PROVE TypeOK'
    <3>1. ASSUME NEW vs \in SUBSET Views \ {{}}, invalidate_views(t, vs) PROVE TypeOK'
      BY <3>1, <2>9 DEF invalidate_views, Kinds
    <3>2. ASSUME NEW v \in Views, invalidate_list_queries(t, {v}) PROVE TypeOK'
      BY <3>2, <2>9 DEF invalidate_list_queries, Kinds
    <3>3. ASSUME NEW r \in Refs, invalidate_by_entity(t, r) PROVE TypeOK'
      BY <3>3, <2>9 DEF invalidate_by_entity, Kinds
    <3>4. CASE Collect(t)
      <4> PICK x \in left[t] : /\ todo' = [todo EXCEPT ![t] = @ \cup IndexOf(kind[t])[x]]
                               /\ left' = [left EXCEPT ![t] = @ \ {x}]
        BY <3>4 DEF Collect
      <4>1. x \in IF kind[t] = "entity" THEN Refs ELSE Views
        BY <3>4 DEF Collect, CallsOK, CallOK
      <4>2. IndexOf(kind[t])[x] \subseteq Keys
        BY <4>1 DEF IndexOf, Kinds
      <4> QED
        BY <3>4, <4>2 DEF Collect, history, cacheVars
    <3>5. CASE CollectDone(t)
      BY <3>5 DEF CollectDone, history, cacheVars, PcStates
    <3>6. CASE InvalidateKey(t)
      BY <3>6, RemovedType DEF InvalidateKey, cacheVars
    <3>7. CASE InvalidateDone(t)
      BY <3>7 DEF InvalidateDone, cacheVars, PcStates
    <3> QED
      BY <2>10, <3>1, <3>2, <3>3, <3>4, <3>5, <3>6, <3>7 DEF InvalidateAct
  <2>11. ASSUME NEW t \in Threads, ClearAct(t) PROVE TypeOK'
    <3>1. CASE ClearStart(t)
      BY <3>1, EntryFacts DEF ClearStart, history, PcStates
    <3>2. CASE ClearViews(t)
      BY <3>2 DEF ClearViews, IndexCleared, PcStates, Present
    <3>3. CASE ClearEntities(t)
      BY <3>3 DEF ClearEntities, IndexCleared, PcStates, Present
    <3>4. CASE ClearLists(t)
      BY <3>4 DEF ClearLists, IndexCleared, PcStates, Present
    <3>5. CASE ClearMemory(t)
      <4>1. IsFiniteSet(Present) /\ IsFiniteSet(Charged)
        BY FS_Subset DEF Present, Charged
      <4>2. Cardinality(Present) \in Nat /\ Cardinality(Charged) \in Nat
        BY <4>1, FS_CardinalityType
      <4> QED
        BY <3>5, <4>2 DEF ClearMemory, PcStates
    <3> QED
      BY <2>11, <3>1, <3>2, <3>3, <3>4, <3>5 DEF ClearAct
  <2>12. CASE MokaAct
    <3>1. ASSUME NEW k \in Keys, Expire(k) PROVE TypeOK'
      BY <3>1, EntryFacts DEF Expire, history, callVars
    <3>2. ASSUME NEW k \in Keys, Evict(k) PROVE TypeOK'
      BY <3>2, RemovedType DEF Evict, callVars
    <3> QED
      BY <2>12, <3>1, <3>2 DEF MokaAct
  <2>13. CASE UNCHANGED vars
    BY <2>13 DEF vars, cacheVars, callVars, history
  <2> QED
    BY <2>1, <2>2, <2>3, <2>4, <2>5, <2>6, <2>7, <2>10, <2>11, <2>12, <2>13
    DEF Next, PutAct
<1>3. TypeOK /\ CallsOK /\ [Next]_vars => CallsOK'
  <2> SUFFICES ASSUME TypeOK, CallsOK, [Next]_vars, NEW u \in Threads PROVE CallOK(u)'
    BY DEF CallsOK
  <2> USE DEF TypeOK, CallsOK, CallOK, PutSteps
  <2>1. ASSUME NEW t \in Threads, PutAct(t) PROVE CallOK(u)'
    <3>1. CASE \E k \in Keys, r \in Results, ttl \in Ttls : PutStart(t, k, r, ttl)
      BY <3>1, ResultsAssumption DEF PutStart, CachedResult
    <3>2. CASE RegisterViews(t) \/ RegisterList(t) \/ RegisterRefsDone(t) \/ Charge(t)
      BY <3>2 DEF RegisterViews, RegisterList, RegisterRefsDone, Charge, history
    <3>3. CASE RegisterRef(t)
      BY <3>3 DEF RegisterRef, history
    <3>4. CASE Insert(t)
      BY <3>4 DEF Insert
    <3> QED
      BY <2>1, <3>1, <3>2, <3>3, <3>4 DEF PutAct
  <2>2. ASSUME NEW t \in Threads, InvalidateAct(t) PROVE CallOK(u)'
    <3>1. ASSUME NEW what \in Kinds, NEW tags, InvalidateStart(t, what, tags),
                 tags \subseteq IF what = "entity" THEN Refs ELSE Views
          PROVE  CallOK(u)'
      BY <3>1 DEF InvalidateStart
    <3>2. CASE \/ \E vs \in SUBSET Views \ {{}} : invalidate_views(t, vs)
               \/ \E v \in Views : invalidate_list_queries(t, {v})
               \/ \E r \in Refs : invalidate_by_entity(t, r)
      BY <3>1, <3>2 DEF invalidate_views, invalidate_list_queries, invalidate_by_entity, Kinds
    <3>3. CASE Collect(t) \/ CollectDone(t) \/ InvalidateKey(t) \/ InvalidateDone(t)
      BY <3>3 DEF Collect, CollectDone, InvalidateKey, InvalidateDone, history
    <3> QED
      BY <2>2, <3>2, <3>3 DEF InvalidateAct
  <2>3. ASSUME NEW t \in Threads, ClearAct(t) PROVE CallOK(u)'
    BY <2>3 DEF ClearAct, ClearStart, ClearViews, ClearEntities, ClearLists, ClearMemory, history
  <2>4. CASE MokaAct
    BY <2>4 DEF MokaAct, Expire, Evict, callVars, history
  <2>5. CASE UNCHANGED vars
    BY <2>5 DEF vars, callVars, history
  <2> QED
    BY <2>1, <2>2, <2>3, <2>4, <2>5 DEF Next
<1> QED
  BY <1>1, <1>2, <1>3, PTL DEF Spec

-----------------------------------------------------------------------------
(* Index soundness                                                         *)

\* The listener drops the key of the value that leaves the store from every
\* index that value was registered in, and leaves all other keys alone.
LEMMA ListenerFacts ==
    ASSUME TypeOK, NEW k \in Keys, Listener(k)
    PROVE  /\ \A x \in Views : \A j : j \in view_index'[x] <=>
                  j \in view_index[x] /\ ~(j = k /\ x \in ViewsOf[k])
           /\ \A x \in Views : \A j : j \in list_index'[x] <=>
                  j \in list_index[x] /\ ~(j = k /\ store[k].list /\ x \in ViewsOf[k])
           /\ \A x \in Refs : \A j : j \in entity_index'[x] <=>
                  j \in entity_index[x] /\ ~(j = k /\ x \in store[k].refs)
<1>1. \A x \in Views : \A j : j \in view_index'[x] <=>
          j \in view_index[x] /\ ~(j = k /\ x \in ViewsOf[k])
  BY DEF TypeOK, Listener, Without
<1>2. \A x \in Views : \A j : j \in list_index'[x] <=>
          j \in list_index[x] /\ ~(j = k /\ store[k].list /\ x \in ViewsOf[k])
  BY DEF TypeOK, Listener, Without
<1>3. \A x \in Refs : \A j : j \in entity_index'[x] <=>
          j \in entity_index[x] /\ ~(j = k /\ x \in store[k].refs)
  BY DEF TypeOK, Listener, Without
<1> QED
  BY <1>1, <1>2, <1>3

\* What an insert changes outside the indexes.
LEMMA InsertFacts ==
    ASSUME TypeOK, CallsOK, NEW t \in Threads, Insert(t)
    PROVE  /\ key[t] \in Keys /\ pc[t] \in PutSteps
           /\ store'[key[t]] = val[t] /\ val[t].phase = "live"
           /\ \A j \in Keys : j # key[t] => store'[j] = store[j]
           /\ \A u \in Threads : u # t => pc'[u] = pc[u] /\ val'[u] = val[u]
           /\ key' = key
           /\ key[t] \in Present => Listener(key[t])
           /\ key[t] \notin Present => UNCHANGED <<view_index, list_index, entity_index>>
  BY DEF TypeOK, Insert, CallsOK, CallOK, PutSteps

LEMMA RemovedFacts ==
    ASSUME TypeOK, NEW k \in Keys, Removed(k)
    PROVE  /\ store'[k].phase = "absent"
           /\ \A j \in Keys : j # k => store'[j] = store[j]
           /\ Listener(k)
  BY EntryFacts DEF TypeOK, Removed

LEMMA ViewIndexNoDanglingStep ==
    ASSUME TypeOK, CallsOK, ViewIndexNoDangling, [Next]_vars
    PROVE  ViewIndexNoDangling'
<1> USE ViewsOfAssumption DEF ViewIndexNoDangling, Present, Putting, PutSteps
<1>1. ASSUME NEW t \in Threads, NEW k \in Keys, NEW r \in Results, NEW ttl \in Ttls,
             PutStart(t, k, r, ttl)
      PROVE  ViewIndexNoDangling'
  BY <1>1 DEF TypeOK, PutStart, cacheVars
<1>2. ASSUME NEW t \in Threads, RegisterViews(t) PROVE ViewIndexNoDangling'
  <2>1. \A x \in Views : \A j : j \in view_index'[x] <=> j \in view_index[x] \/ (j = key[t] /\ x \in ViewsOf[key[t]])
    BY <1>2 DEF TypeOK, With, RegisterViews
  <2> QED
    BY <1>2, <2>1 DEF TypeOK, CallsOK, CallOK, RegisterViews
<1>3. ASSUME NEW t \in Threads, RegisterList(t) PROVE ViewIndexNoDangling'
  BY <1>3 DEF TypeOK, RegisterList
<1>4. ASSUME NEW t \in Threads, RegisterRef(t) PROVE ViewIndexNoDangling'
  BY <1>4 DEF TypeOK, RegisterRef
<1>5. ASSUME NEW t \in Threads, RegisterRefsDone(t) \/ Charge(t) PROVE ViewIndexNoDangling'
  BY <1>5 DEF TypeOK, RegisterRefsDone, Charge, cacheVars
<1>6. ASSUME NEW t \in Threads, Insert(t) PROVE ViewIndexNoDangling'
  <2> DEFINE k == key[t]
  <2>1. /\ k = key[t] /\ k \in Keys /\ pc[t] \in PutSteps
        /\ store'[k] = val[t] /\ val[t].phase = "live"
        /\ \A j \in Keys : j # k => store'[j] = store[j]
        /\ \A u \in Threads : u # t => pc'[u] = pc[u] /\ val'[u] = val[u]
        /\ key' = key
    BY <1>6, InsertFacts
  <2>2. \A x \in Views : view_index[x] \subseteq Keys
    BY DEF TypeOK
  <2>3. CASE k \in Present
    <3>1. \A x \in Views : \A j : j \in view_index'[x] <=> j \in view_index[x] /\ ~(j = k /\ x \in ViewsOf[k])
      BY <1>6, <2>1, <2>3, InsertFacts, ListenerFacts
    <3> HIDE DEF k
    <3> QED
      BY <2>1, <2>2, <2>3, <3>1
  <2>4. CASE k \notin Present
    <3>1. view_index' = view_index
      BY <1>6, <2>4, InsertFacts
    <3> HIDE DEF k
    <3> QED
      BY <2>1, <2>2, <2>4, <3>1
  <2> QED
    BY <2>3, <2>4
<1>7. ASSUME NEW k \in Keys, Removed(k), UNCHANGED <<pc, key, val>> PROVE ViewIndexNoDangling'
  <2>1. /\ store'[k].phase = "absent"
        /\ \A j \in Keys : j # k => store'[j] = store[j]
    BY <1>7, RemovedFacts
  <2>2. \A x \in Views : \A j : j \in view_index'[x] <=> j \in view_index[x] /\ ~(j = k /\ x \in ViewsOf[k])
    BY <1>7, RemovedFacts, ListenerFacts
  <2>3. \A x \in Views : view_index[x] \subseteq Keys
    BY DEF TypeOK
  <2> QED
    BY <1>7, <2>1, <2>2, <2>3
<1>8. ASSUME NEW t \in Threads, InvalidateAct(t) PROVE ViewIndexNoDangling'
  <2>1. CASE \/ \E vs \in SUBSET Views \ {{}} : invalidate_views(t, vs)
             \/ \E v \in Views : invalidate_list_queries(t, {v})
             \/ \E r \in Refs : invalidate_by_entity(t, r)
    BY <2>1 DEF invalidate_views, invalidate_list_queries, invalidate_by_entity,
                InvalidateStart, cacheVars, TypeOK
  <2>2. CASE Collect(t) \/ CollectDone(t) \/ InvalidateDone(t)
    <3>1. UNCHANGED <<store, view_index, list_index, entity_index, key, val>>
      BY <2>2 DEF Collect, CollectDone, InvalidateDone, cacheVars
    <3>2. \A u \in Threads : (pc'[u] \in PutSteps) = (pc[u] \in PutSteps)
      BY <2>2 DEF Collect, CollectDone, InvalidateDone, TypeOK
    <3> QED
      BY <3>1, <3>2
  <2>3. CASE InvalidateKey(t)
    BY <1>7, <2>3 DEF InvalidateKey, cacheVars
  <2> QED
    BY <1>8, <2>1, <2>2, <2>3 DEF InvalidateAct
<1>9. ASSUME NEW t \in Threads, ClearAct(t) PROVE ViewIndexNoDangling'
  <2>1. CASE ClearStart(t)
    <3>1. \A k \in Keys : /\ (store'[k].phase # "absent") = (store[k].phase # "absent")
                          /\ store'[k].list = store[k].list
                          /\ store'[k].refs = store[k].refs
      BY <2>1, EntryFacts DEF ClearStart, Live, TypeOK
    <3>2. \A u \in Threads : (pc'[u] \in PutSteps) = (pc[u] \in PutSteps)
      BY <2>1 DEF ClearStart, TypeOK
    <3> QED
      BY <2>1, <3>1, <3>2 DEF ClearStart, TypeOK
  <2>2. CASE ClearViews(t) \/ ClearEntities(t) \/ ClearLists(t) \/ ClearMemory(t)
    BY <2>2 DEF ClearViews, ClearEntities, ClearLists, ClearMemory, TypeOK
  <2> QED
    BY <1>9, <2>1, <2>2 DEF ClearAct
<1>10. CASE MokaAct
  <2>1. ASSUME NEW k \in Keys, Expire(k) PROVE ViewIndexNoDangling'
    BY <2>1, EntryFacts DEF Expire, Live, callVars, TypeOK
  <2>2. ASSUME NEW k \in Keys, Evict(k) PROVE ViewIndexNoDangling'
    BY <1>7, <2>2 DEF Evict, callVars
  <2> QED
    BY <1>10, <2>1, <2>2 DEF MokaAct
<1>11. CASE UNCHANGED vars
  BY <1>11 DEF vars, cacheVars, callVars
<1> QED
  BY <1>1, <1>2, <1>3, <1>4, <1>5, <1>6, <1>8, <1>9, <1>10, <1>11 DEF Next, PutAct

LEMMA ListIndexNoDanglingStep ==
    ASSUME TypeOK, CallsOK, ListIndexNoDangling, [Next]_vars
    PROVE  ListIndexNoDangling'
<1> USE ViewsOfAssumption DEF ListIndexNoDangling, Present, Putting, PutSteps
<1>1. ASSUME NEW t \in Threads, NEW k \in Keys, NEW r \in Results, NEW ttl \in Ttls,
             PutStart(t, k, r, ttl)
      PROVE  ListIndexNoDangling'
  BY <1>1 DEF TypeOK, PutStart, cacheVars
<1>2. ASSUME NEW t \in Threads, RegisterViews(t) PROVE ListIndexNoDangling'
  BY <1>2 DEF TypeOK, RegisterViews
<1>3. ASSUME NEW t \in Threads, RegisterList(t) PROVE ListIndexNoDangling'
  <2>1. \A x \in Views : \A j : j \in list_index'[x] <=> j \in list_index[x] \/ (j = key[t] /\ x \in ViewsOf[key[t]])
    BY <1>3 DEF TypeOK, With, RegisterList
  <2> QED
    BY <1>3, <2>1 DEF TypeOK, CallsOK, CallOK, RegisterList
<1>4. ASSUME NEW t \in Threads, RegisterRef(t) PROVE ListIndexNoDangling'
  BY <1>4 DEF TypeOK, RegisterRef
<1>5. ASSUME NEW t \in Threads, RegisterRefsDone(t) \/ Charge(t) PROVE ListIndexNoDangling'
  BY <1>5 DEF TypeOK, RegisterRefsDone, Charge, cacheVars
<1>6. ASSUME NEW t \in Threads, Insert(t) PROVE ListIndexNoDangling'
  <2> DEFINE k == key[t]
  <2>1. /\ k = key[t] /\ k \in Keys /\ pc[t] \in PutSteps
        /\ store'[k] = val[t] /\ val[t].phase = "live"
        /\ \A j \in Keys : j # k => store'[j] = store[j]
        /\ \A u \in Threads : u # t => pc'[u] = pc[u] /\ val'[u] = val[u]
        /\ key' = key
    BY <1>6, InsertFacts
  <2>2. \A x \in Views : list_index[x] \subseteq Keys
    BY DEF TypeOK
  <2>3. CASE k \in Present
    <3>1. \A x \in Views : \A j : j \in list_index'[x] <=> j \in list_index[x] /\ ~(j = k /\ store[k].list /\ x \in ViewsOf[k])
      BY <1>6, <2>1, <2>3, InsertFacts, ListenerFacts
    <3> HIDE DEF k
    <3> QED
      BY <2>1, <2>2, <2>3, <3>1
  <2>4. CASE k \notin Present
    <3>1. list_index' = list_index
      BY <1>6, <2>4, InsertFacts
    <3> HIDE DEF k
    <3> QED
      BY <2>1, <2>2, <2>4, <3>1
  <2> QED
    BY <2>3, <2>4
<1>7. ASSUME NEW k \in Keys, Removed(k), UNCHANGED <<pc, key, val>> PROVE ListIndexNoDangling'
  <2>1. /\ store'[k].phase = "absent"
        /\ \A j \in Keys : j # k => store'[j] = store[j]
    BY <1>7, RemovedFacts
  <2>2. \A x \in Views : \A j : j \in list_index'[x] <=> j \in list_index[x] /\ ~(j = k /\ store[k].list /\ x \in ViewsOf[k])
    BY <1>7, RemovedFacts, ListenerFacts
  <2>3. \A x \in Views : list_index[x] \subseteq Keys
    BY DEF TypeOK
  <2> QED
    BY <1>7, <2>1, <2>2, <2>3
<1>8. ASSUME NEW t \in Threads, InvalidateAct(t) PROVE ListIndexNoDangling'
  <2>1. CASE \/ \E vs \in SUBSET Views \ {{}} : invalidate_views(t, vs)
             \/ \E v \in Views : invalidate_list_queries(t, {v})
             \/ \E r \in Refs : invalidate_by_entity(t, r)
    BY <2>1 DEF invalidate_views, invalidate_list_queries, invalidate_by_entity,
                InvalidateStart, cacheVars, TypeOK
  <2>2. CASE Collect(t) \/ CollectDone(t) \/ InvalidateDone(t)
    <3>1. UNCHANGED <<store, view_index, list_index, entity_index, key, val>>
      BY <2>2 DEF Collect, CollectDone, InvalidateDone, cacheVars
    <3>2. \A u \in Threads : (pc'[u] \in PutSteps) = (pc[u] \in PutSteps)
      BY <2>2 DEF Collect, CollectDone, InvalidateDone, TypeOK
    <3> QED
      BY <3>1, <3>2
  <2>3. CASE InvalidateKey(t)
    BY <1>7, <2>3 DEF InvalidateKey, cacheVars
  <2> QED
    BY <1>8, <2>1, <2>2, <2>3 DEF InvalidateAct
<1>9. ASSUME NEW t \in Threads, ClearAct(t) PROVE ListIndexNoDangling'
  <2>1. CASE ClearStart(t)
    <3>1. \A k \in Keys : /\ (store'[k].phase # "absent") = (store[k].phase # "absent")
                          /\ store'[k].list = store[k].list
                          /\ store'[k].refs = store[k].refs
      BY <2>1, EntryFacts DEF ClearStart, Live, TypeOK
    <3>2. \A u \in Threads : (pc'[u] \in PutSteps) = (pc[u] \in PutSteps)
      BY <2>1 DEF ClearStart, TypeOK
    <3> QED
      BY <2>1, <3>1, <3>2 DEF ClearStart, TypeOK
  <2>2. CASE ClearViews(t) \/ ClearEntities(t) \/ ClearLists(t) \/ ClearMemory(t)
    BY <2>2 DEF ClearViews, ClearEntities, ClearLists, ClearMemory, TypeOK
  <2> QED
    BY <1>9, <2>1, <2>2 DEF ClearAct
<1>10. CASE MokaAct
  <2>1. ASSUME NEW k \in Keys, Expire(k) PROVE ListIndexNoDangling'
    BY <2>1, EntryFacts DEF Expire, Live, callVars, TypeOK
  <2>2. ASSUME NEW k \in Keys, Evict(k) PROVE ListIndexNoDangling'
    BY <1>7, <2>2 DEF Evict, callVars
  <2> QED
    BY <1>10, <2>1, <2>2 DEF MokaAct
<1>11. CASE UNCHANGED vars
  BY <1>11 DEF vars, cacheVars, callVars
<1> QED
  BY <1>1, <1>2, <1>3, <1>4, <1>5, <1>6, <1>8, <1>9, <1>10, <1>11 DEF Next, PutAct

LEMMA EntityIndexNoDanglingStep ==
    ASSUME TypeOK, CallsOK, EntityIndexNoDangling, [Next]_vars
    PROVE  EntityIndexNoDangling'
<1> USE ViewsOfAssumption DEF EntityIndexNoDangling, Present, Putting, PutSteps
<1>1. ASSUME NEW t \in Threads, NEW k \in Keys, NEW r \in Results, NEW ttl \in Ttls,
             PutStart(t, k, r, ttl)
      PROVE  EntityIndexNoDangling'
  BY <1>1 DEF TypeOK, PutStart, cacheVars
<1>2. ASSUME NEW t \in Threads, RegisterViews(t) PROVE EntityIndexNoDangling'
  BY <1>2 DEF TypeOK, RegisterViews
<1>3. ASSUME NEW t \in Threads, RegisterList(t) PROVE EntityIndexNoDangling'
  BY <1>3 DEF TypeOK, RegisterList
<1>4. ASSUME NEW t \in Threads, RegisterRef(t) PROVE EntityIndexNoDangling'
  <2> PICK r \in left[t] : entity_index' = With(entity_index, key[t], {r})
    BY <1>4 DEF RegisterRef
  <2>1. \A x \in Refs : \A j : j \in entity_index'[x] <=> j \in entity_index[x] \/ (j = key[t] /\ x = r)
    BY <1>4 DEF TypeOK, With
  <2>2. r \in val[t].refs
    BY <1>4 DEF RegisterRef, CallsOK, CallOK
  <2>3. pc[t] = "refs" /\ UNCHANGED <<store, pc, key, val>>
    BY <1>4 DEF RegisterRef
  <2>4. Putting(t, key[t])' /\ r \in val'[t].refs
    BY <2>2, <2>3
  <2> SUFFICES ASSUME NEW x \in Refs, NEW j \in entity_index'[x]
               PROVE  \/ j \in Present' /\ x \in store'[j].refs
                      \/ \E u \in Threads : Putting(u, j)' /\ x \in val'[u].refs
    OBVIOUS
  <2>5. CASE j = key[t] /\ x = r
    BY <2>3, <2>4, <2>5
  <2>6. CASE j \in entity_index[x]
    BY <2>3, <2>6
  <2> QED
    BY <2>1, <2>5, <2>6
<1>5. ASSUME NEW t \in Threads, RegisterRefsDone(t) \/ Charge(t) PROVE EntityIndexNoDangling'
  BY <1>5 DEF TypeOK, RegisterRefsDone, Charge, cacheVars
<1>6. ASSUME NEW t \in Threads, Insert(t) PROVE EntityIndexNoDangling'
  <2> DEFINE k == key[t]
  <2>1. /\ k = key[t] /\ k \in Keys /\ pc[t] \in PutSteps
        /\ store'[k] = val[t] /\ val[t].phase = "live"
        /\ \A j \in Keys : j # k => store'[j] = store[j]
        /\ \A u \in Threads : u # t => pc'[u] = pc[u] /\ val'[u] = val[u]
        /\ key' = key
    BY <1>6, InsertFacts
  <2>2. \A x \in Refs : entity_index[x] \subseteq Keys
    BY DEF TypeOK
  <2>3. CASE k \in Present
    <3>1. \A x \in Refs : \A j : j \in entity_index'[x] <=> j \in entity_index[x] /\ ~(j = k /\ x \in store[k].refs)
      BY <1>6, <2>1, <2>3, InsertFacts, ListenerFacts
    <3> HIDE DEF k
    <3> QED
      BY <2>1, <2>2, <2>3, <3>1
  <2>4. CASE k \notin Present
    <3>1. entity_index' = entity_index
      BY <1>6, <2>4, InsertFacts
    <3> HIDE DEF k
    <3> QED
      BY <2>1, <2>2, <2>4, <3>1
  <2> QED
    BY <2>3, <2>4
<1>7. ASSUME NEW k \in Keys, Removed(k), UNCHANGED <<pc, key, val>> PROVE EntityIndexNoDangling'
  <2>1. /\ store'[k].phase = "absent"
        /\ \A j \in Keys : j # k => store'[j] = store[j]
    BY <1>7, RemovedFacts
  <2>2. \A x \in Refs : \A j : j \in entity_index'[x] <=> j \in entity_index[x] /\ ~(j = k /\ x \in store[k].refs)
    BY <1>7, RemovedFacts, ListenerFacts
  <2>3. \A x \in Refs : entity_index[x] \subseteq Keys
    BY DEF TypeOK
  <2> QED
    BY <1>7, <2>1, <2>2, <2>3
<1>8. ASSUME NEW t \in Threads, InvalidateAct(t) PROVE EntityIndexNoDangling'
  <2>1. CASE \/ \E vs \in SUBSET Views \ {{}} : invalidate_views(t, vs)
             \/ \E v \in Views : invalidate_list_queries(t, {v})
             \/ \E r \in Refs : invalidate_by_entity(t, r)
    BY <2>1 DEF invalidate_views, invalidate_list_queries, invalidate_by_entity,
                InvalidateStart, cacheVars, TypeOK
  <2>2. CASE Collect(t) \/ CollectDone(t) \/ InvalidateDone(t)
    <3>1. UNCHANGED <<store, view_index, list_index, entity_index, key, val>>
      BY <2>2 DEF Collect, CollectDone, InvalidateDone, cacheVars
    <3>2. \A u \in Threads : (pc'[u] \in PutSteps) = (pc[u] \in PutSteps)
      BY <2>2 DEF Collect, CollectDone, InvalidateDone, TypeOK
    <3> QED
      BY <3>1, <3>2
  <2>3. CASE InvalidateKey(t)
    BY <1>7, <2>3 DEF InvalidateKey, cacheVars
  <2> QED
    BY <1>8, <2>1, <2>2, <2>3 DEF InvalidateAct
<1>9. ASSUME NEW t \in Threads, ClearAct(t) PROVE EntityIndexNoDangling'
  <2>1. CASE ClearStart(t)
    <3>1. \A k \in Keys : /\ (store'[k].phase # "absent") = (store[k].phase # "absent")
                          /\ store'[k].list = store[k].list
                          /\ store'[k].refs = store[k].refs
      BY <2>1, EntryFacts DEF ClearStart, Live, TypeOK
    <3>2. \A u \in Threads : (pc'[u] \in PutSteps) = (pc[u] \in PutSteps)
      BY <2>1 DEF ClearStart, TypeOK
    <3> QED
      BY <2>1, <3>1, <3>2 DEF ClearStart, TypeOK
  <2>2. CASE ClearViews(t) \/ ClearEntities(t) \/ ClearLists(t) \/ ClearMemory(t)
    BY <2>2 DEF ClearViews, ClearEntities, ClearLists, ClearMemory, TypeOK
  <2> QED
    BY <1>9, <2>1, <2>2 DEF ClearAct
<1>10. CASE MokaAct
  <2>1. ASSUME NEW k \in Keys, Expire(k) PROVE EntityIndexNoDangling'
    BY <2>1, EntryFacts DEF Expire, Live, callVars, TypeOK
  <2>2. ASSUME NEW k \in Keys, Evict(k) PROVE EntityIndexNoDangling'
    BY <1>7, <2>2 DEF Evict, callVars
  <2> QED
    BY <1>10, <2>1, <2>2 DEF MokaAct
<1>11. CASE UNCHANGED vars
  BY <1>11 DEF vars, cacheVars, callVars
<1> QED
  BY <1>1, <1>2, <1>3, <1>4, <1>5, <1>6, <1>8, <1>9, <1>10, <1>11 DEF Next, PutAct

(* put_arc, the listener, invalidation and clear never leave a key in an   *)
(* index that no stored value and no put in progress accounts for, so the  *)
(* indexes cannot outgrow the store.                                       *)
THEOREM NoDanglingIndexes == Spec => []IndexesNoDangling
<1>1. Init => IndexesNoDangling
  BY DEF Init, IndexesNoDangling, ViewIndexNoDangling, ListIndexNoDangling, EntityIndexNoDangling
<1>2. TypeOK /\ CallsOK /\ IndexesNoDangling /\ [Next]_vars => IndexesNoDangling'
  BY ViewIndexNoDanglingStep, ListIndexNoDanglingStep, EntityIndexNoDanglingStep
  DEF IndexesNoDangling
<1> QED
  BY <1>1, <1>2, TypeCorrect, PTL DEF Spec

-----------------------------------------------------------------------------
(* Index completeness.  The strengthening follows a put through its steps: *)
(* as long as no removal of its own key hit the indexes, the key is where  *)
(* the put has registered it.                                              *)

\* How an insert moves the history variables.
LEMMA InsertHistory ==
    ASSUME TypeOK, CallsOK, NEW t \in Threads, Insert(t)
    PROVE  /\ left[t] = {} /\ left' = left
           /\ pc[t] = "insert" /\ pc'[t] = "idle"
           /\ lossy' = IF key[t] \in Present \/ stripped[t] THEN lossy \cup {key[t]}
                       ELSE lossy \ {key[t]}
           /\ \A u \in Threads : stripped'[u] <=>
                 u # t /\ (stripped[u] \/ (key[t] \in Present /\ Putting(u, key[t])))
<1>1. left[t] = {} /\ left' = left /\ pc[t] = "insert" /\ pc'[t] = "idle"
  BY DEF TypeOK, Insert, CallsOK, CallOK
<1> QED
  BY <1>1 DEF Insert

ViewRegistered ==
    /\ \A t \in Threads, x \in Views :
          pc[t] \in PutSteps /\ ~stripped[t] /\ (pc[t] # "views" /\ x \in ViewsOf[key[t]])
             => key[t] \in view_index[x]
    /\ \A k \in Keys, x \in Views :
          Live(k) /\ k \notin lossy /\ x \in ViewsOf[k] => k \in view_index[x]

LEMMA ViewRegisteredStep ==
    ASSUME TypeOK, CallsOK, ViewRegistered, [Next]_vars
    PROVE  ViewRegistered'
<1> USE DEF ViewRegistered, Putting, PutSteps, Live
<1>1. ASSUME NEW t \in Threads, NEW k \in Keys, NEW r \in Results, NEW ttl \in Ttls,
             PutStart(t, k, r, ttl)
      PROVE  ViewRegistered'
  BY <1>1 DEF TypeOK, PutStart, CachedResult, cacheVars
<1>2. ASSUME NEW t \in Threads, RegisterViews(t) PROVE ViewRegistered'
  <2>1. \A x \in Views : \A j : j \in view_index'[x] <=> j \in view_index[x] \/ (j = key[t] /\ x \in ViewsOf[key[t]])
    BY <1>2 DEF TypeOK, With, RegisterViews
  <2> QED
    BY <1>2, <2>1 DEF TypeOK, RegisterViews, CallsOK, CallOK, history
<1>3. ASSUME NEW t \in Threads, RegisterList(t) PROVE ViewRegistered'
  BY <1>3 DEF TypeOK, RegisterList, CallsOK, CallOK, history
<1>4. ASSUME NEW t \in Threads, RegisterRef(t) PROVE ViewRegistered'
  <2>1. UNCHANGED <<store, view_index, pc, key, val, stripped, lossy>>
    BY <1>4 DEF RegisterRef, history
  <2> QED
    BY <2>1
<1>5. ASSUME NEW t \in Threads, RegisterRefsDone(t) \/ Charge(t) PROVE ViewRegistered'
  BY <1>5 DEF TypeOK, RegisterRefsDone, Charge, cacheVars, history
<1>6. ASSUME NEW t \in Threads, Insert(t) PROVE ViewRegistered'
  <2> DEFINE k == key[t]
  <2>1. /\ k = key[t] /\ k \in Keys /\ pc[t] = "insert" /\ left[t] = {} /\ left' = left
        /\ store'[k] = val[t]
        /\ \A j \in Keys : j # k => store'[j] = store[j]
        /\ \A u \in Threads : u # t => pc'[u] = pc[u] /\ val'[u] = val[u]
        /\ pc'[t] = "idle"
        /\ key' = key
        /\ lossy' = IF k \in Present \/ stripped[t] THEN lossy \cup {k} ELSE lossy \ {k}
        /\ \A u \in Threads : stripped'[u] <=>
              u # t /\ (stripped[u] \/ (k \in Present /\ Putting(u, k)))
    BY <1>6, InsertFacts, InsertHistory
  <2>2. CASE k \in Present
    <3>1. \A x \in Views : \A j : j \in view_index'[x] <=> j \in view_index[x] /\ ~(j = k /\ x \in ViewsOf[k])
      BY <1>6, <2>1, <2>2, InsertFacts, ListenerFacts
    <3> HIDE DEF k
    <3> QED
      BY <2>1, <2>2, <3>1
  <2>3. CASE k \notin Present
    <3>1. view_index' = view_index
      BY <1>6, <2>3, InsertFacts
    <3> HIDE DEF k
    <3> QED
      BY <2>1, <2>3, <3>1
  <2> QED
    BY <2>2, <2>3
<1>7. ASSUME NEW k \in Keys, Removed(k), UNCHANGED <<pc, key, val, left>> PROVE ViewRegistered'
  <2>1. /\ store'[k].phase = "absent"
        /\ \A j \in Keys : j # k => store'[j] = store[j]
        /\ lossy' = lossy \ {k}
        /\ \A u \in Threads : stripped'[u] <=> stripped[u] \/ Putting(u, k)
    BY <1>7, RemovedFacts DEF Removed
  <2>2. \A x \in Views : \A j : j \in view_index'[x] <=> j \in view_index[x] /\ ~(j = k /\ x \in ViewsOf[k])
    BY <1>7, RemovedFacts, ListenerFacts
  <2> QED
    BY <1>7, <2>1, <2>2
<1>8. ASSUME NEW t \in Threads, InvalidateAct(t) PROVE ViewRegistered'
  <2>1. CASE InvalidateKey(t)
    <3>1. PICK k \in todo[t] :
             IF k \in Present THEN Removed(k) ELSE UNCHANGED <<cacheVars, stripped, lossy>>
      BY <2>1 DEF InvalidateKey
    <3>2. k \in Keys /\ UNCHANGED <<pc, key, val, left>>
      BY <2>1, <3>1 DEF InvalidateKey, TypeOK
    <3> QED
      BY <1>7, <3>1, <3>2 DEF cacheVars
  <2>2. CASE ~InvalidateKey(t)
    <3>1. /\ UNCHANGED <<store, view_index, key, val, stripped, lossy>>
          /\ \A u \in Threads : pc'[u] = pc[u] \/ pc'[u] \notin PutSteps
          /\ \A u \in Threads : left'[u] = left[u] \/ pc'[u] \notin PutSteps
      BY <1>8, <2>2 DEF InvalidateAct, invalidate_views, invalidate_list_queries,
         invalidate_by_entity, InvalidateStart, Collect, CollectDone, InvalidateDone,
         cacheVars, history, TypeOK
    <3> QED
      BY <3>1
  <2> QED
    BY <2>1, <2>2
<1>9. ASSUME NEW t \in Threads, ClearAct(t) PROVE ViewRegistered'
  <2>1. CASE ClearStart(t)
    <3>1. \A k \in Keys : store'[k].phase # "live"
      BY <2>1, EntryFacts DEF ClearStart, TypeOK
    <3>2. /\ UNCHANGED <<view_index, key, val, left, stripped>>
          /\ \A u \in Threads : pc'[u] = pc[u] \/ pc'[u] \notin PutSteps
      BY <2>1 DEF ClearStart, history, TypeOK
    <3> QED
      BY <3>1, <3>2
  <2>2. CASE ClearViews(t) \/ ClearEntities(t) \/ ClearLists(t)
    <3>1. /\ \A k \in Keys : store'[k].phase = "live" => k \in lossy'
          /\ \A u \in Threads : pc'[u] \in PutSteps => stripped'[u]
      BY <2>2 DEF ClearViews, ClearEntities, ClearLists, IndexCleared, Present, TypeOK
    <3> QED
      BY <3>1
  <2>3. CASE ClearMemory(t)
    BY <2>3 DEF ClearMemory, TypeOK
  <2> QED
    BY <1>9, <2>1, <2>2, <2>3 DEF ClearAct
<1>10. CASE MokaAct
  <2>1. ASSUME NEW k \in Keys, Expire(k) PROVE ViewRegistered'
    <3>1. /\ store'[k].phase # "live"
          /\ \A j \in Keys : j # k => store'[j] = store[j]
      BY <2>1, EntryFacts DEF Expire, TypeOK
    <3> QED
      BY <2>1, <3>1 DEF Expire, callVars, history
  <2>2. ASSUME NEW k \in Keys, Evict(k) PROVE ViewRegistered'
    BY <1>7, <2>2 DEF Evict, callVars
  <2> QED
    BY <1>10, <2>1, <2>2 DEF MokaAct
<1>11. CASE UNCHANGED vars
  BY <1>11 DEF vars, cacheVars, callVars, history
<1> QED
  BY <1>1, <1>2, <1>3, <1>4, <1>5, <1>6, <1>8, <1>9, <1>10, <1>11 DEF Next, PutAct

ListRegistered ==
    /\ \A t \in Threads, x \in Views :
          pc[t] \in PutSteps /\ ~stripped[t] /\ (pc[t] \notin {"views", "lists"} /\ val[t].list /\ x \in ViewsOf[key[t]])
             => key[t] \in list_index[x]
    /\ \A k \in Keys, x \in Views :
          Live(k) /\ k \notin lossy /\ store[k].list /\ x \in ViewsOf[k] => k \in list_index[x]

LEMMA ListRegisteredStep ==
    ASSUME TypeOK, CallsOK, ListRegistered, [Next]_vars
    PROVE  ListRegistered'
<1> USE DEF ListRegistered, Putting, PutSteps, Live
<1>1. ASSUME NEW t \in Threads, NEW k \in Keys, NEW r \in Results, NEW ttl \in Ttls,
             PutStart(t, k, r, ttl)
      PROVE  ListRegistered'
  BY <1>1 DEF TypeOK, PutStart, CachedResult, cacheVars
<1>2. ASSUME NEW t \in Threads, RegisterViews(t) PROVE ListRegistered'
  BY <1>2 DEF TypeOK, RegisterViews, CallsOK, CallOK, history
<1>3. ASSUME NEW t \in Threads, RegisterList(t) PROVE ListRegistered'
  <2>1. \A x \in Views : \A j : j \in list_index'[x] <=> j \in list_index[x] \/ (j = key[t] /\ x \in ViewsOf[key[t]])
    BY <1>3 DEF TypeOK, With, RegisterList
  <2> QED
    BY <1>3, <2>1 DEF TypeOK, RegisterList, CallsOK, CallOK, history
<1>4. ASSUME NEW t \in Threads, RegisterRef(t) PROVE ListRegistered'
  <2>1. UNCHANGED <<store, list_index, pc, key, val, stripped, lossy>>
    BY <1>4 DEF RegisterRef, history
  <2> QED
    BY <2>1
<1>5. ASSUME NEW t \in Threads, RegisterRefsDone(t) \/ Charge(t) PROVE ListRegistered'
  BY <1>5 DEF TypeOK, RegisterRefsDone, Charge, cacheVars, history
<1>6. ASSUME NEW t \in Threads, Insert(t) PROVE ListRegistered'
  <2> DEFINE k == key[t]
  <2>1. /\ k = key[t] /\ k \in Keys /\ pc[t] = "insert" /\ left[t] = {} /\ left' = left
        /\ store'[k] = val[t]
        /\ \A j \in Keys : j # k => store'[j] = store[j]
        /\ \A u \in Threads : u # t => pc'[u] = pc[u] /\ val'[u] = val[u]
        /\ pc'[t] = "idle"
        /\ key' = key
        /\ lossy' = IF k \in Present \/ stripped[t] THEN lossy \cup {k} ELSE lossy \ {k}
        /\ \A u \in Threads : stripped'[u] <=>
              u # t /\ (stripped[u] \/ (k \in Present /\ Putting(u, k)))
    BY <1>6, InsertFacts, InsertHistory
  <2>2. CASE k \in Present
    <3>1. \A x \in Views : \A j : j \in list_index'[x] <=> j \in list_index[x] /\ ~(j = k /\ store[k].list /\ x \in ViewsOf[k])
      BY <1>6, <2>1, <2>2, InsertFacts, ListenerFacts
    <3> HIDE DEF k
    <3> QED
      BY <2>1, <2>2, <3>1
  <2>3. CASE k \notin Present
    <3>1. list_index' = list_index
      BY <1>6, <2>3, InsertFacts
    <3> HIDE DEF k
    <3> QED
      BY <2>1, <2>3, <3>1
  <2> QED
    BY <2>2, <2>3
<1>7. ASSUME NEW k \in Keys, Removed(k), UNCHANGED <<pc, key, val, left>> PROVE ListRegistered'
  <2>1. /\ store'[k].phase = "absent"
        /\ \A j \in Keys : j # k => store'[j] = store[j]
        /\ lossy' = lossy \ {k}
        /\ \A u \in Threads : stripped'[u] <=> stripped[u] \/ Putting(u, k)
    BY <1>7, RemovedFacts DEF Removed
  <2>2. \A x \in Views : \A j : j \in list_index'[x] <=> j \in list_index[x] /\ ~(j = k /\ store[k].list /\ x \in ViewsOf[k])
    BY <1>7, RemovedFacts, ListenerFacts
  <2> QED
    BY <1>7, <2>1, <2>2
<1>8. ASSUME NEW t \in Threads, InvalidateAct(t) PROVE ListRegistered'
  <2>1. CASE InvalidateKey(t)
    <3>1. PICK k \in todo[t] :
             IF k \in Present THEN Removed(k) ELSE UNCHANGED <<cacheVars, stripped, lossy>>
      BY <2>1 DEF InvalidateKey
    <3>2. k \in Keys /\ UNCHANGED <<pc, key, val, left>>
      BY <2>1, <3>1 DEF InvalidateKey, TypeOK
    <3> QED
      BY <1>7, <3>1, <3>2 DEF cacheVars
  <2>2. CASE ~InvalidateKey(t)
    <3>1. /\ UNCHANGED <<store, list_index, key, val, stripped, lossy>>
          /\ \A u \in Threads : pc'[u] = pc[u] \/ pc'[u] \notin PutSteps
          /\ \A u \in Threads : left'[u] = left[u] \/ pc'[u] \notin PutSteps
      BY <1>8, <2>2 DEF InvalidateAct, invalidate_views, invalidate_list_queries,
         invalidate_by_entity, InvalidateStart, Collect, CollectDone, InvalidateDone,
         cacheVars, history, TypeOK
    <3> QED
      BY <3>1
  <2> QED
    BY <2>1, <2>2
<1>9. ASSUME NEW t \in Threads, ClearAct(t) PROVE ListRegistered'
  <2>1. CASE ClearStart(t)
    <3>1. \A k \in Keys : store'[k].phase # "live"
      BY <2>1, EntryFacts DEF ClearStart, TypeOK
    <3>2. /\ UNCHANGED <<list_index, key, val, left, stripped>>
          /\ \A u \in Threads : pc'[u] = pc[u] \/ pc'[u] \notin PutSteps
      BY <2>1 DEF ClearStart, history, TypeOK
    <3> QED
      BY <3>1, <3>2
  <2>2. CASE ClearViews(t) \/ ClearEntities(t) \/ ClearLists(t)
    <3>1. /\ \A k \in Keys : store'[k].phase = "live" => k \in lossy'
          /\ \A u \in Threads : pc'[u] \in PutSteps => stripped'[u]
      BY <2>2 DEF ClearViews, ClearEntities, ClearLists, IndexCleared, Present, TypeOK
    <3> QED
      BY <3>1
  <2>3. CASE ClearMemory(t)
    BY <2>3 DEF ClearMemory, TypeOK
  <2> QED
    BY <1>9, <2>1, <2>2, <2>3 DEF ClearAct
<1>10. CASE MokaAct
  <2>1. ASSUME NEW k \in Keys, Expire(k) PROVE ListRegistered'
    <3>1. /\ store'[k].phase # "live"
          /\ \A j \in Keys : j # k => store'[j] = store[j]
      BY <2>1, EntryFacts DEF Expire, TypeOK
    <3> QED
      BY <2>1, <3>1 DEF Expire, callVars, history
  <2>2. ASSUME NEW k \in Keys, Evict(k) PROVE ListRegistered'
    BY <1>7, <2>2 DEF Evict, callVars
  <2> QED
    BY <1>10, <2>1, <2>2 DEF MokaAct
<1>11. CASE UNCHANGED vars
  BY <1>11 DEF vars, cacheVars, callVars, history
<1> QED
  BY <1>1, <1>2, <1>3, <1>4, <1>5, <1>6, <1>8, <1>9, <1>10, <1>11 DEF Next, PutAct

EntityRegistered ==
    /\ \A t \in Threads, x \in Refs :
          pc[t] \in PutSteps /\ ~stripped[t] /\ (x \in val[t].refs /\ x \notin left[t])
             => key[t] \in entity_index[x]
    /\ \A k \in Keys, x \in Refs :
          Live(k) /\ k \notin lossy /\ x \in store[k].refs => k \in entity_index[x]

LEMMA EntityRegisteredStep ==
    ASSUME TypeOK, CallsOK, EntityRegistered, [Next]_vars
    PROVE  EntityRegistered'
<1> USE DEF EntityRegistered, Putting, PutSteps, Live
<1>1. ASSUME NEW t \in Threads, NEW k \in Keys, NEW r \in Results, NEW ttl \in Ttls,
             PutStart(t, k, r, ttl)
      PROVE  EntityRegistered'
  BY <1>1 DEF TypeOK, PutStart, CachedResult, cacheVars
<1>2. ASSUME NEW t \in Threads, RegisterViews(t) PROVE EntityRegistered'
  BY <1>2 DEF TypeOK, RegisterViews, CallsOK, CallOK, history
<1>3. ASSUME NEW t \in Threads, RegisterList(t) PROVE EntityRegistered'
  BY <1>3 DEF TypeOK, RegisterList, CallsOK, CallOK, history
<1>4. ASSUME NEW t \in Threads, RegisterRef(t) PROVE EntityRegistered'
  <2> PICK r \in left[t] : /\ entity_index' = With(entity_index, key[t], {r})
                           /\ left' = [left EXCEPT ![t] = @ \ {r}]
    BY <1>4 DEF RegisterRef
  <2>1. \A x \in Refs : \A j : j \in entity_index'[x] <=> j \in entity_index[x] \/ (j = key[t] /\ x = r)
    BY <1>4 DEF TypeOK, With
  <2>2. \A u \in Threads : \A x : x \in left'[u] <=> x \in left[u] /\ ~(u = t /\ x = r)
    BY DEF TypeOK
  <2>3. UNCHANGED <<store, pc, key, val, stripped, lossy>>
    BY <1>4 DEF RegisterRef, history
  <2> QED
    BY <2>1, <2>2, <2>3
<1>5. ASSUME NEW t \in Threads, RegisterRefsDone(t) \/ Charge(t) PROVE EntityRegistered'
  BY <1>5 DEF TypeOK, RegisterRefsDone, Charge, cacheVars, history
<1>6. ASSUME NEW t \in Threads, Insert(t) PROVE EntityRegistered'
  <2> DEFINE k == key[t]
  <2>1. /\ k = key[t] /\ k \in Keys /\ pc[t] = "insert" /\ left[t] = {} /\ left' = left
        /\ store'[k] = val[t]
        /\ \A j \in Keys : j # k => store'[j] = store[j]
        /\ \A u \in Threads : u # t => pc'[u] = pc[u] /\ val'[u] = val[u]
        /\ pc'[t] = "idle"
        /\ key' = key
        /\ lossy' = IF k \in Present \/ stripped[t] THEN lossy \cup {k} ELSE lossy \ {k}
        /\ \A u \in Threads : stripped'[u] <=>
              u # t /\ (stripped[u] \/ (k \in Present /\ Putting(u, k)))
    BY <1>6, InsertFacts, InsertHistory
  <2>2. CASE k \in Present
    <3>1. \A x \in Refs : \A j : j \in entity_index'[x] <=> j \in entity_index[x] /\ ~(j = k /\ x \in store[k].refs)
      BY <1>6, <2>1, <2>2, InsertFacts, ListenerFacts
    <3> HIDE DEF k
    <3> QED
      BY <2>1, <2>2, <3>1
  <2>3. CASE k \notin Present
    <3>1. entity_index' = entity_index
      BY <1>6, <2>3, InsertFacts
    <3> HIDE DEF k
    <3> QED
      BY <2>1, <2>3, <3>1
  <2> QED
    BY <2>2, <2>3
<1>7. ASSUME NEW k \in Keys, Removed(k), UNCHANGED <<pc, key, val, left>> PROVE EntityRegistered'
  <2>1. /\ store'[k].phase = "absent"
        /\ \A j \in Keys : j # k => store'[j] = store[j]
        /\ lossy' = lossy \ {k}
        /\ \A u \in Threads : stripped'[u] <=> stripped[u] \/ Putting(u, k)
    BY <1>7, RemovedFacts DEF Removed
  <2>2. \A x \in Refs : \A j : j \in entity_index'[x] <=> j \in entity_index[x] /\ ~(j = k /\ x \in store[k].refs)
    BY <1>7, RemovedFacts, ListenerFacts
  <2> QED
    BY <1>7, <2>1, <2>2
<1>8. ASSUME NEW t \in Threads, InvalidateAct(t) PROVE EntityRegistered'
  <2>1. CASE InvalidateKey(t)
    <3>1. PICK k \in todo[t] :
             IF k \in Present THEN Removed(k) ELSE UNCHANGED <<cacheVars, stripped, lossy>>
      BY <2>1 DEF InvalidateKey
    <3>2. k \in Keys /\ UNCHANGED <<pc, key, val, left>>
      BY <2>1, <3>1 DEF InvalidateKey, TypeOK
    <3> QED
      BY <1>7, <3>1, <3>2 DEF cacheVars
  <2>2. CASE ~InvalidateKey(t)
    <3>1. /\ UNCHANGED <<store, entity_index, key, val, stripped, lossy>>
          /\ \A u \in Threads : pc'[u] = pc[u] \/ pc'[u] \notin PutSteps
          /\ \A u \in Threads : left'[u] = left[u] \/ pc'[u] \notin PutSteps
      BY <1>8, <2>2 DEF InvalidateAct, invalidate_views, invalidate_list_queries,
         invalidate_by_entity, InvalidateStart, Collect, CollectDone, InvalidateDone,
         cacheVars, history, TypeOK
    <3> QED
      BY <3>1
  <2> QED
    BY <2>1, <2>2
<1>9. ASSUME NEW t \in Threads, ClearAct(t) PROVE EntityRegistered'
  <2>1. CASE ClearStart(t)
    <3>1. \A k \in Keys : store'[k].phase # "live"
      BY <2>1, EntryFacts DEF ClearStart, TypeOK
    <3>2. /\ UNCHANGED <<entity_index, key, val, left, stripped>>
          /\ \A u \in Threads : pc'[u] = pc[u] \/ pc'[u] \notin PutSteps
      BY <2>1 DEF ClearStart, history, TypeOK
    <3> QED
      BY <3>1, <3>2
  <2>2. CASE ClearViews(t) \/ ClearEntities(t) \/ ClearLists(t)
    <3>1. /\ \A k \in Keys : store'[k].phase = "live" => k \in lossy'
          /\ \A u \in Threads : pc'[u] \in PutSteps => stripped'[u]
      BY <2>2 DEF ClearViews, ClearEntities, ClearLists, IndexCleared, Present, TypeOK
    <3> QED
      BY <3>1
  <2>3. CASE ClearMemory(t)
    BY <2>3 DEF ClearMemory, TypeOK
  <2> QED
    BY <1>9, <2>1, <2>2, <2>3 DEF ClearAct
<1>10. CASE MokaAct
  <2>1. ASSUME NEW k \in Keys, Expire(k) PROVE EntityRegistered'
    <3>1. /\ store'[k].phase # "live"
          /\ \A j \in Keys : j # k => store'[j] = store[j]
      BY <2>1, EntryFacts DEF Expire, TypeOK
    <3> QED
      BY <2>1, <3>1 DEF Expire, callVars, history
  <2>2. ASSUME NEW k \in Keys, Evict(k) PROVE EntityRegistered'
    BY <1>7, <2>2 DEF Evict, callVars
  <2> QED
    BY <1>10, <2>1, <2>2 DEF MokaAct
<1>11. CASE UNCHANGED vars
  BY <1>11 DEF vars, cacheVars, callVars, history
<1> QED
  BY <1>1, <1>2, <1>3, <1>4, <1>5, <1>6, <1>8, <1>9, <1>10, <1>11 DEF Next, PutAct

Registered == ViewRegistered /\ ListRegistered /\ EntityRegistered

THEOREM RegistrationInvariant == Spec => []Registered
<1>1. Init => Registered
  BY DEF Init, Registered, ViewRegistered, ListRegistered, EntityRegistered, PutSteps, Live, NoEntry
<1>2. TypeOK /\ CallsOK /\ Registered /\ [Next]_vars => Registered'
  BY ViewRegisteredStep, ListRegisteredStep, EntityRegisteredStep DEF Registered
<1> QED
  BY <1>1, <1>2, TypeCorrect, PTL DEF Spec

(* A live value is in every index that invalidation consults, unless       *)
(* another value of its key was removed, or the cache cleared, while it    *)
(* was being put: replacement is the only way put_arc loses an index entry.*)
THEOREM IndexIsComplete == Spec => []IndexComplete
<1>1. TypeOK /\ Registered => IndexComplete
  BY ViewsOfAssumption
  DEF TypeOK, Entry, Registered, ViewRegistered, ListRegistered, EntityRegistered, IndexComplete,
      InIndexes, Live
<1> QED
  BY <1>1, TypeCorrect, RegistrationInvariant, PTL

-----------------------------------------------------------------------------
(* Invalidation completeness                                               *)

\* Value k is found under tag x of the index an invalidation reads.
Tagged(what, k, x) ==
    \/ what = "view" /\ x \in ViewsOf[k]
    \/ what = "list" /\ store[k].list /\ x \in ViewsOf[k]
    \/ what = "entity" /\ x \in store[k].refs

\* Every value an invalidation has to remove, under a target it is done
\* collecting, is in its work list.
Collected ==
    \A t \in Threads, k \in Keys : \A x \in targets[t] :
        /\ pc[t] \in {"collect", "invalidate"}
        /\ Live(k) /\ k \notin fresh[t] /\ k \notin lossy
        /\ x \notin left[t]
        /\ Tagged(kind[t], k, x)
        => k \in todo[t]

LEMMA CollectedStep ==
    ASSUME TypeOK, CallsOK, Registered, Collected, [Next]_vars
    PROVE  Collected'
<1> USE DEF Collected, Live, Tagged
<1>1. ASSUME NEW t \in Threads, PutAct(t), ~Insert(t) PROVE Collected'
  <2>1. /\ UNCHANGED <<store, todo, kind, targets, fresh, lossy>>
        /\ \A u \in Threads : pc'[u] \in {"collect", "invalidate"} =>
              pc'[u] = pc[u] /\ left'[u] = left[u]
    <3>1. CASE \E k \in Keys, r \in Results, ttl \in Ttls : PutStart(t, k, r, ttl)
      BY <3>1 DEF PutStart, TypeOK, cacheVars
    <3>2. CASE RegisterViews(t) \/ RegisterList(t) \/ RegisterRefsDone(t) \/ Charge(t)
      BY <3>2 DEF RegisterViews, RegisterList, RegisterRefsDone, Charge, TypeOK, cacheVars, history
    <3>3. CASE RegisterRef(t)
      BY <3>3 DEF RegisterRef, TypeOK, history
    <3> QED
      BY <1>1, <3>1, <3>2, <3>3 DEF PutAct
  <2> QED
    BY <2>1
<1>2. ASSUME NEW t \in Threads, Insert(t) PROVE Collected'
  <2>1. /\ UNCHANGED <<left, todo, kind, targets>>
        /\ \A u \in Threads : pc'[u] \in {"collect", "invalidate"} =>
              pc'[u] = pc[u] /\ key[t] \in fresh'[u] /\ fresh[u] \subseteq fresh'[u]
        /\ \A j \in Keys : j # key[t] => store'[j] = store[j]
        /\ \A j \in Keys : j # key[t] => (j \in lossy <=> j \in lossy')
    BY <1>2 DEF Insert, TypeOK, Invalidating
  <2> QED
    BY <2>1
<1>3. ASSUME NEW k \in Keys, Removed(k), UNCHANGED <<pc, left, kind, targets, fresh>>,
             \A u \in Threads : todo[u] \ {k} \subseteq todo'[u]
      PROVE  Collected'
  <2>1. /\ store'[k].phase = "absent"
        /\ \A j \in Keys : j # k => store'[j] = store[j]
        /\ lossy' = lossy \ {k}
    BY <1>3, RemovedFacts DEF Removed
  <2> QED
    BY <1>3, <2>1
<1>4. ASSUME NEW t \in Threads, InvalidateAct(t) PROVE Collected'
  <2>1. ASSUME NEW what, NEW tags, InvalidateStart(t, what, tags) PROVE Collected'
    BY <2>1 DEF InvalidateStart, TypeOK, cacheVars
  <2>2. CASE \/ \E vs \in SUBSET Views \ {{}} : invalidate_views(t, vs)
             \/ \E v \in Views : invalidate_list_queries(t, {v})
             \/ \E r \in Refs : invalidate_by_entity(t, r)
    BY <2>1, <2>2 DEF invalidate_views, invalidate_list_queries, invalidate_by_entity
  <2>3. CASE Collect(t)
    <3> PICK x \in left[t] : /\ todo' = [todo EXCEPT ![t] = @ \cup IndexOf(kind[t])[x]]
                             /\ left' = [left EXCEPT ![t] = @ \ {x}]
      BY <2>3 DEF Collect
    <3>1. /\ UNCHANGED <<store, pc, kind, targets, fresh, lossy>>
          /\ pc[t] = "collect"
      BY <2>3 DEF Collect, cacheVars, history
    <3>2. x \in IF kind[t] = "entity" THEN Refs ELSE Views
      BY <3>1 DEF CallsOK, CallOK
    <3>3. \A k \in Keys : Live(k) /\ k \notin lossy /\ Tagged(kind[t], k, x)
             => k \in IndexOf(kind[t])[x]
      BY <3>2 DEF Registered, ViewRegistered, ListRegistered, EntityRegistered, IndexOf,
                  TypeOK, Kinds
    <3>4. /\ \A u \in Threads : u # t => todo'[u] = todo[u] /\ left'[u] = left[u]
          /\ \A k : k \in todo'[t] <=> k \in todo[t] \/ k \in IndexOf(kind[t])[x]
          /\ \A y : y \in left'[t] <=> y \in left[t] /\ y # x
      BY DEF TypeOK
    <3> QED
      BY <3>1, <3>3, <3>4
  <2>4. CASE CollectDone(t) \/ InvalidateDone(t)
    <3>1. /\ UNCHANGED <<store, left, todo, kind, lossy>>
          /\ \A u \in Threads : pc'[u] \in {"collect", "invalidate"} =>
                /\ pc[u] \in {"collect", "invalidate"}
                /\ targets'[u] = targets[u] /\ fresh'[u] = fresh[u]
      BY <2>4 DEF CollectDone, InvalidateDone, TypeOK, cacheVars, history
    <3> QED
      BY <3>1
  <2>5. CASE InvalidateKey(t)
    <3>1. PICK k \in todo[t] :
             /\ todo' = [todo EXCEPT ![t] = @ \ {k}]
             /\ IF k \in Present THEN Removed(k) ELSE UNCHANGED <<cacheVars, stripped, lossy>>
      BY <2>5 DEF InvalidateKey
    <3>2. UNCHANGED <<pc, left, kind, targets, fresh>> /\ k \in Keys
      BY <2>5, <3>1 DEF InvalidateKey, TypeOK
    <3>3. \A u \in Threads : todo[u] \ {k} \subseteq todo'[u]
      BY <3>1 DEF TypeOK
    <3>4. CASE k \in Present
      BY <1>3, <3>1, <3>2, <3>3, <3>4
    <3>5. CASE k \notin Present
      BY <3>1, <3>2, <3>3, <3>5 DEF cacheVars, Present
    <3> QED
      BY <3>4, <3>5
  <2> QED
    BY <1>4, <2>2, <2>3, <2>4, <2>5 DEF InvalidateAct
<1>5. ASSUME NEW t \in Threads, ClearAct(t) PROVE Collected'
  <2>1. /\ UNCHANGED <<left, todo, kind, targets, fresh>>
        /\ \A u \in Threads : pc'[u] \in {"collect", "invalidate"} => pc'[u] = pc[u]
        /\ \A k \in Keys : store'[k].phase = "live" => store'[k] = store[k]
        /\ lossy \subseteq lossy'
    <3>1. CASE ClearStart(t)
      BY <3>1, EntryFacts DEF ClearStart, TypeOK, history
    <3>2. CASE ClearViews(t) \/ ClearEntities(t) \/ ClearLists(t) \/ ClearMemory(t)
      BY <3>2 DEF ClearViews, ClearEntities, ClearLists, ClearMemory, IndexCleared, TypeOK
    <3> QED
      BY <1>5, <3>1, <3>2 DEF ClearAct
  <2> QED
    BY <2>1
<1>6. CASE MokaAct
  <2>1. ASSUME NEW k \in Keys, Expire(k) PROVE Collected'
    <3>1. /\ store'[k].phase # "live"
          /\ \A j \in Keys : j # k => store'[j] = store[j]
      BY <2>1, EntryFacts DEF Expire, TypeOK
    <3> QED
      BY <2>1, <3>1 DEF Expire, callVars, history
  <2>2. ASSUME NEW k \in Keys, Evict(k) PROVE Collected'
    BY <1>3, <2>2 DEF Evict, callVars
  <2> QED
    BY <1>6, <2>1, <2>2 DEF MokaAct
<1>7. CASE UNCHANGED vars
  BY <1>7 DEF vars, cacheVars, callVars, history
<1> QED
  BY <1>1, <1>2, <1>4, <1>5, <1>6, <1>7 DEF Next

(* When invalidate_views, invalidate_list_queries or invalidate_by_entity  *)
(* returns, no value it had to remove is left except those inserted while  *)
(* it ran and those the indexes had lost before.                           *)
THEOREM InvalidationIsComplete == Spec => []InvalidationComplete
<1>1. Init => Collected
  BY DEF Init, Collected
<1>2. TypeOK /\ CallsOK /\ Registered /\ Collected /\ [Next]_vars => Collected'
  BY CollectedStep
<1>3. TypeOK /\ CallsOK /\ Collected => InvalidationComplete
  <2> SUFFICES ASSUME TypeOK, CallsOK, Collected,
                      NEW t \in Threads, pc[t] = "invalidate", todo[t] = {},
                      NEW k \in Keys, Live(k), Matches(kind[t], targets[t], k),
                      k \notin fresh[t], k \notin lossy
               PROVE  FALSE
    BY DEF InvalidationComplete
  <2>1. left[t] = {}
    BY DEF CallsOK, CallOK
  <2>2. PICK x \in targets[t] : Tagged(kind[t], k, x)
    BY DEF Matches, Tagged, TypeOK, Kinds
  <2> QED
    BY <2>1, <2>2 DEF Collected
<1> QED
  BY <1>1, <1>2, <1>3, TypeCorrect, RegistrationInvariant, PTL DEF Spec

-----------------------------------------------------------------------------
(* Memory accounting                                                       *)

LEMMA CardinalityFacts ==
    ASSUME TypeOK
    PROVE  /\ IsFiniteSet(Present) /\ IsFiniteSet(Charged) /\ IsFiniteSet(Gated)
           /\ Cardinality(Present) \in Nat /\ Cardinality(Charged) \in Nat
           /\ Cardinality(Gated) \in Nat
           /\ Cardinality(Keys) \in Nat /\ Cardinality(Threads) \in Nat
           /\ Cardinality(Present) <= Cardinality(Keys)
           /\ Cardinality(Charged) <= Cardinality(Threads)
           /\ Cardinality(Gated) <= Cardinality(Threads)
<1>1. Present \subseteq Keys /\ Charged \subseteq Threads /\ Gated \subseteq Threads
  BY DEF Present, Charged, Gated
<1> QED
  BY <1>1, KeysAssumption, ThreadsAssumption, FS_Subset, FS_CardinalityType

LEMMA RemovedCount ==
    ASSUME TypeOK, NEW k \in Present, Removed(k)
    PROVE  Cardinality(Present') = Cardinality(Present) - 1
<1>1. k \in Keys
  BY DEF Present
<1>2. Present' = Present \ {k}
  BY <1>1, RemovedFacts DEF Present
<1> QED
  BY <1>2, CardinalityFacts, FS_RemoveElement

LEMMA InsertCount ==
    ASSUME TypeOK, CallsOK, NEW t \in Threads, Insert(t)
    PROVE  /\ Cardinality(Charged') = Cardinality(Charged) - 1
           /\ Gated' = Gated
           /\ key[t] \in Present => Present' = Present
           /\ key[t] \notin Present => Cardinality(Present') = Cardinality(Present) + 1
<1>1. /\ key[t] \in Keys /\ store'[key[t]].phase = "live"
      /\ \A j \in Keys : j # key[t] => store'[j] = store[j]
      /\ \A u \in Threads : u # t => pc'[u] = pc[u]
      /\ pc[t] = "insert" /\ pc'[t] = "idle"
  BY InsertFacts, InsertHistory
<1>2. Present' = Present \cup {key[t]}
  BY <1>1 DEF Present
<1>3. Charged' = Charged \ {t} /\ t \in Charged
  BY <1>1 DEF Charged
<1>4. Gated' = Gated
  BY <1>1 DEF Gated, PutSteps
<1>5. Cardinality(Charged') = Cardinality(Charged) - 1
  BY <1>3, CardinalityFacts, FS_RemoveElement
<1>6. key[t] \notin Present => Cardinality(Present') = Cardinality(Present) + 1
  BY <1>2, CardinalityFacts, FS_AddElement
<1> QED
  BY <1>2, <1>4, <1>5, <1>6

LEMMA ChargeCount ==
    ASSUME TypeOK, NEW t \in Threads, Charge(t)
    PROVE  /\ Cardinality(Charged') = Cardinality(Charged) + 1
           /\ Cardinality(Gated') = Cardinality(Gated) - 1
           /\ Present' = Present
<1>1. /\ store' = store
      /\ \A u \in Threads : u # t => pc'[u] = pc[u]
      /\ pc[t] = "charge" /\ pc'[t] = "insert"
  BY DEF Charge, TypeOK
<1>2. Charged' = Charged \cup {t} /\ t \notin Charged
  BY <1>1 DEF Charged
<1>3. Gated' = Gated \ {t} /\ t \in Gated
  BY <1>1 DEF Gated, PutSteps
<1>4. Present' = Present
  BY <1>1 DEF Present
<1> QED
  BY <1>2, <1>3, <1>4, CardinalityFacts, FS_AddElement, FS_RemoveElement

\* Every step other than the start, charge and insert of a put, a removal and
\* the last step of clear() leaves the populations and the counter alone.
Quiet ==
    /\ Present' = Present /\ Charged' = Charged /\ Gated' = Gated
    /\ UNCHANGED <<memory_bytes, drift>>

LEMMA QuietFrame ==
    ASSUME TypeOK, UNCHANGED <<memory_bytes, drift>>,
           \A k \in Keys : (store'[k].phase = "absent") = (store[k].phase = "absent"),
           \A t \in Threads : (pc'[t] = "insert") = (pc[t] = "insert"),
           \A t \in Threads : (pc'[t] \in PutSteps) = (pc[t] \in PutSteps)
    PROVE  Quiet
  BY DEF Quiet, Present, Charged, Gated

LEMMA StepCases ==
    ASSUME TypeOK, CallsOK, [Next]_vars
    PROVE  \/ Quiet
           \/ \E t \in Threads : Insert(t) \/ Charge(t)
           \/ \E t \in Threads, k \in Keys, r \in Results, ttl \in Ttls : PutStart(t, k, r, ttl)
           \/ \E k \in Present : Removed(k) /\ UNCHANGED <<pc, drift>>
           \/ \E t \in Threads : ClearMemory(t)
<1> USE DEF PutSteps
<1>1. ASSUME NEW t \in Threads,
             RegisterViews(t) \/ RegisterList(t) \/ RegisterRef(t) \/ RegisterRefsDone(t)
      PROVE  Quiet
  <2>1. /\ UNCHANGED <<memory_bytes, drift, store>>
        /\ \A u \in Threads : u # t => pc'[u] = pc[u]
        /\ pc[t] \in {"views", "lists", "refs"} /\ pc'[t] \in {"lists", "refs", "charge"}
    BY <1>1 DEF RegisterViews, RegisterList, RegisterRef, RegisterRefsDone, TypeOK, cacheVars,
                history
  <2> QED
    BY <2>1, QuietFrame
<1>2. ASSUME NEW t \in Threads, NEW what, NEW tags, InvalidateStart(t, what, tags) PROVE Quiet
  <2>1. /\ UNCHANGED <<memory_bytes, drift, store>>
        /\ \A u \in Threads : u # t => pc'[u] = pc[u]
        /\ pc[t] = "idle" /\ pc'[t] = "collect"
    BY <1>2 DEF InvalidateStart, TypeOK, cacheVars
  <2> QED
    BY <2>1, QuietFrame
<1>3. ASSUME NEW t \in Threads, Collect(t) \/ CollectDone(t) \/ InvalidateDone(t) PROVE Quiet
  <2>1. /\ UNCHANGED <<memory_bytes, drift, store>>
        /\ \A u \in Threads : u # t => pc'[u] = pc[u]
        /\ pc[t] \in {"collect", "invalidate"} /\ pc'[t] \in {"collect", "invalidate", "idle"}
    BY <1>3 DEF Collect, CollectDone, InvalidateDone, TypeOK, cacheVars, history
  <2> QED
    BY <2>1, QuietFrame
<1>4. ASSUME NEW t \in Threads, InvalidateKey(t)
      PROVE  Quiet \/ \E k \in Present : Removed(k) /\ UNCHANGED <<pc, drift>>
  <2>1. PICK k \in todo[t] :
           IF k \in Present THEN Removed(k) ELSE UNCHANGED <<cacheVars, stripped, lossy>>
    BY <1>4 DEF InvalidateKey
  <2>2. UNCHANGED <<pc, drift>>
    BY <1>4 DEF InvalidateKey
  <2> QED
    BY <2>1, <2>2, QuietFrame DEF cacheVars
<1>5. ASSUME NEW t \in Threads,
             ClearStart(t) \/ ClearViews(t) \/ ClearEntities(t) \/ ClearLists(t)
      PROVE  Quiet
  <2>1. /\ UNCHANGED <<memory_bytes, drift>>
        /\ \A u \in Threads : u # t => pc'[u] = pc[u]
        /\ pc[t] \notin PutSteps /\ pc'[t] \notin PutSteps
    BY <1>5 DEF ClearStart, ClearViews, ClearEntities, ClearLists, TypeOK, history
  <2>2. \A k \in Keys : (store'[k].phase = "absent") = (store[k].phase = "absent")
    <3>1. CASE ClearStart(t)
      BY <3>1, EntryFacts DEF ClearStart, TypeOK, Live
    <3>2. CASE ClearViews(t) \/ ClearEntities(t) \/ ClearLists(t)
      BY <3>2 DEF ClearViews, ClearEntities, ClearLists
    <3> QED
      BY <1>5, <3>1, <3>2
  <2> QED
    BY <2>1, <2>2, QuietFrame
<1>6. ASSUME NEW k \in Keys, Expire(k) PROVE Quiet
  <2>1. \A j \in Keys : (store'[j].phase = "absent") = (store[j].phase = "absent")
    BY <1>6, EntryFacts DEF Expire, TypeOK, Live
  <2> QED
    BY <1>6, <2>1, QuietFrame DEF Expire, callVars, history
<1>7. CASE UNCHANGED vars
  BY <1>7, QuietFrame DEF vars, cacheVars, callVars, history
<1> QED
  BY <1>1, <1>2, <1>3, <1>4, <1>5, <1>6, <1>7
  DEF Next, PutAct, InvalidateAct, ClearAct, MokaAct, Evict, callVars, invalidate_views,
      invalidate_list_queries, invalidate_by_entity

\* Starting a put touches neither the store nor the counter.
LEMMA PutStartCount ==
    ASSUME TypeOK, NEW t \in Threads, NEW k \in Keys, NEW r \in Results, NEW ttl \in Ttls,
           PutStart(t, k, r, ttl)
    PROVE  /\ Present' = Present /\ Charged' = Charged
           /\ UNCHANGED <<memory_bytes, drift>>
           /\ memory_bytes < Budget
<1>1. /\ UNCHANGED <<memory_bytes, drift, store>>
      /\ \A u \in Threads : u # t => pc'[u] = pc[u]
      /\ pc[t] = "idle" /\ pc'[t] = "views"
      /\ memory_bytes < Budget
  BY DEF PutStart, TypeOK, cacheVars, Admits
<1> QED
  BY <1>1 DEF Present, Charged

DriftBounded == drift <= Cardinality(Keys) + Cardinality(Threads)

(* The charge that put_arc adds is given back exactly once, by whichever   *)
(* removal, replacement or eviction ends the value's life; only clear()    *)
(* makes the counter differ, by the charges outstanding at that moment.    *)
THEOREM MemoryIsConserved == Spec => [](MemoryConserved /\ DriftBounded)
<1>1. Init => MemoryConserved /\ DriftBounded
  <2> SUFFICES ASSUME Init PROVE MemoryConserved /\ DriftBounded
    OBVIOUS
  <2>1. Present = {} /\ Charged = {}
    BY DEF Init, Present, Charged, NoEntry
  <2> QED
    BY <2>1, FS_EmptySet, FS_CardinalityType, KeysAssumption, ThreadsAssumption
    DEF Init, MemoryConserved, DriftBounded
<1>2. TypeOK /\ TypeOK' /\ CallsOK /\ MemoryConserved /\ DriftBounded /\ [Next]_vars
         => (MemoryConserved /\ DriftBounded)'
  <2> SUFFICES ASSUME TypeOK, TypeOK', CallsOK, MemoryConserved, DriftBounded, [Next]_vars
               PROVE  (MemoryConserved /\ DriftBounded)'
    OBVIOUS
  <2> DEFINE P == Cardinality(Present)
             C == Cardinality(Charged)
             K == Cardinality(Keys)
             T == Cardinality(Threads)
  <2>1. /\ P \in Nat /\ C \in Nat /\ K \in Nat /\ T \in Nat /\ P <= K /\ C <= T
        /\ P' \in Nat /\ C' \in Nat /\ P' <= K /\ C' <= T
        /\ Wrap \in Nat /\ K + T < Wrap
        /\ drift \in Nat /\ drift <= K + T
        /\ memory_bytes = IF P + C >= drift THEN P + C - drift ELSE P + C - drift + Wrap
    <3>1. P' \in Nat /\ C' \in Nat /\ P' <= K /\ C' <= T
      <4>1. Present' \subseteq Keys /\ Charged' \subseteq Threads
        BY DEF Present, Charged
      <4> QED
        BY <4>1, KeysAssumption, ThreadsAssumption, FS_Subset, FS_CardinalityType
    <3> QED
      BY <3>1, CardinalityFacts, ConfigAssumption DEF TypeOK, MemoryConserved, DriftBounded
  <2> DEFINE Goal == /\ memory_bytes' = IF P' + C' >= drift' THEN P' + C' - drift'
                                        ELSE P' + C' - drift' + Wrap
                     /\ drift' <= K + T
  <2>3. ASSUME Quiet PROVE Goal
    <3>1. P' = P /\ C' = C /\ memory_bytes' = memory_bytes /\ drift' = drift
      BY <2>3 DEF Quiet
    <3> QED
      BY <2>1, <3>1
  <2>4. ASSUME NEW t \in Threads, Insert(t)
        PROVE  Goal
    <3>1. C' = C - 1 /\ drift' = drift
      BY <2>4, InsertCount DEF Insert
    <3>2. CASE key[t] \in Present
      <4>1. P' = P /\ memory_bytes' = FetchSub(memory_bytes)
        BY <2>4, <3>2, InsertCount DEF Insert, Listener
      <4> HIDE DEF P, C, K, T
      <4> QED
        BY <2>1, <3>1, <4>1 DEF FetchSub
    <3>3. CASE key[t] \notin Present
      <4>1. P' = P + 1 /\ memory_bytes' = memory_bytes
        BY <2>4, <3>3, InsertCount DEF Insert
      <4> HIDE DEF P, C, K, T
      <4> QED
        BY <2>1, <3>1, <4>1
    <3> QED
      BY <3>2, <3>3
  <2>5. ASSUME NEW t \in Threads, Charge(t)
        PROVE  Goal
    <3>1. C' = C + 1 /\ P' = P /\ drift' = drift /\ memory_bytes' = FetchAdd(memory_bytes)
      BY <2>5, ChargeCount DEF Charge, history
    <3> HIDE DEF P, C, K, T
    <3> QED
      BY <2>1, <3>1 DEF FetchAdd
  <2>6. ASSUME NEW t \in Threads, NEW k \in Keys, NEW r \in Results, NEW ttl \in Ttls,
               PutStart(t, k, r, ttl)
        PROVE  Goal
    <3>1. P' = P /\ C' = C /\ memory_bytes' = memory_bytes /\ drift' = drift
      BY <2>6, PutStartCount
    <3> QED
      BY <2>1, <3>1
  <2>7. ASSUME NEW k \in Present, Removed(k), UNCHANGED <<pc, drift>>
        PROVE  Goal
    <3>1. /\ P' = P - 1 /\ C' = C /\ drift' = drift
          /\ memory_bytes' = FetchSub(memory_bytes)
      BY <2>7, RemovedCount DEF Charged, Removed, Listener
    <3> HIDE DEF P, C, K, T
    <3> QED
      BY <2>1, <3>1 DEF FetchSub
  <2>8. ASSUME NEW t \in Threads, ClearMemory(t)
        PROVE  Goal
    <3>1. P' = P /\ C' = C
      BY <2>8 DEF ClearMemory, Present, Charged, TypeOK
    <3>2. memory_bytes' = 0 /\ drift' = P + C
      BY <2>8 DEF ClearMemory
    <3> HIDE DEF P, C, K, T
    <3> QED
      BY <2>1, <3>1, <3>2
  <2>9. Goal
    BY <2>3, <2>4, <2>5, <2>6, <2>7, <2>8, StepCases
  <2>10. MemoryConserved'
    BY <2>1, <2>9 DEF MemoryConserved, TypeOK
  <2>11. DriftBounded'
    BY <2>9 DEF DriftBounded
  <2> QED
    BY <2>10, <2>11
<1> QED
  BY <1>1, <1>2, TypeCorrect, PTL DEF Spec
(* put_arc reads memory_bytes once, registers, and only then charges it:   *)
(* the puts that pass the gate together exceed max_total_bytes by less     *)
(* than one entry per thread, as long as no clear() reset the counter.     *)
THEOREM OvershootIsBounded == Spec => []BudgetOvershootBounded
<1>1. Init => BudgetOvershootBounded
  <2> SUFFICES ASSUME Init PROVE BudgetOvershootBounded
    OBVIOUS
  <2>1. Present = {} /\ Charged = {} /\ Gated = {}
    BY DEF Init, Present, Charged, Gated, NoEntry, PutSteps
  <2>2. Cardinality({}) = 0 /\ Cardinality(Threads) \in Nat
    BY FS_EmptySet, FS_CardinalityType, ThreadsAssumption
  <2> QED
    BY <2>1, <2>2, ConfigAssumption DEF BudgetOvershootBounded
<1>2. TypeOK /\ TypeOK' /\ CallsOK /\ MemoryConserved /\ BudgetOvershootBounded /\ [Next]_vars
         => BudgetOvershootBounded'
  <2> SUFFICES ASSUME TypeOK, TypeOK', CallsOK, MemoryConserved, BudgetOvershootBounded,
                      [Next]_vars
               PROVE  BudgetOvershootBounded'
    OBVIOUS
  <2> DEFINE P == Cardinality(Present)
             C == Cardinality(Charged)
             G == Cardinality(Gated)
             T == Cardinality(Threads)
             Goal == drift' = 0 => P' + C' + G' < Budget + T
  <2>1. /\ P \in Nat /\ C \in Nat /\ G \in Nat /\ T \in Nat /\ G <= T
        /\ Budget \in Nat \ {0} /\ drift \in Nat
        /\ drift = 0 => P + C + G < Budget + T
        /\ drift = 0 => memory_bytes = P + C
    BY CardinalityFacts, ConfigAssumption DEF TypeOK, MemoryConserved, BudgetOvershootBounded
  <2>2. ASSUME Quiet PROVE Goal
    <3>1. P' = P /\ C' = C /\ G' = G /\ drift' = drift
      BY <2>2 DEF Quiet
    <3> QED
      BY <2>1, <3>1
  <2>3. ASSUME NEW t \in Threads, Insert(t) PROVE Goal
    <3>1. /\ C' = C - 1 /\ G' = G /\ drift' = drift
          /\ P' = P \/ P' = P + 1
      BY <2>3, InsertCount DEF Insert
    <3> HIDE DEF P, C, G, T
    <3> QED
      BY <2>1, <3>1
  <2>4. ASSUME NEW t \in Threads, Charge(t) PROVE Goal
    <3>1. C' = C + 1 /\ G' = G - 1 /\ P' = P /\ drift' = drift
      BY <2>4, ChargeCount DEF Charge, history
    <3> HIDE DEF P, C, G, T
    <3> QED
      BY <2>1, <3>1
  <2>5. ASSUME NEW t \in Threads, NEW k \in Keys, NEW r \in Results, NEW ttl \in Ttls,
               PutStart(t, k, r, ttl)
        PROVE  Goal
    <3>1. P' = P /\ C' = C /\ drift' = drift /\ memory_bytes < Budget
      BY <2>5, PutStartCount
    <3>2. G' \in Nat /\ G' <= T
      <4>1. Gated' \subseteq Threads
        BY DEF Gated
      <4> QED
        BY <4>1, ThreadsAssumption, FS_Subset, FS_CardinalityType
    <3>3. drift' = 0 => P + C < Budget
      BY <2>1, <3>1
    <3>4. \A p, c, g, n, b \in Nat : p + c < b /\ g <= n => p + c + g < b + n
      OBVIOUS
    <3> QED
      BY <2>1, <3>1, <3>2, <3>3, <3>4
  <2>6. ASSUME NEW k \in Present, Removed(k), UNCHANGED <<pc, drift>> PROVE Goal
    <3>1. P' = P - 1 /\ C' = C /\ G' = G /\ drift' = drift
      BY <2>6, RemovedCount DEF Charged, Gated
    <3> HIDE DEF P, C, G, T
    <3> QED
      BY <2>1, <3>1
  <2>7. ASSUME NEW t \in Threads, ClearMemory(t) PROVE Goal
    <3>1. P' = P /\ C' = C /\ G' = G
      BY <2>7 DEF ClearMemory, Present, Charged, Gated, TypeOK, PutSteps
    <3>2. drift' = P + C
      BY <2>7 DEF ClearMemory
    <3> HIDE DEF P, C, G, T
    <3> QED
      BY <2>1, <3>1, <3>2
  <2>8. Goal
    BY <2>2, <2>3, <2>4, <2>5, <2>6, <2>7, StepCases
  <2> QED
    BY <2>8 DEF BudgetOvershootBounded
<1> QED
  BY <1>1, <1>2, TypeCorrect, MemoryIsConserved, PTL DEF Spec
=============================================================================
