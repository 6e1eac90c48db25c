----------------------- MODULE MutationCoherence_proofs -----------------------
(***************************************************************************)
(* What the two cache tiers promise after a mutation, for any number of    *)
(* rows, queries, readers and writers.                                     *)
(***************************************************************************)
EXTENDS MutationCoherence, TLAPS

-----------------------------------------------------------------------------
(* Types                                                                   *)

LEMMA FilledType ==
    ASSUME TypeOK, NEW t \in Readers, NEW slot \in Slot, NEW i \in BOOLEAN
    PROVE  Filled(t, slot, i) \in Slot
  BY DEF TypeOK, Filled, Slot

LEMMA EmptyType == Empty \in Slot
  BY BoundsAssumption DEF Empty, Slot, NoRows, Versions

LEMMA InvalidatedType ==
    ASSUME NEW cache \in [Queries -> Slot], NEW match
    PROVE  Invalidated(cache, match) \in [Queries -> Slot]
  BY EmptyType DEF Invalidated

LEMMA ExpiredType ==
    ASSUME NEW slot \in Slot
    PROVE  Expired(slot) \in Slot
  BY BoundsAssumption DEF Expired, Slot, NoRows, Versions

LEMMA ReaderTypes ==
    ASSUME TypeOK, NEW t \in Readers, Read(t)
    PROVE  TypeOK'
<1>1. CASE \E q \in Queries : ResponseGet(t, q)
  BY <1>1 DEF TypeOK, ResponseGet, Goto, ReaderPcs, caches
<1>2. CASE RowGet(t)
  <2>1. row_cache[query[t]] \in Slot
    BY DEF TypeOK
  <2>2. row_cache[query[t]].rows \in [Entities -> Versions] /\ row_cache[query[t]].suspect \in SUBSET Entities
    BY <2>1 DEF Slot
  <2>3. rows' \in [Readers -> [Entities -> Versions]]
    BY <1>2, <2>2 DEF TypeOK, RowGet
  <2>4. suspect' \in [Readers -> SUBSET Entities]
    BY <1>2, <2>2 DEF TypeOK, RowGet, RowsPending
  <2>5. rpc' \in [Readers -> ReaderPcs]
    BY <1>2 DEF TypeOK, RowGet, Goto, ReaderPcs
  <2> QED BY <1>2, <2>3, <2>4, <2>5 DEF TypeOK, RowGet, caches
<1>3. CASE DbRead(t)
  <2>1. [e \in Entities |-> IF e \in Scope[query[t]] THEN db[e] ELSE 0] \in [Entities -> Versions]
    BY BoundsAssumption DEF TypeOK, Versions
  <2> QED BY <1>3, <2>1 DEF TypeOK, DbRead, Goto, ReaderPcs, caches
<1>4. CASE RowPut(t)
  <2>1. row_cache[query[t]] \in Slot
    BY DEF TypeOK
  <2>2. \A i \in BOOLEAN : Filled(t, row_cache[query[t]], i) \in Slot
    BY <2>1, FilledType
  <2>3. row_cache' \in [Queries -> Slot]
    BY <1>4, <2>2 DEF TypeOK, RowPut
  <2> QED BY <1>4, <2>3 DEF TypeOK, RowPut, Goto, ReaderPcs
<1>5. CASE ResponsePut(t)
  <2>1. response_cache[query[t]] \in Slot
    BY DEF TypeOK
  <2>2. \A i \in BOOLEAN : Filled(t, response_cache[query[t]], i) \in Slot
    BY <2>1, FilledType
  <2>3. response_cache' \in [Queries -> Slot]
    BY <1>5, <2>2 DEF TypeOK, ResponsePut
  <2>4. NoRows \in [Entities -> Versions]
    BY BoundsAssumption DEF NoRows, Versions
  <2> QED BY <1>5, <2>3, <2>4 DEF TypeOK, ResponsePut, Goto, ReaderPcs
<1> QED BY <1>1, <1>2, <1>3, <1>4, <1>5 DEF Read

LEMMA DoubtedType ==
    ASSUME NEW cache \in [Queries -> Slot], NEW queries, NEW e \in Entities
    PROVE  Doubted(cache, queries, e) \in [Queries -> Slot]
  BY DEF Doubted, Slot

LEMMA MutationType ==
    ASSUME NEW m \in Mutation
    PROVE  m.entity \in Entities /\ m.definition \in Definitions /\ m.names \in {"nothing", "id", "entity"}
  BY DEF Mutation

LEMMA FailTypes ==
    ASSUME TypeOK, NEW w \in Writers, NEW e \in Entities, Fail(w, e)
    PROVE  /\ row_cache' \in [Queries -> Slot] /\ response_cache' \in [Queries -> Slot]
           /\ wpc' \in [Writers -> WriterPcs]
           /\ mutation' \in [Writers -> Mutation \cup {NoMutation}]
           /\ \A u \in Writers : wpc'[u] # "idle" => mutation'[u] \in Mutation
<1>1. row_cache' \in [Queries -> Slot] /\ response_cache' \in [Queries -> Slot]
  BY DoubtedType DEF TypeOK, Fail
<1> QED BY <1>1 DEF TypeOK, Fail, Return, WriterPcs

LEMMA WriterTypes ==
    ASSUME TypeOK, NEW w \in Writers, Write(w)
    PROVE  TypeOK'
<1>1. ASSUME NEW m \in Mutation, NEW version \in Versions, Commit(w, m, version) PROVE TypeOK'
  <2>1. m.entity \in Entities
    BY MutationType
  <2>2. db' \in [Entities -> Versions] /\ writes' \in Versions
    BY <1>1, <2>1, BoundsAssumption DEF TypeOK, Commit, Versions
  <2>3. suspect' \in [Readers -> SUBSET Entities]
    BY <1>1, <2>1 DEF TypeOK, Commit
  <2>4. /\ row_cache' \in [Queries -> Slot] /\ response_cache' \in [Queries -> Slot]
        /\ wpc' \in [Writers -> WriterPcs]
        /\ mutation' \in [Writers -> Mutation \cup {NoMutation}]
        /\ \A u \in Writers : wpc'[u] # "idle" => mutation'[u] \in Mutation
    <3>1. CASE Fail(w, m.entity)
      BY <2>1, <3>1, FailTypes
    <3>2. CASE /\ wpc' = [wpc EXCEPT ![w] = "bump"]
               /\ mutation' = [mutation EXCEPT ![w] = m]
               /\ row_cache' = Doubted(row_cache, RowsMissed(m, db[m.entity] = 0), m.entity)
               /\ response_cache' = Doubted(response_cache, ResponsesMissed(m), m.entity)
      <4>1. row_cache' \in [Queries -> Slot] /\ response_cache' \in [Queries -> Slot]
        BY <2>1, <3>2, DoubtedType DEF TypeOK
      <4> QED BY <3>2, <4>1 DEF TypeOK, WriterPcs
    <3> QED BY <1>1, <3>1, <3>2 DEF Commit
  <2> QED BY <1>1, <2>2, <2>3, <2>4 DEF TypeOK, Commit, readers
<1>2. CASE Bump(w)
  <2>1. mutation[w].entity \in Entities
    BY <1>2, MutationType DEF TypeOK, Bump
  <2>2. CASE Fail(w, mutation[w].entity)
    BY <1>2, <2>1, <2>2, FailTypes DEF TypeOK, Bump, readers
  <2>3. CASE UNCHANGED caches /\ ~Fail(w, mutation[w].entity)
    BY <1>2, <2>3 DEF TypeOK, Bump, ViewsOrReturn, Return, WriterGoto, WriterPcs, caches, readers
  <2> QED BY <1>2, <2>2, <2>3 DEF Bump
<1>3. CASE EntityRows(w)
  <2>1. row_cache' \in [Queries -> Slot]
    BY <1>3, InvalidatedType DEF TypeOK, EntityRows
  <2> QED BY <1>3, <2>1 DEF TypeOK, EntityRows, WriterGoto, WriterPcs, readers
<1>4. CASE EntityResponses(w)
  <2>1. response_cache' \in [Queries -> Slot]
    BY <1>4, InvalidatedType DEF TypeOK, EntityResponses
  <2> QED BY <1>4, <2>1
          DEF TypeOK, EntityResponses, ViewsOrReturn, Return, WriterGoto, WriterPcs, readers
<1>5. CASE ViewRows(w)
  <2>1. row_cache' \in [Queries -> Slot]
    BY <1>5, InvalidatedType DEF TypeOK, ViewRows
  <2> QED BY <1>5, <2>1 DEF TypeOK, ViewRows, WriterGoto, WriterPcs, readers
<1>6. CASE ViewResponses(w)
  <2>1. response_cache' \in [Queries -> Slot]
    BY <1>6, InvalidatedType DEF TypeOK, ViewResponses
  <2> QED BY <1>6, <2>1 DEF TypeOK, ViewResponses, Return, WriterPcs, readers
<1> QED BY <1>1, <1>2, <1>3, <1>4, <1>5, <1>6 DEF Write

LEMMA MokaTypes ==
    ASSUME TypeOK, NEW q \in Queries, Expire(q) \/ Evict(q)
    PROVE  TypeOK'
<1>1. \A cache \in [Queries -> Slot], slot \in Slot : [cache EXCEPT ![q] = slot] \in [Queries -> Slot]
  OBVIOUS
<1>2. CASE Expire(q)
  <2>1. Expired(row_cache[q]) \in Slot /\ Expired(response_cache[q]) \in Slot
    BY ExpiredType DEF TypeOK
  <2>2. row_cache' \in [Queries -> Slot]
    BY <1>1, <1>2, <2>1 DEF TypeOK, Expire
  <2>3. response_cache' \in [Queries -> Slot]
    BY <1>1, <1>2, <2>1 DEF TypeOK, Expire
  <2> QED BY <1>2, <2>2, <2>3 DEF TypeOK, Expire, readers
<1>3. CASE Evict(q)
  <2>1. row_cache' \in [Queries -> Slot]
    BY <1>1, <1>3, EmptyType DEF TypeOK, Evict
  <2>2. response_cache' \in [Queries -> Slot]
    BY <1>1, <1>3, EmptyType DEF TypeOK, Evict
  <2> QED BY <1>3, <2>1, <2>2 DEF TypeOK, Evict, readers
<1> QED BY <1>2, <1>3

(* Type correctness of MutationCoherence: readers and writers keep their   *)
(* state in its types, and a writer past its commit has its mutation.      *)
THEOREM TypeCorrect == Spec => []TypeOK
<1>1. Init => TypeOK
  <2>1. NoRows \in [Entities -> Versions] /\ 1 \in Versions /\ {0, 1} \subseteq Versions
    BY BoundsAssumption DEF NoRows, Versions
  <2> QED BY <2>1, EmptyType DEF Init, TypeOK, ReaderPcs, WriterPcs
<1>2. TypeOK /\ [Next]_vars => TypeOK'
  <2>1. TypeOK /\ UNCHANGED vars => TypeOK'
    BY DEF TypeOK, vars
  <2> QED BY <2>1, ReaderTypes, WriterTypes, MokaTypes DEF Next
<1> QED BY <1>1, <1>2, PTL DEF Spec

-----------------------------------------------------------------------------
(* The inductive invariant.                                                *)

\* An invalidation that is to evict the row slot of q if it holds the entity of
\* the mutation m, one that is to evict it if it is a list, one that is to evict
\* the response of q.
OldDue(pc, m, q) ==
    \/ pc \in {"bump", "entity_rows"} /\ q \in EntityRowTargets(m)
    \/ /\ pc \in {"bump", "entity_rows", "entity_responses", "view_rows"}
       /\ HasEntityId(m) /\ q \in ViewRowTargets(m)
ListDue(pc, m, q) ==
    /\ pc \in {"bump", "entity_rows", "entity_responses", "view_rows"}
    /\ q \in ViewRowTargets(m)
ResponseDue(pc, m, q) ==
    \/ pc \in {"bump", "entity_rows", "entity_responses"} /\ q \in EntityResponseTargets(m)
    \/ pc # "idle" /\ q \in ViewResponseTargets(m)

OldPending(q, e) == \E w \in Writers : Committed(w, e) /\ OldDue(wpc[w], mutation[w], q)
ListPending(q, e) == \E w \in Writers : Committed(w, e) /\ ListDue(wpc[w], mutation[w], q)
ResponsePending(q, e) ==
    \E w \in Writers : Committed(w, e) /\ ResponseDue(wpc[w], mutation[w], q)

\* Invalidations can be expected to have reached this slot for e.
Reachable(slot, e) == slot.phase = "live" /\ slot.indexed /\ e \notin slot.suspect

\* The rows r hold no old version of e, and, as rows of q, do not lack e.
Current(r, e) == r[e] \in {0, db[e]}
Has(q, r, e) == e \in Scope[q] /\ db[e] # 0 /\ IsList(r) => r[e] # 0

RowOK(q, e) ==
    Reachable(row_cache[q], e) =>
        /\ OldPending(q, e) \/ Current(row_cache[q].rows, e)
        /\ ListPending(q, e) \/ Has(q, row_cache[q].rows, e)
ReaderOK(t, e) ==
    Holding(t) /\ e \notin suspect[t] => Current(rows[t], e) /\ Has(query[t], rows[t], e)
ResponseOK(q, e) ==
    Reachable(response_cache[q], e) =>
        \/ ResponsePending(q, e)
        \/ Current(response_cache[q].rows, e) /\ Has(q, response_cache[q].rows, e)

Coherent ==
    /\ \A q \in Queries, e \in Entities : RowOK(q, e)
    /\ \A t \in Readers, e \in Entities : ReaderOK(t, e)
    /\ \A q \in Queries, e \in Entities : ResponseOK(q, e)

LEMMA SlotFacts ==
    /\ Empty.phase = "absent"
    /\ \A slot \in Slot : Expired(slot).phase = "dead"
    /\ \A t, slot, i : /\ Filled(t, slot, i).phase = "live"
                       /\ Filled(t, slot, i).rows = rows[t]
                       /\ Filled(t, slot, i).indexed => Filled(t, slot, i).suspect = suspect[t]
  BY DEF Empty, Expired, Slot, Filled

\* What RowGet takes for pending covers both kinds of eviction to come.
LEMMA PendingFacts ==
    ASSUME NEW q, NEW e \in Entities
    PROVE  /\ OldPending(q, e) \/ ListPending(q, e) => e \in RowsPending(q)
           /\ OldPending(q, e) \/ ListPending(q, e) \/ ResponsePending(q, e) => Active(e)
  BY DEF OldPending, ListPending, ResponsePending, OldDue, ListDue, RowsPending, RowsDue, Active

\* What is pending stays so as long as no writer moves ...
LEMMA PendingKept ==
    ASSUME UNCHANGED <<wpc, mutation>>, NEW q, NEW e
    PROVE  /\ OldPending(q, e)' <=> OldPending(q, e)
           /\ ListPending(q, e)' <=> ListPending(q, e)
           /\ ResponsePending(q, e)' <=> ResponsePending(q, e)
  BY DEF OldPending, ListPending, ResponsePending, Committed

\* ... and when only w moves, unless w's own part is done.
LEMMA PendingOthers ==
    ASSUME NEW w \in Writers,
           \A u \in Writers : u # w => wpc'[u] = wpc[u] /\ mutation'[u] = mutation[u],
           NEW q, NEW e
    PROVE  /\ OldPending(q, e) => \/ OldPending(q, e)'
                                  \/ Committed(w, e) /\ OldDue(wpc[w], mutation[w], q)
           /\ ListPending(q, e) => \/ ListPending(q, e)'
                                   \/ Committed(w, e) /\ ListDue(wpc[w], mutation[w], q)
           /\ ResponsePending(q, e) => \/ ResponsePending(q, e)'
                                       \/ Committed(w, e) /\ ResponseDue(wpc[w], mutation[w], q)
  BY DEF OldPending, ListPending, ResponsePending, Committed

\* A step that leaves a slot alone, or doubts it, or takes it out of service.
Kept(old, new) ==
    \/ new.phase # "live"
    \/ new.rows = old.rows /\ new.phase = old.phase /\ new.indexed = old.indexed
       /\ old.suspect \subseteq new.suspect

LEMMA KeptReachable ==
    ASSUME NEW old, NEW new, NEW e, Kept(old, new), Reachable(new, e)
    PROVE  Reachable(old, e) /\ new.rows = old.rows
  BY DEF Kept, Reachable

\* What a reader's step does to the two tiers and to the other readers.
LEMMA ReadRows ==
    ASSUME TypeOK, Coherent, UNCHANGED <<db, wpc, mutation>>, NEW q \in Queries, NEW e \in Entities,
           Kept(row_cache[q], row_cache'[q])
    PROVE  RowOK(q, e)'
<1> SUFFICES ASSUME Reachable(row_cache'[q], e)
             PROVE  /\ OldPending(q, e)' \/ Current(row_cache[q].rows, e)'
                    /\ ListPending(q, e)' \/ Has(q, row_cache[q].rows, e)'
  BY DEF RowOK, Reachable
<1>1. Reachable(row_cache[q], e) /\ row_cache'[q].rows = row_cache[q].rows
  BY KeptReachable
<1> QED BY <1>1, PendingKept DEF Coherent, RowOK, Current, Has

LEMMA ReadResponses ==
    ASSUME TypeOK, Coherent, UNCHANGED <<db, wpc, mutation>>, NEW q \in Queries, NEW e \in Entities,
           Kept(response_cache[q], response_cache'[q])
    PROVE  ResponseOK(q, e)'
<1> SUFFICES ASSUME Reachable(response_cache'[q], e)
             PROVE  \/ ResponsePending(q, e)'
                    \/ Current(response_cache[q].rows, e)' /\ Has(q, response_cache[q].rows, e)'
  BY DEF ResponseOK, Reachable
<1>1. Reachable(response_cache[q], e) /\ response_cache'[q].rows = response_cache[q].rows
  BY KeptReachable
<1> QED BY <1>1, PendingKept DEF Coherent, ResponseOK, Current, Has

LEMMA ReadCoherent ==
    ASSUME TypeOK, Coherent, NEW t \in Readers, Read(t)
    PROVE  Coherent'
<1>1. UNCHANGED <<db, wpc, mutation>>
  BY DEF Read, ResponseGet, RowGet, DbRead, RowPut, ResponsePut
<1>2. ASSUME NEW q \in Queries, NEW e \in Entities PROVE RowOK(q, e)'
  <2>1. CASE row_cache'[q] = row_cache[q]
    BY <1>1, <2>1, ReadRows DEF Kept
  <2>2. CASE RowPut(t) /\ q = query[t] /\ \E i \in BOOLEAN : row_cache'[q] = Filled(t, row_cache[q], i)
    <3>1. Reachable(row_cache'[q], e) => Current(rows[t], e) /\ Has(q, rows[t], e)
      BY <2>2, SlotFacts DEF Coherent, ReaderOK, RowPut, Holding, Reachable
    <3>2. row_cache'[q].rows = rows[t]
      BY <2>2, SlotFacts
    <3> QED BY <1>1, <3>1, <3>2 DEF RowOK, Reachable, Current, Has
  <2> QED BY <2>1, <2>2 DEF TypeOK, Read, ResponseGet, RowGet, DbRead, RowPut, ResponsePut, caches
<1>3. ASSUME NEW q \in Queries, NEW e \in Entities PROVE ResponseOK(q, e)'
  <2>1. CASE response_cache'[q] = response_cache[q]
    BY <1>1, <2>1, ReadResponses DEF Kept
  <2>2. CASE /\ ResponsePut(t) /\ q = query[t]
             /\ \E i \in BOOLEAN : response_cache'[q] = Filled(t, response_cache[q], i)
    <3>1. Reachable(response_cache'[q], e) => Current(rows[t], e) /\ Has(q, rows[t], e)
      BY <2>2, SlotFacts DEF Coherent, ReaderOK, ResponsePut, Holding, Reachable
    <3>2. response_cache'[q].rows = rows[t]
      BY <2>2, SlotFacts
    <3> QED BY <1>1, <3>1, <3>2 DEF ResponseOK, Reachable, Current, Has
  <2> QED BY <2>1, <2>2 DEF TypeOK, Read, ResponseGet, RowGet, DbRead, RowPut, ResponsePut, caches
<1>4. ASSUME NEW u \in Readers, NEW e \in Entities, Holding(u)', e \notin suspect'[u]
      PROVE  Current(rows[u], e)' /\ Has(query[u], rows[u], e)'
  <2>1. CASE u # t
    <3>1. rpc'[u] = rpc[u] /\ query'[u] = query[u] /\ rows'[u] = rows[u] /\ suspect'[u] = suspect[u]
      BY <2>1 DEF TypeOK, Read, ResponseGet, RowGet, DbRead, RowPut, ResponsePut, Goto
    <3> QED BY <1>1, <1>4, <3>1 DEF Coherent, ReaderOK, Holding, Current, Has
  <2>2. CASE u = t /\ RowGet(t)
    <3> DEFINE slot == row_cache[query[t]]
    <3>1. query[t] \in Queries /\ query' = query
      BY <2>2 DEF TypeOK, RowGet
    <3>2. slot.phase = "live" /\ rows'[t] = slot.rows
      BY <1>4, <2>2 DEF TypeOK, RowGet, Goto, Holding
    <3>3. suspect'[t] = IF slot.indexed THEN slot.suspect \cup RowsPending(query[t]) ELSE Entities
      BY <2>2, <3>2 DEF TypeOK, RowGet
    <3>4. slot.indexed /\ e \notin slot.suspect /\ e \notin RowsPending(query[t])
      BY <1>4, <2>2, <3>3
    <3>5. Current(slot.rows, e) /\ Has(query[t], slot.rows, e)
      BY <3>1, <3>2, <3>4, PendingFacts DEF Coherent, RowOK, Reachable
    <3> QED BY <1>1, <2>2, <3>1, <3>2, <3>5 DEF Current, Has
  <2>3. CASE u = t /\ DbRead(t)
    <3>1. rows'[t] = [x \in Entities |-> IF x \in Scope[query[t]] THEN db[x] ELSE 0] /\ query' = query
      BY <1>4, <2>3 DEF TypeOK, DbRead, Goto, Holding
    <3> QED BY <1>1, <2>3, <3>1 DEF Current, Has
  <2>4. CASE u = t /\ RowPut(t)
    BY <1>1, <1>4, <2>4 DEF TypeOK, RowPut, Goto, Holding, Coherent, ReaderOK, Current, Has
  <2>5. CASE u = t /\ (ResponsePut(t) \/ \E q \in Queries : ResponseGet(t, q))
    BY <1>4, <2>5 DEF TypeOK, ResponsePut, ResponseGet, Goto, Holding
  <2> QED BY <2>1, <2>2, <2>3, <2>4, <2>5 DEF Read
<1> QED BY <1>2, <1>3, <1>4 DEF Coherent, ReaderOK

\* What the calls of a mutation leave in a cache.
LEMMA InvalidatedFacts ==
    ASSUME NEW cache \in [Queries -> Slot], NEW match, NEW q \in Queries
    PROVE  /\ Kept(cache[q], Invalidated(cache, match)[q])
           /\ cache[q].indexed /\ q \in match => Invalidated(cache, match)[q].phase = "absent"
  BY SlotFacts DEF Invalidated, Kept

LEMMA DoubtedFacts ==
    ASSUME NEW cache \in [Queries -> Slot], NEW queries, NEW e \in Entities, NEW q \in Queries
    PROVE  /\ Kept(cache[q], Doubted(cache, queries, e)[q])
           /\ q \in queries => ~Reachable(Doubted(cache, queries, e)[q], e)
<1>1. cache[q] \in Slot
  OBVIOUS
<1> QED BY <1>1 DEF Doubted, Kept, Reachable, Slot

LEMMA CommitCoherent ==
    ASSUME TypeOK, Coherent, NEW w \in Writers, NEW m \in Mutation, NEW version \in Versions,
           Commit(w, m, version)
    PROVE  Coherent'
<1> DEFINE created == db[m.entity] = 0
<1>1. m.entity \in Entities /\ wpc[w] = "idle"
  BY MutationType DEF Commit
<1>2. \A e \in Entities : e # m.entity => db'[e] = db[e]
  BY <1>1 DEF TypeOK, Commit
<1>3. \/ /\ wpc' = [wpc EXCEPT ![w] = "bump"] /\ mutation' = [mutation EXCEPT ![w] = m]
         /\ row_cache' = Doubted(row_cache, RowsMissed(m, created), m.entity)
         /\ response_cache' = Doubted(response_cache, ResponsesMissed(m), m.entity)
      \/ Fail(w, m.entity)
  BY DEF Commit
<1>4. \A u \in Writers : u # w => wpc'[u] = wpc[u] /\ mutation'[u] = mutation[u]
  BY <1>3 DEF TypeOK, Fail, Return
<1>5. ~Committed(w, m.entity) /\ \A e : ~Committed(w, e)
  BY <1>1 DEF Committed
<1>6. \A q, e : /\ OldPending(q, e) => OldPending(q, e)'
                /\ ListPending(q, e) => ListPending(q, e)'
                /\ ResponsePending(q, e) => ResponsePending(q, e)'
  BY <1>4, <1>5, PendingOthers
<1>7. ASSUME NEW q \in Queries, NEW e \in Entities, Reachable(row_cache'[q], e)
      PROVE  /\ OldPending(q, e)' \/ Current(row_cache[q].rows, e)'
             /\ ListPending(q, e)' \/ Has(q, row_cache[q].rows, e)'
  <2>1. Kept(row_cache[q], row_cache'[q])
    BY <1>1, <1>3, DoubtedFacts DEF TypeOK, Fail
  <2>2. Reachable(row_cache[q], e) /\ row_cache'[q].rows = row_cache[q].rows
    BY <1>7, <2>1, KeptReachable
  <2>3. /\ OldPending(q, e)' \/ Current(row_cache[q].rows, e)
        /\ ListPending(q, e)' \/ Has(q, row_cache[q].rows, e)
    BY <1>6, <2>2 DEF Coherent, RowOK
  <2>4. CASE e # m.entity
    BY <1>2, <2>2, <2>3, <2>4 DEF Current, Has
  <2>5. CASE e = m.entity
    <3>1. q \notin RowsMissed(m, created) /\ ~Fail(w, m.entity)
      BY <1>1, <1>3, <1>7, <2>5, DoubtedFacts DEF TypeOK, Fail
    <3>2. wpc'[w] = "bump" /\ mutation'[w] = m
      BY <1>3, <3>1 DEF TypeOK
    <3>3. CASE created
      <4>1. q \in ViewRowTargets(m)
        BY <3>1, <3>3 DEF RowsMissed
      <4>2. ListPending(q, e)'
        BY <2>5, <3>2, <4>1 DEF ListPending, Committed, ListDue
      <4> QED BY <2>2, <2>3, <2>5, <3>3, <4>2 DEF Current
    <3>4. CASE ~created
      <4>1. q \in EntityRowTargets(m) \/ (HasEntityId(m) /\ q \in ViewRowTargets(m))
        BY <3>1, <3>4 DEF RowsMissed
      <4>2. OldPending(q, e)'
        BY <2>5, <3>2, <4>1 DEF OldPending, Committed, OldDue
      <4> QED BY <2>2, <2>3, <2>5, <3>4, <4>2 DEF Has
    <3> QED BY <3>3, <3>4
  <2> QED BY <2>4, <2>5
<1>8. ASSUME NEW t \in Readers, NEW e \in Entities, Holding(t)', e \notin suspect'[t]
      PROVE  Current(rows[t], e)' /\ Has(query[t], rows[t], e)'
  <2>1. Holding(t) /\ query' = query /\ rows' = rows
    BY <1>8 DEF Commit, readers, Holding
  <2>2. e # m.entity /\ e \notin suspect[t]
    BY <1>8, <2>1 DEF Commit
  <2> QED BY <1>2, <2>1, <2>2 DEF Coherent, ReaderOK, Current, Has
<1>9. ASSUME NEW q \in Queries, NEW e \in Entities, Reachable(response_cache'[q], e)
      PROVE  \/ ResponsePending(q, e)'
             \/ Current(response_cache[q].rows, e)' /\ Has(q, response_cache[q].rows, e)'
  <2>1. Kept(response_cache[q], response_cache'[q])
    BY <1>1, <1>3, DoubtedFacts DEF TypeOK, Fail
  <2>2. Reachable(response_cache[q], e) /\ response_cache'[q].rows = response_cache[q].rows
    BY <1>9, <2>1, KeptReachable
  <2>3. CASE e # m.entity
    BY <1>2, <1>6, <2>2, <2>3 DEF Coherent, ResponseOK, Current, Has
  <2>4. CASE e = m.entity
    <3>1. q \notin ResponsesMissed(m) /\ ~Fail(w, m.entity)
      BY <1>1, <1>3, <1>9, <2>4, DoubtedFacts DEF TypeOK, Fail
    <3>2. wpc'[w] = "bump" /\ mutation'[w] = m
      BY <1>3, <3>1 DEF TypeOK
    <3>3. q \in EntityResponseTargets(m) \/ q \in ViewResponseTargets(m)
      BY <3>1 DEF ResponsesMissed
    <3> QED BY <2>4, <3>2, <3>3 DEF ResponsePending, Committed, ResponseDue
  <2> QED BY <2>3, <2>4
<1> QED BY <1>7, <1>8, <1>9 DEF Coherent, RowOK, ReaderOK, ResponseOK, Reachable

\* A step of writer w after its commit: what is no longer pending through w has
\* been evicted or is current.
LEMMA WriterStep ==
    ASSUME TypeOK, Coherent, NEW w \in Writers, UNCHANGED <<db, rpc, query, rows, suspect>>,
           \A u \in Writers : u # w => wpc'[u] = wpc[u] /\ mutation'[u] = mutation[u],
           \A q \in Queries : Kept(row_cache[q], row_cache'[q]) /\ Kept(response_cache[q], response_cache'[q]),
           \A q \in Queries, e \in Entities :
              Reachable(row_cache'[q], e) /\ Committed(w, e) =>
                 /\ OldDue(wpc[w], mutation[w], q) =>
                       OldPending(q, e)' \/ Current(row_cache[q].rows, e)
                 /\ ListDue(wpc[w], mutation[w], q) =>
                       ListPending(q, e)' \/ ~IsList(row_cache[q].rows),
           \A q \in Queries, e \in Entities :
              Reachable(response_cache'[q], e) /\ Committed(w, e) =>
                 (ResponseDue(wpc[w], mutation[w], q) => ResponsePending(q, e)')
    PROVE  Coherent'
<1>1. ASSUME NEW q \in Queries, NEW e \in Entities, Reachable(row_cache'[q], e)
      PROVE  /\ OldPending(q, e)' \/ Current(row_cache[q].rows, e)'
             /\ ListPending(q, e)' \/ Has(q, row_cache[q].rows, e)'
  <2>1. Reachable(row_cache[q], e) /\ row_cache'[q].rows = row_cache[q].rows
    BY <1>1, KeptReachable
  <2>2. OldPending(q, e)' \/ Current(row_cache[q].rows, e)
    BY <1>1, <2>1, PendingOthers DEF Coherent, RowOK
  <2>3. ListPending(q, e)' \/ Has(q, row_cache[q].rows, e)
    BY <1>1, <2>1, PendingOthers DEF Coherent, RowOK, Has
  <2> QED BY <2>1, <2>2, <2>3 DEF Current, Has
<1>2. ASSUME NEW q \in Queries, NEW e \in Entities, Reachable(response_cache'[q], e)
      PROVE  \/ ResponsePending(q, e)'
             \/ Current(response_cache[q].rows, e)' /\ Has(q, response_cache[q].rows, e)'
  <2>1. Reachable(response_cache[q], e) /\ response_cache'[q].rows = response_cache[q].rows
    BY <1>2, KeptReachable
  <2> QED BY <1>2, <2>1, PendingOthers DEF Coherent, ResponseOK, Current, Has
<1>3. \A t \in Readers, e \in Entities : ReaderOK(t, e)'
  BY DEF Coherent, ReaderOK, Holding, Current, Has
<1> QED BY <1>1, <1>2, <1>3 DEF Coherent, RowOK, ResponseOK, Reachable

\* What is still due after a step of w that only moves it on.
LEMMA DueKept ==
    ASSUME NEW w \in Writers, NEW e, NEW q, Committed(w, e), mutation'[w] = mutation[w], wpc'[w] # "idle"
    PROVE  /\ OldDue(wpc'[w], mutation[w], q) => OldPending(q, e)'
           /\ ListDue(wpc'[w], mutation[w], q) => ListPending(q, e)'
           /\ ResponseDue(wpc'[w], mutation[w], q) => ResponsePending(q, e)'
  BY DEF OldPending, ListPending, ResponsePending, Committed

LEMMA BumpCoherent ==
    ASSUME TypeOK, Coherent, NEW w \in Writers, Bump(w)
    PROVE  Coherent'
<1> DEFINE m == mutation[w]
<1>1. UNCHANGED <<db, rpc, query, rows, suspect>> /\ m.entity \in Entities /\ wpc[w] = "bump"
  BY MutationType DEF TypeOK, Bump, readers
<1>2. \A u \in Writers : u # w => wpc'[u] = wpc[u] /\ mutation'[u] = mutation[u]
  BY DEF TypeOK, Bump, Fail, ViewsOrReturn, Return, WriterGoto
<1>3. \A q \in Queries : Kept(row_cache[q], row_cache'[q]) /\ Kept(response_cache[q], response_cache'[q])
  <2>1. CASE UNCHANGED caches
    BY <2>1 DEF caches, Kept
  <2>2. CASE Fail(w, m.entity)
    BY <1>1, <2>2, DoubtedFacts DEF TypeOK, Fail
  <2> QED BY <2>1, <2>2 DEF Bump
<1>4. CASE Fail(w, m.entity)
  <2>1. \A q \in Queries, e \in Entities : Committed(w, e) =>
            ~Reachable(row_cache'[q], e) /\ ~Reachable(response_cache'[q], e)
    BY <1>1, <1>4, DoubtedFacts DEF TypeOK, Fail, Committed
  <2> QED BY <1>1, <1>2, <1>3, <2>1, WriterStep
<1>5. CASE ~Fail(w, m.entity)
  <2>1. CASE wpc'[w] # "idle"
    <3>1. mutation'[w] = mutation[w]
      BY <1>5, <2>1 DEF TypeOK, Bump, ViewsOrReturn, Return, WriterGoto
    <3>2. wpc'[w] = "entity_rows" \/ (wpc'[w] = "view_rows" /\ ~ByEntity(m))
      BY <1>5, <2>1 DEF TypeOK, Bump, ViewsOrReturn, Return, WriterGoto
    <3>3. \A q : /\ OldDue(wpc[w], m, q) => OldDue(wpc'[w], m, q)
                 /\ ListDue(wpc[w], m, q) => ListDue(wpc'[w], m, q)
                 /\ ResponseDue(wpc[w], m, q) => ResponseDue(wpc'[w], m, q)
      BY <1>1, <3>2 DEF OldDue, ListDue, ResponseDue, EntityRowTargets, EntityResponseTargets
    <3> QED BY <1>1, <1>2, <1>3, <2>1, <3>1, <3>3, DueKept, WriterStep
  <2>2. CASE wpc'[w] = "idle"
    <3>1. ~ByEntity(m) /\ ~ByViews(m)
      BY <1>5, <2>2 DEF TypeOK, Bump, ViewsOrReturn, Return, WriterGoto
    <3>2. \A q : ~OldDue(wpc[w], m, q) /\ ~ListDue(wpc[w], m, q) /\ ~ResponseDue(wpc[w], m, q)
      BY <3>1 DEF OldDue, ListDue, ResponseDue, EntityRowTargets, EntityResponseTargets,
                  ViewRowTargets, ViewResponseTargets
    <3> QED BY <1>1, <1>2, <1>3, <3>2, WriterStep
  <2> QED BY <2>1, <2>2
<1> QED BY <1>4, <1>5

LEMMA RowsCoherent ==
    ASSUME TypeOK, Coherent, NEW w \in Writers, EntityRows(w) \/ ViewRows(w)
    PROVE  Coherent'
<1> DEFINE m == mutation[w]
           match == IF EntityRows(w) THEN {q \in EntityRowTargets(m) : row_cache[q].rows[m.entity] # 0}
                    ELSE {q \in ViewRowTargets(m) : HasEntityId(m) \/ IsList(row_cache[q].rows)}
<1>1. UNCHANGED <<db, rpc, query, rows, suspect>> /\ response_cache' = response_cache
  BY DEF EntityRows, ViewRows, readers
<1>2. \A u \in Writers : u # w => wpc'[u] = wpc[u] /\ mutation'[u] = mutation[u]
  BY DEF TypeOK, EntityRows, ViewRows, WriterGoto
<1>3. row_cache' = Invalidated(row_cache, match)
  BY DEF EntityRows, ViewRows
<1>4. \A q \in Queries : Kept(row_cache[q], row_cache'[q]) /\ Kept(response_cache[q], response_cache'[q])
  <2> HIDE DEF match
  <2> QED BY <1>1, <1>3, InvalidatedFacts DEF TypeOK, Kept
<1>5. \A q \in Queries, e \in Entities : Reachable(row_cache'[q], e) => q \notin match
  <2> HIDE DEF match
  <2>1. \A q \in Queries : row_cache[q].indexed /\ q \in match => row_cache'[q].phase = "absent"
    BY <1>3, InvalidatedFacts DEF TypeOK
  <2> QED BY <1>4, <2>1 DEF Reachable, Kept
<1>6. wpc'[w] # "idle" /\ mutation'[w] = m
  BY DEF TypeOK, EntityRows, ViewRows, WriterGoto
<1>7. \A q, e : Committed(w, e) /\ ResponseDue(wpc[w], m, q) => ResponsePending(q, e)'
  <2>1. \A q : ResponseDue(wpc[w], m, q) => ResponseDue(wpc'[w], m, q)
    BY DEF TypeOK, EntityRows, ViewRows, WriterGoto, ResponseDue
  <2> QED BY <1>6, <2>1, DueKept
<1>8. CASE EntityRows(w)
  <2>1. wpc[w] = "entity_rows" /\ wpc'[w] = "entity_responses"
    BY <1>8 DEF TypeOK, EntityRows, WriterGoto
  <2>2. \A q : ListDue(wpc[w], m, q) => ListDue(wpc'[w], m, q)
    BY <2>1 DEF ListDue
  <2>3. \A q : OldDue(wpc[w], m, q) => OldDue(wpc'[w], m, q) \/ q \in EntityRowTargets(m)
    BY <2>1 DEF OldDue
  <2>4. \A q \in Queries, e \in Entities : Reachable(row_cache'[q], e) /\ Committed(w, e) =>
            (q \in EntityRowTargets(m) => Current(row_cache[q].rows, e))
    BY <1>5, <1>8 DEF Committed, Current
  <2> HIDE DEF match
  <2> QED BY <1>1, <1>2, <1>4, <1>6, <1>7, <2>2, <2>3, <2>4, DueKept, WriterStep
<1>9. CASE ViewRows(w)
  <2>1. wpc[w] = "view_rows" /\ ~EntityRows(w)
    BY <1>9 DEF ViewRows, EntityRows
  <2>2. \A q \in Queries, e \in Entities : Reachable(row_cache'[q], e) =>
            ~OldDue(wpc[w], m, q) /\ (ListDue(wpc[w], m, q) => ~IsList(row_cache[q].rows))
    BY <1>5, <2>1 DEF OldDue, ListDue
  <2> HIDE DEF match
  <2> QED BY <1>1, <1>2, <1>4, <1>7, <2>2, WriterStep
<1> QED BY <1>8, <1>9

LEMMA ResponsesCoherent ==
    ASSUME TypeOK, Coherent, NEW w \in Writers, EntityResponses(w) \/ ViewResponses(w)
    PROVE  Coherent'
<1> DEFINE m == mutation[w]
           match == IF EntityResponses(w) THEN EntityResponseTargets(m) ELSE ViewResponseTargets(m)
<1>1. UNCHANGED <<db, rpc, query, rows, suspect>> /\ row_cache' = row_cache
  BY DEF EntityResponses, ViewResponses, readers
<1>2. \A u \in Writers : u # w => wpc'[u] = wpc[u] /\ mutation'[u] = mutation[u]
  BY DEF TypeOK, EntityResponses, ViewResponses, ViewsOrReturn, Return, WriterGoto
<1>3. response_cache' = Invalidated(response_cache, match)
  BY DEF EntityResponses, ViewResponses
<1>4. \A q \in Queries : Kept(row_cache[q], row_cache'[q]) /\ Kept(response_cache[q], response_cache'[q])
  <2> HIDE DEF match
  <2> QED BY <1>1, <1>3, InvalidatedFacts DEF TypeOK, Kept
<1>5. \A q \in Queries, e \in Entities : Reachable(response_cache'[q], e) => q \notin match
  <2> HIDE DEF match
  <2>1. \A q \in Queries : response_cache[q].indexed /\ q \in match => response_cache'[q].phase = "absent"
    BY <1>3, InvalidatedFacts DEF TypeOK
  <2> QED BY <1>4, <2>1 DEF Reachable, Kept
<1>6. CASE EntityResponses(w)
  <2>1. wpc[w] = "entity_responses"
    BY <1>6 DEF EntityResponses
  <2>2. CASE ByViews(m)
    <3>1. wpc'[w] = "view_rows" /\ mutation'[w] = m
      BY <1>6, <2>2 DEF TypeOK, EntityResponses, ViewsOrReturn, WriterGoto
    <3>2. \A q : /\ OldDue(wpc[w], m, q) => OldDue(wpc'[w], m, q)
                 /\ ListDue(wpc[w], m, q) => ListDue(wpc'[w], m, q)
                 /\ ResponseDue(wpc[w], m, q) => ResponseDue(wpc'[w], m, q) \/ q \in match
      BY <1>6, <2>1, <3>1 DEF OldDue, ListDue, ResponseDue
    <3> HIDE DEF match
    <3> QED BY <1>1, <1>2, <1>4, <1>5, <3>1, <3>2, DueKept, WriterStep
  <2>3. CASE ~ByViews(m)
    <3>1. \A q : ~OldDue(wpc[w], m, q) /\ ~ListDue(wpc[w], m, q) /\ (ResponseDue(wpc[w], m, q) => q \in match)
      BY <1>6, <2>1, <2>3 DEF OldDue, ListDue, ResponseDue, ViewRowTargets, ViewResponseTargets
    <3> HIDE DEF match
    <3> QED BY <1>1, <1>2, <1>4, <1>5, <3>1, WriterStep
  <2> QED BY <2>2, <2>3
<1>7. CASE ViewResponses(w)
  <2>1. wpc[w] = "view_responses" /\ ~EntityResponses(w)
    BY <1>7 DEF ViewResponses, EntityResponses
  <2>2. \A q : ~OldDue(wpc[w], m, q) /\ ~ListDue(wpc[w], m, q) /\ (ResponseDue(wpc[w], m, q) => q \in match)
    BY <2>1 DEF OldDue, ListDue, ResponseDue
  <2> HIDE DEF match
  <2> QED BY <1>1, <1>2, <1>4, <1>5, <2>2, WriterStep
<1> QED BY <1>6, <1>7

LEMMA WriteCoherent ==
    ASSUME TypeOK, Coherent, NEW w \in Writers, Write(w)
    PROVE  Coherent'
  BY CommitCoherent, BumpCoherent, RowsCoherent, ResponsesCoherent DEF Write

\* moka only takes slots out of service.
LEMMA MokaSlots ==
    ASSUME TypeOK, NEW q \in Queries, Expire(q) \/ Evict(q), NEW p \in Queries
    PROVE  Kept(row_cache[p], row_cache'[p]) /\ Kept(response_cache[p], response_cache'[p])
<1>1. row_cache[q] \in Slot /\ response_cache[q] \in Slot
  BY DEF TypeOK
<1>2. Expired(row_cache[q]).phase = "dead" /\ Expired(response_cache[q]).phase = "dead"
  BY <1>1, SlotFacts
<1>3. /\ row_cache'[p] = row_cache[p] \/ row_cache'[p].phase # "live"
      /\ response_cache'[p] = response_cache[p] \/ response_cache'[p].phase # "live"
  <2>1. CASE Expire(q)
    BY <1>2, <2>1 DEF TypeOK, Expire
  <2>2. CASE Evict(q)
    BY <2>2, SlotFacts DEF TypeOK, Evict
  <2> QED BY <2>1, <2>2
<1> QED BY <1>3 DEF Kept

LEMMA MokaCoherent ==
    ASSUME TypeOK, Coherent, NEW q \in Queries, Expire(q) \/ Evict(q)
    PROVE  Coherent'
<1>1. UNCHANGED <<db, rpc, query, rows, suspect, wpc, mutation>>
  BY DEF Expire, Evict, readers
<1>2. \A p \in Queries, e \in Entities : RowOK(p, e)' /\ ResponseOK(p, e)'
  BY <1>1, MokaSlots, ReadRows, ReadResponses
<1>3. \A t \in Readers, e \in Entities : ReaderOK(t, e)'
  BY <1>1 DEF Coherent, ReaderOK, Holding, Current, Has
<1> QED BY <1>2, <1>3 DEF Coherent

\* Coherence for any number of readers, writers, queries and definitions:
\* - what a reader holds and is not suspect was current when it was taken and
\*   no commit has come since;
\* - a row slot is current until a commit, and again once the eviction the
\*   commit has announced for it is done;
\* - so is a response slot, whose eviction comes after that of the row slots,
\*   so that no response is built from a row slot about to go.
LEMMA CoherentAlways == Spec => []Coherent
<1>1. Init => Coherent
  BY SlotFacts DEF Init, Coherent, RowOK, ReaderOK, ResponseOK, Reachable, Holding
<1>2. TypeOK /\ Coherent /\ [Next]_vars => Coherent'
  <2>1. TypeOK /\ Coherent /\ UNCHANGED vars => Coherent'
    <3> SUFFICES ASSUME TypeOK, Coherent, UNCHANGED vars
                 PROVE  Coherent'
      OBVIOUS
    <3>1. \A q \in Queries, e \in Entities : RowOK(q, e)' /\ ResponseOK(q, e)'
      BY ReadRows, ReadResponses DEF vars, Kept
    <3>2. \A t \in Readers, e \in Entities : ReaderOK(t, e)'
      BY DEF vars, Coherent, ReaderOK, Holding, Current, Has
    <3> QED BY <3>1, <3>2 DEF Coherent
  <2> QED BY <2>1, ReadCoherent, WriteCoherent, MokaCoherent DEF Next
<1> QED BY <1>1, <1>2, TypeCorrect, PTL DEF Spec

(* Coherence of updates and deletes (execute_mutation_impl): once such a   *)
(* mutation has returned, neither tier serves the old version of its row,  *)
(* unless the mutation missed the entry by what its definition and its     *)
(* result row name, or ended in an error after its commit, or the fill of  *)
(* the entry overlapped it, or the entry is outside the indexes.           *)
THEOREM NoOldRowServed == Spec => []NoOldRow
<1>1. Coherent => NoOldRow
  BY PendingFacts DEF Coherent, RowOK, ResponseOK, Current, NoOldRow, Settled, Reachable
<1> QED BY <1>1, CoherentAlways, PTL

(* Coherence of creates (execute_mutation_impl): once a create has         *)
(* returned, every cached result of two or more rows that should hold the  *)
(* new row does, in both tiers, under the same provisos: a create whose    *)
(* result row has an entity_id, or whose declared views are not the        *)
(* list's, evicts no such list and makes it suspect.                       *)
THEOREM ListsAreComplete == Spec => []ListsComplete
<1>1. Coherent => ListsComplete
  BY PendingFacts, ScopeAssumption
     DEF Coherent, RowOK, ResponseOK, Has, ListsComplete, Settled, Reachable
<1> QED BY <1>1, CoherentAlways, PTL

=============================================================================
