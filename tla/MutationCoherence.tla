-------------------------- MODULE MutationCoherence --------------------------
(***************************************************************************)
(* Queries and mutations over the two cache tiers of the executor: the     *)
(* response cache above, the row cache of CachedDatabaseAdapter below, the *)
(* database at the bottom.                                                 *)
(*                                                                         *)
(* A query looks into the response cache, then into the row cache, then    *)
(* into the database, and fills what it missed on the way back.  A         *)
(* mutation commits in the database and then invalidates the row cache and *)
(* the response cache, one call after the other.  Nothing is locked across *)
(* these steps.                                                            *)
(*                                                                         *)
(* What a mutation invalidates depends on its definition and on what its   *)
(* result row names, never on whether it created, updated or deleted: an   *)
(* entity_id leads to eviction by entity, a missing one to eviction of     *)
(* lists, and declared views replace the view of the return type.  A       *)
(* mutation may therefore miss entries that it made stale.                 *)
(*                                                                         *)
(* The entities of one type are modelled, and the views that show them.  A *)
(* cache call is one step here: what happens inside is QueryResultCache's  *)
(* subject, and what it leaves behind is kept, namely that a put over a    *)
(* value moka still holds, or one that a removal overlaps, ends up outside *)
(* the reverse indexes.                                                    *)
(***************************************************************************)
EXTENDS Integers, FiniteSets

CONSTANTS
    Entities,     \* the rows of one GraphQL type, by id
    Views,        \* database views that show them
    TypeView,     \* sql_source of the type: a set of at most one view
    Dependents,   \* what the cascade invalidator adds to each view
    Queries,      \* cached queries
    ViewOf,       \* the view a query reads
    Scope,        \* the entities its WHERE clause selects
    WithIds,      \* the queries whose rows the entity index knows: they select
                  \* id, and the name of their view gives the type
    Definitions,  \* of mutations: invalidates_views, and the view of return_type
    Readers,      \* concurrent queries
    Writers,      \* concurrent mutations
    MaxWrites,    \* bound on the versions, hence on committed mutations
    Faulty        \* may a committed mutation end in an error?

ASSUME ViewsAssumption ==
    /\ TypeView \subseteq Views
    /\ Dependents \in [Views -> SUBSET Views]
    /\ ViewOf \in [Queries -> Views]
    /\ Definitions \subseteq [invalidates_views : SUBSET Views, return_view : SUBSET Views]
ASSUME ScopeAssumption == Scope \in [Queries -> SUBSET Entities]
ASSUME WithIdsAssumption == WithIds \subseteq Queries
ASSUME BoundsAssumption == MaxWrites \in Nat \ {0} /\ Faulty \in BOOLEAN
ASSUME EntitiesAssumption == IsFiniteSet(Entities)

VARIABLES
    db,         \* version of each row, 0 while there is no such row
    writes,     \* version of the last committed write; the first rows have version 1
    row_cache,  \* QueryResultCache: one slot per query
    response_cache,  \* ResponseCache: one slot per query
    rpc,        \* where each reader is
    query,      \* the query it runs
    rows,       \* the rows it holds
    wpc,        \* where each writer is
    mutation,   \* what it runs
    suspect     \* history: entities a reader's rows may be out of date for

vars == <<db, writes, row_cache, response_cache, rpc, query, rows, wpc, mutation, suspect>>
caches == <<row_cache, response_cache>>
readers == <<rpc, query, rows>>

-----------------------------------------------------------------------------
Versions == 0 .. MaxWrites
NoRows == [e \in Entities |-> 0]

\* A slot's suspect (history) are the entities it may be out of date for.
Slot == [phase : {"absent", "live", "dead"}, rows : [Entities -> Versions],
         indexed : BOOLEAN, suspect : SUBSET Entities]
Empty == [phase |-> "absent", rows |-> NoRows, indexed |-> FALSE, suspect |-> {}]

\* A mutation, its definition, and what its result row names: nothing, an
\* entity_id alone, or entity_id and entity_type.
Mutation == [entity : Entities, definition : Definitions, names : {"nothing", "id", "entity"}]
NoMutation == [names |-> "none"]

ReaderPcs == {"idle", "row_get", "db_read", "row_put", "response_put"}
WriterPcs == {"idle", "bump", "entity_rows", "entity_responses",
              "view_rows", "view_responses"}

-----------------------------------------------------------------------------
(* What a mutation invalidates.                                            *)

HasEntityId(m) == m.names # "nothing"

\* Entity-aware eviction takes both columns.
ByEntity(m) == m.names = "entity"

\* views_to_invalidate: the declared views, or else the one of the return type.
ViewsToInvalidate(m) ==
    IF m.definition.invalidates_views = {} THEN m.definition.return_view
    ELSE m.definition.invalidates_views

ByViews(m) ==
    /\ ~HasEntityId(m) \/ m.definition.invalidates_views # {}
    /\ ViewsToInvalidate(m) # {}

\* CachedDatabaseAdapter adds the dependent views, the response cache does not.
Expanded(views) == views \cup UNION {Dependents[v] : v \in views}

Reading(views) == {q \in Queries : ViewOf[q] \in views}

\* The queries whose row slots, if they hold the entity, the mutation evicts ...
EntityRowTargets(m) == IF ByEntity(m) THEN WithIds ELSE {}

\* ... those whose list slots it evicts, and whose other slots too when the
\* result has an entity_id ...
ViewRowTargets(m) == IF ByViews(m) THEN Reading(Expanded(ViewsToInvalidate(m))) ELSE {}

\* ... and those whose responses it evicts, in its two calls.
EntityResponseTargets(m) == IF ByEntity(m) THEN Reading(TypeView) ELSE {}
ViewResponseTargets(m) == IF ByViews(m) THEN Reading(ViewsToInvalidate(m)) ELSE {}

\* The queries whose row slots no invalidation of m brings up to date: m
\* created a row and does not evict lists, or m changed a row and evicts
\* neither by entity nor the whole view.
RowsMissed(m, created) ==
    Queries \ (IF created THEN ViewRowTargets(m)
               ELSE EntityRowTargets(m) \cup IF HasEntityId(m) THEN ViewRowTargets(m) ELSE {})

ResponsesMissed(m) == Queries \ (EntityResponseTargets(m) \cup ViewResponseTargets(m))

-----------------------------------------------------------------------------
\* Committed, with invalidations still to come.
Committed(w, e) == wpc[w] # "idle" /\ mutation[w].entity = e
Active(e) == \E w \in Writers : Committed(w, e)

\* ... and one of them is to reach the row slot of q.
RowsDue(w, q) ==
    \/ wpc[w] \in {"bump", "entity_rows"} /\ q \in EntityRowTargets(mutation[w])
    \/ /\ wpc[w] \in {"bump", "entity_rows", "entity_responses", "view_rows"}
       /\ q \in ViewRowTargets(mutation[w])

RowsPending(q) ==
    {e \in Entities : \E w \in Writers : Committed(w, e) /\ RowsDue(w, q)}

InResult(r) == {e \in Entities : r[e] # 0}
IsList(r) == Cardinality(InResult(r)) > 1

TypeOK ==
    /\ db \in [Entities -> Versions]
    /\ writes \in Versions
    /\ row_cache \in [Queries -> Slot]
    /\ response_cache \in [Queries -> Slot]
    /\ rpc \in [Readers -> ReaderPcs]
    /\ query \in [Readers -> Queries]
    /\ rows \in [Readers -> [Entities -> Versions]]
    /\ wpc \in [Writers -> WriterPcs]
    /\ mutation \in [Writers -> Mutation \cup {NoMutation}]
    /\ \A w \in Writers : wpc[w] # "idle" => mutation[w] \in Mutation
    /\ suspect \in [Readers -> SUBSET Entities]

Init ==
    /\ db \in [Entities -> {0, 1}]
    /\ writes = 1
    /\ row_cache = [q \in Queries |-> Empty]
    /\ response_cache = [q \in Queries |-> Empty]
    /\ rpc = [t \in Readers |-> "idle"]
    /\ query \in [Readers -> Queries]
    /\ rows = [t \in Readers |-> NoRows]
    /\ wpc = [w \in Writers |-> "idle"]
    /\ mutation = [w \in Writers |-> NoMutation]
    /\ suspect = [t \in Readers |-> {}]

-----------------------------------------------------------------------------
(* Queries: execute_query_with_security and execute_with_projection_impl.  *)

Goto(t, label) == rpc' = [rpc EXCEPT ![t] = label]

\* A hit returns the cached response; a miss goes on.
ResponseGet(t, q) ==
    /\ rpc[t] = "idle"
    /\ response_cache[q].phase # "live"
    /\ query' = [query EXCEPT ![t] = q]
    /\ Goto(t, "row_get")
    /\ UNCHANGED <<db, writes, caches, rows, wpc, mutation, suspect>>

RowGet(t) ==
    LET slot == row_cache[query[t]] IN
    /\ rpc[t] = "row_get"
    /\ IF slot.phase = "live"
       THEN /\ rows' = [rows EXCEPT ![t] = slot.rows]
            /\ suspect' = [suspect EXCEPT ![t] =
                  IF slot.indexed THEN slot.suspect \cup RowsPending(query[t]) ELSE Entities]
            /\ Goto(t, "response_put")
       ELSE Goto(t, "db_read") /\ UNCHANGED <<rows, suspect>>
    /\ UNCHANGED <<db, writes, caches, query, wpc, mutation>>

DbRead(t) ==
    /\ rpc[t] = "db_read"
    /\ \/ /\ rows' = [rows EXCEPT ![t] =
                        [e \in Entities |-> IF e \in Scope[query[t]] THEN db[e] ELSE 0]]
          /\ suspect' = [suspect EXCEPT ![t] = {}]
          /\ Goto(t, "row_put")
       \/ Faulty /\ Goto(t, "idle") /\ UNCHANGED <<rows, suspect>>
    /\ UNCHANGED <<db, writes, caches, query, wpc, mutation>>

\* What a put of reader t leaves in a slot.
Filled(t, slot, indexed) ==
    LET known == indexed /\ slot.phase = "absent" IN
    [phase |-> "live", rows |-> rows[t], indexed |-> known,
     suspect |-> IF known THEN suspect[t] ELSE {}]

\* put_arc stores the rows unless one of its limits says no.
RowPut(t) ==
    LET q == query[t] IN
    /\ rpc[t] = "row_put"
    /\ \/ \E indexed \in BOOLEAN :
             row_cache' = [row_cache EXCEPT ![q] = Filled(t, @, indexed)]
       \/ UNCHANGED row_cache
    /\ Goto(t, "response_put")
    /\ UNCHANGED <<db, writes, response_cache, query, rows, wpc, mutation, suspect>>

\* Field-level access control may refuse the query before the response is
\* built, and the response cache may be disabled.
ResponsePut(t) ==
    LET q == query[t] IN
    /\ rpc[t] = "response_put"
    /\ \/ \E indexed \in BOOLEAN :
             response_cache' = [response_cache EXCEPT ![q] = Filled(t, @, indexed)]
       \/ UNCHANGED response_cache
    /\ Goto(t, "idle")
    /\ rows' = [rows EXCEPT ![t] = NoRows]
    /\ suspect' = [suspect EXCEPT ![t] = {}]
    /\ UNCHANGED <<db, writes, row_cache, query, wpc, mutation>>

-----------------------------------------------------------------------------
(* Mutations: execute_mutation_query_with_security.                        *)

\* The mutation returns, with or without an error.
Return(w) ==
    /\ wpc' = [wpc EXCEPT ![w] = "idle"]
    /\ mutation' = [mutation EXCEPT ![w] = NoMutation]

WriterGoto(w, label) == wpc' = [wpc EXCEPT ![w] = label] /\ UNCHANGED mutation

\* History: what the slots of these queries hold may be out of date for e.
Doubted(cache, queries, e) ==
    [q \in Queries |-> IF q \in queries /\ cache[q].phase = "live" /\ cache[q].indexed
                       THEN [cache[q] EXCEPT !.suspect = @ \cup {e}] ELSE cache[q]]

\* The mutation ends in an error after its commit: nothing is invalidated.
Fail(w, e) ==
    /\ Faulty
    /\ Return(w)
    /\ row_cache' = Doubted(row_cache, Queries, e)
    /\ response_cache' = Doubted(response_cache, Queries, e)

\* The reader has its rows and is about to cache them.
Holding(t) == rpc[t] \in {"row_put", "response_put"}

\* Mutant: the commit is not followed up.
CommitForgets(w, m, version) ==
    /\ wpc[w] = "idle"
    /\ writes < MaxWrites
    /\ version = writes + 1 \/ (version = 0 /\ db[m.entity] # 0)
    /\ writes' = writes + 1
    /\ db' = [db EXCEPT ![m.entity] = version]
    /\ suspect' = [t \in Readers |-> IF Holding(t) THEN suspect[t] \cup {m.entity} ELSE suspect[t]]
    /\ wpc' = [wpc EXCEPT ![w] = "bump"]
    /\ UNCHANGED <<caches, readers, mutation>>

\* The database function commits a new row or version, or (0) a deletion.
\* Without a usable result row (a lost reply, no rows, a row that does not
\* parse) the error is returned at once.  A call that fails or reports an error
\* outcome wrote nothing and changes nothing; one that succeeds without a write
\* evicts slots, as Evict does.
Commit(w, m, version) ==
    /\ wpc[w] = "idle"
    /\ writes < MaxWrites
    /\ version = writes + 1 \/ (version = 0 /\ db[m.entity] # 0)
    /\ writes' = writes + 1
    /\ db' = [db EXCEPT ![m.entity] = version]
    /\ suspect' = [t \in Readers |-> IF Holding(t) THEN suspect[t] \cup {m.entity} ELSE suspect[t]]
    /\ \/ /\ wpc' = [wpc EXCEPT ![w] = "bump"]
          /\ mutation' = [mutation EXCEPT ![w] = m]
          /\ row_cache' = Doubted(row_cache, RowsMissed(m, db[m.entity] = 0), m.entity)
          /\ response_cache' = Doubted(response_cache, ResponsesMissed(m), m.entity)
       \/ Fail(w, m.entity)
    /\ UNCHANGED readers

\* The view-level calls, if any, come last.
ViewsOrReturn(w) ==
    IF ByViews(mutation[w]) THEN WriterGoto(w, "view_rows") ELSE Return(w)

\* bump_fact_table_versions; its error is returned before any invalidation.
Bump(w) ==
    /\ wpc[w] = "bump"
    /\ \/ /\ IF ByEntity(mutation[w]) THEN WriterGoto(w, "entity_rows") ELSE ViewsOrReturn(w)
          /\ UNCHANGED caches
       \/ Fail(w, mutation[w].entity)
    /\ UNCHANGED <<db, writes, readers, suspect>>

\* An invalidation call removes the indexed slots it matches.
Invalidated(cache, match) ==
    [q \in Queries |-> IF cache[q].indexed /\ q \in match THEN Empty ELSE cache[q]]

\* Mutant: the entity index only knows single-row results.
EntityRowsPoint(w) ==
    LET e == mutation[w].entity IN
    /\ wpc[w] = "entity_rows"
    /\ row_cache' = Invalidated(row_cache,
          {q \in WithIds : row_cache[q].rows[e] # 0 /\ ~IsList(row_cache[q].rows)})
    /\ WriterGoto(w, "entity_responses")
    /\ UNCHANGED <<db, writes, response_cache, readers, suspect>>

\* invalidate_by_entity: the slots whose rows carry the id of the entity.
EntityRows(w) ==
    LET e == mutation[w].entity IN
    /\ wpc[w] = "entity_rows"
    /\ row_cache' = Invalidated(row_cache,
          {q \in EntityRowTargets(mutation[w]) : row_cache[q].rows[e] # 0})
    /\ WriterGoto(w, "entity_responses")
    /\ UNCHANGED <<db, writes, response_cache, readers, suspect>>

\* The response cache has no entity index: the view of the type goes.
EntityResponses(w) ==
    /\ wpc[w] = "entity_responses"
    /\ response_cache' = Invalidated(response_cache, EntityResponseTargets(mutation[w]))
    /\ ViewsOrReturn(w)
    /\ UNCHANGED <<db, writes, row_cache, readers, suspect>>

\* Mutant: without an entity_id the slots that hold the entity go.
ViewRowsByEntity(w) ==
    LET e == mutation[w].entity IN
    /\ wpc[w] = "view_rows"
    /\ row_cache' = Invalidated(row_cache,
          {q \in ViewRowTargets(mutation[w]) : row_cache[q].rows[e] # 0})
    /\ WriterGoto(w, "view_responses")
    /\ UNCHANGED <<db, writes, response_cache, readers, suspect>>

\* invalidate_list_queries without an entity_id, invalidate_views with one.
ViewRows(w) ==
    /\ wpc[w] = "view_rows"
    /\ row_cache' = Invalidated(row_cache,
          {q \in ViewRowTargets(mutation[w]) :
              HasEntityId(mutation[w]) \/ IsList(row_cache[q].rows)})
    /\ WriterGoto(w, "view_responses")
    /\ UNCHANGED <<db, writes, response_cache, readers, suspect>>

ViewResponses(w) ==
    /\ wpc[w] = "view_responses"
    /\ response_cache' = Invalidated(response_cache, ViewResponseTargets(mutation[w]))
    /\ Return(w)
    /\ UNCHANGED <<db, writes, row_cache, readers, suspect>>

-----------------------------------------------------------------------------
(* moka: a slot's TTL runs out, and maintenance drops slots.               *)

\* What only a get would have told apart is forgotten.
Expired(slot) ==
    [phase |-> "dead", rows |-> IF slot.indexed THEN slot.rows ELSE NoRows,
     indexed |-> slot.indexed, suspect |-> {}]

Expire(q) ==
    /\ \/ /\ row_cache[q].phase = "live"
          /\ row_cache' = [row_cache EXCEPT ![q] = Expired(@)]
          /\ UNCHANGED response_cache
       \/ /\ response_cache[q].phase = "live"
          /\ response_cache' = [response_cache EXCEPT ![q] = Expired(@)]
          /\ UNCHANGED row_cache
    /\ UNCHANGED <<db, writes, readers, wpc, mutation, suspect>>

Evict(q) ==
    /\ \/ /\ row_cache[q].phase # "absent"
          /\ row_cache' = [row_cache EXCEPT ![q] = Empty]
          /\ UNCHANGED response_cache
       \/ /\ response_cache[q].phase # "absent"
          /\ response_cache' = [response_cache EXCEPT ![q] = Empty]
          /\ UNCHANGED row_cache
    /\ UNCHANGED <<db, writes, readers, wpc, mutation, suspect>>

-----------------------------------------------------------------------------
Read(t) ==
    \/ \E q \in Queries : ResponseGet(t, q)
    \/ RowGet(t)
    \/ DbRead(t)
    \/ RowPut(t)
    \/ ResponsePut(t)

Write(w) ==
    \/ \E m \in Mutation, version \in Versions : Commit(w, m, version)
    \/ Bump(w)
    \/ EntityRows(w)
    \/ EntityResponses(w)
    \/ ViewRows(w)
    \/ ViewResponses(w)

Next ==
    \/ \E t \in Readers : Read(t)
    \/ \E w \in Writers : Write(w)
    \/ \E q \in Queries : Expire(q) \/ Evict(q)

Spec == Init /\ [][Next]_vars

-----------------------------------------------------------------------------
(* Properties                                                              *)

\* The slots that are to be up to date for entity e: the cache returns them,
\* the indexes know them, no mutation of e is under way, and since their fill
\* none was committed that misses them, by what its definition and its result
\* row name, or that ended in an error.
Settled(slot, e) ==
    /\ slot.phase = "live" /\ slot.indexed
    /\ e \notin slot.suspect
    /\ ~Active(e)

\* Once an update or a delete has returned, neither tier serves the old version
\* of the row, or the deleted row.
NoOldRow ==
    \A q \in Queries, e \in Entities :
        /\ Settled(row_cache[q], e) => row_cache[q].rows[e] \in {0, db[e]}
        /\ Settled(response_cache[q], e) => response_cache[q].rows[e] \in {0, db[e]}

\* Once a create has returned, each tier serves the new row in every result of
\* two or more rows that it belongs to.
ListsComplete ==
    \A q \in Queries : \A e \in Scope[q] : db[e] # 0 =>
        /\ Settled(row_cache[q], e) /\ IsList(row_cache[q].rows) => row_cache[q].rows[e] # 0
        /\ Settled(response_cache[q], e) /\ IsList(response_cache[q].rows)
              => response_cache[q].rows[e] # 0

=============================================================================
