------------------------------ MODULE NatsBridge ------------------------------
(***************************************************************************)
(* The outbox bridge from tb_entity_change_log to NATS JetStream           *)
(* (transport/bridge.rs; mysql_bridge.rs and mssql_bridge.rs run the same  *)
(* loop on other databases).                                               *)
(*                                                                         *)
(* Transactions take ids from a sequence when they insert and commit in    *)
(* any order.  Each bridge reads the rows after its cursor in batches,     *)
(* publishes the ones that are not marked, marks them and saves its cursor *)
(* in a checkpoint row that all bridges of one transport name share.  Every *)
(* call to the database or to NATS may fail, a failing call may have been  *)
(* carried out, and a bridge may crash between any two calls.              *)
(***************************************************************************)
EXTENDS Naturals, Sequences, FiniteSets

CONSTANTS
    MaxRow,         \* bound: rows inserted in a behaviour
    Unknown,        \* rows whose modification type to_entity_event rejects
    Bridges,        \* bridge processes with the same transport name
    BatchSize,      \* BridgeConfig.batch_size
    MaxPublish      \* bound: messages in the stream

ASSUME BridgeAssumption ==
    /\ MaxRow \in Nat
    /\ BatchSize \in Nat \ {0}
    /\ MaxPublish \in Nat
    /\ Unknown \subseteq 1..MaxRow

Rows == 1..MaxRow

VARIABLES
    row,            \* state of the inserting transaction of each id
    marked,         \* rows with nats_published_at
    checkpoint,     \* last_pk of tb_transport_checkpoint, 0 when there is none
    stream,         \* the messages of the JetStream stream: the row of each
    pc,             \* where a bridge stands in run / run_with_shutdown
    cursor,         \* its cursor
    batch,          \* the entries of its batch it has yet to handle
    stale,          \* those that were marked when it fetched them
    passed          \* history: rows uncommitted when a fetch returned a later id

vars == <<row, marked, checkpoint, stream, pc, cursor, batch, stale, passed>>
local == <<pc, cursor, batch, stale>>

Sent == {stream[k] : k \in 1..Len(stream)}

-----------------------------------------------------------------------------
Init ==
    /\ row = [i \in Rows |-> "unborn"]
    /\ marked = {}
    /\ checkpoint = 0
    /\ stream = << >>
    /\ pc = [b \in Bridges |-> "stopped"]
    /\ cursor = [b \in Bridges |-> 0]
    /\ batch = [b \in Bridges |-> {}]
    /\ stale = [b \in Bridges |-> {}]
    /\ passed = {}

(* The transactions that write the change log. *)

Insert(i) ==
    /\ row[i] = "unborn"
    /\ \A j \in Rows : j < i => row[j] # "unborn"
    /\ row' = [row EXCEPT ![i] = "open"]
    /\ UNCHANGED <<marked, checkpoint, stream, local, passed>>

End(i) ==
    /\ row[i] = "open"
    /\ \E s \in {"committed", "aborted"} : row' = [row EXCEPT ![i] = s]
    /\ UNCHANGED <<marked, checkpoint, stream, local, passed>>

-----------------------------------------------------------------------------
(* One bridge. *)

Goto(b, l) == pc' = [pc EXCEPT ![b] = l]

\* An error leaves run(); so does a crash.  The next run() starts afresh.
Exit(b) ==
    /\ Goto(b, "stopped")
    /\ cursor' = [cursor EXCEPT ![b] = 0]
    /\ batch' = [batch EXCEPT ![b] = {}]
    /\ stale' = [stale EXCEPT ![b] = {}]

load_cursor(b) ==
    /\ pc[b] = "stopped"
    /\ Goto(b, "fetch")
    /\ cursor' = [cursor EXCEPT ![b] = checkpoint]
    /\ UNCHANGED <<row, marked, checkpoint, stream, batch, stale, passed>>

\* B is what SELECT ... WHERE pk > c ORDER BY pk LIMIT n returns of rows C.
IsBatch(B, C) ==
    /\ B \subseteq C
    /\ \A i \in B, j \in C \ B : i < j
    /\ Cardinality(B) <= BatchSize
    /\ B = C \/ Cardinality(B) = BatchSize

\* Mutant: the query starts one row late.
ReadableAfterNext(c) == {i \in Rows : row[i] = "committed" /\ i > c + 1}

Readable(c) == {i \in Rows : row[i] = "committed" /\ i > c}

fetch_batch_from_cursor(b) ==
    /\ pc[b] = "fetch"
    /\ \E B \in SUBSET Readable(cursor[b]) :
        /\ IsBatch(B, Readable(cursor[b]))
        /\ Goto(b, IF B = {} THEN "wait" ELSE "entry")
        /\ batch' = [batch EXCEPT ![b] = B]
        /\ stale' = [stale EXCEPT ![b] = B \cap marked]
        /\ passed' = passed \cup {i \in Rows : row[i] = "open" /\ \E j \in B : i < j}
    /\ UNCHANGED <<row, marked, checkpoint, stream, cursor>>

\* A NOTIFY, an error of the listener, or the end of the poll interval.
Wake(b) ==
    /\ pc[b] = "wait"
    /\ Goto(b, "fetch")
    /\ UNCHANGED <<row, marked, checkpoint, stream, cursor, batch, stale, passed>>

IsNext(b, i) == i \in batch[b] /\ \A j \in batch[b] : i <= j

\* Mutant: the cursor moves past the entry.
AdvanceOff(b, i) ==
    /\ cursor' = [cursor EXCEPT ![b] = i + 1]
    /\ batch' = [batch EXCEPT ![b] = @ \ {i}]
    /\ stale' = [stale EXCEPT ![b] = @ \ {i}]

\* The cursor moves to entry i and the loop goes on with the next one.
Advance(b, i) ==
    /\ cursor' = [cursor EXCEPT ![b] = i]
    /\ batch' = [batch EXCEPT ![b] = @ \ {i}]
    /\ stale' = [stale EXCEPT ![b] = @ \ {i}]

SkipEntry(b, i) ==
    /\ pc[b] = "entry"
    /\ IsNext(b, i)
    /\ i \in stale[b] \cup Unknown
    /\ Advance(b, i)
    /\ UNCHANGED <<row, marked, checkpoint, stream, pc, passed>>

Store(i) ==
    /\ Len(stream) < MaxPublish
    /\ stream' = Append(stream, i)

Publish(b, i) ==
    /\ pc[b] = "entry"
    /\ IsNext(b, i)
    /\ i \notin stale[b] \cup Unknown
    /\ Store(i)
    /\ Goto(b, "mark")
    /\ UNCHANGED <<row, marked, checkpoint, cursor, batch, stale, passed>>

\* Mutant: a failed publication advances the cursor and goes on.
PublishFailsContinues(b, i) ==
    /\ pc[b] = "entry"
    /\ IsNext(b, i)
    /\ i \notin stale[b] \cup Unknown
    /\ Store(i) \/ UNCHANGED stream
    /\ Advance(b, i)
    /\ UNCHANGED <<row, marked, checkpoint, pc, passed>>

\* The publication is refused, or stored and its confirmation lost: the loop
\* ends at this entry and the cursor stays before it.
PublishFails(b, i) ==
    /\ pc[b] = "entry"
    /\ IsNext(b, i)
    /\ i \notin stale[b] \cup Unknown
    /\ Store(i) \/ UNCHANGED stream
    /\ Goto(b, "save")
    /\ batch' = [batch EXCEPT ![b] = {}]
    /\ stale' = [stale EXCEPT ![b] = {}]
    /\ UNCHANGED <<row, marked, checkpoint, cursor, passed>>

mark_published(b, i) ==
    /\ pc[b] = "mark"
    /\ IsNext(b, i)
    /\ marked' = marked \cup {i}
    /\ Advance(b, i)
    /\ Goto(b, "entry")
    /\ UNCHANGED <<row, checkpoint, stream, passed>>

\* The error leaves run(); the update may have been carried out.
MarkFails(b, i) ==
    /\ pc[b] = "mark"
    /\ IsNext(b, i)
    /\ marked' \in {marked, marked \cup {i}}
    /\ Exit(b)
    /\ UNCHANGED <<row, checkpoint, stream, passed>>

EntriesDone(b) ==
    /\ pc[b] = "entry"
    /\ batch[b] = {}
    /\ Goto(b, "save")
    /\ UNCHANGED <<row, marked, checkpoint, stream, cursor, batch, stale, passed>>

\* Mutant: the checkpoint is put on the row after the last one handled.
save_cursor_next(b) ==
    /\ pc[b] = "save"
    /\ checkpoint' = IF cursor[b] < MaxRow THEN cursor[b] + 1 ELSE MaxRow
    /\ Goto(b, "fetch")
    /\ UNCHANGED <<row, marked, stream, cursor, batch, stale, passed>>

save_cursor(b) ==
    /\ pc[b] = "save"
    /\ checkpoint' = cursor[b]
    /\ Goto(b, "fetch")
    /\ UNCHANGED <<row, marked, stream, cursor, batch, stale, passed>>

SaveFails(b) ==
    /\ pc[b] = "save"
    /\ checkpoint' \in {checkpoint, cursor[b]}
    /\ Exit(b)
    /\ UNCHANGED <<row, marked, stream, passed>>

\* The shutdown signal is seen before a fetch or during the wait.
Shutdown(b) ==
    /\ pc[b] \in {"fetch", "wait"}
    /\ checkpoint' \in {checkpoint, cursor[b]}
    /\ Exit(b)
    /\ UNCHANGED <<row, marked, stream, passed>>

Crash(b) ==
    /\ pc[b] # "stopped"
    /\ Exit(b)
    /\ UNCHANGED <<row, marked, checkpoint, stream, passed>>

delete_checkpoint ==
    /\ checkpoint' = 0
    /\ UNCHANGED <<row, marked, stream, local, passed>>

Proceed(b) ==
    \/ load_cursor(b)
    \/ fetch_batch_from_cursor(b)
    \/ Wake(b)
    \/ \E i \in Rows : SkipEntry(b, i) \/ Publish(b, i) \/ mark_published(b, i)
    \/ EntriesDone(b)
    \/ save_cursor(b)

Fail(b) ==
    \/ \E i \in Rows : PublishFails(b, i) \/ MarkFails(b, i)
    \/ SaveFails(b)
    \/ Shutdown(b)
    \/ Crash(b)

Next ==
    \/ \E i \in Rows : Insert(i) \/ End(i)
    \/ \E b \in Bridges : Proceed(b) \/ Fail(b)
    \/ delete_checkpoint

\* Transactions end, and a bridge that stopped is started again and takes its
\* next step unless it fails.
Fairness ==
    /\ \A i \in Rows : WF_vars(End(i))
    /\ \A b \in Bridges : WF_vars(Proceed(b))

Spec == Init /\ [][Next]_vars
FairSpec == Spec /\ Fairness

-----------------------------------------------------------------------------
\* The values of the tables, the stream and the bridges.
TypeOK ==
    /\ row \in [Rows -> {"unborn", "open", "committed", "aborted"}]
    /\ marked \subseteq Rows
    /\ checkpoint \in 0..MaxRow
    /\ stream \in Seq(Rows)
    /\ pc \in [Bridges -> {"stopped", "fetch", "wait", "entry", "mark", "save"}]
    /\ cursor \in [Bridges -> 0..MaxRow]
    /\ batch \in [Bridges -> SUBSET Rows]
    /\ stale \in [Bridges -> SUBSET Rows]
    /\ passed \subseteq Rows

\* Nothing the checkpoint has passed is lost: a committed row up to it is in
\* the stream, unless its conversion fails or it committed after a fetch had
\* already returned a later id.  Holds over crashes, failing calls and several
\* bridges that overwrite each other's checkpoint.
NoLoss ==
    \A i \in Rows :
        i <= checkpoint /\ row[i] = "committed" => i \in Sent \cup Unknown \cup passed

\* Once the bridges stop failing, every committed row that no fetch passed
\* over reaches the stream.
Delivered ==
    <>[][\A b \in Bridges : ~Fail(b)]_vars =>
        \A i \in Rows \ Unknown :
            row[i] = "committed" /\ i \notin passed
                ~> i \in Sent \/ Len(stream) = MaxPublish

\* The bridge implements the at-least-once feed: its checkpoint is where a
\* restart resumes, and the rows it passed over or cannot convert are excused.
Feed == INSTANCE ChangeFeed WITH
    Ids <- Rows,
    log <- {i \in Rows : row[i] = "committed"},
    feed <- stream,
    excused <- Unknown \cup passed,
    position <- checkpoint

ImplementsFeed == Feed!Spec
=============================================================================
