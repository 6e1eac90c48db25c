--------------------------- MODULE ObserverPipeline ---------------------------
(***************************************************************************)
(* The outbox bridge and the consuming workers, joined by the JetStream    *)
(* stream: the consumer's publisher is the bridge.  A change log row       *)
(* becomes one message per publication, and each message carries an event  *)
(* id of its own (to_entity_event draws a fresh one unless nats_event_id   *)
(* is set, and that column is only set together with nats_published_at,    *)
(* after which the row is not published again).                            *)
(***************************************************************************)
EXTENDS EventConsumer

CONSTANTS MaxRow, Unknown, Bridges, BatchSize   \* of NatsBridge; rows are events

ASSUME PipelineAssumption ==
    /\ MaxRow \in Nat
    /\ 1..MaxRow \subseteq Events
    /\ Unknown \subseteq 1..MaxRow
    /\ BatchSize \in Nat \ {0}

VARIABLES row, marked, checkpoint, bridgePc, cursor, batch, stale, passed

bridgeVars == <<row, marked, checkpoint, bridgePc, cursor, batch, stale, passed>>
consumerVars == <<acked, claims, worker, pushCount, history>>
pvars == <<bridgeVars, stream, consumerVars>>

Bridge == INSTANCE NatsBridge WITH MaxPublish <- MaxMsg, pc <- bridgePc

PipelineInit == Bridge!Init /\ Init

BridgeStep == Bridge!Next /\ UNCHANGED consumerVars
ConsumerStep == ConsumerNext /\ UNCHANGED bridgeVars

PipelineNext == BridgeStep \/ ConsumerStep

PipelineSpec == PipelineInit /\ [][PipelineNext]_pvars

-----------------------------------------------------------------------------
MessagesOf(i) == {m \in 1..Len(stream) : stream[m] = i}

\* From the change log to the actions: a committed row that the checkpoint has
\* passed has a message, and once its messages are acknowledged and no worker
\* is on them, one of them was handled to its end.  Excused are the rows the
\* bridge cannot convert or passed over, and messages a crash interrupted.
EndToEnd ==
    \A i \in 1..MaxRow :
        /\ row[i] = "committed" /\ i <= checkpoint
        /\ \A m \in MessagesOf(i) : m \in acked /\ \A w \in Workers : msg[w] # m
        => \/ i \in Unknown \cup passed
           \/ MessagesOf(i) \cap (finished \cup interrupted) # {}

\* What deduped_executor.rs promises of at-least-once delivery: no action of a
\* row runs twice while no claim lapses.
RowActionsOnce ==
    lapsed = {} =>
        \A m, n \in 1..Len(stream) :
            m # n /\ stream[m] = stream[n] =>
                \A a \in 1..NumActions : runs[m][a] = 0 \/ runs[n][a] = 0
=============================================================================
