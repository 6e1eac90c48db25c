----------------------------- MODULE EventConsumer -----------------------------
(***************************************************************************)
(* The consuming side of the observers: workers that take messages from    *)
(* the durable JetStream consumer (transport/nats.rs subscribe, the loop   *)
(* of executor/retry.rs run_with_transport) and run the actions of the     *)
(* matching observers through the deduplicating executor                   *)
(* (deduped_executor.rs, dedup/redis.rs, executor/).                       *)
(*                                                                         *)
(* The loop of retry.rs itself calls the plain executor; factory.rs hands  *)
(* the deduplicating one out for the same interface, and that is the pair  *)
(* modelled.  Without a store every event goes the way of ClaimFails.      *)
(* dead_letter_subject, a second copy of undecodable payloads, and the     *)
(* cache of action results are left out.                                   *)
(*                                                                         *)
(* The workers are tasks of one process that share an executor and its     *)
(* dead letter counter.  A message that is not acknowledged may be         *)
(* delivered again at any time, a claim may expire at any time, every call *)
(* may fail, and the process may crash between any two calls.              *)
(***************************************************************************)
EXTENDS Naturals, Sequences, FiniteSets

CONSTANTS
    Events,         \* what a message carries
    Broken,         \* events whose payload parse_message rejects
    Filtered,       \* events the subscription's filter drops
    Foreign,        \* events outside the executor's tenant scope
    MaxMsg,         \* bound: messages of the stream
    NumActions,     \* actions of the observers, in the order they run
    Skips,          \* <<event, action>>: no match, or the condition is not met
    DlqActions,     \* actions whose failure policy is Dlq; the others log
    MaxAttempts,    \* RetryConfig.max_attempts
    MaxDlq,         \* max_dlq_size
    MaxUnconfirmed, \* bound: pushes of a process stored in spite of an error
    Workers

ASSUME ConsumerAssumption ==
    /\ MaxMsg \in Nat
    /\ NumActions \in Nat
    /\ MaxAttempts \in Nat \ {0}
    /\ MaxDlq \in Nat \ {0}
    /\ MaxUnconfirmed \in Nat
    /\ IsFiniteSet(Workers)
    /\ Broken \cup Filtered \cup Foreign \subseteq Events

Actions == 1..NumActions
Msgs == 1..MaxMsg

VARIABLES
    stream,         \* the messages, by position: the event each one carries
    acked,          \* messages the consumer will not deliver again
    claims,         \* messages whose event id has a key in the dedup store
    pc,             \* where each worker stands
    msg,            \* the message it handles, 0 when idle
    act,            \* the action it runs
    attempt,        \* the attempt of that action
    failed,         \* summary.failed_actions > 0 \/ summary.dlq_errors > 0
    pushCount,      \* dlq_push_count
    pushed,         \* history: entries of failed actions this process put into the DLQ
    unconfirmed,    \* history: those of them whose push returned an error
    runs,           \* history: successes of an action under the current claim
    lapsed,         \* history: messages a worker handled without its own claim
    finished,       \* history: messages whose handling ran to its end
    interrupted     \* history: messages a worker was handling when it crashed

worker == <<pc, msg, act, attempt, failed>>
history == <<pushed, unconfirmed, runs, lapsed, finished, interrupted>>
cvars == <<stream, acked, claims, worker, pushCount, history>>

Event(m) == stream[m]
Running(m) == {w \in Workers : msg[w] = m /\ pc[w] \in {"act", "push", "count", "unclaim"}}

-----------------------------------------------------------------------------
Init ==
    /\ stream = << >>
    /\ acked = {}
    /\ claims = {}
    /\ pc = [w \in Workers |-> "idle"]
    /\ msg = [w \in Workers |-> 0]
    /\ act = [w \in Workers |-> 0]
    /\ attempt = [w \in Workers |-> 0]
    /\ failed = [w \in Workers |-> FALSE]
    /\ pushCount = 0
    /\ pushed = 0
    /\ unconfirmed = 0
    /\ runs = [m \in Msgs |-> [a \in Actions |-> 0]]
    /\ lapsed = {}
    /\ finished = {}
    /\ interrupted = {}

\* A publisher (NatsTransport::publish).
Publish(e) ==
    /\ Len(stream) < MaxMsg
    /\ stream' = Append(stream, e)
    /\ UNCHANGED <<acked, claims, worker, pushCount, history>>

Goto(w, l) == pc' = [pc EXCEPT ![w] = l]

\* The worker is done with its message and asks the stream for the next.
Leave(w) ==
    /\ pc' = [pc EXCEPT ![w] = "idle"]
    /\ msg' = [msg EXCEPT ![w] = 0]
    /\ act' = [act EXCEPT ![w] = 0]
    /\ attempt' = [attempt EXCEPT ![w] = 0]
    /\ failed' = [failed EXCEPT ![w] = FALSE]

Finish(w) ==
    /\ Leave(w)
    /\ finished' = finished \cup {msg[w]}

\* The consumer delivers a message that is not acknowledged.
Deliver(w, m) ==
    /\ pc[w] = "idle"
    /\ m \in 1..Len(stream) /\ m \notin acked
    /\ Goto(w, "ack")
    /\ msg' = [msg EXCEPT ![w] = m]
    /\ UNCHANGED <<stream, acked, claims, act, attempt, failed, pushCount, history>>

\* subscribe acknowledges a message once it is parsed, before it yields the
\* event.
Yield(w) ==
    /\ pc[w] = "ack"
    /\ IF Event(msg[w]) \in Filtered
       THEN Finish(w) /\ UNCHANGED <<pushed, unconfirmed, runs, lapsed, interrupted>>
       ELSE /\ Goto(w, IF Event(msg[w]) \in Broken \cup Foreign THEN "raw" ELSE "claim")
            /\ UNCHANGED <<msg, act, attempt, failed, history>>
    /\ UNCHANGED <<stream, claims, pushCount>>

Ack(w) ==
    /\ acked' = acked \cup {msg[w]}
    /\ Yield(w)

\* A failing acknowledgement is logged and the event is yielded all the same.
AckFails(w) ==
    /\ UNCHANGED acked
    /\ Yield(w)

\* An undecodable payload or a tenant violation: the raw bytes go to the same
\* DLQ, outside the cap and its counter (and not in pushed); a failing push is
\* only logged.
PushRaw(w) ==
    /\ pc[w] = "raw"
    /\ Finish(w)
    /\ UNCHANGED <<stream, acked, claims, pushCount, pushed, unconfirmed, runs, lapsed, interrupted>>

\* Mutant: a SET without NX.
ClaimPlainSet(w) ==
    /\ pc[w] = "claim"
    /\ claims' = claims \cup {msg[w]}
    /\ Goto(w, "act")
    /\ act' = [act EXCEPT ![w] = 1]
    /\ runs' = [runs EXCEPT ![msg[w]] = [a \in Actions |-> 0]]
    /\ UNCHANGED <<stream, acked, msg, attempt, failed, pushCount,
                   pushed, unconfirmed, lapsed, finished, interrupted>>

\* claim_event: SET NX EX.
Claim(w) ==
    /\ pc[w] = "claim"
    /\ msg[w] \notin claims
    /\ claims' = claims \cup {msg[w]}
    /\ Goto(w, "act")
    /\ act' = [act EXCEPT ![w] = 1]
    /\ runs' = [runs EXCEPT ![msg[w]] = [a \in Actions |-> 0]]
    /\ UNCHANGED <<stream, acked, msg, attempt, failed, pushCount,
                   pushed, unconfirmed, lapsed, finished, interrupted>>

\* The event is claimed already: skipped as a duplicate.
Duplicate(w) ==
    /\ pc[w] = "claim"
    /\ msg[w] \in claims
    /\ Leave(w)
    /\ UNCHANGED <<stream, acked, claims, pushCount, history>>

\* Mutant: fail-closed, the event is skipped.
ClaimFailsClosed(w) ==
    /\ pc[w] = "claim"
    /\ Leave(w)
    /\ UNCHANGED <<stream, acked, claims, pushCount, history>>

\* The store gives an error: fail-open.  The SET may have been carried out.
ClaimFails(w) ==
    /\ pc[w] = "claim"
    /\ claims' \in {claims, claims \cup {msg[w]}}
    /\ Goto(w, "act")
    /\ act' = [act EXCEPT ![w] = 1]
    /\ lapsed' = lapsed \cup {msg[w]}
    /\ UNCHANGED <<stream, acked, msg, attempt, failed, pushCount,
                   pushed, unconfirmed, runs, finished, interrupted>>

NextAction(w) ==
    /\ Goto(w, "act")
    /\ act' = [act EXCEPT ![w] = @ + 1]
    /\ attempt' = [attempt EXCEPT ![w] = 0]

\* Mutant: the loop does not move on from an action it skips.
SkipActionStuck(w) ==
    /\ pc[w] = "act" /\ act[w] \in Actions
    /\ <<Event(msg[w]), act[w]>> \in Skips
    /\ UNCHANGED cvars

\* process_event passes over an action that is not selected for the event.
SkipAction(w) ==
    /\ pc[w] = "act" /\ act[w] \in Actions
    /\ <<Event(msg[w]), act[w]>> \in Skips
    /\ NextAction(w)
    /\ UNCHANGED <<stream, acked, claims, msg, failed, pushCount, history>>

Attempts(w) ==
    /\ pc[w] = "act" /\ act[w] \in Actions
    /\ <<Event(msg[w]), act[w]>> \notin Skips

\* Mutant: the retry loop does not return on success.
ActionSucceedsAgain(w) ==
    /\ Attempts(w)
    /\ runs' = [runs EXCEPT ![msg[w]][act[w]] = IF @ < 2 THEN @ + 1 ELSE 2]
    /\ IF attempt[w] + 1 < MaxAttempts
       THEN attempt' = [attempt EXCEPT ![w] = @ + 1] /\ UNCHANGED <<pc, act>>
       ELSE NextAction(w)
    /\ UNCHANGED <<stream, acked, claims, msg, failed, pushCount,
                   pushed, unconfirmed, lapsed, finished, interrupted>>

ActionSucceeds(w) ==
    /\ Attempts(w)
    /\ runs' = [runs EXCEPT ![msg[w]][act[w]] = IF @ < 2 THEN @ + 1 ELSE 2]
    /\ NextAction(w)
    /\ UNCHANGED <<stream, acked, claims, msg, failed, pushCount,
                   pushed, unconfirmed, lapsed, finished, interrupted>>

\* Mutant: one attempt too many.
RetryOnceMore(w) ==
    /\ Attempts(w)
    /\ attempt[w] < MaxAttempts
    /\ attempt' = [attempt EXCEPT ![w] = @ + 1]
    /\ UNCHANGED <<stream, acked, claims, pc, msg, act, failed, pushCount, history>>

\* A transient error with attempts left.
Retry(w) ==
    /\ Attempts(w)
    /\ attempt[w] + 1 < MaxAttempts
    /\ attempt' = [attempt EXCEPT ![w] = @ + 1]
    /\ UNCHANGED <<stream, acked, claims, pc, msg, act, failed, pushCount, history>>

\* Mutant: the cap is compared with > instead of >=.
ActionFailsOverCap(w) ==
    /\ Attempts(w)
    /\ failed' = [failed EXCEPT ![w] = TRUE]
    /\ IF act[w] \in DlqActions /\ pushCount <= MaxDlq
       THEN Goto(w, "push") /\ UNCHANGED <<act, attempt>>
       ELSE NextAction(w)
    /\ UNCHANGED <<stream, acked, claims, msg, pushCount, history>>

\* handle_action_failure, after a permanent error (at any attempt) or the last
\* attempt.  The cap of the DLQ is checked here, before the push.
ActionFails(w) ==
    /\ Attempts(w)
    /\ failed' = [failed EXCEPT ![w] = TRUE]
    /\ IF act[w] \in DlqActions /\ pushCount < MaxDlq
       THEN Goto(w, "push") /\ UNCHANGED <<act, attempt>>
       ELSE NextAction(w)
    /\ UNCHANGED <<stream, acked, claims, msg, pushCount, history>>

PushDlq(w) ==
    /\ pc[w] = "push"
    /\ pushed' = pushed + 1
    /\ Goto(w, "count")
    /\ UNCHANGED <<stream, acked, claims, msg, act, attempt, failed, pushCount,
                   unconfirmed, runs, lapsed, finished, interrupted>>

\* The push returns an error and is not counted; the entry may be stored.
PushDlqFails(w) ==
    /\ pc[w] = "push"
    /\ \/ UNCHANGED <<pushed, unconfirmed>>
       \/ /\ unconfirmed < MaxUnconfirmed
          /\ pushed' = pushed + 1
          /\ unconfirmed' = unconfirmed + 1
    /\ NextAction(w)
    /\ UNCHANGED <<stream, acked, claims, msg, failed, pushCount,
                   runs, lapsed, finished, interrupted>>

CountPush(w) ==
    /\ pc[w] = "count"
    /\ pushCount' = pushCount + 1
    /\ NextAction(w)
    /\ UNCHANGED <<stream, acked, claims, msg, failed, history>>

\* The summary is complete.
ActionsDone(w) ==
    /\ pc[w] = "act" /\ act[w] \notin Actions
    /\ IF failed[w]
       THEN /\ Goto(w, "unclaim")
            /\ UNCHANGED <<msg, act, attempt, failed, finished>>
       ELSE Finish(w)
    /\ UNCHANGED <<stream, acked, claims, pushCount, pushed, unconfirmed, runs, lapsed, interrupted>>

\* remove: DEL of the key, whoever set it; an error is only logged.
Unclaim(w) ==
    /\ pc[w] = "unclaim"
    /\ claims' \in {claims, claims \ {msg[w]}}
    /\ Finish(w)
    /\ UNCHANGED <<stream, acked, pushCount, pushed, unconfirmed, runs, lapsed, interrupted>>

\* The dedup window ends.
Expire(m) ==
    /\ m \in claims
    /\ claims' = claims \ {m}
    /\ lapsed' = IF Running(m) = {} THEN lapsed ELSE lapsed \cup {m}
    /\ UNCHANGED <<stream, acked, worker, pushCount, pushed, unconfirmed, runs, finished, interrupted>>

\* The process restarts: its tasks and its counter are gone.
Crash ==
    /\ \E w \in Workers : pc[w] # "idle"
    /\ interrupted' = interrupted \cup {msg[w] : w \in {v \in Workers : pc[v] # "idle"}}
    /\ pc' = [w \in Workers |-> "idle"]
    /\ msg' = [w \in Workers |-> 0]
    /\ act' = [w \in Workers |-> 0]
    /\ attempt' = [w \in Workers |-> 0]
    /\ failed' = [w \in Workers |-> FALSE]
    /\ pushCount' = 0
    /\ pushed' = 0
    /\ unconfirmed' = 0
    /\ UNCHANGED <<stream, acked, claims, runs, lapsed, finished>>

Work(w) ==
    \/ \E m \in Msgs : Deliver(w, m)
    \/ Ack(w) \/ AckFails(w) \/ PushRaw(w)
    \/ Claim(w) \/ Duplicate(w) \/ ClaimFails(w)
    \/ SkipAction(w) \/ ActionSucceeds(w) \/ Retry(w) \/ ActionFails(w)
    \/ PushDlq(w) \/ PushDlqFails(w) \/ CountPush(w)
    \/ ActionsDone(w) \/ Unclaim(w)

ConsumerNext ==
    \/ \E w \in Workers : Work(w)
    \/ \E m \in Msgs : Expire(m)
    \/ Crash

Next == ConsumerNext \/ \E e \in Events : Publish(e)

Fairness == \A w \in Workers : WF_cvars(Work(w))

Spec == Init /\ [][Next]_cvars
FairSpec == Spec /\ Fairness

-----------------------------------------------------------------------------
\* The values of the consumer, the dedup store and the workers.
TypeOK ==
    /\ stream \in Seq(Events) /\ Len(stream) <= MaxMsg
    /\ acked \subseteq Msgs /\ claims \subseteq Msgs
    /\ pc \in [Workers -> {"idle", "ack", "raw", "claim", "act", "push", "count", "unclaim"}]
    /\ msg \in [Workers -> Msgs \cup {0}]
    /\ act \in [Workers -> 0..NumActions + 1]
    /\ attempt \in [Workers -> 0..MaxAttempts - 1]
    /\ failed \in [Workers -> BOOLEAN]
    /\ pushCount \in Nat /\ pushed \in Nat /\ unconfirmed \in 0..MaxUnconfirmed
    /\ runs \in [Msgs -> [Actions -> 0..2]]
    /\ lapsed \subseteq Msgs /\ finished \subseteq Msgs /\ interrupted \subseteq Msgs

\* Under one claim of an event each of its actions succeeds at most once,
\* whatever is delivered again and whichever workers get it, unless the claim
\* lapsed: the store failed, or the key expired under a worker that was still
\* running.
OncePerClaim ==
    \A m \in Msgs \ lapsed : \A a \in Actions : runs[m][a] <= 1

\* Two workers run the actions of one event together only if a claim lapsed.
OneRunner == \A m \in Msgs \ lapsed : Cardinality(Running(m)) <= 1

\* The cap on the failed actions a process puts into the DLQ is overrun, by at
\* most one entry per further worker, since the check of the cap and the push
\* are apart, and by the entries whose push returned an error, since only a
\* successful push is counted.
DlqBounded == pushed <= MaxDlq + Cardinality(Workers) - 1 + unconfirmed

\* An acknowledged event that nobody is handling was handled to its end, also
\* when it was skipped as a duplicate of another delivery, unless a crash
\* interrupted its handling.
NoneDropped ==
    \A m \in acked : (\A w \in Workers : msg[w] # m) => m \in finished \cup interrupted

\* Once acknowledgements get through and the process stays up, every message
\* is acknowledged and handled to its end, or was interrupted by a crash.
Handled ==
    <>[][~Crash /\ \A w \in Workers : ~AckFails(w)]_cvars =>
        \A m \in Msgs :
            m <= Len(stream) ~> m \in acked /\ m \in finished \cup interrupted

=============================================================================
