------------------------------ MODULE ChangeFeed ------------------------------
(***************************************************************************)
(* What an outbox bridge promises: an at-least-once feed of a change log.  *)
(* Committed rows are delivered in any order and any number of times; the  *)
(* position that a restart resumes from never stands after a row that may  *)
(* still have to be delivered.  Rows that are excused (they cannot be      *)
(* converted, or had not committed when a later row was read) are outside  *)
(* the promise.                                                            *)
(***************************************************************************)
EXTENDS Naturals, Sequences

CONSTANT Ids    \* the ids of the log, natural numbers from 1

VARIABLES
    log,        \* committed rows
    feed,       \* deliveries, in order
    excused,    \* rows the feed does not promise
    position    \* where a restart resumes

feedVars == <<log, feed, excused, position>>

Delivered == {feed[k] : k \in 1..Len(feed)}

Init ==
    /\ log = {}
    /\ feed = << >>
    /\ excused \subseteq Ids
    /\ position = 0

\* A row before the position commits only if it is excused.
Commit(i) ==
    /\ i \notin log
    /\ i > position \/ i \in excused
    /\ log' = log \cup {i}
    /\ UNCHANGED <<feed, excused, position>>

Deliver(i) ==
    /\ i \in log
    /\ feed' = Append(feed, i)
    /\ UNCHANGED <<log, excused, position>>

\* Only a row that has not committed can be excused.
Excuse(S) ==
    /\ S \cap log = {}
    /\ excused' = excused \cup S
    /\ UNCHANGED <<log, feed, position>>

Move(p) ==
    /\ \A i \in log : i <= p => i \in Delivered \cup excused
    /\ position' = p
    /\ UNCHANGED <<log, feed, excused>>

Next ==
    \/ \E i \in Ids : Commit(i) \/ Deliver(i)
    \/ \E S \in SUBSET Ids : Excuse(S)
    \/ \E p \in Ids \cup {0} : Move(p)

Spec == Init /\ [][Next]_feedVars
=============================================================================
