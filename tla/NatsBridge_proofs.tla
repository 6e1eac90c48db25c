--------------------------- MODULE NatsBridge_proofs ---------------------------
(***************************************************************************)
(* Proofs about the outbox bridge, for any number of rows and bridges and  *)
(* any batch size: type correctness, that the checkpoint passes nothing    *)
(* that is still owed, and that the bridge implements ChangeFeed.          *)
(***************************************************************************)
EXTENDS NatsBridge, TLAPS

(***************************************************************************)
(* NoLoss alone is not inductive: it says nothing of the cursors that the  *)
(* checkpoint will be set to, nor of the batches the cursors move along.   *)
(***************************************************************************)

\* Row i asks for nothing any more.
Settled(i) ==
    \/ row[i] = "aborted"
    \/ i \in passed
    \/ row[i] = "committed" /\ i \in Sent \cup Unknown

SettledTo(c) == \A i \in Rows : i <= c => Settled(i)

\* The sequence hands out ids in order.
InOrder == \A i, j \in Rows : i < j /\ row[i] = "unborn" => row[j] = "unborn"

\* A batch holds committed rows, and every row below one of its entries that
\* it does not hold is settled.
BatchOK(b) ==
    /\ \A j \in batch[b] : row[j] = "committed"
    /\ \A j \in batch[b] : \A i \in Rows \ batch[b] : i < j => Settled(i)

\* What is marked is in the stream, and so is the entry about to be marked.
MarksOK(b) ==
    /\ stale[b] \subseteq marked
    /\ pc[b] = "mark" => \A i \in Rows : IsNext(b, i) => i \in Sent

Inv ==
    /\ TypeOK
    /\ InOrder
    /\ marked \subseteq Sent
    /\ SettledTo(checkpoint)
    /\ \A b \in Bridges : SettledTo(cursor[b]) /\ BatchOK(b) /\ MarksOK(b)

-----------------------------------------------------------------------------
(* Type correctness. *)

LEMMA TypeInit == Init => TypeOK
BY BridgeAssumption DEF Init, TypeOK, Rows

LEMMA TypeStep == TypeOK /\ [Next]_vars => TypeOK'
<1> SUFFICES ASSUME TypeOK, [Next]_vars
             PROVE  TypeOK'
    OBVIOUS
<1> USE BridgeAssumption DEF TypeOK, Rows
<1>1. ASSUME NEW i \in Rows, Insert(i) \/ End(i)
      PROVE  TypeOK'
    BY <1>1 DEF Insert, End, local
<1>2. ASSUME NEW b \in Bridges, Proceed(b)
      PROVE  TypeOK'
    <2>1. CASE load_cursor(b)
        BY <2>1 DEF load_cursor, Goto
    <2>2. CASE fetch_batch_from_cursor(b)
        <3>1. PICK B \in SUBSET Readable(cursor[b]) :
                /\ Goto(b, IF B = {} THEN "wait" ELSE "entry")
                /\ batch' = [batch EXCEPT ![b] = B]
                /\ stale' = [stale EXCEPT ![b] = B \cap marked]
                /\ passed' = passed \cup {i \in Rows : row[i] = "open" /\ \E j \in B : i < j}
            BY <2>2 DEF fetch_batch_from_cursor
        <3>2. B \subseteq Rows
            BY DEF Readable
        <3>3. (IF B = {} THEN "wait" ELSE "entry") \in {"wait", "entry"}
            OBVIOUS
        <3>4. pc' \in [Bridges -> {"stopped", "fetch", "wait", "entry", "mark", "save"}]
            BY <3>1, <3>3 DEF Goto
        <3>5. passed' \subseteq Rows
            BY <3>1
        <3>6. batch' \in [Bridges -> SUBSET Rows] /\ stale' \in [Bridges -> SUBSET Rows]
            BY <3>1, <3>2
        <3> QED
            BY <2>2, <3>4, <3>5, <3>6 DEF fetch_batch_from_cursor
    <2>3. CASE Wake(b)
        BY <2>3 DEF Wake, Goto
    <2>4. ASSUME NEW i \in Rows, SkipEntry(b, i)
          PROVE  TypeOK'
        BY <2>4 DEF SkipEntry, Advance
    <2>5. ASSUME NEW i \in Rows, Publish(b, i)
          PROVE  TypeOK'
        BY <2>5 DEF Publish, Store, Goto
    <2>6. ASSUME NEW i \in Rows, mark_published(b, i)
          PROVE  TypeOK'
        BY <2>6 DEF mark_published, Advance, Goto
    <2>7. CASE EntriesDone(b)
        BY <2>7 DEF EntriesDone, Goto
    <2>8. CASE save_cursor(b)
        BY <2>8 DEF save_cursor, Goto
    <2> QED
        BY <1>2, <2>1, <2>2, <2>3, <2>4, <2>5, <2>6, <2>7, <2>8 DEF Proceed
<1>3. ASSUME NEW b \in Bridges, Fail(b)
      PROVE  TypeOK'
    <2>1. ASSUME NEW i \in Rows, PublishFails(b, i)
          PROVE  TypeOK'
        <3>1. CASE Store(i)
            BY <2>1, <3>1 DEF PublishFails, Store, Goto
        <3>2. CASE UNCHANGED stream
            BY <2>1, <3>2 DEF PublishFails, Goto
        <3> QED
            BY <2>1, <3>1, <3>2 DEF PublishFails
    <2>2. ASSUME NEW i \in Rows, MarkFails(b, i)
          PROVE  TypeOK'
        BY <2>2 DEF MarkFails, Exit, Goto
    <2>3. CASE SaveFails(b)
        BY <2>3 DEF SaveFails, Exit, Goto
    <2>4. CASE Shutdown(b)
        BY <2>4 DEF Shutdown, Exit, Goto
    <2>5. CASE Crash(b)
        BY <2>5 DEF Crash, Exit, Goto
    <2> QED
        BY <1>3, <2>1, <2>2, <2>3, <2>4, <2>5 DEF Fail
<1>4. CASE delete_checkpoint
    BY <1>4 DEF delete_checkpoint, local
<1>5. CASE UNCHANGED vars
    BY <1>5 DEF vars
<1> QED
    BY <1>1, <1>2, <1>3, <1>4, <1>5 DEF Next

\* Type correctness of the tables, the stream and the bridges.
THEOREM TypeCorrect == Spec => []TypeOK
BY TypeInit, TypeStep, PTL DEF Spec

-----------------------------------------------------------------------------
(* What no step takes back. *)

LEMMA StoreGrows ==
    ASSUME TypeOK, NEW i \in Rows, Store(i)
    PROVE  Sent' = Sent \cup {i}
<1>1. stream' = Append(stream, i) /\ stream \in Seq(Rows)
    BY DEF Store, TypeOK
<1>2. Len(stream') = Len(stream) + 1 /\ Len(stream) \in Nat
    BY <1>1
<1>3. \A k \in 1..Len(stream) : stream'[k] = stream[k]
    BY <1>1
<1>4. stream'[Len(stream) + 1] = i
    BY <1>1
<1>5. Sent' = {stream'[k] : k \in 1..Len(stream')}
    BY DEF Sent
<1>6. ASSUME NEW x \in Sent
      PROVE  x \in Sent'
    <2>1. PICK k \in 1..Len(stream) : x = stream[k]
        BY <1>6 DEF Sent
    <2> QED
        BY <2>1, <1>2, <1>3, <1>5
<1>7. ASSUME NEW x \in Sent'
      PROVE  x \in Sent \cup {i}
    <2>1. PICK k \in 1..Len(stream') : x = stream'[k]
        BY <1>5, <1>7
    <2>2. CASE k = Len(stream) + 1
        BY <2>1, <2>2, <1>4
    <2>3. CASE k \in 1..Len(stream)
        BY <2>1, <2>3, <1>3 DEF Sent
    <2> QED
        BY <2>2, <2>3, <1>2
<1> QED
    BY <1>2, <1>4, <1>5, <1>6, <1>7

\* Transactions that ended stay ended, and no message and no mark is removed.
Grows ==
    /\ \A i \in Rows : row[i] \in {"committed", "aborted"} => row'[i] = row[i]
    /\ passed \subseteq passed'
    /\ Sent \subseteq Sent'
    /\ marked \subseteq marked'

LEMMA StepGrows ==
    ASSUME TypeOK, [Next]_vars
    PROVE  Grows
<1>1. stream' = stream \/ \E i \in Rows : Store(i)
    BY DEF Next, Proceed, Fail, Insert, End, load_cursor, fetch_batch_from_cursor, Wake,
        SkipEntry, Publish, mark_published, EntriesDone, save_cursor, PublishFails, MarkFails,
        SaveFails, Shutdown, Crash, delete_checkpoint, vars
<1>2. Sent \subseteq Sent'
    BY <1>1, StoreGrows DEF Sent
<1>3. passed \subseteq passed' /\ marked \subseteq marked'
    BY DEF Next, Proceed, Fail, Insert, End, load_cursor, fetch_batch_from_cursor, Wake,
        SkipEntry, Publish, mark_published, EntriesDone, save_cursor, PublishFails, MarkFails,
        SaveFails, Shutdown, Crash, delete_checkpoint, vars
<1>4. row' = row \/ \E i \in Rows : Insert(i) \/ End(i)
    BY DEF Next, Proceed, Fail, load_cursor, fetch_batch_from_cursor, Wake,
        SkipEntry, Publish, mark_published, EntriesDone, save_cursor, PublishFails, MarkFails,
        SaveFails, Shutdown, Crash, delete_checkpoint, vars
<1>5. \A i \in Rows : row[i] \in {"committed", "aborted"} => row'[i] = row[i]
    BY <1>4 DEF Insert, End, TypeOK
<1> QED
    BY <1>2, <1>3, <1>5 DEF Grows

LEMMA SettledStays ==
    ASSUME Grows, NEW i \in Rows, Settled(i)
    PROVE  Settled(i)'
BY DEF Grows, Settled


-----------------------------------------------------------------------------
(* The inductive invariant, bridge by bridge. *)

BridgeInv(b) == SettledTo(cursor[b]) /\ BatchOK(b) /\ MarksOK(b)

Kept(b) ==
    /\ pc'[b] = pc[b]
    /\ cursor'[b] = cursor[b]
    /\ batch'[b] = batch[b]
    /\ stale'[b] = stale[b]

LEMMA SettledToStays ==
    ASSUME Grows, NEW c \in Nat, SettledTo(c)
    PROVE  \A i \in Rows : i <= c => Settled(i)'
BY SettledStays DEF SettledTo

\* The batch may shrink as long as what it loses is settled.
LEMMA BatchStays ==
    ASSUME TypeOK, TypeOK', Grows, NEW b \in Bridges, BatchOK(b),
           batch'[b] \subseteq batch[b],
           \A i \in batch[b] \ batch'[b] : Settled(i)'
    PROVE  BatchOK(b)'
<1>1. \A j \in batch'[b] : row'[j] = "committed"
    BY DEF BatchOK, Grows, TypeOK
<1>2. ASSUME NEW j \in batch'[b], NEW i \in Rows \ batch'[b], i < j
      PROVE  Settled(i)'
    <2>1. CASE i \in batch[b]
        BY <1>2, <2>1
    <2>2. CASE i \notin batch[b]
        <3>1. Settled(i)
            BY <1>2, <2>2 DEF BatchOK
        <3> QED
            BY <3>1, <1>2, SettledStays
    <2> QED
        BY <2>1, <2>2
<1> QED
    BY <1>1, <1>2 DEF BatchOK

LEMMA KeptStays ==
    ASSUME TypeOK, TypeOK', Grows, NEW b \in Bridges, BridgeInv(b), Kept(b)
    PROVE  BridgeInv(b)'
<1>1. SettledTo(cursor[b])'
    <2>1. cursor[b] \in Nat
        BY BridgeAssumption DEF TypeOK
    <2>2. \A i \in Rows : i <= cursor[b] => Settled(i)'
        BY <2>1, SettledToStays DEF BridgeInv
    <2> QED
        BY <2>2 DEF SettledTo, Kept
<1>2. BatchOK(b)'
    BY BatchStays DEF BridgeInv, Kept
<1>3. MarksOK(b)'
    BY DEF BridgeInv, Kept, MarksOK, IsNext, Grows
<1> QED
    BY <1>1, <1>2, <1>3 DEF BridgeInv

LEMMA ExitGood ==
    ASSUME TypeOK, NEW b \in Bridges, Exit(b)
    PROVE  BridgeInv(b)' /\ \A c \in Bridges \ {b} : Kept(c)
<1>1. pc'[b] = "stopped" /\ cursor'[b] = 0 /\ batch'[b] = {} /\ stale'[b] = {}
    BY DEF Exit, Goto, TypeOK
<1>2. \A c \in Bridges \ {b} : Kept(c)
    BY DEF Exit, Goto, TypeOK, Kept
<1>3. SettledTo(cursor[b])'
    BY <1>1, BridgeAssumption DEF SettledTo, Rows
<1>4. BatchOK(b)' /\ MarksOK(b)'
    BY <1>1 DEF BatchOK, MarksOK
<1> QED
    BY <1>2, <1>3, <1>4 DEF BridgeInv

\* Moving the cursor to an entry that is settled.
LEMMA AdvanceGood ==
    ASSUME TypeOK, TypeOK', Grows, NEW b \in Bridges, NEW i \in Rows, BridgeInv(b),
           IsNext(b, i), Settled(i), Advance(b, i), pc'[b] # "mark"
    PROVE  BridgeInv(b)'
<1>1. /\ cursor'[b] = i
      /\ batch'[b] = batch[b] \ {i}
      /\ stale'[b] = stale[b] \ {i}
    BY DEF Advance, TypeOK
<1>2. Settled(i)'
    BY SettledStays
<1>3. ASSUME NEW j \in Rows, j <= i
      PROVE  Settled(j)'
    <2>1. CASE j = i
        BY <2>1, <1>2
    <2>2. CASE j # i
        <3>1. j < i /\ j \notin batch[b]
            BY <1>3, <2>2, BridgeAssumption DEF IsNext, Rows
        <3>2. Settled(j)
            BY <3>1 DEF BridgeInv, BatchOK, IsNext
        <3> QED
            BY <3>2, SettledStays
    <2> QED
        BY <2>1, <2>2
<1>4. SettledTo(cursor[b])'
    BY <1>1, <1>3 DEF SettledTo
<1>5. BatchOK(b)'
    BY <1>1, <1>2, BatchStays DEF BridgeInv
<1>6. MarksOK(b)'
    BY <1>1 DEF BridgeInv, MarksOK, Grows
<1> QED
    BY <1>4, <1>5, <1>6 DEF BridgeInv

\* A batch that was just fetched.
LEMMA FetchGood ==
    ASSUME TypeOK, TypeOK', InOrder, Grows, NEW b \in Bridges, BridgeInv(b),
           fetch_batch_from_cursor(b)
    PROVE  BridgeInv(b)' /\ \A c \in Bridges \ {b} : Kept(c)
<1>1. PICK B \in SUBSET Readable(cursor[b]) :
        /\ IsBatch(B, Readable(cursor[b]))
        /\ Goto(b, IF B = {} THEN "wait" ELSE "entry")
        /\ batch' = [batch EXCEPT ![b] = B]
        /\ stale' = [stale EXCEPT ![b] = B \cap marked]
        /\ passed' = passed \cup {i \in Rows : row[i] = "open" /\ \E j \in B : i < j}
    BY DEF fetch_batch_from_cursor
<1>2. row' = row /\ marked' = marked /\ stream' = stream /\ cursor' = cursor
    BY DEF fetch_batch_from_cursor
<1>3. batch'[b] = B /\ stale'[b] = B \cap marked /\ pc'[b] # "mark"
    BY <1>1 DEF TypeOK, Goto
<1>4. \A c \in Bridges \ {b} : Kept(c)
    BY <1>1, <1>2 DEF TypeOK, Goto, Kept
<1>5. SettledTo(cursor[b])'
    <2>1. cursor[b] \in Nat
        BY BridgeAssumption DEF TypeOK
    <2>2. \A i \in Rows : i <= cursor[b] => Settled(i)'
        BY <2>1, SettledToStays DEF BridgeInv
    <2> QED
        BY <1>2, <2>2 DEF SettledTo
<1>6. \A j \in B : j \in Rows /\ row[j] = "committed" /\ j > cursor[b]
    BY DEF Readable
<1>7. ASSUME NEW j \in B, NEW i \in Rows \ B, i < j
      PROVE  Settled(i)'
    <2>1. row[i] \in {"open", "committed", "aborted"}
        BY <1>6, <1>7 DEF InOrder, TypeOK
    <2>2. CASE row[i] = "open"
        BY <1>1, <1>7, <2>2 DEF Settled
    <2>3. CASE row[i] = "aborted"
        BY <1>2, <2>3 DEF Settled
    <2>4. CASE row[i] = "committed"
        <3>1. cursor[b] \in Nat /\ i \in Nat /\ j \in Nat
            BY <1>6, BridgeAssumption DEF TypeOK, Rows
        <3>2. i \notin Readable(cursor[b])
            BY <3>1, <1>1, <1>7 DEF IsBatch
        <3>3. i <= cursor[b]
            BY <3>1, <3>2, <2>4, <1>7 DEF Readable
        <3> QED
            BY <3>3, <1>5, <1>2 DEF SettledTo
    <2> QED
        BY <2>1, <2>2, <2>3, <2>4
<1>8. BatchOK(b)'
    BY <1>2, <1>3, <1>6, <1>7 DEF BatchOK
<1>9. MarksOK(b)'
    BY <1>2, <1>3 DEF MarksOK
<1> QED
    BY <1>4, <1>5, <1>8, <1>9 DEF BridgeInv

-----------------------------------------------------------------------------
(* The inductive invariant. *)

LEMMA InvInit == Init => Inv
<1> SUFFICES ASSUME Init
             PROVE  Inv
    OBVIOUS
<1>1. TypeOK
    BY TypeInit
<1>2. InOrder /\ marked \subseteq Sent
    BY DEF Init, InOrder
<1>3. SettledTo(0)
    BY BridgeAssumption DEF SettledTo, Rows
<1>4. ASSUME NEW b \in Bridges
      PROVE  BridgeInv(b)
    BY <1>3 DEF Init, BridgeInv, BatchOK, MarksOK
<1> QED
    BY <1>1, <1>2, <1>3, <1>4 DEF Init, Inv, BridgeInv

LEMMA ProceedGood ==
    ASSUME Inv, TypeOK', Grows, NEW b \in Bridges, Proceed(b)
    PROVE  \A c \in Bridges : BridgeInv(c)'
<1>0. TypeOK /\ InOrder /\ marked \subseteq Sent /\ SettledTo(checkpoint)
        /\ \A c \in Bridges : BridgeInv(c)
    BY DEF Inv, BridgeInv
<1> SUFFICES BridgeInv(b)' /\ \A c \in Bridges \ {b} : Kept(c)
    BY <1>0, KeptStays
<1>1. CASE load_cursor(b)
    <2>1. cursor'[b] = checkpoint /\ batch'[b] = batch[b] /\ stale'[b] = stale[b]
            /\ pc'[b] = "fetch" /\ checkpoint \in Nat
        BY <1>0, <1>1, BridgeAssumption DEF load_cursor, Goto, TypeOK
    <2>2. \A c \in Bridges \ {b} : Kept(c)
        BY <1>0, <1>1 DEF load_cursor, Goto, TypeOK, Kept
    <2>3. SettledTo(cursor[b])'
        <3>1. \A i \in Rows : i <= checkpoint => Settled(i)'
            BY <1>0, <2>1, SettledToStays
        <3> QED
            BY <2>1, <3>1 DEF SettledTo
    <2>4. BatchOK(b)'
        BY <1>0, <2>1, BatchStays DEF BridgeInv
    <2>5. MarksOK(b)'
        BY <1>0, <2>1 DEF BridgeInv, MarksOK, Grows
    <2> QED
        BY <2>2, <2>3, <2>4, <2>5 DEF BridgeInv
<1>2. CASE fetch_batch_from_cursor(b)
    BY <1>0, <1>2, FetchGood
<1>3. CASE Wake(b) \/ EntriesDone(b) \/ save_cursor(b)
    <2>1. cursor'[b] = cursor[b] /\ batch'[b] = batch[b] /\ stale'[b] = stale[b]
            /\ pc'[b] # "mark" /\ cursor[b] \in Nat
        BY <1>0, <1>3, BridgeAssumption DEF Wake, EntriesDone, save_cursor, Goto, TypeOK
    <2>2. \A c \in Bridges \ {b} : Kept(c)
        BY <1>0, <1>3 DEF Wake, EntriesDone, save_cursor, Goto, TypeOK, Kept
    <2>3. SettledTo(cursor[b])'
        <3>1. \A i \in Rows : i <= cursor[b] => Settled(i)'
            BY <1>0, <2>1, SettledToStays DEF BridgeInv
        <3> QED
            BY <2>1, <3>1 DEF SettledTo
    <2>4. BatchOK(b)'
        BY <1>0, <2>1, BatchStays DEF BridgeInv
    <2>5. MarksOK(b)'
        BY <1>0, <2>1 DEF BridgeInv, MarksOK, Grows
    <2> QED
        BY <2>2, <2>3, <2>4, <2>5 DEF BridgeInv
<1>4. ASSUME NEW i \in Rows, SkipEntry(b, i)
      PROVE  BridgeInv(b)' /\ \A c \in Bridges \ {b} : Kept(c)
    <2>1. \A c \in Bridges \ {b} : Kept(c)
        BY <1>0, <1>4 DEF SkipEntry, Advance, TypeOK, Kept
    <2>2. IsNext(b, i) /\ Advance(b, i) /\ pc'[b] # "mark"
        BY <1>4 DEF SkipEntry
    <2>3. Settled(i)
        BY <1>0, <1>4, <2>2 DEF SkipEntry, IsNext, BridgeInv, BatchOK, MarksOK, Settled
    <2> QED
        BY <1>0, <2>1, <2>2, <2>3, AdvanceGood
<1>5. ASSUME NEW i \in Rows, Publish(b, i)
      PROVE  BridgeInv(b)' /\ \A c \in Bridges \ {b} : Kept(c)
    <2>1. cursor'[b] = cursor[b] /\ batch'[b] = batch[b] /\ stale'[b] = stale[b]
            /\ cursor[b] \in Nat /\ marked' = marked
        BY <1>0, <1>5, BridgeAssumption DEF Publish, TypeOK
    <2>2. \A c \in Bridges \ {b} : Kept(c)
        BY <1>0, <1>5 DEF Publish, Goto, TypeOK, Kept
    <2>3. SettledTo(cursor[b])'
        <3>1. \A j \in Rows : j <= cursor[b] => Settled(j)'
            BY <1>0, <2>1, SettledToStays DEF BridgeInv
        <3> QED
            BY <2>1, <3>1 DEF SettledTo
    <2>4. BatchOK(b)'
        BY <1>0, <2>1, BatchStays DEF BridgeInv
    <2>5. i \in Sent'
        BY <1>0, <1>5, StoreGrows DEF Publish
    <2>6. ASSUME NEW j \in Rows, j \in batch[b], \A k \in batch[b] : j <= k
          PROVE  j = i
        BY <1>5, <2>6, BridgeAssumption DEF Publish, IsNext, Rows
    <2>7. MarksOK(b)'
        BY <1>0, <2>1, <2>5, <2>6 DEF BridgeInv, MarksOK, IsNext
    <2> QED
        BY <2>2, <2>3, <2>4, <2>7 DEF BridgeInv
<1>6. ASSUME NEW i \in Rows, mark_published(b, i)
      PROVE  BridgeInv(b)' /\ \A c \in Bridges \ {b} : Kept(c)
    <2>1. \A c \in Bridges \ {b} : Kept(c)
        BY <1>0, <1>6 DEF mark_published, Advance, Goto, TypeOK, Kept
    <2>2. IsNext(b, i) /\ Advance(b, i) /\ pc'[b] # "mark"
        BY <1>0, <1>6 DEF mark_published, Goto, TypeOK
    <2>3. Settled(i)
        BY <1>0, <1>6, <2>2 DEF mark_published, IsNext, BridgeInv, BatchOK, MarksOK, Settled
    <2> QED
        BY <1>0, <2>1, <2>2, <2>3, AdvanceGood
<1> QED
    BY <1>1, <1>2, <1>3, <1>4, <1>5, <1>6 DEF Proceed

LEMMA FailGood ==
    ASSUME Inv, TypeOK', Grows, NEW b \in Bridges, Fail(b)
    PROVE  \A c \in Bridges : BridgeInv(c)'
<1>0. TypeOK /\ \A c \in Bridges : BridgeInv(c)
    BY DEF Inv, BridgeInv
<1> SUFFICES BridgeInv(b)' /\ \A c \in Bridges \ {b} : Kept(c)
    BY <1>0, KeptStays
<1>1. CASE Exit(b)
    BY <1>0, <1>1, ExitGood
<1>2. ASSUME NEW i \in Rows, PublishFails(b, i)
      PROVE  BridgeInv(b)' /\ \A c \in Bridges \ {b} : Kept(c)
    <2>1. cursor'[b] = cursor[b] /\ batch'[b] = {} /\ stale'[b] = {}
            /\ cursor[b] \in Nat /\ pc'[b] = "save"
        BY <1>0, <1>2, BridgeAssumption DEF PublishFails, Goto, TypeOK
    <2>2. \A c \in Bridges \ {b} : Kept(c)
        BY <1>0, <1>2 DEF PublishFails, Goto, TypeOK, Kept
    <2>3. SettledTo(cursor[b])'
        <3>1. \A j \in Rows : j <= cursor[b] => Settled(j)'
            BY <1>0, <2>1, SettledToStays DEF BridgeInv
        <3> QED
            BY <2>1, <3>1 DEF SettledTo
    <2>4. BatchOK(b)' /\ MarksOK(b)'
        BY <2>1 DEF BatchOK, MarksOK
    <2> QED
        BY <2>2, <2>3, <2>4 DEF BridgeInv
<1> QED
    BY <1>1, <1>2 DEF Fail, MarkFails, SaveFails, Shutdown, Crash

LEMMA InvStep == Inv /\ [Next]_vars => Inv'
<1> SUFFICES ASSUME Inv, [Next]_vars
             PROVE  Inv'
    OBVIOUS
<1>0. TypeOK /\ InOrder /\ marked \subseteq Sent /\ SettledTo(checkpoint)
        /\ \A c \in Bridges : BridgeInv(c)
    BY DEF Inv, BridgeInv
<1>1. TypeOK'
    BY <1>0, TypeStep
<1>2. Grows
    BY <1>0, StepGrows
<1>3. \A b \in Bridges : BridgeInv(b)'
    <2>1. CASE \E b \in Bridges : Proceed(b)
        BY <2>1, <1>1, <1>2, ProceedGood
    <2>2. CASE \E b \in Bridges : Fail(b)
        BY <2>2, <1>1, <1>2, FailGood
    <2>3. CASE UNCHANGED local
        <3>1. \A b \in Bridges : Kept(b)
            BY <2>3 DEF local, Kept
        <3> QED
            BY <3>1, <1>0, <1>1, <1>2, KeptStays
    <2> QED
        BY <2>1, <2>2, <2>3 DEF Next, Insert, End, delete_checkpoint, vars, local
<1>4. InOrder'
    <2>1. CASE row' = row
        BY <2>1, <1>0 DEF InOrder
    <2>2. ASSUME NEW i \in Rows, Insert(i)
          PROVE  InOrder'
        BY <2>2, <1>0, BridgeAssumption DEF Insert, InOrder, TypeOK, Rows
    <2>3. ASSUME NEW i \in Rows, End(i)
          PROVE  InOrder'
        BY <2>3, <1>0 DEF End, InOrder, TypeOK
    <2> QED
        BY <2>1, <2>2, <2>3 DEF Next, Proceed, Fail, load_cursor, fetch_batch_from_cursor, Wake,
            SkipEntry, Publish, mark_published, EntriesDone, save_cursor, PublishFails, MarkFails,
            SaveFails, Shutdown, Crash, delete_checkpoint, vars
<1>5. marked' \subseteq Sent'
    <2>1. CASE marked' = marked
        BY <2>1, <1>0, <1>2 DEF Grows
    <2>2. ASSUME NEW b \in Bridges, NEW i \in Rows, mark_published(b, i) \/ MarkFails(b, i)
          PROVE  marked' \subseteq Sent'
        <3>1. i \in Sent
            BY <2>2, <1>0 DEF mark_published, MarkFails, BridgeInv, MarksOK
        <3> QED
            BY <2>2, <3>1, <1>0, <1>2 DEF mark_published, MarkFails, Grows
    <2> QED
        BY <2>1, <2>2 DEF Next, Proceed, Fail, Insert, End, load_cursor, fetch_batch_from_cursor,
            Wake, SkipEntry, Publish, EntriesDone, save_cursor, PublishFails, SaveFails, Shutdown,
            Crash, delete_checkpoint, vars
<1>6. SettledTo(checkpoint)'
    <2>1. checkpoint' = checkpoint \/ checkpoint' = 0
            \/ \E b \in Bridges : checkpoint' = cursor[b]
        BY DEF Next, Proceed, Fail, Insert, End, load_cursor, fetch_batch_from_cursor, Wake,
            SkipEntry, Publish, mark_published, EntriesDone, save_cursor, PublishFails, MarkFails,
            SaveFails, Shutdown, Crash, delete_checkpoint, vars
    <2>2. CASE checkpoint' = 0
        BY <2>2, BridgeAssumption DEF SettledTo, Rows
    <2>3. ASSUME NEW c \in Nat, SettledTo(c), checkpoint' = c
          PROVE  SettledTo(checkpoint)'
        <3>1. \A i \in Rows : i <= c => Settled(i)'
            BY <1>2, <2>3, SettledToStays
        <3> QED
            BY <2>3, <3>1 DEF SettledTo
    <2>4. checkpoint \in Nat /\ \A b \in Bridges : cursor[b] \in Nat
        BY <1>0, BridgeAssumption DEF TypeOK
    <2> QED
        BY <1>0, <2>1, <2>2, <2>3, <2>4 DEF BridgeInv
<1> QED
    BY <1>1, <1>3, <1>4, <1>5, <1>6 DEF Inv, BridgeInv

LEMMA InvHolds == Spec => []Inv
BY InvInit, InvStep, PTL DEF Spec

\* No committed row that the checkpoint has passed is owed, whatever crashes,
\* fails or runs beside: for every number of rows and bridges.
THEOREM NothingLost == Spec => []NoLoss
<1>1. Inv => NoLoss
    BY DEF Inv, SettledTo, Settled, NoLoss
<1> QED
    BY <1>1, InvHolds, PTL

-----------------------------------------------------------------------------
(* The bridge implements ChangeFeed. *)

Log == {i \in Rows : row[i] = "committed"}

LEMMA FeedInit == Init => Feed!Init
BY BridgeAssumption DEF Init, Feed!Init, Rows

\* A step that leaves the four abstract variables alone.
LEMMA FeedStutter ==
    ASSUME Log' = Log, UNCHANGED <<stream, passed, checkpoint>>
    PROVE  UNCHANGED Feed!feedVars
BY DEF Log, Feed!feedVars

\* Every new position of the checkpoint leaves nothing behind.
LEMMA FeedMove ==
    ASSUME Inv, UNCHANGED <<row, stream, passed>>, checkpoint' \in 0..MaxRow,
           SettledTo(checkpoint')
    PROVE  Feed!Next
<1>1. ASSUME NEW i \in Log, i <= checkpoint'
      PROVE  i \in Sent \cup (Unknown \cup passed)
    BY <1>1 DEF Log, SettledTo, Settled
<1>2. Feed!Move(checkpoint')
    BY <1>1 DEF Feed!Move, Feed!Delivered, Log, Sent
<1>3. checkpoint' \in Rows \cup {0}
    BY BridgeAssumption DEF Rows
<1> QED
    BY <1>2, <1>3 DEF Feed!Next

LEMMA FeedDeliver ==
    ASSUME Inv, NEW i \in Rows, row[i] = "committed", Store(i),
           UNCHANGED <<row, passed, checkpoint>>
    PROVE  Feed!Next
<1>1. Feed!Deliver(i)
    BY DEF Feed!Deliver, Store
<1> QED
    BY <1>1 DEF Feed!Next

LEMMA FeedStep == Inv /\ [Next]_vars => [Feed!Next]_(Feed!feedVars)
<1> SUFFICES ASSUME Inv, [Next]_vars
             PROVE  Feed!Next \/ UNCHANGED Feed!feedVars
    OBVIOUS
<1>0. TypeOK /\ SettledTo(checkpoint) /\ \A b \in Bridges : BridgeInv(b)
    BY DEF Inv, BridgeInv
<1>1. CASE UNCHANGED <<row, stream, passed, checkpoint>>
    BY <1>1, FeedStutter DEF Log
<1>2. ASSUME NEW i \in Rows, Insert(i)
      PROVE  UNCHANGED Feed!feedVars
    <2>1. Log' = Log
        BY <1>0, <1>2 DEF Insert, Log, TypeOK
    <2> QED
        BY <1>2, <2>1, FeedStutter DEF Insert
<1>3. ASSUME NEW i \in Rows, End(i)
      PROVE  Feed!Next \/ UNCHANGED Feed!feedVars
    <2>1. CASE row' = [row EXCEPT ![i] = "committed"]
        <3>1. Log' = Log \cup {i} /\ i \notin Log
            BY <1>0, <1>3, <2>1 DEF End, Log, TypeOK
        <3>2. i > checkpoint \/ i \in Unknown \cup passed
            BY <1>0, <1>3, BridgeAssumption DEF End, SettledTo, Settled, TypeOK, Rows
        <3>3. Feed!Commit(i)
            BY <1>3, <3>1, <3>2 DEF Feed!Commit, End, Log
        <3> QED
            BY <3>3 DEF Feed!Next
    <2>2. CASE row' = [row EXCEPT ![i] = "aborted"]
        <3>1. Log' = Log
            BY <1>0, <1>3, <2>2 DEF End, Log, TypeOK
        <3> QED
            BY <1>3, <3>1, FeedStutter DEF End
    <2> QED
        BY <1>3, <2>1, <2>2 DEF End
<1>4. ASSUME NEW b \in Bridges, fetch_batch_from_cursor(b)
      PROVE  Feed!Next
    <2>1. PICK B \in SUBSET Readable(cursor[b]) :
            passed' = passed \cup {i \in Rows : row[i] = "open" /\ \E j \in B : i < j}
        BY <1>4 DEF fetch_batch_from_cursor
    <2> DEFINE S == {i \in Rows : row[i] = "open" /\ \E j \in B : i < j}
    <2>2. S \cap Log = {}
        BY DEF Log
    <2>3. Feed!Excuse(S)
        BY <1>4, <2>1, <2>2 DEF Feed!Excuse, fetch_batch_from_cursor, Log
    <2> QED
        BY <2>3 DEF Feed!Next
<1>5. ASSUME NEW b \in Bridges, NEW i \in Rows, Publish(b, i) \/ PublishFails(b, i)
      PROVE  Feed!Next \/ UNCHANGED <<row, stream, passed, checkpoint>>
    <2>1. row[i] = "committed"
        BY <1>0, <1>5 DEF Publish, PublishFails, IsNext, BridgeInv, BatchOK
    <2> QED
        BY <1>5, <2>1, FeedDeliver DEF Publish, PublishFails
<1>6. ASSUME UNCHANGED <<row, stream, passed>>,
             checkpoint' = 0 \/ \E b \in Bridges : checkpoint' = cursor[b]
      PROVE  Feed!Next
    <2>1. SettledTo(0)
        BY BridgeAssumption DEF SettledTo, Rows
    <2>2. SettledTo(checkpoint') /\ checkpoint' \in 0..MaxRow
        BY <1>0, <1>6, <2>1, BridgeAssumption DEF BridgeInv, TypeOK
    <2> QED
        BY <1>6, <2>2, FeedMove
<1>7. ASSUME NEW b \in Bridges, Proceed(b)
      PROVE  Feed!Next \/ UNCHANGED Feed!feedVars
    BY <1>1, <1>4, <1>5, <1>6, <1>7 DEF Proceed, load_cursor, Wake, SkipEntry, mark_published,
        EntriesDone, save_cursor
<1>8. ASSUME NEW b \in Bridges, Fail(b)
      PROVE  Feed!Next \/ UNCHANGED Feed!feedVars
    BY <1>1, <1>5, <1>6, <1>8 DEF Fail, MarkFails, SaveFails, Shutdown, Crash
<1> QED
    BY <1>1, <1>2, <1>3, <1>6, <1>7, <1>8 DEF Next, delete_checkpoint, vars

\* The bridges implement the at-least-once feed of ChangeFeed: the loop of
\* bridge.rs with its crashes and failing calls only ever commits, delivers,
\* excuses a row that had not committed when a later one was read, or moves
\* the position to where nothing is owed.
THEOREM BridgeImplementsFeed == Spec => ImplementsFeed
BY FeedInit, FeedStep, InvHolds, PTL DEF Spec, ImplementsFeed, Feed!Spec
=============================================================================
