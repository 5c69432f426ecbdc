------------------------------ MODULE RelayQueue ------------------------------
(***************************************************************************)
(* The relay's TransactionQueue: items in memory, written as a whole to a  *)
(* file after every change, and read back when the process starts.  A      *)
(* write that fails is logged and otherwise ignored.                       *)
(*                                                                         *)
(* Of an item's type and payload nothing depends but which transaction is  *)
(* built from it; they are left out.                                       *)
(***************************************************************************)
EXTENDS Naturals, Sequences, FiniteSets

CONSTANTS
    Unreadable,  \* a file that JSON.parse rejects
    MaxItems     \* bound: items enqueued over the run

ASSUME MaxItemsAssumption == MaxItems \in Nat

VARIABLES
    items,    \* TransactionQueue.items
    file,     \* what persistPath holds, <<>> while there is no file
    drawnIds, \* how many ids randomUUID has drawn: they are 0 .. drawnIds - 1
    written   \* history: the last write, or the last read, of the file succeeded

queueVars == <<items, file, drawnIds, written>>

ItemIds == 0 .. MaxItems - 1

Statuses == {"pending", "submitted", "failed"}

Item == [id : ItemIds, status : Statuses]

ASSUME UnreadableAssumption == Unreadable \notin Seq(Item)

Ids(queue) == {queue[i].id : i \in DOMAIN queue}

PendingIn(queue) == {i \in DOMAIN queue : queue[i].status = "pending"}

StatusOf(queue, id) == CHOOSE status \in Statuses :
    \E i \in DOMAIN queue : queue[i].id = id /\ queue[i].status = status

PendingCount == Cardinality(PendingIn(items))

\* peekNext takes the first pending item; and a form that takes the first of any status.
PeekAny ==
    CHOOSE i \in DOMAIN items : \A j \in DOMAIN items : i <= j

PeekNext ==
    CHOOSE i \in PendingIn(items) : \A j \in PendingIn(items) : i <= j

\* writeFileSync empties the file and fills it: the write succeeds, or fails at
\* once, or fails between the two.
Persist(queue) ==
    \/ file' = queue /\ written' = TRUE
    \/ file' \in {file, Unreadable} /\ written' = FALSE

Enqueue ==
    /\ drawnIds < MaxItems
    /\ items' = Append(items, [id |-> drawnIds, status |-> "pending"])
    /\ drawnIds' = drawnIds + 1
    /\ Persist(items')

WithStatus(queue, id, status) ==
    [i \in DOMAIN queue |->
        IF queue[i].id = id THEN [queue[i] EXCEPT !.status = status] ELSE queue[i]]

\* markSubmitted and markFailed; without an item of that id they do nothing.  And
\* a form that leaves the file alone.
MarkInMemory(id, status) ==
    /\ items' = WithStatus(items, id, status)
    /\ UNCHANGED <<file, drawnIds, written>>

Mark(id, status) ==
    /\ items' = WithStatus(items, id, status)
    /\ IF id \in Ids(items) THEN Persist(items') ELSE UNCHANGED <<file, written>>
    /\ UNCHANGED drawnIds

\* What restore makes of the file.
Restored == IF file = Unreadable THEN <<>> ELSE file
=============================================================================
