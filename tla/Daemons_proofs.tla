---------------------------- MODULE Daemons_proofs ----------------------------
(***************************************************************************)
(* Proofs of the safety properties of the two daemons: of the relay, for   *)
(* any number of items and process ends, any delay and any fee             *)
(* configuration; and of the scanner, for any number of polls at once, any *)
(* page, and a chain of any height that drops blocks any number of times;  *)
(* and in chainhook mode, for any number of requests at once.              *)
(***************************************************************************)
EXTENDS RelayDaemon, Scanner, ChainhookScanner, Iteration_proofs, FiniteSetTheorems,
        SequenceTheorems, TLAPS

Accepted == 0 .. drawnIds - 1

-----------------------------------------------------------------------------
(***************************************************************************)
(* The inductive invariant.                                                *)
(***************************************************************************)
QueueTyped ==
    /\ items \in Seq(Item)
    /\ file = Unreadable \/ file \in Seq(Item)
    /\ drawnIds \in 0 .. MaxItems

FlagsTyped ==
    /\ running \in BOOLEAN /\ stopping \in BOOLEAN /\ handedOver \in BOOLEAN
    /\ freshStart \in BOOLEAN /\ written \in BOOLEAN

DaemonTyped ==
    /\ timer = NoTimer \/ timer \in 0 .. BatchDelay
    /\ inFlight = NoItem \/ inFlight \in Accepted
    /\ sinceBroadcast \in 0 .. BatchDelay
    /\ ends \in Nat
    /\ broadcasts \in [ItemIds -> Nat]
    /\ excuses \in [ItemIds -> Nat]
    /\ forgotten \subseteq Accepted

\* No two items of a queue have one id, and no id is beyond those drawn.
IdsDistinct(queue) ==
    /\ Ids(queue) \subseteq Accepted
    /\ \A i, j \in DOMAIN queue : queue[i].id = queue[j].id => i = j

\* A submission is awaited by a process that is up, with no timer set.
AwaitsAlone ==
    /\ ~running => inFlight = NoItem
    /\ handedOver => inFlight # NoItem
    /\ inFlight # NoItem => timer = NoTimer

\* The item awaited is the first that is pending, if the queue still has it.
InTurn ==
    inFlight # NoItem =>
        \A i \in DOMAIN items : items[i].id = inFlight =>
            i \in PendingIn(items) /\ \A j \in PendingIn(items) : i <= j

\* A broadcast of the item awaited, or of the next one, keeps the delay.
DelayRuns ==
    /\ inFlight # NoItem /\ ~handedOver => freshStart \/ sinceBroadcast = BatchDelay
    /\ timer # NoTimer => freshStart \/ sinceBroadcast + timer >= BatchDelay

\* What memory and file remember: nothing that was forgotten.
Remembered ==
    /\ running => Ids(items) = Accepted \ forgotten
    /\ ~running => items = <<>>
    /\ file # Unreadable => Ids(file) \cap forgotten = {}

\* An item was sent as often as it says, or the process ended at a bad moment since.
NotAgain(id) == broadcasts[id] <= excuses[id]

SentAsSaid ==
    /\ \A id \in ItemIds : id \notin Accepted => broadcasts[id] = 0
    /\ \A id \in ItemIds : broadcasts[id] <= 1 + excuses[id]
    /\ inFlight # NoItem /\ ~handedOver => NotAgain(inFlight)
    /\ handedOver => broadcasts[inFlight] > 0
    /\ \A i \in DOMAIN items :
           /\ items[i].status = "submitted" => broadcasts[items[i].id] > 0
           /\ items[i].status = "pending" =>
                  inFlight = items[i].id \/ NotAgain(items[i].id)

\* The file says the same, but for a process that knows better.
FileAsSaid ==
    file # Unreadable =>
        \A i \in DOMAIN file :
            /\ file[i].status = "submitted" => broadcasts[file[i].id] > 0
            /\ file[i].status = "pending" =>
                   \/ inFlight = file[i].id
                   \/ running /\ ~written
                   \/ NotAgain(file[i].id)

QueueInv ==
    /\ QueueTyped /\ IdsDistinct(items) /\ (file # Unreadable => IdsDistinct(file))
    /\ Remembered /\ FileKeepsUp

RelayInv ==
    /\ QueueInv /\ FlagsTyped /\ DaemonTyped /\ AwaitsAlone /\ InTurn /\ DelayRuns
    /\ SentAsSaid /\ FileAsSaid

-----------------------------------------------------------------------------
(***************************************************************************)
(* Operators on queues.                                                    *)
(***************************************************************************)
\* An item appended to a queue is its last, with a new id.
LEMMA EnqueueItems ==
    ASSUME QueueTyped, IdsDistinct(items), Enqueue
    PROVE  /\ items' \in Seq(Item)
           /\ DOMAIN items' = DOMAIN items \cup {Len(items) + 1}
           /\ \A i \in DOMAIN items : i <= Len(items) /\ items'[i] = items[i]
           /\ items'[Len(items) + 1] = [id |-> drawnIds, status |-> "pending"]
           /\ Ids(items') = Ids(items) \cup {drawnIds}
           /\ IdsDistinct(items)'
           /\ drawnIds \in ItemIds /\ drawnIds \notin Ids(items)
           /\ Accepted' = Accepted \cup {drawnIds} /\ drawnIds \notin Accepted
           /\ drawnIds' \in 0 .. MaxItems
<1> DEFINE new == [id |-> drawnIds, status |-> "pending"]
<1>1. /\ drawnIds \in ItemIds /\ drawnIds \notin Accepted
      /\ Accepted' = Accepted \cup {drawnIds} /\ drawnIds' \in 0 .. MaxItems
    BY MaxItemsAssumption DEF Enqueue, QueueTyped, ItemIds, Accepted
<1>2. new \in Item
    BY <1>1 DEF Item, Statuses
<1>3. items' = Append(items, new) /\ items \in Seq(Item)
    BY DEF Enqueue, QueueTyped
<1>4. /\ items' \in Seq(Item) /\ Len(items) \in Nat
      /\ DOMAIN items' = DOMAIN items \cup {Len(items) + 1}
      /\ \A i \in DOMAIN items : i <= Len(items) /\ items'[i] = items[i]
      /\ items'[Len(items) + 1] = new
    <2> HIDE DEF new
    <2> QED BY <1>2, <1>3
<1>5. Ids(items') = Ids(items) \cup {drawnIds}
    <2>1. ASSUME NEW id \in Ids(items') PROVE id \in Ids(items) \cup {drawnIds}
        <3>1. PICK i \in DOMAIN items' : items'[i].id = id
            BY DEF Ids
        <3>2. CASE i \in DOMAIN items
            BY <1>4, <3>1, <3>2 DEF Ids
        <3>3. CASE i = Len(items) + 1
            BY <1>4, <3>1, <3>3
        <3> QED BY <1>4, <3>2, <3>3
    <2>2. Ids(items) \subseteq Ids(items')
        BY <1>4 DEF Ids
    <2>3. drawnIds \in Ids(items')
        BY <1>4 DEF Ids
    <2> QED BY <2>1, <2>2, <2>3
<1>6. drawnIds \notin Ids(items)
    BY <1>1 DEF IdsDistinct
<1>7. \A i, j \in DOMAIN items' : items'[i].id = items'[j].id => i = j
    <2>1. \A i \in DOMAIN items : items'[i].id \in Ids(items)
        BY <1>4 DEF Ids
    <2>2. \A i, j \in DOMAIN items : items'[i].id = items'[j].id => i = j
        BY <1>4 DEF IdsDistinct
    <2>3. items'[Len(items) + 1].id = drawnIds
        BY <1>4
    <2> QED BY <1>4, <1>6, <2>1, <2>2, <2>3
<1>8. IdsDistinct(items)'
    BY <1>1, <1>5, <1>7 DEF IdsDistinct
<1> QED BY <1>1, <1>4, <1>5, <1>6, <1>8

\* An item marked keeps its place and its id, and the others are left alone.
LEMMA MarkedItems ==
    ASSUME NEW queue \in Seq(Item), NEW id, NEW status \in Statuses
    PROVE  LET marked == WithStatus(queue, id, status)
           IN  /\ marked \in Seq(Item)
               /\ DOMAIN marked = DOMAIN queue
               /\ \A i \in DOMAIN queue :
                      /\ marked[i].id = queue[i].id
                      /\ marked[i].status =
                             IF queue[i].id = id THEN status ELSE queue[i].status
               /\ Ids(marked) = Ids(queue)
<1> DEFINE marked == WithStatus(queue, id, status)
<1>1. /\ Len(queue) \in Nat /\ DOMAIN queue = 1 .. Len(queue)
      /\ \A i \in DOMAIN queue : queue[i] \in Item
    OBVIOUS
<1>2. DOMAIN marked = DOMAIN queue
    BY DEF WithStatus
<1>3. ASSUME NEW i \in DOMAIN queue
      PROVE  /\ marked[i] \in Item
             /\ marked[i].id = queue[i].id
             /\ marked[i].status =
                    IF queue[i].id = id THEN status ELSE queue[i].status
    BY <1>1 DEF WithStatus, Item
<1>4. marked \in Seq(Item)
    <2>1. marked = [i \in 1 .. Len(queue) |-> marked[i]]
        BY <1>1 DEF WithStatus
    <2>2. \A i \in 1 .. Len(queue) : marked[i] \in Item
        BY <1>1, <1>3
    <2> HIDE DEF marked
    <2> QED BY <1>1, <2>1, <2>2, IsASeq
<1>5. Ids(marked) = Ids(queue)
    BY <1>2, <1>3 DEF Ids
<1> HIDE DEF marked
<1>6. QED BY <1>2, <1>3, <1>4, <1>5 DEF marked

\* No item has the place of none.
LEMMA ItemsAreSome ==
    ASSUME NEW queue \in Seq(Item), NEW i \in DOMAIN queue
    PROVE  queue[i] \in Item /\ queue[i].id \in ItemIds /\ queue[i].id # NoItem
<1>1. queue[i] \in Item
    OBVIOUS
<1> QED BY <1>1, RelayAssumption DEF Item, ItemIds

\* The next item is the first that is pending.
LEMMA PeekNextIsFirst ==
    ASSUME items \in Seq(Item), PendingIn(items) # {}
    PROVE  /\ PeekNext \in PendingIn(items)
           /\ \A j \in PendingIn(items) : PeekNext <= j
<1>1. PendingIn(items) \subseteq Nat
    BY DEF PendingIn
<1> DEFINE Below == {pair \in Nat \X Nat : pair[1] < pair[2]}
<1>2. IsWellFoundedOn(Below, Nat)
    BY NatLessThanWellFounded, Zenon DEF OpToRel
<1>3. PICK i \in PendingIn(items) :
          \A j \in PendingIn(items) : ~(<<j, i>> \in Below)
    <2> HIDE DEF Below
    <2> QED BY <1>1, <1>2, WFMin, Zenon
<1>4. ASSUME NEW j \in PendingIn(items) PROVE i <= j
    <2>1. i \in Nat /\ j \in Nat
        BY <1>1
    <2>2. <<j, i>> \notin Below
        BY <1>3
    <2> QED BY <2>1, <2>2
<1> QED BY <1>4 DEF PeekNext

-----------------------------------------------------------------------------
(***************************************************************************)
(* The invariant holds at first.                                           *)
(***************************************************************************)
LEMMA EmptyQueue ==
    /\ <<>> \in Seq(Item) /\ DOMAIN <<>> = {} /\ Ids(<<>>) = {}
    /\ IdsDistinct(<<>>)
    BY DEF Ids, IdsDistinct

LEMMA RelayInvInit == Init => RelayInv
<1> SUFFICES ASSUME Init PROVE RelayInv
    OBVIOUS
<1> USE RelayAssumption, MaxItemsAssumption
<1>1. QueueInv
    <2>1. items = <<>> /\ file = <<>> /\ drawnIds = 0 /\ running = FALSE /\ forgotten = {}
        BY DEF Init
    <2>2. Accepted = {} /\ 0 .. drawnIds - 1 = {}
        BY <2>1 DEF Accepted
    <2>3. QueueTyped
        BY <2>1, EmptyQueue DEF QueueTyped
    <2>4. IdsDistinct(items) /\ IdsDistinct(file)
        BY <2>1, EmptyQueue
    <2>5. Remembered
        BY <2>1, EmptyQueue DEF Remembered
    <2>6. FileKeepsUp
        BY <2>1, <2>2, EmptyQueue, UnreadableAssumption DEF FileKeepsUp
    <2> QED BY <2>3, <2>4, <2>5, <2>6 DEF QueueInv
<1>2. DaemonTyped
    BY DEF Init, DaemonTyped, Accepted
<1>3. AwaitsAlone /\ InTurn /\ DelayRuns
    BY DEF Init, AwaitsAlone, InTurn, DelayRuns
<1>4. SentAsSaid /\ FileAsSaid
    BY EmptyQueue DEF Init, SentAsSaid, FileAsSaid, Accepted
<1>5. FlagsTyped
    BY Zenon DEF Init, FlagsTyped
<1> QED BY <1>1, <1>2, <1>3, <1>4, <1>5 DEF RelayInv

-----------------------------------------------------------------------------
(***************************************************************************)
(* Every action keeps it.                                                  *)
(***************************************************************************)
\* The process starts and reads the file.
LEMMA RelayInvStart ==
    ASSUME RelayInv, Start
    PROVE  RelayInv'
<1> USE RelayAssumption, MaxItemsAssumption
<1>1. /\ Accepted' = Accepted
      /\ file' = file /\ drawnIds' = drawnIds /\ items' = Restored
      /\ inFlight = NoItem /\ ~handedOver /\ ~handedOver' /\ inFlight' = NoItem
      /\ forgotten' = forgotten \cup (Accepted \ Ids(Restored))
    BY DEF Start, RelayInv, AwaitsAlone, Accepted
<1>2. /\ Restored \in Seq(Item) /\ IdsDistinct(Restored)
      /\ Ids(Restored) \cap forgotten = {} /\ Ids(Restored) \subseteq Accepted
      /\ file # Unreadable => Restored = file
    BY EmptyQueue DEF RelayInv, QueueInv, QueueTyped, Remembered, Restored, IdsDistinct
<1>3. QueueTyped'
    BY <1>1, <1>2 DEF Start, RelayInv, QueueInv, QueueTyped
<1>4. IdsDistinct(items)' /\ (file # Unreadable => IdsDistinct(file))'
    BY <1>1, <1>2 DEF RelayInv, QueueInv, IdsDistinct
<1>5. Remembered'
    BY <1>1, <1>2 DEF Start, RelayInv, QueueInv, DaemonTyped, Remembered, Accepted
<1>6. FileKeepsUp'
    BY <1>1, <1>2 DEF Start, RelayInv, QueueInv, DaemonTyped, FileKeepsUp, Accepted
<1>7. DaemonTyped'
    <2>1. forgotten' \subseteq Accepted'
        BY <1>1, <1>2 DEF RelayInv, DaemonTyped
    <2>2. timer' \in 0 .. BatchDelay
        BY DEF Start
    <2> QED BY <1>1, <2>1, <2>2 DEF Start, RelayInv, DaemonTyped
<1>8. (AwaitsAlone /\ InTurn /\ DelayRuns)'
    BY <1>1 DEF Start, RelayInv, AwaitsAlone, InTurn, DelayRuns
<1>9. SentAsSaid'
    <2>1. \A i \in DOMAIN Restored : file # Unreadable /\ Restored = file
        BY EmptyQueue DEF Restored
    <2>2. \A i \in DOMAIN Restored :
              /\ Restored[i].id \in ItemIds
              /\ Restored[i].status = "submitted" => broadcasts[Restored[i].id] > 0
              /\ Restored[i].status = "pending" => NotAgain(Restored[i].id)
        <3>1. ~running
            BY DEF Start
        <3>2. \A i \in DOMAIN Restored : Restored[i].id \in ItemIds /\ Restored[i].id # NoItem
            BY <1>2, ItemsAreSome
        <3> QED BY <1>1, <2>1, <3>1, <3>2 DEF RelayInv, FileAsSaid
    <2> QED BY <1>1, <2>2 DEF Start, RelayInv, SentAsSaid, NotAgain
<1>10. FileAsSaid'
    <2>1. ~running
        BY DEF Start
    <2>2. ASSUME file # Unreadable, NEW i \in DOMAIN file PROVE file[i].id # NoItem
        BY <2>2, ItemsAreSome DEF RelayInv, QueueInv, QueueTyped
    <2> QED BY <1>1, <2>1, <2>2 DEF Start, RelayInv, FileAsSaid, NotAgain
<1>11. FlagsTyped'
    BY Zenon DEF Start, RelayInv, FlagsTyped
<1> QED BY <1>3, <1>4, <1>5, <1>6, <1>7, <1>8, <1>9, <1>10, <1>11 DEF RelayInv, QueueInv

\* A request is accepted: its item is new and pending.
LEMMA RelayInvEnqueue ==
    ASSUME RelayInv, running, Enqueue,
           UNCHANGED <<daemonVars, clockVars, quote, historyVars>>
    PROVE  RelayInv'
<1> USE RelayAssumption, MaxItemsAssumption DEF daemonVars, clockVars, historyVars
<1>1. QueueTyped /\ IdsDistinct(items)
    BY DEF RelayInv, QueueInv
<1> DEFINE last == Len(items) + 1
<1>2. /\ items' \in Seq(Item)
      /\ DOMAIN items' = DOMAIN items \cup {last}
      /\ \A i \in DOMAIN items : i <= Len(items) /\ items'[i] = items[i]
      /\ items'[last] = [id |-> drawnIds, status |-> "pending"]
      /\ Ids(items') = Ids(items) \cup {drawnIds}
      /\ IdsDistinct(items)'
      /\ drawnIds \in ItemIds /\ drawnIds \notin Ids(items)
      /\ Accepted' = Accepted \cup {drawnIds} /\ drawnIds \notin Accepted
      /\ drawnIds' \in 0 .. MaxItems
    BY <1>1, EnqueueItems
<1>3. \/ file' = items' /\ written' = TRUE
      \/ file' \in {file, Unreadable} /\ written' = FALSE
    BY DEF Enqueue, Persist
<1>4. items' # Unreadable
    BY <1>2, UnreadableAssumption
<1>5. QueueTyped'
    BY <1>1, <1>2, <1>3 DEF QueueTyped
<1>6. (file # Unreadable => IdsDistinct(file))'
    BY <1>2, <1>3 DEF RelayInv, QueueInv, IdsDistinct
<1>7. Remembered'
    BY <1>2, <1>3 DEF RelayInv, QueueInv, DaemonTyped, Remembered
<1>8. FileKeepsUp'
    <2>1. Ids(items) = Accepted \ forgotten /\ forgotten \subseteq Accepted
        BY DEF RelayInv, QueueInv, DaemonTyped, Remembered
    <2> QED BY <1>2, <1>3, <1>4, <2>1 DEF FileKeepsUp, Accepted
<1>9. DaemonTyped'
    BY <1>2 DEF RelayInv, DaemonTyped
<1>10. (AwaitsAlone /\ DelayRuns)'
    BY DEF RelayInv, AwaitsAlone, DelayRuns
<1>11. inFlight # NoItem => inFlight # drawnIds
    BY <1>2 DEF RelayInv, DaemonTyped
<1>12. InTurn'
    <2>1. /\ PendingIn(items') = PendingIn(items) \cup {last} 
          /\ PendingIn(items) \subseteq DOMAIN items
        BY <1>2 DEF PendingIn
    <2>2. SUFFICES ASSUME inFlight # NoItem, NEW i \in DOMAIN items', items'[i].id = inFlight
                   PROVE  i \in PendingIn(items') /\ \A j \in PendingIn(items') : i <= j
        BY DEF InTurn
    <2>3. i \in DOMAIN items /\ items[i].id = inFlight
        BY <1>2, <1>11, <2>2
    <2>4. i \in PendingIn(items) /\ \A j \in PendingIn(items) : i <= j
        BY <2>2, <2>3 DEF RelayInv, InTurn
    <2> QED BY <1>1, <1>2, <2>1, <2>3, <2>4 DEF QueueTyped
<1>13. SentAsSaid'
    <2>1. broadcasts[drawnIds] = 0 /\ excuses[drawnIds] \in Nat
        BY <1>2 DEF RelayInv, DaemonTyped, SentAsSaid
    <2>2. \A id : NotAgain(id)' = NotAgain(id)
        BY DEF NotAgain
    <2>3. NotAgain(drawnIds)
        BY <2>1 DEF NotAgain
    <2> QED BY <1>2, <2>1, <2>2, <2>3 DEF RelayInv, SentAsSaid
<1>14. FileAsSaid'
    <2>1. CASE file' = items' /\ written' = TRUE
        BY <2>1, <1>13 DEF SentAsSaid, FileAsSaid
    <2>2. CASE file' \in {file, Unreadable} /\ written' = FALSE
        BY <2>2 DEF RelayInv, FileAsSaid
    <2> QED BY <1>3, <2>1, <2>2
<1>15. FlagsTyped'
    BY <1>3, Zenon DEF RelayInv, FlagsTyped
<1> QED BY <1>2, <1>5, <1>6, <1>7, <1>8, <1>9, <1>10, <1>12, <1>13, <1>14, <1>15
        DEF RelayInv, QueueInv

\* The outcome of a submission is recorded in the item awaited.
LEMMA RelayInvFinish ==
    ASSUME RelayInv, running, inFlight # NoItem, NEW status \in {"submitted", "failed"},
           status = "submitted" => handedOver,
           Finish(status)
    PROVE  RelayInv'
<1> USE RelayAssumption, MaxItemsAssumption DEF clockVars, historyVars
<1> DEFINE marked == WithStatus(items, inFlight, status)
<1>1. /\ QueueTyped /\ IdsDistinct(items) /\ inFlight \in Accepted
      /\ Ids(items) = Accepted \ forgotten /\ status \in Statuses /\ status # "pending"
    BY DEF RelayInv, QueueInv, DaemonTyped, Remembered, Statuses
<1>2. /\ items' = marked /\ drawnIds' = drawnIds /\ Accepted' = Accepted
      /\ inFlight' = NoItem /\ handedOver' = FALSE /\ timer' = BatchDelay
      /\ running' = running /\ stopping' = stopping
      /\ sinceBroadcast' = sinceBroadcast /\ freshStart' = freshStart
      /\ ends' = ends /\ broadcasts' = broadcasts /\ excuses' = excuses
      /\ forgotten' = forgotten
    BY DEF Finish, Mark, TimerAfter, Accepted
<1>3. /\ marked \in Seq(Item)
      /\ DOMAIN marked = DOMAIN items
      /\ \A i \in DOMAIN items :
            /\ marked[i].id = items[i].id
            /\ marked[i].status =
                   IF items[i].id = inFlight THEN status ELSE items[i].status
      /\ Ids(marked) = Ids(items)
    BY <1>1, MarkedItems DEF QueueTyped
<1>4. marked # Unreadable
    BY <1>3, UnreadableAssumption
<1>5. inFlight \notin Ids(items) => marked = items
    <2>1. ASSUME inFlight \notin Ids(items), NEW i \in DOMAIN items
          PROVE  marked[i] = items[i]
        BY <2>1 DEF WithStatus, Ids
    <2>2. DOMAIN items = 1 .. Len(items) /\ items = [i \in DOMAIN items |-> items[i]]
        BY <1>1 DEF QueueTyped
    <2> QED BY <2>1, <2>2 DEF WithStatus
<1>6. \/ inFlight \in Ids(items) /\ file' = marked /\ written' = TRUE
      \/ inFlight \in Ids(items) /\ file' \in {file, Unreadable} /\ written' = FALSE
      \/ inFlight \notin Ids(items) /\ marked = items /\ file' = file /\ written' = written
    BY <1>2, <1>5 DEF Finish, Mark, Persist
<1> HIDE DEF marked
<1>7. QueueTyped'
    BY <1>1, <1>2, <1>3, <1>6 DEF QueueTyped
<1>8. IdsDistinct(marked)
    BY <1>1, <1>3 DEF IdsDistinct
<1>9. IdsDistinct(items)' /\ (file # Unreadable => IdsDistinct(file))'
    BY <1>1, <1>2, <1>6, <1>8 DEF RelayInv, QueueInv, IdsDistinct
<1>10. Remembered'
    BY <1>1, <1>2, <1>3, <1>6 DEF RelayInv, QueueInv, Remembered
<1>11. FileKeepsUp'
    BY <1>1, <1>2, <1>3, <1>4, <1>6 DEF RelayInv, QueueInv, FileKeepsUp, Accepted
<1>12. FlagsTyped'
    BY <1>2, <1>6, Zenon DEF RelayInv, FlagsTyped
<1>13. DaemonTyped'
    BY <1>2 DEF RelayInv, DaemonTyped
<1>14. (AwaitsAlone /\ InTurn /\ DelayRuns)'
    BY <1>2 DEF RelayInv, AwaitsAlone, InTurn, DelayRuns, DaemonTyped
<1>15. \A id : NotAgain(id)' = NotAgain(id)
    BY <1>2 DEF NotAgain
<1>16. \A i \in DOMAIN items :
           /\ marked[i].status = "submitted" => broadcasts[marked[i].id] > 0
           /\ marked[i].status = "pending" => NotAgain(marked[i].id)
    BY <1>1, <1>3 DEF RelayInv, SentAsSaid
<1>17. SentAsSaid'
    BY <1>2, <1>3, <1>15, <1>16 DEF RelayInv, SentAsSaid
<1>18. FileAsSaid'
    <2>1. CASE file' = marked
        BY <1>2, <1>3, <1>15, <1>16, <2>1 DEF FileAsSaid
    <2>2. CASE file' \in {file, Unreadable} /\ written' = FALSE
        BY <1>2, <1>15, <2>2 DEF RelayInv, FileAsSaid
    <2>3. CASE inFlight \notin Ids(items) /\ file' = file /\ written' = written
        <3>1. written => Ids(file) = Ids(items)
            BY DEF RelayInv, QueueInv, FileKeepsUp
        <3>2. written => \A i \in DOMAIN file : file[i].id # inFlight
            BY <2>3, <3>1 DEF Ids
        <3> QED BY <1>2, <1>15, <2>3, <3>2 DEF RelayInv, FileAsSaid
    <2> QED BY <1>6, <2>1, <2>2, <2>3
<1> QED BY <1>7, <1>9, <1>10, <1>11, <1>12, <1>13, <1>14, <1>17, <1>18 DEF RelayInv, QueueInv

\* The timer fires: the item it finds was not sent but with an excuse.
LEMMA RelayInvTick ==
    ASSUME RelayInv, Tick
    PROVE  RelayInv'
<1> USE RelayAssumption, MaxItemsAssumption DEF queueVars, clockVars, historyVars
<1>1. /\ running /\ inFlight = NoItem /\ ~handedOver
      /\ freshStart \/ sinceBroadcast = BatchDelay
    BY DEF Tick, RelayInv, AwaitsAlone, DelayRuns, DaemonTyped
<1>2. /\ items' = items /\ file' = file /\ drawnIds' = drawnIds /\ written' = written
      /\ Accepted' = Accepted /\ running' = running /\ stopping' = stopping
      /\ handedOver' = handedOver
      /\ sinceBroadcast' = sinceBroadcast /\ freshStart' = freshStart
      /\ ends' = ends /\ broadcasts' = broadcasts /\ excuses' = excuses
      /\ forgotten' = forgotten
    BY DEF Tick, Accepted
<1>3. QueueInv' /\ FlagsTyped'
    <2>1. QueueInv'
        BY <1>2 DEF RelayInv, QueueInv, QueueTyped, IdsDistinct, Remembered, FileKeepsUp
    <2>2. FlagsTyped'
        BY <1>2, Zenon DEF RelayInv, FlagsTyped
    <2> QED BY <2>1, <2>2
<1>4. \A id : NotAgain(id)' = NotAgain(id)
    BY <1>2 DEF NotAgain
<1>5. CASE PendingIn(items) = {}
    <2>1. inFlight' = inFlight /\ timer' = BatchDelay
        BY <1>5 DEF Tick
    <2>2. DaemonTyped'
        BY <1>2, <2>1 DEF RelayInv, DaemonTyped
    <2>3. (AwaitsAlone /\ InTurn /\ DelayRuns)'
        BY <1>1, <1>2, <2>1 DEF RelayInv, AwaitsAlone, InTurn, DelayRuns, DaemonTyped
    <2>4. (SentAsSaid /\ FileAsSaid)'
        BY <1>2, <1>4, <2>1 DEF RelayInv, SentAsSaid, FileAsSaid
    <2> QED BY <1>3, <2>2, <2>3, <2>4 DEF RelayInv
<1>6. CASE PendingIn(items) # {}
    <2> DEFINE first == PeekNext
    <2>1. inFlight' = items[first].id /\ timer' = NoTimer
        BY <1>6 DEF Tick
    <2>2. /\ items \in Seq(Item)
          /\ IdsDistinct(items)
          /\ first \in PendingIn(items) /\ \A j \in PendingIn(items) : first <= j
        BY <1>6, PeekNextIsFirst DEF RelayInv, QueueInv, QueueTyped
    <2>3. /\ first \in DOMAIN items /\ items[first].status = "pending"
          /\ items[first].id \in Accepted /\ inFlight' # NoItem
        <3>1. first \in DOMAIN items /\ items[first].status = "pending"
            BY <2>2 DEF PendingIn
        <3>2. items[first].id \in Accepted
            BY <2>2, <3>1 DEF IdsDistinct, Ids
        <3> QED BY <2>1, <3>1, <3>2 DEF Accepted
    <2>4. NotAgain(items[first].id)
        BY <1>1, <2>1, <2>3 DEF RelayInv, SentAsSaid
    <2> HIDE DEF first
    <2>5. DaemonTyped'
        BY <1>2, <2>1, <2>3 DEF RelayInv, DaemonTyped
    <2>6. InTurn'
        BY <1>2, <2>1, <2>2, <2>3 DEF InTurn, IdsDistinct
    <2>7. (AwaitsAlone /\ DelayRuns)'
        BY <1>1, <1>2, <2>1, <2>3 DEF AwaitsAlone, DelayRuns
    <2>8. SentAsSaid'
        <3>1. \A i \in DOMAIN items : items[i].id # NoItem
            BY <2>2, ItemsAreSome
        <3> QED BY <1>1, <1>2, <1>4, <2>1, <2>3, <2>4, <3>1 DEF RelayInv, SentAsSaid
    <2>9. FileAsSaid'
        <3>1. ASSUME file # Unreadable, NEW i \in DOMAIN file PROVE file[i].id # NoItem
            BY <3>1, ItemsAreSome DEF RelayInv, QueueInv, QueueTyped
        <3> QED BY <1>1, <1>2, <1>4, <3>1 DEF RelayInv, FileAsSaid
    <2> QED BY <1>3, <2>5, <2>6, <2>7, <2>8, <2>9 DEF RelayInv
<1> QED BY <1>5, <1>6

\* The node takes the transaction of the item awaited.
LEMMA RelayInvNodeTakes ==
    ASSUME RelayInv, NodeTakes
    PROVE  RelayInv'
<1> USE RelayAssumption, MaxItemsAssumption DEF queueVars
<1>1. /\ running /\ inFlight # NoItem /\ ~handedOver /\ handedOver' = TRUE
      /\ timer = NoTimer /\ timer' = timer /\ inFlight' = inFlight
      /\ items' = items /\ file' = file /\ drawnIds' = drawnIds /\ written' = written
      /\ running' = running /\ stopping' = stopping /\ Accepted' = Accepted
      /\ sinceBroadcast' = 0 /\ freshStart' = FALSE
      /\ ends' = ends /\ excuses' = excuses /\ forgotten' = forgotten
    BY DEF NodeTakes, RelayInv, AwaitsAlone, Accepted
<1>2. /\ inFlight \in Accepted /\ inFlight \in ItemIds
      /\ broadcasts \in [ItemIds -> Nat] /\ excuses \in [ItemIds -> Nat]
      /\ broadcasts[inFlight] <= excuses[inFlight]
    <2>1. inFlight \in Accepted /\ drawnIds \in 0 .. MaxItems
        BY <1>1 DEF RelayInv, QueueInv, QueueTyped, DaemonTyped
    <2>2. inFlight \in ItemIds
        BY <2>1 DEF Accepted, ItemIds
    <2>3. broadcasts[inFlight] <= excuses[inFlight]
        BY <1>1 DEF RelayInv, SentAsSaid, NotAgain
    <2> QED BY <2>1, <2>2, <2>3 DEF RelayInv, DaemonTyped
<1>3. /\ broadcasts' \in [ItemIds -> Nat]
      /\ broadcasts'[inFlight] = broadcasts[inFlight] + 1
      /\ \A id \in ItemIds : id # inFlight => broadcasts'[id] = broadcasts[id]
    BY <1>2 DEF NodeTakes
<1>4. QueueInv'
    BY <1>1 DEF RelayInv, QueueInv, QueueTyped, IdsDistinct, Remembered, FileKeepsUp
<1>5. FlagsTyped'
    BY <1>1, Zenon DEF RelayInv, FlagsTyped
<1>6. DaemonTyped'
    BY <1>1, <1>3 DEF RelayInv, DaemonTyped
<1>7. (AwaitsAlone /\ InTurn /\ DelayRuns)'
    BY <1>1 DEF RelayInv, AwaitsAlone, InTurn, DelayRuns
<1>8. ASSUME NEW id \in ItemIds, broadcasts[id] > 0
      PROVE  broadcasts'[id] > 0
    BY <1>2, <1>3, <1>8
<1>9. SentAsSaid'
    <2>1. \A i \in DOMAIN items : items[i].id \in ItemIds
        BY ItemsAreSome DEF RelayInv, QueueInv, QueueTyped
    <2>2. \A id \in ItemIds : broadcasts'[id] <= 1 + excuses[id]
        BY <1>2, <1>3 DEF RelayInv, SentAsSaid
    <2>3. \A id \in ItemIds : id \notin Accepted => broadcasts'[id] = 0
        BY <1>2, <1>3 DEF RelayInv, SentAsSaid
    <2>4. broadcasts'[inFlight] > 0
        BY <1>2, <1>3
    <2>5. ASSUME NEW i \in DOMAIN items
          PROVE  /\ items[i].status = "submitted" => broadcasts'[items[i].id] > 0
                 /\ items[i].status = "pending" =>
                        inFlight = items[i].id \/ NotAgain(items[i].id)'
        <3>1. /\ items[i].id \in ItemIds
              /\ items[i].status = "submitted" => broadcasts[items[i].id] > 0
              /\ items[i].status = "pending" =>
                     inFlight = items[i].id \/ NotAgain(items[i].id)
            BY <2>1 DEF RelayInv, SentAsSaid
        <3> QED BY <1>1, <1>3, <1>8, <3>1 DEF NotAgain
    <2> QED BY <1>1, <2>2, <2>3, <2>4, <2>5 DEF SentAsSaid
<1>10. FileAsSaid'
    <2>1. file # Unreadable => \A i \in DOMAIN file : file[i].id \in ItemIds
        BY ItemsAreSome DEF RelayInv, QueueInv, QueueTyped
    <2>2. ASSUME file # Unreadable, NEW i \in DOMAIN file
          PROVE  /\ file[i].status = "submitted" => broadcasts'[file[i].id] > 0
                 /\ file[i].status = "pending" =>
                        \/ inFlight = file[i].id
                        \/ running /\ ~written
                        \/ NotAgain(file[i].id)'
        <3>1. /\ file[i].id \in ItemIds
              /\ file[i].status = "submitted" => broadcasts[file[i].id] > 0
              /\ file[i].status = "pending" =>
                     \/ inFlight = file[i].id
                     \/ running /\ ~written
                     \/ NotAgain(file[i].id)
            BY <2>1, <2>2 DEF RelayInv, FileAsSaid
        <3> QED BY <1>1, <1>3, <1>8, <3>1 DEF NotAgain
    <2> QED BY <1>1, <2>2 DEF FileAsSaid
<1> QED BY <1>4, <1>5, <1>6, <1>7, <1>9, <1>10 DEF RelayInv

\* The process ends: what it awaited, or had not written, has one more excuse.
LEMMA RelayInvEnds ==
    ASSUME RelayInv, Ends, file' \in {file, Unreadable},
           written' \in BOOLEAN, written' => written /\ file' = file
    PROVE  RelayInv'
<1> USE RelayAssumption, MaxItemsAssumption DEF clockVars
<1>1. /\ running /\ running' = FALSE /\ stopping' = FALSE /\ timer' = NoTimer
      /\ inFlight' = NoItem /\ handedOver' = FALSE /\ items' = <<>>
      /\ drawnIds' = drawnIds /\ Accepted' = Accepted /\ ends' = ends + 1
      /\ sinceBroadcast' = sinceBroadcast /\ freshStart' = freshStart
      /\ broadcasts' = broadcasts /\ forgotten' = forgotten
    BY DEF Ends, Accepted
<1>2. /\ broadcasts \in [ItemIds -> Nat] /\ excuses \in [ItemIds -> Nat]
      /\ excuses' \in [ItemIds -> Nat]
      /\ \A id \in ItemIds :
            /\ excuses'[id] >= excuses[id]
            /\ inFlight = id \/ ~written => excuses'[id] = excuses[id] + 1
    BY DEF Ends, RelayInv, DaemonTyped
<1>3. QueueInv'
    <2>1. QueueTyped' /\ IdsDistinct(items)'
        BY <1>1, EmptyQueue DEF RelayInv, QueueInv, QueueTyped, IdsDistinct
    <2>2. (file # Unreadable => IdsDistinct(file))'
        BY <1>1 DEF RelayInv, QueueInv, IdsDistinct
    <2>3. Remembered'
        BY <1>1 DEF RelayInv, QueueInv, Remembered
    <2>4. FileKeepsUp'
        BY <1>1 DEF RelayInv, QueueInv, FileKeepsUp
    <2> QED BY <2>1, <2>2, <2>3, <2>4 DEF QueueInv
<1>4. FlagsTyped'
    BY <1>1, Zenon DEF RelayInv, FlagsTyped
<1>5. DaemonTyped'
    BY <1>1, <1>2 DEF RelayInv, DaemonTyped
<1>6. (AwaitsAlone /\ InTurn /\ DelayRuns)'
    BY <1>1 DEF RelayInv, AwaitsAlone, InTurn, DelayRuns
<1>7. \A id \in ItemIds : NotAgain(id) \/ inFlight = id \/ ~written => NotAgain(id)'
    BY <1>1, <1>2 DEF RelayInv, SentAsSaid, NotAgain
<1>8. SentAsSaid'
    <2>1. \A id \in ItemIds : broadcasts[id] <= 1 + excuses'[id]
        BY <1>2 DEF RelayInv, SentAsSaid
    <2> QED BY <1>1, <2>1, EmptyQueue DEF RelayInv, SentAsSaid
<1>9. FileAsSaid'
    <2>1. file # Unreadable => \A i \in DOMAIN file : file[i].id \in ItemIds
        BY ItemsAreSome DEF RelayInv, QueueInv, QueueTyped
    <2> QED BY <1>1, <1>7, <2>1 DEF RelayInv, FileAsSaid
<1> QED BY <1>3, <1>4, <1>5, <1>6, <1>8, <1>9 DEF RelayInv

\* No other action concerns more than the timer and the time since the last broadcast.
LEMMA RelayInvTime ==
    ASSUME RelayInv,
           UNCHANGED <<queueVars, running, inFlight, handedOver, freshStart, historyVars>>,
           stopping' \in BOOLEAN,
           \/ timer' = timer /\ sinceBroadcast' = sinceBroadcast
           \/ timer' = NoTimer /\ sinceBroadcast' = sinceBroadcast
           \/ Clock
    PROVE  RelayInv'
<1> USE RelayAssumption, MaxItemsAssumption DEF queueVars, historyVars
<1>1. QueueInv'
    BY DEF RelayInv, QueueInv, QueueTyped, IdsDistinct, Remembered, FileKeepsUp, Accepted
<1>2. FlagsTyped'
    BY Zenon DEF RelayInv, FlagsTyped
<1>3. DaemonTyped'
    BY DEF RelayInv, DaemonTyped, Accepted, Clock
<1>4. (AwaitsAlone /\ InTurn)'
    BY DEF RelayInv, AwaitsAlone, InTurn, Clock
<1>5. DelayRuns'
    BY DEF RelayInv, DelayRuns, DaemonTyped, Clock
<1>6. \A id : NotAgain(id)' = NotAgain(id)
    BY DEF NotAgain
<1>7. (SentAsSaid /\ FileAsSaid)'
    BY <1>6 DEF RelayInv, SentAsSaid, FileAsSaid, Accepted
<1> QED BY <1>1, <1>2, <1>3, <1>4, <1>5, <1>7 DEF RelayInv

LEMMA RelayInvNext == RelayInv /\ [Next]_vars => RelayInv'
<1> SUFFICES ASSUME RelayInv, [Next]_vars PROVE RelayInv'
    OBVIOUS
<1>1. CASE Start
    BY <1>1, RelayInvStart
<1>2. CASE PostDeposit
    BY <1>2, RelayInvEnqueue DEF PostDeposit
<1>3. CASE PostWithdrawal
    BY <1>3, RelayInvEnqueue DEF PostWithdrawal
<1>4. CASE TellFee
    <2>1. stopping' \in BOOLEAN
        BY <1>4, Zenon DEF TellFee, daemonVars, RelayInv, FlagsTyped
    <2> QED BY <1>4, <2>1, RelayInvTime DEF TellFee, daemonVars, clockVars
<1>5. CASE Tick
    BY <1>5, RelayInvTick
<1>6. CASE NodeTakes
    BY <1>6, RelayInvNodeTakes
<1>7. CASE Submitted
    BY <1>7, RelayInvFinish DEF Submitted
<1>8. CASE SubmissionFails
    BY <1>8, RelayInvFinish DEF SubmissionFails
<1>9. CASE Shutdown
    BY <1>9, RelayInvTime DEF Shutdown, clockVars
<1>10. CASE Exit
    <2>1. written' \in BOOLEAN
        BY <1>10, Zenon DEF Exit, RelayInv, FlagsTyped
    <2> QED BY <1>10, <2>1, RelayInvEnds DEF Exit
<1>11. CASE Crash
    <2>1. written' \in BOOLEAN
        BY <1>11 DEF Crash
    <2> QED BY <1>11, <2>1, RelayInvEnds DEF Crash
<1>12. CASE Clock
    <2>1. stopping' \in BOOLEAN
        BY <1>12, Zenon DEF Clock, RelayInv, FlagsTyped
    <2> QED BY <1>12, <2>1, RelayInvTime DEF Clock
<1>13. CASE UNCHANGED vars
    <2>1. stopping' \in BOOLEAN
        BY <1>13, Zenon DEF vars, daemonVars, RelayInv, FlagsTyped
    <2> QED BY <1>13, <2>1, RelayInvTime DEF vars, daemonVars, clockVars
<1> QED BY <1>1, <1>2, <1>3, <1>4, <1>5, <1>6, <1>7, <1>8, <1>9, <1>10, <1>11, <1>12, <1>13
        DEF Next

LEMMA RelayInvHolds == Spec => []RelayInv
    BY RelayInvInit, RelayInvNext, PTL DEF Spec

-----------------------------------------------------------------------------
(***************************************************************************)
(* What follows from the invariant.                                        *)
(***************************************************************************)
\* The file keeps up with the queue: it holds the queue of a running process, and
\* lacks nothing accepted that was not lost before, unless the last write failed.
THEOREM FileIsKeptUp == Spec => []FileKeepsUp
<1>1. RelayInv => FileKeepsUp
    BY DEF RelayInv, QueueInv
<1> QED BY <1>1, RelayInvHolds, PTL

\* No item is sent to the node again but because the process ended while it awaited
\* the item, or while its file was behind.
THEOREM RebroadcastsHaveExcuses == Spec => []RebroadcastsExplained
<1>1. RelayInv => RebroadcastsExplained
    BY DEF RelayInv, SentAsSaid, RebroadcastsExplained
<1> QED BY <1>1, RelayInvHolds, PTL

\* The status the relay tells of an item is true of the node: submitted was taken,
\* pending was not, but for an item awaited or a process that ended badly.
THEOREM StatusIsTruthful == Spec => []StatusTruthful
<1>1. ASSUME RelayInv PROVE StatusTruthful
    <2>1. ASSUME NEW i \in DOMAIN items
          PROVE  /\ items[i].status = "submitted" => broadcasts[items[i].id] > 0
                 /\ items[i].status = "pending" /\ broadcasts[items[i].id] > 0 =>
                        inFlight = items[i].id \/ excuses[items[i].id] > 0
        <3>1. items[i].id \in ItemIds
            BY <1>1, ItemsAreSome DEF RelayInv, QueueInv, QueueTyped
        <3>2. /\ items[i].status = "submitted" => broadcasts[items[i].id] > 0
              /\ items[i].status = "pending" =>
                     inFlight = items[i].id \/ broadcasts[items[i].id] <= excuses[items[i].id]
            BY <1>1 DEF RelayInv, SentAsSaid, NotAgain
        <3>3. broadcasts[items[i].id] \in Nat /\ excuses[items[i].id] \in Nat
            BY <1>1, <3>1 DEF RelayInv, DaemonTyped
        <3> QED BY <3>2, <3>3
    <2> QED BY <2>1 DEF StatusTruthful
<1> QED BY <1>1, RelayInvHolds, PTL

\* The node takes the items in the order they were accepted, no two of them within the
\* configured delay while the process is up.
THEOREM ItemsAreSentInTurn == Spec => SentInTurn
<1> DEFINE Turn == \A i \in DOMAIN items :
        broadcasts'[items[i].id] # broadcasts[items[i].id] =>
            /\ freshStart \/ sinceBroadcast = BatchDelay
            /\ i \in PendingIn(items) /\ \A j \in PendingIn(items) : i <= j
<1>1. RelayInv /\ [Next]_vars => [Turn]_vars
    <2> SUFFICES ASSUME RelayInv, Next PROVE Turn
        BY DEF Turn
    <2>1. CASE NodeTakes
        <3>1. /\ inFlight # NoItem /\ ~handedOver
              /\ broadcasts' = [broadcasts EXCEPT ![inFlight] = @ + 1]
            BY <2>1 DEF NodeTakes
        <3>2. freshStart \/ sinceBroadcast = BatchDelay
            BY <3>1 DEF RelayInv, DelayRuns
        <3>3. ASSUME NEW i \in DOMAIN items,
                     broadcasts'[items[i].id] # broadcasts[items[i].id]
              PROVE  items[i].id = inFlight
            <4>1. items[i].id \in ItemIds
                BY ItemsAreSome DEF RelayInv, QueueInv, QueueTyped
            <4> QED BY <3>1, <3>3, <4>1 DEF RelayInv, DaemonTyped
        <3> QED BY <3>1, <3>2, <3>3 DEF RelayInv, InTurn
    <2>2. CASE ~NodeTakes
        <3>1. broadcasts' = broadcasts
            BY <2>2 DEF Next, Start, PostDeposit, PostWithdrawal, TellFee, Tick, Submitted,
                SubmissionFails, Finish, Shutdown, Exit, Crash, Ends, Clock, historyVars
        <3> QED BY <3>1
    <2> QED BY <2>1, <2>2
<1>2. Spec => [][Turn]_vars
    BY <1>1, RelayInvHolds, PTL DEF Spec
<1> QED BY <1>2 DEF SentInTurn

\* A process that was not told to stop has its timer set or awaits a submission, never
\* both, and its queue has all that was accepted but what an earlier failure lost.
WorkScheduled ==
    running =>
        /\ ~stopping => (timer = NoTimer <=> inFlight # NoItem)
        /\ Accepted \ forgotten = Ids(items)

NextIsSet == running /\ ~stopping => timer # NoTimer \/ inFlight # NoItem

\* What fires or ends sets the next timer; only shutdown sets none.
LEMMA NextStaysSet == RelayInv /\ NextIsSet /\ [Next]_vars => NextIsSet'
<1> SUFFICES ASSUME RelayInv, NextIsSet, [Next]_vars PROVE NextIsSet'
    OBVIOUS
<1> USE RelayAssumption DEF NextIsSet
<1>1. CASE Start
    BY <1>1 DEF Start
<1>2. CASE PostDeposit \/ PostWithdrawal \/ TellFee
    BY <1>2 DEF PostDeposit, PostWithdrawal, TellFee, daemonVars
<1>3. CASE Tick
    <2>1. CASE PendingIn(items) = {}
        BY <1>3, <2>1 DEF Tick
    <2>2. CASE PendingIn(items) # {}
        <3>1. PeekNext \in DOMAIN items
            BY <2>2, PeekNextIsFirst DEF RelayInv, QueueInv, QueueTyped, PendingIn
        <3>2. items[PeekNext].id # NoItem
            BY <3>1, ItemsAreSome DEF RelayInv, QueueInv, QueueTyped
        <3>3. inFlight' = items[PeekNext].id
            BY <1>3, <2>2 DEF Tick
        <3> QED BY <3>2, <3>3
    <2> QED BY <2>1, <2>2
<1>4. CASE NodeTakes
    BY <1>4 DEF NodeTakes
<1>5. CASE Submitted \/ SubmissionFails
    BY <1>5 DEF Submitted, SubmissionFails, Finish, TimerAfter
<1>6. CASE Shutdown
    BY <1>6 DEF Shutdown
<1>7. CASE Exit \/ Crash
    BY <1>7 DEF Exit, Crash, Ends
<1>8. CASE Clock
    BY <1>8 DEF Clock, RelayInv, DaemonTyped
<1>9. CASE UNCHANGED vars
    BY <1>9 DEF vars, daemonVars
<1> QED BY <1>1, <1>2, <1>3, <1>4, <1>5, <1>6, <1>7, <1>8, <1>9 DEF Next

\* Wherever requests, submissions, shutdowns and ends of the process meet, a running process
\* that was not told to stop never rests: its timer is set, or a submission is awaited whose
\* end will set it; so no pending item is left waiting for nothing.  And none that was
\* accepted has left its queue but what an earlier failure lost.
THEOREM WorkStaysScheduled == Spec => []WorkScheduled
<1>1. Init => NextIsSet
    BY DEF Init, NextIsSet
<1>2. RelayInv /\ NextIsSet => WorkScheduled
    BY DEF RelayInv, QueueInv, AwaitsAlone, Remembered, NextIsSet, WorkScheduled
<1> QED BY <1>1, <1>2, NextStaysSet, RelayInvHolds, PTL DEF Spec

-----------------------------------------------------------------------------
(***************************************************************************)
(* Fees.                                                                   *)
(***************************************************************************)
\* A longer queue costs no less, and nothing costs more than the maximum.
LEMMA FeeGrows ==
    ASSUME NEW short \in Nat, NEW long \in Nat, short <= long
    PROVE  CurrentFee(short) <= CurrentFee(long) /\ CurrentFee(long) <= MaxFee
<1> USE RelayAssumption
<1>1. Larger(BaseFee, PercentageFee) \in Nat
    BY DEF Larger
<1>2. Surcharge(short) \in Nat /\ Surcharge(long) \in Nat /\ Surcharge(short) <= Surcharge(long)
    <2>1. CASE short > SurchargeDepth
        <3> DEFINE a == short - SurchargeDepth
                   b == long - SurchargeDepth
        <3>1. a \in Nat /\ b \in Nat /\ a <= b
            BY <2>1
        <3> HIDE DEF a, b
        <3>2. BaseFee * a \in Nat /\ BaseFee * b \in Nat /\ BaseFee * a <= BaseFee * b
            BY <3>1
        <3>3. \A m, n \in Nat : m <= n =>
                  m \div 10 \in Nat /\ n \div 10 \in Nat /\ m \div 10 <= n \div 10
            OBVIOUS
        <3>4. (BaseFee * a) \div 10 <= (BaseFee * b) \div 10
              /\ (BaseFee * a) \div 10 \in Nat /\ (BaseFee * b) \div 10 \in Nat
            BY <3>2, <3>3
        <3> QED BY <2>1, <3>4 DEF Surcharge, a, b
    <2>2. CASE ~(short > SurchargeDepth)
        <3>1. Surcharge(short) = 0
            BY <2>2 DEF Surcharge
        <3>2. Surcharge(long) \in Nat
            <4>1. CASE long > SurchargeDepth
                <5>1. BaseFee * (long - SurchargeDepth) \in Nat
                    BY <4>1
                <5>2. \A n \in Nat : n \div 10 \in Nat
                    OBVIOUS
                <5> QED BY <4>1, <5>1, <5>2 DEF Surcharge
            <4>2. CASE ~(long > SurchargeDepth)
                BY <4>2 DEF Surcharge
            <4> QED BY <4>1, <4>2
        <3> QED BY <3>1, <3>2
    <2> QED BY <2>1, <2>2
<1> QED BY <1>1, <1>2 DEF CurrentFee, Capped

LEMMA PendingCountIsNat ==
    ASSUME items \in Seq(Item)
    PROVE  PendingCount \in Nat
<1>1. IsFiniteSet(1 .. Len(items))
    BY FS_Interval
<1>2. PendingIn(items) \subseteq 1 .. Len(items)
    BY DEF PendingIn
<1> QED BY <1>1, <1>2, FS_Subset, FS_CardinalityType DEF PendingCount

QuoteInv == quote.depth \in Nat /\ quote.fee = CurrentFee(quote.depth)

\* The fee a client was told is enough until the queue grows, and never above the maximum.
THEOREM QuotesHold == Spec => []QuoteHolds
<1>1. Init => QuoteInv
    BY DEF Init, QuoteInv
<1>2. RelayInv /\ QuoteInv /\ [Next]_vars => QuoteInv'
    <2> SUFFICES ASSUME RelayInv, QuoteInv, [Next]_vars PROVE QuoteInv'
        OBVIOUS
    <2>1. CASE TellFee
        <3>1. PendingCount \in Nat
            BY PendingCountIsNat DEF RelayInv, QueueInv, QueueTyped
        <3>2. quote' = [fee |-> CurrentFee(PendingCount), depth |-> PendingCount]
            BY <2>1 DEF TellFee
        <3>3. quote'.depth \in Nat /\ quote'.fee = CurrentFee(quote'.depth)
            BY <3>1, <3>2
        <3> QED BY <3>3 DEF QuoteInv, CurrentFee, Capped, Larger, Surcharge
    <2>2. CASE ~TellFee
        <3>1. quote' = quote
            BY <2>2 DEF Next, vars, Start, PostDeposit, PostWithdrawal, Tick, NodeTakes, Submitted,
                SubmissionFails, Finish, Shutdown, Exit, Crash, Ends, Clock
        <3> QED BY <3>1 DEF QuoteInv, CurrentFee, Capped, Larger, Surcharge
    <2> QED BY <2>1, <2>2
<1>3. RelayInv /\ QuoteInv => QuoteHolds
    <2> SUFFICES ASSUME RelayInv, QuoteInv PROVE QuoteHolds
        OBVIOUS
    <2>1. PendingCount \in Nat
        BY PendingCountIsNat DEF RelayInv, QueueInv, QueueTyped
    <2> QED BY <2>1, FeeGrows DEF QuoteInv, QuoteHolds
<1> QED BY <1>1, <1>2, <1>3, RelayInvHolds, PTL DEF Spec

-----------------------------------------------------------------------------
(***************************************************************************)
(* The scanner.  A poll that is notifying has read the chain up to a block *)
(* that the chain may have dropped since, and the cursor is past a block   *)
(* that some poll read: up to there every payment has arrived, or waits in *)
(* the poll's hands, and a block mined there again is at a reused height.  *)
(***************************************************************************)
TxIds == Nat \X Nat \X Nat

Event == [txId : TxIds, kind : Kinds, block : Nat]

PollState ==
    {Idle} \cup [phase : {"asked"}, from : Nat]
        \cup [phase : {"notifying"}, todo : Seq(Event), attempt : {1, 2}, maxBlock : Nat]

ScannerTyped ==
    /\ height \in Nat /\ forks \in Nat /\ starts \in Nat
    /\ lastScannedBlock \in Nat /\ highestSeen \in Nat
    /\ chainEvents \in Seq(Event)
    /\ polls \in [Polls -> PollState]

OnChain == ToSet(chainEvents)

\* The payments below a block have arrived, but for those of the given transactions.
Settled(block, waiting) ==
    /\ \A event \in OnChain :
           event.kind = "payment" /\ event.block < block =>
               Arrived(event) \/ event.txId \in waiting
    /\ \A b \in Nat : height < b /\ b < block => b \in reused

TxIdsOf(events) == {event.txId : event \in ToSet(events)}

PollPlaced(p) ==
    /\ polls[p].phase = "asked" => polls[p].from <= lastScannedBlock
    /\ polls[p].phase = "notifying" =>
           /\ polls[p].todo # <<>>
           /\ Settled(polls[p].maxBlock + 1, TxIdsOf(polls[p].todo))

ScannerInv ==
    /\ ScannerTyped
    /\ \A event \in OnChain : event.block <= height
    /\ Settled(lastScannedBlock, {})
    /\ highestSeen <= lastScannedBlock
    /\ \A p \in Polls : PollPlaced(p)

\* Filtered gives the members that are wanted, and no others.
LEMMA FilteredMembers ==
    ASSUME NEW S, NEW events \in Seq(S), NEW wanted
    PROVE  /\ Filtered(events, wanted) \in Seq(S)
           /\ ToSet(Filtered(events, wanted)) = ToSet(events) \cap wanted
<1> DEFINE n == Len(events)
           step == [i \in 1 .. n |-> [h \in Seq(S) |-> Kept(h, events[i], wanted)]]
           filtered == CHOOSE f : f = [i \in 0 .. n |->
                           IF i = 0 THEN <<>> ELSE Kept(f[i - 1], events[i], wanted)]
<1>1. n \in Nat /\ DOMAIN events = 1 .. n /\ \A i \in 1 .. n : events[i] \in S
  BY LenProperties, ElementOfSeq
<1>2. \A h \in Seq(S), e \in S : Kept(h, e, wanted) \in Seq(S)
  BY AppendProperties DEF Kept
<1>3. step \in [1 .. n -> [Seq(S) -> Seq(S)]]
  BY <1>1, <1>2
<1>4. PICK f : Iterates(f, n, <<>>, step, Seq(S))
  <2>1. <<>> \in Seq(S)
    OBVIOUS
  <2> HIDE DEF n, step, filtered
  <2> QED
    BY <1>1, <1>3, <2>1, IterationExists
<1>5. f = [i \in 0 .. n |-> IF i = 0 THEN <<>> ELSE Kept(f[i - 1], events[i], wanted)]
  <2>1. /\ f \in [0 .. n -> Seq(S)] /\ f[0] = <<>>
        /\ \A i \in 1 .. n : f[i] = step[i][f[i - 1]]
    BY <1>4 DEF Iterates
  <2>2. \A i \in 1 .. n : f[i - 1] \in Seq(S)
    <3> HIDE DEF n, step
    <3> QED
      BY <1>1, <2>1
  <2>3. \A i \in 1 .. n : step[i][f[i - 1]] = Kept(f[i - 1], events[i], wanted)
    BY <2>2
  <2> HIDE DEF step, n
  <2>4. f = [i \in 0 .. n |-> f[i]]
    BY <2>1
  <2>5. \A i \in 0 .. n :
            f[i] = IF i = 0 THEN <<>> ELSE Kept(f[i - 1], events[i], wanted)
    BY <1>1, <2>1, <2>3
  <2> QED
    BY <2>4, <2>5
<1>6. filtered = [i \in 0 .. n |-> IF i = 0 THEN <<>>
                                   ELSE Kept(filtered[i - 1], events[i], wanted)]
  BY <1>5
<1>7. Filtered(events, wanted) = filtered[n]
  BY DEF Filtered
<1> HIDE DEF filtered
<1>8. /\ filtered[0] = <<>>
      /\ \A i \in 1 .. n : filtered[i] = Kept(filtered[i - 1], events[i], wanted)
  BY <1>1, <1>6
<1> DEFINE Good(i) == /\ filtered[i] \in Seq(S)
                      /\ ToSet(filtered[i]) = {events[j] : j \in 1 .. i} \cap wanted
           T == {i \in 0 .. n : Good(i)}
<1>9. 0 \in T
  <2>1. filtered[0] = <<>> /\ 0 \in 0 .. n
    BY <1>1, <1>8
  <2>2. <<>> \in Seq(S) /\ ToSet(<<>>) = {} /\ {events[j] : j \in 1 .. 0} = {}
    BY DEF ToSet
  <2> HIDE DEF filtered, n
  <2> QED
    BY <2>1, <2>2
<1>10. ASSUME NEW i \in 1 .. n, i - 1 \in T PROVE i \in T
  <2>1. /\ filtered[i - 1] \in Seq(S) /\ i - 1 \in Nat /\ i \in 0 .. n
        /\ ToSet(filtered[i - 1]) = {events[j] : j \in 1 .. i - 1} \cap wanted
        /\ filtered[i] = Kept(filtered[i - 1], events[i], wanted)
        /\ events[i] \in S
    BY <1>1, <1>8, <1>10
  <2> DEFINE before == filtered[i - 1]
             e == events[i]
  <2>2. {events[j] : j \in 1 .. i} = {events[j] : j \in 1 .. i - 1} \cup {e}
    BY <1>1
  <2>3. CASE e \in wanted
    <3>1. filtered[i] = Append(before, e)
      BY <2>1, <2>3 DEF Kept
    <3>2. Append(before, e) \in Seq(S) /\ ToSet(Append(before, e)) = ToSet(before) \cup {e}
      <4> HIDE DEF before, e
      <4>1. before \in Seq(S) /\ e \in S
        BY <2>1 DEF before, e
      <4> QED
        BY <4>1, AppendProperties DEF ToSet
    <3> HIDE DEF before, e, filtered
    <3> QED
      BY <2>1, <2>2, <2>3, <3>1, <3>2 DEF before, e
  <2>4. CASE e \notin wanted
    BY <2>1, <2>2, <2>4 DEF Kept
  <2> QED
    BY <2>3, <2>4
<1>11. n \in T
  <2> HIDE DEF T
  <2>1. 0 .. n \subseteq T
    BY <1>1, <1>9, <1>10, IntervalInduction
  <2> QED
    BY <1>1, <2>1
<1>12. ToSet(events) = {events[j] : j \in 1 .. n}
  BY <1>1 DEF ToSet
<1> QED
  BY <1>7, <1>11, <1>12

LEMMA PaymentsOf ==
    ASSUME NEW events \in Seq(Event)
    PROVE  /\ Payments(events) \in Seq(Event)
           /\ ToSet(Payments(events)) = {event \in ToSet(events) : event.kind = "payment"}
BY FilteredMembers DEF Payments

LEMMA MembersOfPage ==
    ASSUME chainEvents \in Seq(Event)
    PROVE  Page \in Seq(Event) /\ ToSet(Page) \subseteq OnChain
<1> DEFINE length == IF PageSize < Len(chainEvents) THEN PageSize ELSE Len(chainEvents)
<1>1. length \in 0 .. Len(chainEvents) /\ Len(chainEvents) \in Nat
  BY ScannerAssumption, LenProperties
<1>2. \A i \in 1 .. length : chainEvents[i] \in Event /\ i \in DOMAIN chainEvents
  BY <1>1, LenProperties, ElementOfSeq
<1>3. Page = [i \in 1 .. length |-> chainEvents[i]]
  <2> HIDE DEF length
  <2>1. Page = SubSeq(chainEvents, 1, length)
    BY DEF Page, length
  <2> QED
    BY <1>1, <2>1, SubSeqProperties
<1> HIDE DEF length
<1>4. Page \in Seq(Event)
  BY <1>1, <1>2, <1>3
<1>5. ToSet(Page) \subseteq OnChain
  BY <1>2, <1>3 DEF ToSet, OnChain
<1> QED
  BY <1>4, <1>5

\* The highest of some numbers up to a bound.
LEMMA HighestIs ==
    ASSUME NEW n \in Nat, NEW blocks, blocks \subseteq 0 .. n, blocks # {}
    PROVE  /\ Highest(blocks) \in blocks /\ Highest(blocks) \in 0 .. n
           /\ \A other \in blocks : other <= Highest(blocks)
<1>1. \E block \in blocks : \A other \in blocks : other <= block
  BY GreatestExists
<1> QED
  BY <1>1 DEF Highest

LEMMA ScannerInvInit == ScannerInit => ScannerInv
<1> SUFFICES ASSUME ScannerInit PROVE ScannerInv
  OBVIOUS
<1>1. ScannerTyped
  BY DEF ScannerInit, ScannerTyped, PollState
<1>2. OnChain = {}
  BY DEF ScannerInit, OnChain, ToSet
<1>3. \A p \in Polls : PollPlaced(p)
  BY DEF ScannerInit, PollPlaced, Idle
<1> QED
  BY <1>1, <1>2, <1>3 DEF ScannerInit, ScannerInv, Settled

\* What is settled stays so while the chain keeps its events and the records grow.
SettledStays ==
    /\ UNCHANGED <<height, chainEvents, reused>>
    /\ notified \subseteq notified' /\ offPage \subseteq offPage'

LEMMA StillSettled ==
    ASSUME SettledStays, NEW block, NEW waiting, Settled(block, waiting)
    PROVE  Settled(block, waiting)'
BY DEF SettledStays, Settled, OnChain, Arrived

\* The cursor moves to where the payments are settled, and never back.
LEMMA ProceedPlaces ==
    ASSUME ScannerTyped, highestSeen <= lastScannedBlock,
           NEW cursor, cursor = lastScannedBlock, Settled(cursor, {})',
           NEW p \in Polls, NEW todo \in Seq(Event), NEW maxBlock \in Nat,
           Settled(maxBlock + 1, TxIdsOf(todo))',
           Proceed(p, todo, maxBlock)
    PROVE  /\ polls' \in [Polls -> PollState]
           /\ lastScannedBlock' \in Nat /\ lastScannedBlock' >= cursor
           /\ highestSeen' \in Nat /\ highestSeen' <= lastScannedBlock'
           /\ Settled(lastScannedBlock, {})'
           /\ PollPlaced(p)'
           /\ \A q \in Polls : q # p => polls'[q] = polls[q]
<1>1. /\ polls \in [Polls -> PollState] /\ cursor \in Nat /\ highestSeen \in Nat
      /\ highestSeen <= cursor
  BY DEF ScannerTyped
<1>2. CASE todo # <<>>
  <2> DEFINE next == [phase |-> "notifying", todo |-> todo, attempt |-> 1,
                      maxBlock |-> maxBlock]
  <2>1. /\ polls' = [polls EXCEPT ![p] = next]
        /\ UNCHANGED <<lastScannedBlock, highestSeen>>
    BY <1>2 DEF Proceed
  <2>2. next \in PollState
    BY DEF PollState
  <2>3. /\ next.phase = "notifying" /\ next.todo = todo /\ next.maxBlock = maxBlock
        /\ polls'[p] = next
    BY <1>1, <2>1
  <2> HIDE DEF next
  <2>4. PollPlaced(p)'
    BY <1>2, <2>3 DEF PollPlaced
  <2>5. Settled(lastScannedBlock, {})'
    BY <2>1
  <2> QED
    BY <1>1, <2>1, <2>2, <2>4, <2>5
<1>3. CASE todo = <<>>
  <2>1. /\ polls' = [polls EXCEPT ![p] = Idle]
        /\ lastScannedBlock' = IF maxBlock > cursor THEN maxBlock + 1 ELSE cursor
        /\ highestSeen' = Highest({highestSeen, maxBlock})
    BY <1>3 DEF Proceed, CursorAfter
  <2>2. Idle \in PollState /\ Idle.phase = "idle"
    BY DEF PollState, Idle
  <2>3. PollPlaced(p)'
    BY <1>1, <2>1, <2>2 DEF PollPlaced
  <2>4. Settled(maxBlock + 1, {})'
    <3>1. TxIdsOf(todo) = {}
      BY <1>3 DEF TxIdsOf, ToSet
    <3> QED
      BY <3>1
  <2>5. Settled(lastScannedBlock, {})'
    <3>1. CASE maxBlock > cursor
      BY <2>1, <2>4, <3>1
    <3>2. CASE ~(maxBlock > cursor)
      BY <2>1, <3>2
    <3> QED
      BY <3>1, <3>2
  <2>6. highestSeen' \in {highestSeen, maxBlock}
    <3>1. /\ highestSeen + maxBlock \in Nat /\ {highestSeen, maxBlock} # {}
          /\ {highestSeen, maxBlock} \subseteq 0 .. highestSeen + maxBlock
      BY <1>1
    <3> QED
      BY <2>1, <3>1, HighestIs
  <2> QED
    BY <1>1, <2>1, <2>2, <2>3, <2>5, <2>6
<1> QED
  BY <1>2, <1>3

\* The other polls stay where they are as the cursor moves on.
LEMMA OthersPlaced ==
    ASSUME SettledStays, NEW p \in Polls, PollPlaced(p), polls'[p] = polls[p],
           ScannerTyped, lastScannedBlock' \in Nat, lastScannedBlock' >= lastScannedBlock
    PROVE  PollPlaced(p)'
<1>1. polls[p] \in PollState /\ lastScannedBlock \in Nat
  BY DEF ScannerTyped
<1>2. CASE polls[p].phase = "asked"
  <2>1. polls[p].from \in Nat
    BY <1>1, <1>2 DEF PollState, Idle
  <2> QED
    BY <1>1, <1>2, <2>1 DEF PollPlaced
<1>3. CASE polls[p].phase = "notifying"
  <2>1. PICK block, waiting :
            block = polls[p].maxBlock + 1 /\ waiting = TxIdsOf(polls[p].todo)
    OBVIOUS
  <2>2. Settled(block, waiting)
    BY <1>3, <2>1 DEF PollPlaced
  <2>3. Settled(block, waiting)'
    BY <2>2, StillSettled
  <2>4. Settled(polls[p].maxBlock + 1, TxIdsOf(polls[p].todo))'
    BY <2>1, <2>3 DEF TxIdsOf
  <2> QED
    BY <1>3, <2>4 DEF PollPlaced
<1> QED
  BY <1>2, <1>3 DEF PollPlaced

\* Steps that leave the chain, the cursor and the records alone.
LEMMA PollStepPlaces ==
    ASSUME ScannerInv, NEW p \in Polls, NEW next \in PollState,
           polls' = [polls EXCEPT ![p] = next], PollPlaced(p)',
           UNCHANGED <<chainVars, starts, lastScannedBlock, notified, highestSeen, offPage>>
    PROVE  ScannerInv'
<1>1. ScannerTyped /\ polls' \in [Polls -> PollState]
  BY DEF ScannerInv, ScannerTyped
<1>2. ScannerTyped'
  BY <1>1 DEF ScannerTyped, chainVars
<1>3. SettledStays
  BY DEF SettledStays, chainVars
<1>4. OnChain' = OnChain /\ UNCHANGED height
  BY DEF OnChain, chainVars
<1>5. PICK cursor : cursor = lastScannedBlock
  OBVIOUS
<1>6. Settled(lastScannedBlock, {})'
  <2>1. Settled(cursor, {})
    BY <1>5 DEF ScannerInv
  <2>2. Settled(cursor, {})'
    BY <1>3, <2>1, StillSettled
  <2> QED
    BY <1>5, <2>2
<1>7. \A q \in Polls : PollPlaced(q)'
  <2> TAKE q \in Polls
  <2>1. CASE q # p
    <3>1. polls'[q] = polls[q] /\ PollPlaced(q) /\ lastScannedBlock' >= lastScannedBlock
          /\ lastScannedBlock' \in Nat
      BY <1>1, <2>1 DEF ScannerInv, ScannerTyped
    <3> QED
      BY <1>1, <1>3, <3>1, OthersPlaced
  <2> QED
    BY <2>1
<1> QED
  BY <1>2, <1>4, <1>6, <1>7 DEF ScannerInv

LEMMA StartPollStep ==
    ASSUME ScannerInv, NEW p \in Polls, StartPoll(p) PROVE ScannerInv'
<1> DEFINE next == [phase |-> "asked", from |-> lastScannedBlock]
<1>1. /\ polls' = [polls EXCEPT ![p] = next]
      /\ UNCHANGED <<chainVars, starts, lastScannedBlock, notified, highestSeen, offPage>>
      /\ lastScannedBlock \in Nat /\ polls \in [Polls -> PollState]
  BY DEF StartPoll, ScannerInv, ScannerTyped
<1>2. next \in PollState
  BY <1>1 DEF PollState
<1>3. polls'[p] = next /\ next.phase = "asked" /\ next.from = lastScannedBlock
  BY <1>1
<1> HIDE DEF next
<1>4. PollPlaced(p)'
  BY <1>1, <1>3 DEF PollPlaced
<1> QED
  BY <1>1, <1>2, <1>4, PollStepPlaces

LEMMA NotAnsweredStep ==
    ASSUME ScannerInv, NEW p \in Polls, NotAnswered(p) PROVE ScannerInv'
<1>1. /\ polls' = [polls EXCEPT ![p] = Idle]
      /\ UNCHANGED <<chainVars, starts, lastScannedBlock, notified, highestSeen, offPage>>
      /\ polls \in [Polls -> PollState]
  BY DEF NotAnswered, ScannerInv, ScannerTyped
<1>2. Idle \in PollState /\ Idle.phase = "idle"
  BY DEF PollState, Idle
<1>3. PollPlaced(p)'
  BY <1>1, <1>2 DEF PollPlaced
<1> QED
  BY <1>1, <1>2, <1>3, PollStepPlaces

LEMMA WebhookRetriedStep ==
    ASSUME ScannerInv, NEW p \in Polls, WebhookRetried(p) PROVE ScannerInv'
<1> DEFINE next == [polls[p] EXCEPT !.attempt = 2]
<1>1. /\ polls' = [polls EXCEPT ![p] = next] /\ polls[p].phase = "notifying"
      /\ UNCHANGED <<chainVars, starts, lastScannedBlock, notified, highestSeen, offPage>>
      /\ polls \in [Polls -> PollState] /\ PollPlaced(p)
  BY DEF WebhookRetried, ScannerInv, ScannerTyped
<1>2. polls[p] \in [phase : {"notifying"}, todo : Seq(Event), attempt : {1, 2}, maxBlock : Nat]
  BY <1>1 DEF PollState, Idle
<1>3. /\ next \in PollState /\ next.phase = "notifying"
      /\ next.todo = polls[p].todo /\ next.maxBlock = polls[p].maxBlock
  BY <1>2 DEF PollState
<1>4. polls'[p] = next
  BY <1>1
<1> HIDE DEF next
<1>5. PollPlaced(p)'
  <2>1. PICK block, waiting :
            block = polls[p].maxBlock + 1 /\ waiting = TxIdsOf(polls[p].todo)
    OBVIOUS
  <2>2. Settled(block, waiting) /\ polls[p].todo # <<>>
    BY <1>1, <2>1 DEF PollPlaced
  <2>3. SettledStays
    BY <1>1 DEF SettledStays, chainVars
  <2>4. Settled(block, waiting)'
    BY <2>2, <2>3, StillSettled
  <2>5. Settled(polls[p].maxBlock + 1, TxIdsOf(polls[p].todo))'
    BY <1>3, <1>4, <2>1, <2>4 DEF TxIdsOf
  <2> QED
    BY <1>3, <1>4, <2>2, <2>5 DEF PollPlaced
<1> QED
  BY <1>1, <1>3, <1>5, PollStepPlaces

\* Once what a poll is to hand on is settled, the rest of its step follows.
LEMMA ProceedStep ==
    ASSUME ScannerInv, SettledStays, UNCHANGED <<chainVars, starts>>,
           NEW p \in Polls, NEW todo \in Seq(Event), NEW maxBlock \in Nat,
           Settled(maxBlock + 1, TxIdsOf(todo))',
           Proceed(p, todo, maxBlock)
    PROVE  ScannerInv' /\ lastScannedBlock' >= lastScannedBlock
<1>1. PICK cursor : cursor = lastScannedBlock
  OBVIOUS
<1>2. Settled(cursor, {})'
  <2>1. Settled(cursor, {})
    BY <1>1 DEF ScannerInv
  <2> QED
    BY <2>1, StillSettled
<1>3. /\ polls' \in [Polls -> PollState]
      /\ lastScannedBlock' \in Nat /\ lastScannedBlock' >= cursor
      /\ highestSeen' \in Nat /\ highestSeen' <= lastScannedBlock'
      /\ Settled(lastScannedBlock, {})'
      /\ PollPlaced(p)'
      /\ \A q \in Polls : q # p => polls'[q] = polls[q]
  BY <1>1, <1>2, ProceedPlaces DEF ScannerInv
<1>4. ScannerTyped'
  BY <1>3 DEF ScannerInv, ScannerTyped, chainVars
<1>5. \A event \in OnChain' : event.block <= height'
  BY DEF ScannerInv, OnChain, chainVars
<1>6. \A q \in Polls : PollPlaced(q)'
  <2> TAKE q \in Polls
  <2>1. CASE q # p
    BY <1>1, <1>3, <2>1, OthersPlaced DEF ScannerInv
  <2> QED
    BY <1>3, <2>1
<1> QED
  BY <1>1, <1>3, <1>4, <1>5, <1>6 DEF ScannerInv

LEMMA AnsweredStep ==
    ASSUME ScannerInv, NEW p \in Polls, Answered(p)
    PROVE  ScannerInv' /\ lastScannedBlock' >= lastScannedBlock
<1> DEFINE from == polls[p].from
           events == WithdrawalsFrom(from)
           due == {event \in ToSet(Payments(chainEvents)) : event.block >= from}
<1>1. /\ polls[p].phase = "asked"
      /\ offPage' = offPage \cup {event.txId : event \in due \ ToSet(Page)}
      /\ UNCHANGED <<chainVars, starts, notified>>
      /\ IF events = <<>>
         THEN /\ polls' = [polls EXCEPT ![p] = Idle]
              /\ UNCHANGED <<lastScannedBlock, highestSeen>>
         ELSE Proceed(p, Payments(events), MaxBlock(events))
  BY DEF Answered
<1>2. /\ chainEvents \in Seq(Event) /\ height \in Nat
      /\ lastScannedBlock \in Nat /\ polls \in [Polls -> PollState]
      /\ from \in Nat /\ from <= lastScannedBlock
      /\ \A event \in OnChain : event.block <= height
  BY <1>1 DEF ScannerInv, ScannerTyped, PollPlaced, PollState, Idle
<1>3. SettledStays
  BY <1>1 DEF SettledStays, chainVars
<1> HIDE DEF from
<1>4. /\ Page \in Seq(Event) /\ ToSet(Page) \subseteq OnChain
      /\ events \in Seq(Event)
      /\ ToSet(events) = {event \in ToSet(Page) : event.block >= from /\ event.kind # "other"}
      /\ Payments(events) \in Seq(Event)
      /\ ToSet(Payments(events)) = {event \in ToSet(events) : event.kind = "payment"}
      /\ due = {event \in OnChain : event.kind = "payment" /\ event.block >= from}
  <2>1. Page \in Seq(Event) /\ ToSet(Page) \subseteq OnChain
    BY <1>2, MembersOfPage
  <2>2. /\ events \in Seq(Event)
        /\ ToSet(events) = {event \in ToSet(Page) : event.block >= from /\ event.kind # "other"}
    BY <2>1, FilteredMembers DEF WithdrawalsFrom
  <2> HIDE DEF events
  <2>3. /\ Payments(events) \in Seq(Event)
        /\ ToSet(Payments(events)) = {event \in ToSet(events) : event.kind = "payment"}
    BY <2>2, PaymentsOf
  <2>4. ToSet(Payments(chainEvents)) = {event \in OnChain : event.kind = "payment"}
    BY <1>2, PaymentsOf DEF OnChain
  <2> QED
    BY <2>1, <2>2, <2>3, <2>4
<1> HIDE DEF events, due
<1>5. \A event \in OnChain : event \in Event /\ event.block \in 0 .. height
  <2> TAKE event \in OnChain
  <2>1. event \in Event
    BY <1>2, ElementOfSeq DEF OnChain, ToSet
  <2> QED
    BY <1>2, <2>1 DEF Event
<1>6. CASE events = <<>>
  <2>1. Idle \in PollState /\ Idle.phase = "idle" /\ polls' = [polls EXCEPT ![p] = Idle]
    BY <1>1, <1>6 DEF PollState, Idle
  <2>2. PollPlaced(p)' /\ polls' \in [Polls -> PollState]
    BY <1>2, <2>1 DEF PollPlaced
  <2>3. ScannerTyped'
    BY <1>1, <1>6, <2>2 DEF ScannerInv, ScannerTyped, chainVars
  <2>4. Settled(lastScannedBlock, {})'
    <3>1. PICK cursor : cursor = lastScannedBlock
      OBVIOUS
    <3>2. Settled(cursor, {})'
      BY <1>3, <3>1, StillSettled DEF ScannerInv
    <3> QED
      BY <1>1, <1>6, <3>1, <3>2
  <2>5. \A q \in Polls : PollPlaced(q)'
    <3> TAKE q \in Polls
    <3>1. CASE q # p
      <4>1. polls'[q] = polls[q] /\ PollPlaced(q) /\ ScannerTyped
        BY <1>2, <2>1, <3>1 DEF ScannerInv
      <4>2. lastScannedBlock' \in Nat /\ lastScannedBlock' >= lastScannedBlock
        BY <1>1, <1>2, <1>6
      <4> QED
        BY <1>3, <4>1, <4>2, OthersPlaced
    <3> QED
      BY <2>2, <3>1
  <2> QED
    BY <1>1, <1>2, <1>6, <2>3, <2>4, <2>5 DEF ScannerInv, OnChain, chainVars
<1>7. CASE events # <<>>
  <2> DEFINE blocks == {0} \cup {event.block : event \in ToSet(events)}
  <2>1. ToSet(events) \subseteq OnChain
    BY <1>4
  <2>2. blocks \subseteq 0 .. height /\ blocks # {}
    BY <1>2, <1>5, <2>1
  <2>3. MaxBlock(events) = Highest(blocks)
    BY DEF MaxBlock
  <2>4. PICK maxBlock \in 0 .. height :
            /\ maxBlock = MaxBlock(events)
            /\ \A event \in ToSet(events) : event.block <= maxBlock
    <3> HIDE DEF blocks
    <3>1. /\ Highest(blocks) \in 0 .. height
          /\ \A block \in blocks : block <= Highest(blocks)
      BY <1>2, <2>2, HighestIs
    <3>2. \A event \in ToSet(events) : event.block \in blocks
      BY DEF blocks
    <3> QED
      BY <2>3, <3>1, <3>2
  <2>5. PICK todo : todo = Payments(events)
    OBVIOUS
  <2>6. Settled(maxBlock + 1, TxIdsOf(todo))'
    <3>1. \A event \in OnChain' :
              event.kind = "payment" /\ event.block < maxBlock + 1 =>
                  Arrived(event)' \/ event.txId \in TxIdsOf(todo)
      <4> TAKE event \in OnChain'
      <4>1. event \in OnChain /\ event.block \in 0 .. height
        BY <1>1, <1>5 DEF OnChain, chainVars
      <4>2. CASE event.kind = "payment" /\ event.block < from
        <5>1. event.block < lastScannedBlock
          BY <1>2, <4>1, <4>2
        <5>2. Arrived(event)
          BY <4>1, <4>2, <5>1 DEF ScannerInv, Settled
        <5> QED
          BY <1>3, <5>2 DEF Arrived, SettledStays
      <4>3. CASE event.kind = "payment" /\ event.block >= from /\ event \in ToSet(Page)
        <5>1. event \in ToSet(todo)
          BY <1>4, <2>5, <4>3
        <5> QED
          BY <5>1 DEF TxIdsOf
      <4>4. CASE event.kind = "payment" /\ event.block >= from /\ event \notin ToSet(Page)
        <5>1. event.txId \in offPage'
          BY <1>1, <1>4, <4>1, <4>4
        <5> QED
          BY <5>1 DEF Arrived
      <4> QED
        BY <1>2, <4>1, <4>2, <4>3, <4>4
    <3>2. \A b \in Nat : ~(height' < b /\ b < maxBlock + 1)
      BY <1>1, <1>2 DEF chainVars
    <3>3. TxIdsOf(todo)' = TxIdsOf(todo)
      BY DEF TxIdsOf
    <3> QED
      BY <3>1, <3>2, <3>3 DEF Settled
  <2>7. Proceed(p, todo, maxBlock) /\ todo \in Seq(Event) /\ maxBlock \in Nat
    BY <1>1, <1>2, <1>4, <1>7, <2>4, <2>5
  <2>8. UNCHANGED <<chainVars, starts>>
    BY <1>1
  <2> QED
    BY <1>3, <2>6, <2>7, <2>8, ProceedStep
<1> QED
  BY <1>6, <1>7

LEMMA HandlersDoneStep ==
    ASSUME ScannerInv, NEW p \in Polls, HandlersDone(p)
    PROVE  ScannerInv' /\ lastScannedBlock' >= lastScannedBlock
<1>1. /\ polls[p].phase = "notifying"
      /\ notified' = notified \cup {Head(polls[p].todo).txId}
      /\ Proceed(p, Tail(polls[p].todo), polls[p].maxBlock)
      /\ UNCHANGED <<chainVars, starts, offPage>>
      /\ polls[p] \in PollState /\ PollPlaced(p)
  BY DEF HandlersDone, ScannerInv, ScannerTyped
<1>2. PICK todo, maxBlock : todo = polls[p].todo /\ maxBlock = polls[p].maxBlock
  OBVIOUS
<1>3. /\ todo \in Seq(Event) /\ maxBlock \in Nat /\ todo # <<>>
      /\ Settled(maxBlock + 1, TxIdsOf(todo))
  <2>1. polls[p] \in [phase : {"notifying"}, todo : Seq(Event), attempt : {1, 2},
                      maxBlock : Nat]
    BY <1>1 DEF PollState, Idle
  <2> QED
    BY <1>1, <1>2, <2>1 DEF PollPlaced
<1>4. SettledStays
  BY <1>1 DEF SettledStays, chainVars
<1>5. Settled(maxBlock + 1, TxIdsOf(todo))'
  <2>1. PICK waiting : waiting = TxIdsOf(todo)
    OBVIOUS
  <2>2. Settled(maxBlock + 1, waiting)'
    BY <1>3, <1>4, <2>1, StillSettled
  <2> QED
    BY <2>1, <2>2 DEF TxIdsOf
<1>6. /\ Tail(todo) \in Seq(Event)
      /\ TxIdsOf(todo) \subseteq TxIdsOf(Tail(todo)) \cup {Head(todo).txId}
  <2>1. Tail(todo) \in Seq(Event) /\ Len(Tail(todo)) = Len(todo) - 1
        /\ \A i \in 1 .. Len(Tail(todo)) : Tail(todo)[i] = todo[i + 1]
    BY <1>3, HeadTailProperties
  <2>2. \A event \in ToSet(todo) : event = Head(todo) \/ event \in ToSet(Tail(todo))
    <3> SUFFICES ASSUME NEW i \in DOMAIN todo
                 PROVE  todo[i] = Head(todo) \/ todo[i] \in ToSet(Tail(todo))
      BY DEF ToSet
    <3>1. DOMAIN todo = 1 .. Len(todo) /\ Len(todo) \in Nat
          /\ DOMAIN Tail(todo) = 1 .. Len(Tail(todo))
      BY <1>3, <2>1, LenProperties
    <3>2. CASE i = 1
      BY <3>2
    <3>3. CASE i # 1
      <4>1. i - 1 \in 1 .. Len(Tail(todo)) /\ (i - 1) + 1 = i
        BY <2>1, <3>1, <3>3
      <4>2. Tail(todo)[i - 1] = todo[i]
        BY <2>1, <4>1
      <4> QED
        BY <3>1, <4>1, <4>2 DEF ToSet
    <3> QED
      BY <3>2, <3>3
  <2> QED
    BY <2>1, <2>2 DEF TxIdsOf
<1>7. PICK rest : rest = Tail(todo)
  OBVIOUS
<1>8. Settled(maxBlock + 1, TxIdsOf(rest))'
  <2>1. Head(todo).txId \in notified'
    BY <1>1, <1>2
  <2> QED
    BY <1>5, <1>6, <1>7, <2>1 DEF Settled, TxIdsOf, Arrived
<1> QED
  BY <1>1, <1>2, <1>3, <1>4, <1>6, <1>7, <1>8, ProceedStep

LEMMA BlockMinedStep ==
    ASSUME ScannerInv, BlockMined PROVE ScannerInv'
<1>1. /\ height' = height + 1 /\ height \in Nat /\ forks \in Nat
      /\ chainEvents \in Seq(Event)
      /\ UNCHANGED <<forks, reused, starts, lastScannedBlock, polls, notified, highestSeen,
                     offPage>>
  BY DEF BlockMined, ScannerInv, ScannerTyped
<1>2. PICK kinds \in [{1} -> Kinds] \cup [{1, 2} -> {"payment"}] :
          chainEvents' = Reverse([i \in DOMAIN kinds |->
                             [txId |-> <<forks, height', i>>, kind |-> kinds[i],
                              block |-> height']]) \o chainEvents
  BY DEF BlockMined
<1> DEFINE mined == [i \in DOMAIN kinds |->
                        [txId |-> <<forks, height', i>>, kind |-> kinds[i],
                         block |-> height']]
<1>3. PICK n \in {1, 2} : DOMAIN kinds = 1 .. n /\ \A i \in 1 .. n : kinds[i] \in Kinds
  <2>1. CASE kinds \in [{1} -> Kinds]
    <3>1. {1} = 1 .. 1
      OBVIOUS
    <3> QED
      BY <2>1, <3>1
  <2>2. CASE kinds \in [{1, 2} -> {"payment"}]
    <3>1. {1, 2} = 1 .. 2
      OBVIOUS
    <3> QED
      BY <2>2, <3>1 DEF Kinds
  <2> QED
    BY <2>1, <2>2
<1>4. DOMAIN mined = 1 .. n /\ \A i \in 1 .. n : mined[i] \in Event /\ mined[i].block = height'
  BY <1>1, <1>3 DEF Event, TxIds
<1> HIDE DEF mined
<1>5. mined \in Seq(Event) /\ Len(mined) = n
  <2>1. mined = [i \in 1 .. n |-> mined[i]]
    BY <1>2, <1>3 DEF mined
  <2> QED
    BY <1>4, <2>1
<1>6. /\ Reverse(mined) \in Seq(Event)
      /\ \A i \in 1 .. Len(Reverse(mined)) : Reverse(mined)[i].block = height'
  <2>1. Reverse(mined) = [i \in 1 .. n |-> mined[(n - i) + 1]]
    BY <1>5 DEF Reverse
  <2>2. \A i \in 1 .. n : (n - i) + 1 \in 1 .. n
    OBVIOUS
  <2>3. Reverse(mined) \in Seq(Event) /\ Len(Reverse(mined)) = n
    BY <1>4, <2>1, <2>2
  <2> QED
    BY <1>4, <2>1, <2>2, <2>3
<1>7. chainEvents' = Reverse(mined) \o chainEvents
  BY <1>2 DEF mined
<1>8. /\ chainEvents' \in Seq(Event)
      /\ \A event \in OnChain' : event \in OnChain \/ event.block = height'
  <2> DEFINE new == Reverse(mined)
  <2>1. /\ chainEvents' \in Seq(Event) /\ Len(chainEvents') = Len(new) + Len(chainEvents)
        /\ \A i \in 1 .. Len(new) + Len(chainEvents) :
               chainEvents'[i] = IF i <= Len(new) THEN new[i] ELSE chainEvents[i - Len(new)]
    <3> HIDE DEF new
    <3>1. new \in Seq(Event) /\ chainEvents' = new \o chainEvents
      BY <1>6, <1>7 DEF new
    <3> QED
      BY <1>1, <3>1, ConcatProperties
  <2>2. DOMAIN chainEvents' = 1 .. Len(new) + Len(chainEvents) /\ Len(new) \in Nat
        /\ DOMAIN chainEvents = 1 .. Len(chainEvents) /\ Len(chainEvents) \in Nat
    BY <1>1, <1>6, <2>1, LenProperties
  <2>3. ASSUME NEW i \in DOMAIN chainEvents'
        PROVE  chainEvents'[i] \in OnChain \/ chainEvents'[i].block = height'
    <3> HIDE DEF new
    <3>1. CASE i <= Len(new)
      <4>1. chainEvents'[i] = new[i] /\ i \in 1 .. Len(new)
        BY <2>1, <2>2, <3>1
      <4> QED
        BY <1>6, <4>1 DEF new
    <3>2. CASE ~(i <= Len(new))
      <4>1. chainEvents'[i] = chainEvents[i - Len(new)] /\ i - Len(new) \in DOMAIN chainEvents
        BY <2>1, <2>2, <3>2
      <4> QED
        BY <4>1 DEF OnChain, ToSet
    <3> QED
      BY <3>1, <3>2
  <2> QED
    BY <2>1, <2>3 DEF OnChain, ToSet
<1>9. ASSUME NEW block, NEW waiting, Settled(block, waiting)
      PROVE  Settled(block, waiting)'
  <2>1. \A event \in OnChain' :
            event.kind = "payment" /\ event.block < block =>
                Arrived(event)' \/ event.txId \in waiting
    <3> SUFFICES ASSUME NEW event \in OnChain',
                        event.kind = "payment" /\ event.block < block
                 PROVE  Arrived(event) \/ event.txId \in waiting
      BY <1>1 DEF Arrived
    <3>1. CASE event \in OnChain
      BY <1>9, <3>1 DEF Settled
    <3>2. CASE event.block = height'
      <4>1. event.block \in Nat /\ height < event.block
        BY <1>1, <3>2
      <4> QED
        BY <1>9, <4>1 DEF Settled, Arrived
    <3> QED
      BY <1>8, <3>1, <3>2
  <2>2. \A b \in Nat : height' < b /\ b < block => b \in reused'
    <3> SUFFICES ASSUME NEW b \in Nat, height' < b, b < block PROVE b \in reused
      BY <1>1
    <3>1. height < b
      BY <1>1
    <3> QED
      BY <1>9, <3>1 DEF Settled
  <2> QED
    BY <2>1, <2>2 DEF Settled
<1>10. ScannerTyped'
  BY <1>1, <1>8 DEF ScannerInv, ScannerTyped
<1>11. \A event \in OnChain' : event.block <= height'
  <2> TAKE event \in OnChain'
  <2>1. CASE event \in OnChain
    <3>1. event.block <= height /\ event \in Event
      BY <1>1, <2>1, ElementOfSeq DEF ScannerInv, OnChain, ToSet
    <3>2. event.block \in Nat
      BY <3>1 DEF Event
    <3> QED
      BY <1>1, <3>1, <3>2
  <2>2. CASE event.block = height'
    BY <1>1, <2>2
  <2> QED
    BY <1>8, <2>1, <2>2
<1>12. Settled(lastScannedBlock, {})'
  <2>1. PICK cursor : cursor = lastScannedBlock
    OBVIOUS
  <2>2. Settled(cursor, {})'
    BY <1>9, <2>1 DEF ScannerInv
  <2> QED
    BY <1>1, <2>1, <2>2
<1>13. ASSUME NEW p \in Polls PROVE PollPlaced(p)'
  <2>1. PICK block, waiting :
            block = polls[p].maxBlock + 1 /\ waiting = TxIdsOf(polls[p].todo)
    OBVIOUS
  <2>2. polls[p].phase = "notifying" => Settled(block, waiting)' /\ polls[p].todo # <<>>
    BY <1>9, <2>1 DEF ScannerInv, PollPlaced
  <2>3. Settled(block, waiting)' => Settled(polls[p].maxBlock + 1, TxIdsOf(polls[p].todo))'
    BY <1>1, <2>1 DEF TxIdsOf
  <2> QED
    BY <1>1, <2>2, <2>3 DEF ScannerInv, PollPlaced
<1> QED
  BY <1>1, <1>10, <1>11, <1>12, <1>13 DEF ScannerInv

LEMMA BlocksDroppedStep ==
    ASSUME ScannerInv, BlocksDropped PROVE ScannerInv'
<1>1. PICK kept \in 0 .. height - 1 :
          /\ height' = kept
          /\ chainEvents' = Filtered(chainEvents,
                                     {event \in ToSet(chainEvents) : event.block <= kept})
          /\ reused' = reused \cup (kept + 1 .. height)
  BY DEF BlocksDropped
<1>2. /\ forks' = forks + 1 /\ forks \in Nat
      /\ UNCHANGED <<starts, lastScannedBlock, polls, notified, highestSeen, offPage>>
      /\ chainEvents \in Seq(Event) /\ height \in Nat /\ kept \in Nat
  BY <1>1 DEF BlocksDropped, ScannerInv, ScannerTyped
<1>3. /\ chainEvents' \in Seq(Event)
      /\ OnChain' = {event \in OnChain : event.block <= kept}
  BY <1>1, <1>2, FilteredMembers DEF OnChain
<1>4. ASSUME NEW block, NEW waiting, Settled(block, waiting)
      PROVE  Settled(block, waiting)'
  <2>1. \A event \in OnChain : Arrived(event) => Arrived(event)'
    BY <1>1, <1>2 DEF Arrived
  <2>2. \A b \in Nat : height' < b /\ b < block => b \in reused'
    <3> SUFFICES ASSUME NEW b \in Nat, kept < b, b < block PROVE b \in reused'
      BY <1>1
    <3>1. CASE b <= height
      <4>1. b \in kept + 1 .. height
        BY <1>2, <3>1
      <4> QED
        BY <1>1, <4>1
    <3>2. CASE height < b
      BY <1>1, <1>4, <3>2 DEF Settled
    <3> QED
      BY <1>2, <3>1, <3>2
  <2> QED
    BY <1>3, <1>4, <2>1, <2>2 DEF Settled
<1>5. ScannerTyped'
  BY <1>1, <1>2, <1>3 DEF ScannerInv, ScannerTyped
<1>6. Settled(lastScannedBlock, {})'
  <2>1. PICK cursor : cursor = lastScannedBlock
    OBVIOUS
  <2>2. Settled(cursor, {})'
    BY <1>4, <2>1 DEF ScannerInv
  <2> QED
    BY <1>2, <2>1, <2>2
<1>7. ASSUME NEW p \in Polls PROVE PollPlaced(p)'
  <2>1. PICK block, waiting :
            block = polls[p].maxBlock + 1 /\ waiting = TxIdsOf(polls[p].todo)
    OBVIOUS
  <2>2. polls[p].phase = "notifying" => Settled(block, waiting)' /\ polls[p].todo # <<>>
    BY <1>4, <2>1 DEF ScannerInv, PollPlaced
  <2>3. Settled(block, waiting)' => Settled(polls[p].maxBlock + 1, TxIdsOf(polls[p].todo))'
    BY <1>2, <2>1 DEF TxIdsOf
  <2> QED
    BY <1>2, <2>2, <2>3 DEF ScannerInv, PollPlaced
<1> QED
  BY <1>1, <1>2, <1>3, <1>5, <1>6, <1>7 DEF ScannerInv

LEMMA RestartStep ==
    ASSUME ScannerInv, Restart PROVE ScannerInv'
<1>1. /\ starts' = starts + 1 /\ lastScannedBlock' = 0
      /\ polls' = [p \in Polls |-> Idle]
      /\ highestSeen' = 0 /\ UNCHANGED chainVars
  BY DEF Restart
<1>2. ScannerTyped'
  BY <1>1 DEF ScannerInv, ScannerTyped, PollState, chainVars
<1>3. Settled(lastScannedBlock, {})'
  <2>1. \A event \in OnChain' : ~(event.block < lastScannedBlock')
    <3> TAKE event \in OnChain'
    <3>1. event \in Event
      BY <1>2, ElementOfSeq DEF ScannerTyped, OnChain, ToSet
    <3> QED
      BY <1>1, <3>1 DEF Event
  <2>2. \A b \in Nat : ~(b < lastScannedBlock')
    BY <1>1
  <2> QED
    BY <2>1, <2>2 DEF Settled
<1>4. \A p \in Polls : PollPlaced(p)'
  BY <1>1 DEF PollPlaced, Idle
<1> QED
  BY <1>1, <1>2, <1>3, <1>4 DEF ScannerInv, OnChain, chainVars

LEMMA ScannerInvStep == ScannerInv /\ [ScannerNext]_scannerVars => ScannerInv'
<1> SUFFICES ASSUME ScannerInv, [ScannerNext]_scannerVars PROVE ScannerInv'
  OBVIOUS
<1>1. CASE BlockMined
  BY <1>1, BlockMinedStep
<1>2. CASE BlocksDropped
  BY <1>2, BlocksDroppedStep
<1>3. CASE Restart
  BY <1>3, RestartStep
<1>4. CASE \E p \in Polls : \/ StartPoll(p) \/ Answered(p) \/ NotAnswered(p)
                            \/ WebhookRetried(p) \/ HandlersDone(p)
  BY <1>4, StartPollStep, AnsweredStep, NotAnsweredStep, WebhookRetriedStep, HandlersDoneStep
<1>5. CASE UNCHANGED scannerVars
  <2>1. UNCHANGED <<chainEvents, height, forks, reused, starts, lastScannedBlock, polls,
                    notified, highestSeen, offPage>>
    BY <1>5 DEF scannerVars, chainVars
  <2>2. /\ ScannerTyped' = ScannerTyped /\ OnChain' = OnChain
    BY <2>1 DEF ScannerTyped, OnChain
  <2>3. \A block, waiting : Settled(block, waiting)' = Settled(block, waiting)
    BY <2>1, <2>2 DEF Settled, Arrived
  <2>4. Settled(lastScannedBlock, {})'
    BY <2>1 DEF ScannerInv, Settled, OnChain, Arrived
  <2>5. \A p \in Polls : PollPlaced(p)'
    BY <2>1 DEF ScannerInv, PollPlaced, Settled, OnChain, Arrived, TxIdsOf
  <2> QED
    BY <2>1, <2>2, <2>4, <2>5 DEF ScannerInv
<1> QED
  BY <1>1, <1>2, <1>3, <1>4, <1>5 DEF ScannerNext

LEMMA CursorAdvances ==
    ScannerInv /\ [ScannerNext]_scannerVars
        => [starts' = starts => lastScannedBlock' >= lastScannedBlock]_scannerVars
<1> SUFFICES ASSUME ScannerInv, ScannerNext, starts' = starts
             PROVE  lastScannedBlock' >= lastScannedBlock
  OBVIOUS
<1>1. lastScannedBlock \in Nat /\ starts \in Nat
  BY DEF ScannerInv, ScannerTyped
<1>2. ~Restart
  BY <1>1 DEF Restart
<1>3. CASE BlockMined \/ BlocksDropped
  BY <1>1, <1>3 DEF BlockMined, BlocksDropped
<1>4. CASE \E p \in Polls : StartPoll(p) \/ NotAnswered(p) \/ WebhookRetried(p)
  BY <1>1, <1>4 DEF StartPoll, NotAnswered, WebhookRetried
<1>5. CASE \E p \in Polls : Answered(p) \/ HandlersDone(p)
  BY <1>5, AnsweredStep, HandlersDoneStep
<1> QED
  BY <1>2, <1>3, <1>4, <1>5 DEF ScannerNext

LEMMA CursorPlacedNow ==
    ScannerInv => /\ highestSeen <= lastScannedBlock
                  /\ \A event \in ToSet(Payments(chainEvents)) :
                         event.block < lastScannedBlock => Arrived(event)
<1> SUFFICES ASSUME ScannerInv, NEW event \in ToSet(Payments(chainEvents)),
                    event.block < lastScannedBlock
             PROVE  Arrived(event)
  BY DEF ScannerInv
<1>1. event \in OnChain /\ event.kind = "payment"
  BY PaymentsOf DEF ScannerInv, ScannerTyped, OnChain
<1> QED
  BY <1>1 DEF ScannerInv, Settled

\* Whatever polls overlap, however many of them fail or are overtaken, and whatever blocks
\* the chain drops and mines again, the scanner's cursor passes a payment only after its
\* handlers are done with it, or because a page or a dropped block hid it; and no late poll
\* ever moves the cursor back.
THEOREM CursorStaysPlaced == ScannerSpec => CursorPlaced
BY ScannerInvInit, ScannerInvStep, CursorAdvances, CursorPlacedNow, PTL
DEF ScannerSpec, CursorPlaced
-----------------------------------------------------------------------------
(***************************************************************************)
(* Chainhook mode.  A payment of the chain is told, or its payload will be *)
(* posted: what a request still has to do is what its payload lacks, and   *)
(* the one request Chainhook awaits is for the payload it removes when the *)
(* answer comes.                                                           *)
(***************************************************************************)
PaymentSets == SUBSET PaymentTxs

Handling == [phase : {"notifying"}, todo : Seq(PaymentTxs), payload : PaymentSets,
             awaited : BOOLEAN]

HookTyped ==
    /\ toPost \in Seq(PaymentSets)
    /\ requests \in [Requests -> Handling \cup {Free}]

\* What a handler has not done with, of its payload, it has still to do.
PayloadKept(call) == call # Free => call.payload \subseteq toldTxs \cup ToSet(call.todo)

AwaitsFirst ==
    /\ \A r \in Requests : Awaited(r) => toPost # <<>> /\ requests[r].payload = Head(toPost)
    /\ \A r, other \in Requests : Awaited(r) /\ Awaited(other) => r = other

HookInv ==
    /\ HookTyped
    /\ \A r \in Requests : PayloadKept(requests[r])
    /\ AwaitsFirst
    /\ AnsweredTold
    /\ NothingLost

LEMMA FreeIsNoHandling == Free \notin Handling
<1>1. \A call \in Handling : call.phase = "notifying"
  BY DEF Handling
<1> QED
  BY <1>1 DEF Free

\* An order of the payments of a payload names each of them.
LEMMA OrdersNameAll ==
    ASSUME NEW S \in PaymentSets, NEW todo \in SetToSeqs(S)
    PROVE  todo \in Seq(PaymentTxs) /\ ToSet(todo) = S
<1> DEFINE places == 1 .. Cardinality(S)
<1>1. IsFiniteSet(S) /\ Cardinality(S) \in Nat
  BY ChainhookAssumption, FS_Subset, FS_CardinalityType DEF PaymentSets
<1>2. IsFiniteSet(places) /\ Cardinality(places) = Cardinality(S)
  BY <1>1, FS_Interval
<1>3. todo \in [places -> S] /\ \A i, j \in places : i # j => todo[i] # todo[j]
  BY DEF SetToSeqs
<1> HIDE DEF places
<1>4. todo \in Injection(places, S)
  BY <1>3 DEF Injection, IsInjective
<1>5. todo \in Surjection(places, S)
  BY <1>1, <1>2, <1>4, FS_Injection
<1>6. \A tx \in S : \E i \in places : todo[i] = tx
  BY <1>5 DEF Surjection
<1>7. todo \in [places -> PaymentTxs]
  BY <1>3 DEF PaymentSets
<1> QED
  BY <1>1, <1>3, <1>6, <1>7 DEF places, ToSet

LEMMA HookInvInit == ChainhookInit => HookInv
BY DEF ChainhookInit, HookInv, HookTyped, PayloadKept, AwaitsFirst, Awaited, AnsweredTold,
       NothingLost, AllFree

\* The block replaced or kept, its payments were in a payload or told; those of the new one
\* are in the last payload.
LEMMA HookInvBlock ==
    ASSUME HookInv, BlockApplied
    PROVE  HookInv'
<1>1. PICK txs \in SUBSET (PaymentTxs \ olderTxs') :
          tipTxs' = txs /\ toPost' = Append(toPost, txs)
  BY DEF BlockApplied
<1>2. /\ olderTxs' \subseteq olderTxs \cup tipTxs
      /\ UNCHANGED <<requests, toldTxs, answeredTxs>>
  BY DEF BlockApplied
<1>3. toPost \in Seq(PaymentSets) /\ txs \in PaymentSets
  BY <1>1 DEF HookInv, HookTyped, PaymentSets
<1>4. /\ toPost' \in Seq(PaymentSets) /\ toPost' # <<>> /\ Len(toPost') = Len(toPost) + 1
      /\ \A i \in 1 .. Len(toPost) : toPost'[i] = toPost[i]
      /\ toPost'[Len(toPost) + 1] = txs
      /\ DOMAIN toPost = 1 .. Len(toPost) /\ DOMAIN toPost' = 1 .. Len(toPost')
  BY <1>1, <1>3, AppendProperties
<1>5. toPost # <<>> => Head(toPost') = Head(toPost)
  BY <1>1, <1>3, HeadTailAppend
<1>6. AwaitsFirst'
  BY <1>2, <1>4, <1>5 DEF HookInv, AwaitsFirst, Awaited
<1>7. NothingLost'
  <2>1. SUFFICES ASSUME NEW tx \in (olderTxs' \cup tipTxs') \ toldTxs'
                 PROVE  \E i \in DOMAIN toPost' : tx \in toPost'[i]
    BY DEF NothingLost
  <2>2. Len(toPost) \in Nat
    BY <1>3
  <2>3. CASE tx \in txs
    BY <1>4, <2>2, <2>3
  <2>4. CASE tx \notin txs
    <3>1. \E i \in DOMAIN toPost : tx \in toPost[i]
      BY <1>1, <1>2, <2>4 DEF HookInv, NothingLost
    <3> QED
      BY <1>4, <2>2, <3>1
  <2> QED
    BY <2>3, <2>4
<1> QED
  BY <1>2, <1>4, <1>6, <1>7 DEF HookInv, HookTyped, PayloadKept, AnsweredTold

\* A request begins with all of the payload to do.
LEMMA HookInvPosted ==
    ASSUME HookInv, NEW r \in Requests, Posted(r)
    PROVE  HookInv'
<1>1. /\ toPost # <<>> /\ \A other \in Requests : ~Awaited(other)
      /\ UNCHANGED <<olderTxs, tipTxs, toPost, toldTxs, answeredTxs>>
  BY DEF Posted, hookChainVars
<1> DEFINE payload == Head(toPost)
<1>2. PICK todo \in SetToSeqs(payload) :
          requests' = [requests EXCEPT ![r] =
                          [phase |-> "notifying", todo |-> todo, payload |-> payload,
                           awaited |-> TRUE]]
  BY DEF Posted
<1>3. payload \in PaymentSets
  BY <1>1 DEF HookInv, HookTyped
<1> HIDE DEF payload
<1>4. todo \in Seq(PaymentTxs) /\ ToSet(todo) = payload
  BY <1>2, <1>3, OrdersNameAll
<1> DEFINE call == [phase |-> "notifying", todo |-> todo, payload |-> payload, awaited |-> TRUE]
<1>5. call \in Handling /\ call.todo = todo /\ call.payload = payload /\ call # Free
  <2>1. call \in Handling
    BY <1>3, <1>4 DEF Handling
  <2>2. call.todo = todo /\ call.payload = payload
    OBVIOUS
  <2> QED
    BY <2>1, <2>2, FreeIsNoHandling
<1> HIDE DEF call
<1>6. /\ requests' \in [Requests -> Handling \cup {Free}]
      /\ requests'[r] = call
      /\ \A other \in Requests : other # r => requests'[other] = requests[other]
  BY <1>2, <1>5 DEF HookInv, HookTyped, call
<1>7. \A other \in Requests : PayloadKept(requests[other])'
  BY <1>1, <1>4, <1>5, <1>6 DEF HookInv, PayloadKept
<1>8. AwaitsFirst'
  BY <1>1, <1>5, <1>6 DEF AwaitsFirst, Awaited, payload
<1> QED
  BY <1>1, <1>6, <1>7, <1>8 DEF HookInv, HookTyped, AnsweredTold, NothingLost

\* A request given up goes on, and none is awaited.
LEMMA HookInvGivenUp ==
    ASSUME HookInv, NEW r \in Requests, GivenUp(r)
    PROVE  HookInv'
<1>1. /\ Awaited(r) /\ requests' = [requests EXCEPT ![r].awaited = FALSE]
      /\ UNCHANGED <<olderTxs, tipTxs, toPost, toldTxs, answeredTxs>>
  BY DEF GivenUp, hookChainVars
<1>2. requests[r] \in Handling
  BY <1>1 DEF HookInv, HookTyped, Awaited
<1> DEFINE call == [requests[r] EXCEPT !.awaited = FALSE]
<1>3. /\ call \in Handling /\ call # Free /\ ~call.awaited
      /\ call.payload = requests[r].payload /\ call.todo = requests[r].todo
  BY <1>2, FreeIsNoHandling DEF Handling
<1>4. /\ requests'[r] = call
      /\ \A other \in Requests : other # r => requests'[other] = requests[other]
      /\ requests' \in [Requests -> Handling \cup {Free}]
  BY <1>1, <1>3 DEF HookInv, HookTyped
<1> HIDE DEF call
<1>5. \A other \in Requests : PayloadKept(requests[other])'
  BY <1>1, <1>3, <1>4 DEF HookInv, PayloadKept, Awaited
<1>6. AwaitsFirst'
  BY <1>1, <1>3, <1>4 DEF HookInv, AwaitsFirst, Awaited
<1> QED
  BY <1>1, <1>4, <1>5, <1>6 DEF HookInv, HookTyped, AnsweredTold, NothingLost

\* What is done with is told, and no longer to do.
LEMMA HookInvHandled ==
    ASSUME HookInv, NEW r \in Requests, PaymentHandled(r)
    PROVE  HookInv'
<1> DEFINE todo == requests[r].todo
<1>1. /\ requests[r] # Free /\ todo # <<>> /\ toldTxs' = toldTxs \cup {Head(todo)}
      /\ requests' = [requests EXCEPT ![r].todo = Tail(@)]
      /\ UNCHANGED <<olderTxs, tipTxs, toPost, answeredTxs>>
  BY DEF PaymentHandled, LeftAfter, hookChainVars
<1>2. requests[r] \in Handling
  BY <1>1 DEF HookInv, HookTyped
<1>3. todo \in Seq(PaymentTxs)
  BY <1>2 DEF Handling
<1>4. /\ Tail(todo) \in Seq(PaymentTxs)
      /\ ToSet(todo) \subseteq {Head(todo)} \cup ToSet(Tail(todo))
  <2> HIDE DEF todo
  <2>1. /\ Tail(todo) \in Seq(PaymentTxs) /\ Len(Tail(todo)) = Len(todo) - 1
        /\ \A i \in 1 .. Len(Tail(todo)) : Tail(todo)[i] = todo[i + 1]
    BY <1>1, <1>3, HeadTailProperties
  <2>2. ASSUME NEW i \in 1 .. Len(todo), i # 1
        PROVE  todo[i] \in ToSet(Tail(todo))
    <3>1. i - 1 \in 1 .. Len(Tail(todo)) /\ Tail(todo)[i - 1] = todo[i]
      BY <1>3, <2>1, <2>2
    <3>2. DOMAIN Tail(todo) = 1 .. Len(Tail(todo))
      BY <2>1
    <3> QED
      BY <3>1, <3>2 DEF ToSet
  <2>3. Head(todo) = todo[1] /\ DOMAIN todo = 1 .. Len(todo)
    BY <1>1, <1>3
  <2> QED
    BY <2>1, <2>2, <2>3 DEF ToSet
<1> DEFINE call == [requests[r] EXCEPT !.todo = Tail(todo)]
<1>5. /\ call \in Handling /\ call # Free /\ call.todo = Tail(todo)
      /\ call.payload = requests[r].payload /\ call.awaited = requests[r].awaited
  BY <1>2, <1>4, FreeIsNoHandling DEF Handling
<1>6. /\ requests'[r] = call
      /\ \A other \in Requests : other # r => requests'[other] = requests[other]
      /\ requests' \in [Requests -> Handling \cup {Free}]
  BY <1>1, <1>5 DEF HookInv, HookTyped
<1> HIDE DEF call
<1>7. \A other \in Requests : PayloadKept(requests[other])'
  <2>1. PayloadKept(requests[r])
    BY DEF HookInv
  <2>2. PayloadKept(requests[r])'
    BY <1>1, <1>4, <1>5, <1>6, <2>1 DEF PayloadKept
  <2>3. \A other \in Requests : other # r => PayloadKept(requests[other])'
    BY <1>1, <1>6 DEF HookInv, PayloadKept
  <2> QED
    BY <2>2, <2>3
<1>8. AwaitsFirst'
  BY <1>1, <1>5, <1>6 DEF HookInv, AwaitsFirst, Awaited
<1>9. AnsweredTold' /\ NothingLost'
  BY <1>1 DEF HookInv, AnsweredTold, NothingLost
<1> QED
  BY <1>1, <1>6, <1>7, <1>8, <1>9 DEF HookInv, HookTyped

\* What an answer removes was told: it is the payload of the request answered.
LEMMA HookInvAnswered ==
    ASSUME HookInv, NEW r \in Requests, PayloadAnswered(r)
    PROVE  HookInv'
<1>1. /\ requests[r] # Free /\ requests[r].todo = <<>>
      /\ requests' = [requests EXCEPT ![r] = Free]
      /\ answeredTxs' = answeredTxs \cup requests[r].payload
      /\ toPost' = IF requests[r].awaited THEN Tail(toPost) ELSE toPost
      /\ UNCHANGED <<olderTxs, tipTxs, toldTxs>>
  BY DEF PayloadAnswered, hookChainVars
<1>2. /\ requests'[r] = Free
      /\ \A other \in Requests : other # r => requests'[other] = requests[other]
      /\ requests' \in [Requests -> Handling \cup {Free}]
  BY <1>1 DEF HookInv, HookTyped
<1>3. requests[r].payload \subseteq toldTxs
  BY <1>1 DEF HookInv, PayloadKept, ToSet
<1>4. \A other \in Requests : PayloadKept(requests[other])'
  BY <1>1, <1>2 DEF HookInv, PayloadKept
<1>5. AnsweredTold'
  BY <1>1, <1>3 DEF HookInv, AnsweredTold
<1>6. toPost' \in Seq(PaymentSets) /\ AwaitsFirst' /\ NothingLost'
  <2>1. CASE ~requests[r].awaited
    BY <1>1, <1>2, <2>1 DEF HookInv, HookTyped, AwaitsFirst, Awaited, NothingLost
  <2>2. CASE requests[r].awaited
    <3>1. Awaited(r)
      BY <1>1, <2>2 DEF Awaited
    <3>2. /\ toPost # <<>> /\ Head(toPost) \subseteq toldTxs
          /\ \A other \in Requests : Awaited(other) => other = r
      BY <1>3, <3>1 DEF HookInv, AwaitsFirst
    <3>3. AwaitsFirst'
      BY <1>2, <3>2 DEF AwaitsFirst, Awaited
    <3>4. /\ toPost' = Tail(toPost) /\ toPost' \in Seq(PaymentSets)
          /\ Len(toPost') = Len(toPost) - 1 /\ Len(toPost) \in Nat
          /\ \A i \in 1 .. Len(toPost') : toPost'[i] = toPost[i + 1]
          /\ DOMAIN toPost = 1 .. Len(toPost) /\ DOMAIN toPost' = 1 .. Len(toPost')
      BY <1>1, <2>2, <3>2, HeadTailProperties DEF HookInv, HookTyped
    <3>5. ASSUME NEW tx \in (olderTxs' \cup tipTxs') \ toldTxs'
          PROVE  \E i \in DOMAIN toPost' : tx \in toPost'[i]
      <4>1. PICK i \in DOMAIN toPost : tx \in toPost[i]
        BY <1>1 DEF HookInv, NothingLost
      <4>2. i # 1
        BY <1>1, <3>2, <4>1
      <4>3. i - 1 \in DOMAIN toPost' /\ toPost'[i - 1] = toPost[i]
        BY <3>4, <4>2
      <4> QED
        BY <4>1, <4>3
    <3> QED
      BY <3>3, <3>4, <3>5 DEF NothingLost
  <2> QED
    BY <2>1, <2>2
<1> QED
  BY <1>2, <1>4, <1>5, <1>6 DEF HookInv, HookTyped

\* A process that ends leaves its requests unanswered: their payloads are posted again.
LEMMA HookInvEnds ==
    ASSUME HookInv, ProcessEnds
    PROVE  HookInv'
BY DEF ProcessEnds, hookChainVars, HookInv, HookTyped, AllFree, PayloadKept, AwaitsFirst, Awaited,
       AnsweredTold, NothingLost

LEMMA HookInvStep == HookInv /\ [ChainhookNext]_chainhookVars => HookInv'
<1> SUFFICES ASSUME HookInv, [ChainhookNext]_chainhookVars PROVE HookInv'
  OBVIOUS
<1>1. CASE UNCHANGED <<olderTxs, tipTxs, toPost, requests, toldTxs, answeredTxs>>
  BY <1>1 DEF HookInv, HookTyped, PayloadKept, AwaitsFirst, Awaited, AnsweredTold, NothingLost
<1>2. CASE UNCHANGED chainhookVars
  BY <1>1, <1>2 DEF chainhookVars, hookChainVars
<1>3. CASE BlockApplied
  BY <1>3, HookInvBlock
<1>4. CASE Stop \/ StartAgain \/ \E tx \in PaymentTxs : Acknowledge(tx)
  BY <1>1, <1>4 DEF Stop, StartAgain, Acknowledge, hookChainVars
<1>5. CASE StopEnds \/ CrashEnds
  BY <1>5, HookInvEnds DEF StopEnds, CrashEnds
<1>6. CASE \E r \in Requests : Posted(r) \/ GivenUp(r)
  BY <1>6, HookInvPosted, HookInvGivenUp
<1>7. CASE \E r \in Requests : PaymentHandled(r) \/ PayloadAnswered(r)
  BY <1>7, HookInvHandled, HookInvAnswered
<1> QED
  BY <1>2, <1>3, <1>4, <1>5, <1>6, <1>7 DEF ChainhookNext

\* In chainhook mode, for any number of requests at once, blocks, answers Chainhook does not
\* wait for, stops and crashes: what the scanner has answered for was told, and every payment
\* of the chain that was not told is in a payload Chainhook will post.
THEOREM PaymentsNeverLost == ChainhookSpec => [](AnsweredTold /\ NothingLost)
<1>1. HookInv => AnsweredTold /\ NothingLost
  BY DEF HookInv
<1> QED
  BY <1>1, HookInvInit, HookInvStep, PTL DEF ChainhookSpec
=============================================================================
