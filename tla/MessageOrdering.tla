--------------------------- MODULE MessageOrdering ---------------------------
(***************************************************************************)
(* queue/message-ordering.service.ts: one partition of one queue, whose    *)
(* methods callers may use in any order.  Every method is synchronous.     *)
(* While ordering is switched off, addMessage adds nothing and             *)
(* getNextMessage returns null.                                            *)
(***************************************************************************)
EXTENDS Naturals, Sequences, SequencesExt

CONSTANTS Ids, MaxAdded   \* bound: calls of addMessage

VARIABLES
    enabled,              \* config.ordering.enabled
    exists, processing,   \* the partition and its isProcessing
    messages,             \* its messages; came is the order of the calls
    sequence,             \* sequenceNumbers of the partition, 0 if deleted
    added, taken          \* calls of addMessage; the last message handed out

vars == <<enabled, exists, processing, messages, sequence, added, taken>>

Init ==
    /\ enabled = TRUE
    /\ exists = FALSE /\ processing = FALSE
    /\ messages = <<>> /\ sequence = 0
    /\ added = 0 /\ taken = 0

\* Mutant: the next number is counted from the messages still there.
NextNumber_FromLength == Len(messages) + 1
NextNumber == sequence + 1

\* The message is appended with its number and the list, which was in order,
\* sorted by number: the sort puts it before the first message with a greater one.
AddMessage(id) ==
    /\ enabled /\ added < MaxAdded
    /\ LET m == [id |-> id, number |-> NextNumber, came |-> added + 1]
           next == SelectInSeq(messages, LAMBDA n : n.number > m.number)
       IN  messages' = IF next = 0 THEN Append(messages, m) ELSE InsertAt(messages, next, m)
    /\ sequence' = NextNumber
    /\ added' = added + 1
    /\ exists' = TRUE
    /\ UNCHANGED <<enabled, processing, taken>>

\* getNextMessage: the first message, unless the partition is processing.
GetNextMessage ==
    /\ enabled /\ exists /\ ~processing /\ messages # <<>>
    /\ taken' = Head(messages).came
    /\ UNCHANGED <<enabled, exists, processing, messages, sequence, added>>

MarkPartitionProcessing ==
    /\ exists
    /\ processing' \in BOOLEAN
    /\ UNCHANGED <<enabled, exists, messages, sequence, added, taken>>

\* removeMessage: the first message with the id.
RemoveMessage(id) ==
    /\ exists /\ \E i \in DOMAIN messages : messages[i].id = id
    /\ messages' = RemoveAt(messages, SelectInSeq(messages, LAMBDA m : m.id = id))
    /\ UNCHANGED <<enabled, exists, processing, sequence, added, taken>>

ClearPartition ==
    /\ exists
    /\ messages' = <<>> /\ sequence' = 0
    /\ UNCHANGED <<enabled, exists, processing, added, taken>>

CleanupEmptyPartitions ==
    /\ exists /\ messages = <<>> /\ ~processing
    /\ exists' = FALSE /\ sequence' = 0
    /\ UNCHANGED <<enabled, processing, messages, added, taken>>

UpdateConfig ==
    /\ enabled' \in BOOLEAN
    /\ UNCHANGED <<exists, processing, messages, sequence, added, taken>>

Next ==
    \/ UpdateConfig
    \/ GetNextMessage \/ MarkPartitionProcessing \/ ClearPartition \/ CleanupEmptyPartitions
    \/ \E id \in Ids : AddMessage(id) \/ RemoveMessage(id)

Spec == Init /\ [][Next]_vars
-----------------------------------------------------------------------------
TypeOK ==
    /\ enabled \in BOOLEAN /\ exists \in BOOLEAN /\ processing \in BOOLEAN
    /\ messages \in Seq([id : Ids, number : Nat, came : Nat])
    /\ sequence \in Nat /\ added \in 0..MaxAdded /\ taken \in 0..MaxAdded

\* The messages of a partition stay in the order in which they were added, no
\* two with the same number, and none with a number still to be given out:
\* removing, clearing and deleting the partition restart the numbers only when
\* nothing is left that they could overtake.
AddedInOrder ==
    /\ \A i, j \in DOMAIN messages : i < j =>
          messages[i].came < messages[j].came /\ messages[i].number < messages[j].number
    /\ \A i \in DOMAIN messages : messages[i].number <= sequence

\* A message is never handed out after a later one.
HandedOutInOrder == [][taken' >= taken]_vars
=============================================================================
