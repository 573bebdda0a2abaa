-------------------------- MODULE PublishedDocument --------------------------
(***************************************************************************)
(* What publish_durable_file promises to the ledger, the summaries and the *)
(* results that are published with it: the document at a path is always    *)
(* one that some caller published, whole; it may be lost with the power    *)
(* until it is durable; once a caller has been told that its document was  *)
(* published, no loss of power goes back behind it.                        *)
(***************************************************************************)
EXTENDS Naturals, Sequences

CONSTANT Documents

VARIABLES history,   \* the documents that have stood at the path, in order
          durable,   \* how many of them survive a loss of power
          acked      \* documents whose publication was reported
vars == <<history, durable, acked>>

Init ==
    /\ history = <<>>
    /\ durable = 0
    /\ acked = {}

Replace(doc) ==
    /\ history' = Append(history, doc)
    /\ UNCHANGED <<durable, acked>>

\* What stands there becomes durable, and nobody is told.
Persist ==
    /\ durable' = Len(history)
    /\ UNCHANGED <<history, acked>>

\* A document and all its predecessors become durable, and its caller knows.
Acknowledge(doc) ==
    /\ durable' = Len(history)
    /\ \E i \in 1..Len(history) : history[i] = doc
    /\ acked' = acked \cup {doc}
    /\ UNCHANGED history

\* The same in one step, when the system replaces and flushes at once.
ReplaceThrough(doc) ==
    /\ history' = Append(history, doc)
    /\ durable' = Len(history) + 1
    /\ acked' = acked \cup {doc}

LosePower ==
    /\ \E kept \in durable..Len(history) :
         /\ history' = SubSeq(history, 1, kept)
         /\ durable' = kept
    /\ UNCHANGED acked

Next ==
    \/ \E doc \in Documents : Replace(doc) \/ Acknowledge(doc) \/ ReplaceThrough(doc)
    \/ Persist
    \/ LosePower

Spec == Init /\ [][Next]_vars
=============================================================================
