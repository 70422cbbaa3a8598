------------------------------- MODULE YFifo -------------------------------
(***************************************************************************)
(* What one single-producer single-consumer ring promises to the two       *)
(* threads that share it: a bounded FIFO with batched publication.  Values *)
(* are accepted into `pending', become receivable all at once when they    *)
(* are published into `visible', and leave from the front of `visible' in  *)
(* the order in which they were accepted.  Nothing is said about cursors,  *)
(* slots or caches.                                                        *)
(***************************************************************************)
EXTENDS Naturals, Sequences

CONSTANTS Values, Cap

VARIABLES
  pending,      \* accepted, not yet published
  visible,      \* published, not yet received
  out,          \* what the consumer's last receive returned
  senderGone,   \* the producer half has closed
  receiverGone  \* the consumer half has closed

fifoVars == <<pending, visible, out, senderGone, receiverGone>>

Init ==
  /\ pending = <<>>
  /\ visible = <<>>
  /\ out = <<>>
  /\ senderGone = FALSE
  /\ receiverGone = FALSE

\* A bounded queue may refuse a value at any time (its credit view is allowed
\* to be stale), but it never holds more than Cap accepted values.
Put(v) ==
  /\ ~senderGone
  /\ Len(pending) + Len(visible) < Cap
  /\ pending' = Append(pending, v)
  /\ UNCHANGED <<visible, out, senderGone, receiverGone>>

Publish ==
  /\ ~senderGone
  /\ visible' = visible \o pending
  /\ pending' = <<>>
  /\ UNCHANGED <<out, senderGone, receiverGone>>

\* The producer closes with nothing pending: closing publishes first.
CloseSender ==
  /\ ~senderGone
  /\ pending = <<>>
  /\ senderGone' = TRUE
  /\ UNCHANGED <<pending, visible, out, receiverGone>>

\* A receive takes some prefix of what is published, possibly nothing.
Take ==
  /\ ~receiverGone
  /\ \E k \in 0..Len(visible) :
       /\ out' = SubSeq(visible, 1, k)
       /\ visible' = SubSeq(visible, k + 1, Len(visible))
  /\ UNCHANGED <<pending, senderGone, receiverGone>>

CloseReceiver ==
  /\ ~receiverGone
  /\ receiverGone' = TRUE
  /\ UNCHANGED <<pending, visible, out, senderGone>>

\* Once both halves are gone the unread values are destroyed, all of them.
Destroy ==
  /\ senderGone
  /\ receiverGone
  /\ visible' = <<>>
  /\ UNCHANGED <<pending, out, senderGone, receiverGone>>

Next ==
  \/ \E v \in Values : Put(v)
  \/ Publish
  \/ CloseSender
  \/ Take
  \/ CloseReceiver
  \/ Destroy

Spec == Init /\ [][Next]_fifoVars
=============================================================================
