--------------------------- MODULE MessageStream ---------------------------
(***************************************************************************)
(* What ServerWriter promises the client, with no queue, no tag and no     *)
(* lock: messages leave in the order the writer took them, each once, and  *)
(* the status leaves last, when nothing the writer took is missing.  A     *)
(* stream may also just stop, without a status.                            *)
(***************************************************************************)
EXTENDS Naturals, Sequences

CONSTANTS Messages, Statuses, NoStatus

VARIABLES accepted,   \* messages the writer took, oldest first
          wire,       \* messages handed to grpc, oldest first
          status      \* NoStatus, then the status that ends the stream

vars == <<accepted, wire, status>>

Init == accepted = <<>> /\ wire = <<>> /\ status = NoStatus

\* The next message that was taken and has not left leaves.
Transmit ==
  /\ Len(wire) < Len(accepted')
  /\ wire' = Append(wire, accepted'[Len(wire) + 1])

Accept(m) ==
  /\ status = NoStatus
  /\ accepted' = Append(accepted, m)
  /\ Transmit \/ UNCHANGED wire
  /\ UNCHANGED status

Send ==
  /\ status = NoStatus
  /\ UNCHANGED <<accepted, status>>
  /\ Transmit

End(st) ==
  /\ status = NoStatus /\ wire = accepted
  /\ status' = st
  /\ UNCHANGED <<accepted, wire>>

Next ==
  \/ \E m \in Messages : Accept(m)
  \/ Send
  \/ \E st \in Statuses : End(st)

Spec == Init /\ [][Next]_vars
=============================================================================
