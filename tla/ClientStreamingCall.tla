------------------------ MODULE ClientStreamingCall ------------------------
(***************************************************************************)
(* What ClientAsyncWriter promises its user, with no queue, no tag and no  *)
(* completion: messages are taken until Close(), they leave in the order   *)
(* they were taken, the call gets one verdict, and the callback given to   *)
(* Close() hears that verdict at the moment both exist.                    *)
(***************************************************************************)
EXTENDS Naturals, Sequences

CONSTANTS Msgs,     \* messages the user writes
          Cbs,      \* callbacks the user gives to Close()
          NoCb,     \* Close() without a callback (close_cb = nullptr)
          Statuses, \* every status a call can end with
          OK        \* the one of them that is success

NoVerdict == "NoVerdict"

VARIABLES accepted,   \* messages taken by Write(), oldest first
          sent,       \* messages handed to the transport, oldest first
          closing,    \* Close() was called
          registered, \* the callback of the first Close()
          verdict,    \* NoVerdict, then the status the call ended with
          report      \* NoVerdict, then what the callback was told

vars == <<accepted, sent, closing, registered, verdict, report>>

Init ==
  /\ accepted = <<>> /\ sent = <<>>
  /\ closing = FALSE /\ registered = NoCb
  /\ verdict \in {NoVerdict} \cup (Statuses \ {OK})
  /\ report = NoVerdict

\* At most the next unsent message leaves.
MayTransmit ==
  \/ UNCHANGED sent
  \/ /\ Len(sent) < Len(accepted')
     /\ sent' = Append(sent, accepted'[Len(sent) + 1])

\* The call may end: badly at any time, well only when it was closed and
\* everything that was taken has left.
MayEnd ==
  \/ UNCHANGED verdict
  \/ verdict = NoVerdict /\ verdict' \in Statuses \ {OK}
  \/ verdict = NoVerdict /\ closing' /\ sent' = accepted' /\ verdict' = OK

\* The callback hears the verdict in the step that makes it due.
Tell ==
  report' = IF closing' /\ verdict' # NoVerdict /\ registered' # NoCb
            THEN verdict' ELSE NoVerdict

Accept(m) ==
  /\ ~closing /\ verdict = NoVerdict
  /\ accepted' = Append(accepted, m)
  /\ MayTransmit
  /\ UNCHANGED <<closing, registered, verdict, report>>

Close(cb) ==
  /\ ~closing
  /\ closing' = TRUE /\ registered' = cb
  /\ MayEnd /\ Tell
  /\ UNCHANGED <<accepted, sent>>

Advance ==
  /\ verdict = NoVerdict
  /\ MayTransmit /\ MayEnd /\ Tell
  /\ UNCHANGED <<accepted, closing, registered>>

Next ==
  \/ \E m \in Msgs : Accept(m)
  \/ \E cb \in Cbs \cup {NoCb} : Close(cb)
  \/ Advance

Spec == Init /\ [][Next]_vars
=============================================================================
