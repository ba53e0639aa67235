------------------------- MODULE ClientAsyncWriter -------------------------
(***************************************************************************)
(* The writing half of a client-streaming call:                            *)
(* src/src/client/impl/client_async_writer_impl.cc.                        *)
(*                                                                         *)
(* User threads call Write() and Close(); the thread that runs the         *)
(* completion queue calls OnSent() and OnClosed() when a batch completes.  *)
(* Every handler holds the recursive mutex from its first line to its      *)
(* last, so it is one action.  The only call out is close_cb_; what the    *)
(* callback can do under the lock (Write, Close) returns at once, since    *)
(* is_closing_ is already set, so the call does not split the action.      *)
(*                                                                         *)
(* Start() of a tag is Call::StartBatch(), which may refuse; a batch that  *)
(* was accepted completes once, at any later time.                         *)
(***************************************************************************)
EXTENDS Naturals, SequencesExt

CONSTANTS Msgs,         \* messages the user writes
          Cbs,          \* callbacks the user gives to Close()
          NoCb,         \* an empty std::function
          ServerErrors, \* non-OK statuses the server (or a deadline) can end a call with
          MaxWrites     \* bound on the number of accepted messages

OK == "OK"
InternalError == "InternalError"
Statuses == {OK, InternalError} \cup ServerErrors

ASSUME WriterAssumption ==
  /\ NoCb \notin Cbs
  /\ {OK, "NoVerdict"} \cap ServerErrors = {}
  /\ MaxWrites \in Nat

VARIABLES
  deadline,       \* whether the call has one: the default timeout is INT64_MAX
  status_,        \* the call's status; OK until something failed
  is_closing_,    \* Close() was called
  close_cb_,      \* callback not yet called, or NoCb
  msg_queue_,     \* messages to write; the front one is being sent
  send_tags,      \* number of ClientSendMsgCqTag in the completion queue
  close_tags,     \* number of ClientWriterCloseCqTag in the completion queue
  crashed,        \* the process is gone
  \* history
  accepted,       \* messages for which Write() returned true
  wire,           \* messages of the send batches grpc accepted
  half_closes,    \* times SendClose() was entered
  registered,     \* callback of the first Close()
  calls           \* calls of user callbacks: sequence of [cb, status]

state == <<status_, is_closing_, close_cb_, msg_queue_>>
history == <<accepted, wire, half_closes, registered, calls>>
vars == <<deadline, state, send_tags, close_tags, crashed, history>>

TypeOK ==
  /\ deadline \in BOOLEAN /\ crashed \in BOOLEAN
  /\ status_ \in Statuses
  /\ is_closing_ \in BOOLEAN
  /\ close_cb_ \in Cbs \cup {NoCb}
  /\ msg_queue_ \in Seq(Msgs)
  /\ send_tags \in Nat /\ close_tags \in Nat
  /\ accepted \in Seq(Msgs) /\ wire \in Seq(Msgs)
  /\ half_closes \in Nat
  /\ registered \in Cbs \cup {NoCb}
  /\ calls \in Seq([cb : Cbs, status : Statuses])

-----------------------------------------------------------------------------
\* The constructor starts the SendInitMd batch; a refusal is an error that
\* waits for Close() to be reported.
Init ==
  /\ deadline \in BOOLEAN /\ crashed = FALSE
  /\ status_ \in {OK, InternalError}
  /\ is_closing_ = FALSE /\ close_cb_ = NoCb
  /\ msg_queue_ = <<>>
  /\ send_tags = 0 /\ close_tags = 0
  /\ accepted = <<>> /\ wire = <<>>
  /\ half_closes = 0 /\ registered = NoCb
  /\ calls = <<>>

\* The tests the handlers make, each behind a mutant of it.
AlwaysIdle == FALSE
IsSending == msg_queue_ # <<>>      \* the front message is in flight

WritesAfterError == ~is_closing_
IsWritable == status_ = OK /\ ~is_closing_

ClosesAgain == FALSE
IsClosed == is_closing_

AssumesAllSent(q) == TRUE
AllSent(q) == q = <<>>

\* CallCloseCb() for the callback cb and the status st: call, then reset.
CallCloseCb(cb, st) ==
  /\ close_cb_' = NoCb
  /\ calls' = IF cb = NoCb THEN calls ELSE Append(calls, [cb |-> cb, status |-> st])

\* A mutant: a waiting close callback is forgotten.
FailsSilently(st) == UNCHANGED <<close_cb_, calls>>

TryToCallCloseCb(st) ==
  IF is_closing_ THEN CallCloseCb(close_cb_, st) ELSE UNCHANGED <<close_cb_, calls>>

\* SetInternalError() followed by TryToCallCloseCb().
EndOnInternalError == status_' = InternalError /\ TryToCallCloseCb(InternalError)

\* Mutants: send the old front, as if popping came after sending; leave the
\* next message to a later Write().
SendsOldFront(n, q) ==
  /\ send_tags' = n + 1
  /\ wire' = Append(wire, Head(msg_queue_ \o q))
  /\ UNCHANGED <<status_, close_cb_, calls>>
StopsSending(n, q) == send_tags' = n /\ UNCHANGED <<status_, close_cb_, wire, calls>>

\* SendNext() with n other sends in flight and q in the queue: grpc takes
\* the front message, or refuses the batch.
SendNextOk(n, q) ==
  /\ send_tags' = n + 1
  /\ wire' = Append(wire, Head(q))
  /\ UNCHANGED <<status_, close_cb_, calls>>

SendNextFails(n) == send_tags' = n /\ EndOnInternalError /\ UNCHANGED wire

\* SendClose() when cb is the callback to call: the batch half-closes the
\* call and waits for the response and the server's status.
SendClose(cb) ==
  /\ half_closes' = half_closes + 1
  /\ \/ /\ close_tags' = close_tags + 1
        /\ close_cb_' = cb
        /\ UNCHANGED <<status_, calls>>
     \/ /\ status_' = InternalError
        /\ CallCloseCb(cb, InternalError)
        /\ UNCHANGED close_tags

-----------------------------------------------------------------------------
\* Write(): queue behind the message being sent, or send at once.  When grpc
\* refuses, the message stays in the queue and Write() returns false.
Write(m) ==
  /\ IsWritable
  /\ Len(accepted) < MaxWrites
  /\ msg_queue_' = Append(msg_queue_, m)
  /\ \/ /\ IsSending
        /\ accepted' = Append(accepted, m)
        /\ UNCHANGED <<status_, close_cb_, send_tags, wire, calls>>
     \/ /\ ~IsSending
        /\ SendNextOk(send_tags, <<m>>) /\ accepted' = Append(accepted, m)
     \/ /\ ~IsSending
        /\ SendNextFails(send_tags) /\ UNCHANGED accepted
  /\ UNCHANGED <<deadline, is_closing_, close_tags, crashed, half_closes, registered>>

\* The first Close(); the wrapper's destructor is a Close(nullptr).
Close(cb) ==
  /\ ~IsClosed
  /\ is_closing_' = TRUE
  /\ registered' = IF is_closing_ THEN registered ELSE cb
  /\ \/ /\ status_ # OK
        /\ CallCloseCb(cb, status_)
        /\ UNCHANGED <<status_, close_tags, half_closes>>
     \/ /\ status_ = OK /\ AllSent(msg_queue_)
        /\ SendClose(cb)
     \/ /\ status_ = OK /\ ~AllSent(msg_queue_)
        /\ close_cb_' = cb
        /\ UNCHANGED <<status_, close_tags, half_closes, calls>>
  /\ UNCHANGED <<deadline, msg_queue_, send_tags, crashed, accepted, wire>>

\* Write() after an error or after Close() returns false, and a redundant
\* Close() is ignored, its callback with it.
Rejected == (~IsWritable \/ IsClosed) /\ UNCHANGED vars

\* OnSent(), with the queue q that popping the sent message leaves.
OnSentFailed == send_tags' = send_tags - 1 /\ EndOnInternalError
                /\ UNCHANGED <<close_tags, wire, half_closes>>

OnSentSendsNext(q) ==
  /\ q # <<>>
  /\ SendNextOk(send_tags - 1, q) \/ SendNextFails(send_tags - 1)
  /\ UNCHANGED <<close_tags, half_closes>>

OnSentLast(q) ==
  /\ q = <<>>
  /\ send_tags' = send_tags - 1
  /\ IF is_closing_ THEN SendClose(close_cb_)
     ELSE UNCHANGED <<status_, close_cb_, close_tags, half_closes, calls>>
  /\ UNCHANGED wire

\* DoComplete() of a ClientSendMsgCqTag: pop the sent message, then go on.
\* OneSendInFlight shows that the queue is never empty here (the assert), and
\* that the branch for an earlier error is never taken.
OnSent ==
  /\ send_tags > 0
  /\ msg_queue_ # <<>>
  /\ msg_queue_' = Tail(msg_queue_)
  /\ IF status_ # OK
     THEN /\ send_tags' = send_tags - 1
          /\ UNCHANGED <<status_, close_cb_, close_tags, wire, half_closes, calls>>
     ELSE OnSentFailed \/ OnSentSendsNext(msg_queue_') \/ OnSentLast(msg_queue_')
  /\ UNCHANGED <<deadline, is_closing_, crashed, accepted, registered>>

\* DoComplete() of the ClientWriterCloseCqTag with the final status st: the
\* server's, or that of reading the response.
OnClosed(st) ==
  /\ close_tags > 0
  /\ close_tags' = close_tags - 1
  /\ IF status_ # OK THEN UNCHANGED <<status_, close_cb_, calls>>
     ELSE status_' = st /\ CallCloseCb(close_cb_, st)
  /\ UNCHANGED <<deadline, is_closing_, msg_queue_, send_tags, crashed, accepted,
                 wire, half_closes, registered>>

\* The same when the server said OK and sent no message: GetResultMsg()
\* asserts recv_buf_ and follows it.  It is null: the process dies.
OnClosedWithoutMsg ==
  /\ close_tags > 0 /\ status_ = OK
  /\ crashed' = TRUE
  /\ UNCHANGED <<deadline, state, send_tags, close_tags, history>>

OnClosedAny == OnClosedWithoutMsg \/ \E st \in Statuses : OnClosed(st)

Next ==
  /\ ~crashed
  /\ \/ \E m \in Msgs : Write(m)
     \/ \E cb \in Cbs \cup {NoCb} : Close(cb)
     \/ Rejected
     \/ OnSent
     \/ OnClosedAny

\* A thread runs the completion queue.  grpc completes every batch of a call
\* that has a deadline; without one the server may neither read nor answer.
\* Users are free to do nothing.
Fairness ==
  /\ WF_vars(~crashed /\ deadline /\ OnSent)
  /\ WF_vars(~crashed /\ deadline /\ OnClosedAny)

Spec == Init /\ [][Next]_vars /\ Fairness

-----------------------------------------------------------------------------
\* grpc allows one outstanding send per call ("Grpc only allows to write one
\* by one", the header).  While the call is good the front of the queue is
\* being sent whenever there is one; once it failed nothing is in flight, so
\* no completion runs after the callback heard of an error.
OneSendInFlight ==
  /\ send_tags = IF status_ = OK /\ msg_queue_ # <<>> THEN 1 ELSE 0
  /\ send_tags = 1 => wire # <<>> /\ Last(wire) = Head(msg_queue_)
  /\ close_tags > 0 => status_ = OK

\* The messages of the queue that no batch was started for.
Unsent(q) == IF q = <<>> THEN <<>> ELSE Tail(q)

\* The message of every send batch is the next accepted message: nothing
\* Write() took is skipped, repeated or overtaken while the call is good, and
\* a message whose Write() returned false is never sent.
SentInOrder ==
  /\ IsPrefix(wire, accepted)
  /\ status_ = OK => accepted = wire \o Unsent(msg_queue_)

\* Whatever the order of errors, completions and Close() calls, a callback is
\* called at most once, it is the one of the first Close(), and the status
\* it heard is the one the call keeps.  A callback is pending only while the
\* call is good: the asserts of OnSent() and OnClosed(), "Already called and
\* reset".
CallbackTellsVerdict ==
  /\ Len(calls) =< 1
  /\ close_cb_ # NoCb => status_ = OK /\ is_closing_ /\ calls = <<>>
  /\ calls # <<>> => calls[1] = [cb |-> registered, status |-> status_]
  /\ is_closing_ /\ registered # NoCb /\ calls = <<>> => close_cb_ = registered

\* Half-closing is the last thing the writer sends, it sends it once, and not
\* before every accepted message was sent and completed.
HalfCloseIsLast ==
  /\ half_closes =< 1 /\ close_tags =< half_closes
  /\ half_closes = 1 => is_closing_ /\ msg_queue_ = <<>> /\ wire = accepted

\* No batch is started after an error or after the half-close, and an error
\* status is never replaced, not even by the status the server sends later.
NothingAfterEnd ==
  [][/\ status_ # OK => status_' = status_ /\ half_closes' = half_closes
     /\ status_ # OK \/ half_closes > 0 => wire' = wire]_vars

Verdict == IF status_ # OK THEN status_
           ELSE IF half_closes > 0 /\ close_tags = 0 THEN OK ELSE "NoVerdict"

Report == IF calls = <<>> THEN "NoVerdict" ELSE calls[1].status

\* The writer implements the contract of a client-streaming call.
Contract == INSTANCE ClientStreamingCall
              WITH sent <- wire, closing <- is_closing_,
                   verdict <- Verdict, report <- Report

Implements == Contract!Spec

\* A batch of a call without a deadline, which only the server completes.
WaitsForServer == ~deadline /\ (send_tags > 0 \/ close_tags > 0)

\* Close(cb) is answered, whatever fails on the way: the callback is called.
\* Two ways are left to keep it waiting: a call without a deadline, of which a
\* batch is in flight for as long as the server likes, and a server that says
\* OK without a response, which kills the process.
CloseIsAnswered ==
  (is_closing_ /\ registered # NoCb) ~> (calls # <<>> \/ WaitsForServer \/ crashed)

\* Every accepted message is sent unless the call fails, or has no deadline
\* and waits for the server to read.
AcceptedIsSent == \A n \in 1..MaxWrites :
  (Len(accepted) >= n) ~> (Len(wire) >= n \/ status_ # OK \/ WaitsForServer)
=============================================================================
