------------------------- MODULE ClientAsyncReader -------------------------
(***************************************************************************)
(* A server-streaming call: the client's reader                            *)
(* (src/src/client/impl/client_async_reader_impl.cc) against the stream    *)
(* that ServerWriter implements (MessageStream).                           *)
(*                                                                         *)
(* Start() and OnRead() hold the recursive mutex from the first line to    *)
(* the last; a callback that calls back finds is_started_ set and returns, *)
(* so each handler is one action.  DoComplete() of the status tag has no   *)
(* lock: it uses its own copy of status_cb only.                           *)
(*                                                                         *)
(* grpc is external: it may refuse a batch or fail one it took, delivers   *)
(* the stream's messages in order, and a call may break at any time (a     *)
(* deadline, a lost connection): then the stream reads as ended, and the   *)
(* status is an error of grpc's.                                           *)
(***************************************************************************)
EXTENDS Naturals, SequencesExt

CONSTANTS
  Messages,     \* messages of the stream
  ServerErrors, \* errors the server ends the stream with
  NoStatus,
  MaxMsgs       \* bound on the messages of the stream

OK == "OK"
InternalError == "InternalError"  \* of the reader itself
UserError == "UserError"          \* from msg_cb
Broken == "Broken"                \* from grpc, for a broken call
StreamStatuses == {OK} \cup ServerErrors
Statuses == StreamStatuses \cup {InternalError, UserError, Broken}

ASSUME ReaderAssumption ==
  /\ NoStatus \notin Statuses
  /\ {OK, InternalError, UserError, Broken} \cap ServerErrors = {}
  /\ MaxMsgs \in Nat

VARIABLES
  \* the server's side
  accepted, wire, status,
  broken,       \* the call is broken
  \* ClientAsyncReaderImpl
  is_started_, status_,
  msg_cb_, status_cb_,       \* whether the std::function is not empty
  init_tags, read_tags,      \* tags in the completion queue
  status_tags,               \* among them, those that receive the status
  cb_copies,                 \* status_cb kept by those: is it not empty
  \* history
  reads,        \* messages grpc delivered to the reader
  given,        \* status_cb was not empty in Start()
  delivered,    \* those of them that went to msg_cb, if there is one
  told          \* statuses status_cb was called with

server == <<accepted, wire, status>>
reader == <<is_started_, status_, msg_cb_, status_cb_>>
tags == <<init_tags, read_tags, status_tags, cb_copies>>
history == <<reads, given, delivered, told>>
vars == <<server, broken, reader, tags, history>>

Stream == INSTANCE MessageStream WITH Statuses <- StreamStatuses

TypeOK ==
  /\ broken \in BOOLEAN /\ is_started_ \in BOOLEAN /\ msg_cb_ \in BOOLEAN
  /\ status_cb_ \in BOOLEAN /\ given \in BOOLEAN /\ cb_copies \in BOOLEAN
  /\ accepted \in Seq(Messages) /\ wire \in Seq(Messages) /\ delivered \in Seq(Messages)
  /\ status \in StreamStatuses \cup {NoStatus}
  /\ status_ \in {OK, InternalError, UserError}
  /\ init_tags \in 0..1 /\ read_tags \in 0..1 /\ status_tags \in 0..1
  /\ reads \in 0..MaxMsgs /\ told \in Seq(Statuses)

Init ==
  /\ Stream!Init /\ broken = FALSE
  /\ is_started_ = FALSE /\ status_ = OK
  /\ msg_cb_ = FALSE /\ status_cb_ = FALSE
  /\ init_tags = 0 /\ read_tags = 0 /\ status_tags = 0 /\ cb_copies = FALSE
  /\ reads = 0 /\ given = FALSE /\ delivered = <<>> /\ told = <<>>

-----------------------------------------------------------------------------
Tell(cb, st) == told' = IF cb THEN Append(told, st) ELSE told

\* status_ is set, and CallStatusCb() calls the callback (cb: it is not empty)
\* and resets it.
Fail(st, cb) == status_' = st /\ Tell(cb, st) /\ status_cb_' = FALSE

\* ReadNext() with n other reads in flight.
ReadNext(n, cb) ==
  \/ read_tags' = n + 1 /\ status_cb_' = cb /\ UNCHANGED <<status_, told>>
  \/ read_tags' = n /\ Fail(InternalError, cb)

IsStarted == is_started_

\* Start(), with an empty msg_cb or not and an empty status_cb or not: the
\* batch of Init() sends the request and half-closes the call.
Start(mcb, scb) ==
  /\ ~IsStarted
  /\ is_started_' = TRUE
  /\ msg_cb_' = mcb /\ given' = scb
  /\ \/ init_tags' = init_tags + 1 /\ ReadNext(read_tags, scb)
     \/ Fail(InternalError, scb) /\ UNCHANGED <<init_tags, read_tags>>
  /\ UNCHANGED <<server, broken, status_tags, cb_copies, reads, delivered>>

\* The tag of Init() is only deleted.
InitCompletes ==
  /\ init_tags > 0 /\ init_tags' = init_tags - 1
  /\ UNCHANGED <<server, broken, reader, read_tags, status_tags, cb_copies, history>>

\* Mutants: report OK at the end of the stream; say nothing.
TakesEndForOk == Tell(status_cb_, OK) /\ UNCHANGED <<status_tags, cb_copies>>
ForgetsStatus == UNCHANGED <<status_tags, cb_copies, told>>

\* RecvStatus(): a tag with a copy of status_cb_, or its refusal.
RecvStatus ==
  \/ status_tags' = status_tags + 1 /\ cb_copies' = status_cb_ /\ UNCHANGED told
  \/ Tell(status_cb_, InternalError) /\ UNCHANGED <<status_tags, cb_copies>>

\* A mutant: tell the error and read on.
ReadsOn(st) == Tell(status_cb_, st) /\ UNCHANGED <<read_tags, status_, status_cb_>>

\* OnRead() finds an error: in the batch, in the message, or from msg_cb.
OnReadFails(st) == read_tags' = read_tags - 1 /\ Fail(st, status_cb_)

HasMsg == reads < Len(wire)
ToMsgCb == delivered' = Append(delivered, wire[reads + 1])

\* A mutant: a message that cannot be read is skipped.
SkipsBadMsg == ReadNext(read_tags - 1, status_cb_) /\ UNCHANGED delivered
BadMsg == OnReadFails(InternalError) /\ UNCHANGED delivered

OnReadMsg ==
  /\ HasMsg /\ reads' = reads + 1
  /\ \/ BadMsg
     \/ msg_cb_ /\ ToMsgCb /\ OnReadFails(UserError)
     \/ ToMsgCb /\ ReadNext(read_tags - 1, status_cb_)
  /\ UNCHANGED <<status_tags, cb_copies>>

\* No message: the stream has ended.
OnReadEnds ==
  /\ broken \/ (status # NoStatus /\ ~HasMsg)
  /\ RecvStatus
  /\ read_tags' = read_tags - 1
  /\ UNCHANGED <<status_, status_cb_, reads, delivered>>

OnReadError ==
  OnReadFails(InternalError) /\ UNCHANGED <<status_tags, cb_copies, reads, delivered>>

OnRead ==
  /\ read_tags > 0
  /\ OnReadMsg \/ OnReadEnds \/ OnReadError
  /\ UNCHANGED <<server, broken, is_started_, msg_cb_, init_tags, given>>

\* DoComplete() of ClientReaderAsyncRecvStatusCqTag: the server's status, or
\* grpc's for a broken call, or an error of its own for a failed batch.
OnStatus ==
  /\ status_tags > 0
  /\ status_tags' = status_tags - 1 /\ cb_copies' = FALSE
  /\ \/ broken /\ Tell(cb_copies, Broken)
     \/ status # NoStatus /\ ~HasMsg /\ Tell(cb_copies, status)
     \/ Tell(cb_copies, InternalError)
  /\ UNCHANGED <<server, broken, reader, init_tags, read_tags, reads, given, delivered>>

-----------------------------------------------------------------------------
\* External: the server writes, the call breaks.
ServerWrites ==
  /\ Len(accepted) < MaxMsgs \/ UNCHANGED accepted
  /\ Stream!Next
  /\ UNCHANGED <<broken, reader, tags, history>>

CallBreaks ==
  /\ ~broken /\ broken' = TRUE
  /\ UNCHANGED <<server, reader, tags, history>>

Next ==
  \/ \E mcb, scb \in BOOLEAN : Start(mcb, scb)
  \/ InitCompletes \/ OnRead \/ OnStatus
  \/ ServerWrites \/ CallBreaks

\* grpc completes what it took and a thread runs the completion queue; a read
\* completes once there is a message, an end or an error.
Fairness == WF_vars(InitCompletes) /\ WF_vars(OnRead) /\ WF_vars(OnStatus)

Spec == Init /\ [][Next]_vars /\ Fairness

-----------------------------------------------------------------------------
\* The client gets the messages the server's handler wrote, in order, each
\* once, from the first: across both ends of the call.
DeliveredInOrder == TypeOK /\ IsPrefix(delivered, accepted)

\* The verdict is the last thing status_cb and msg_cb hear, and it is heard
\* once: it is pending in one place at a time.
OneVerdict ==
  /\ Len(told) =< 1
  /\ read_tags + status_tags =< 1
  /\ told # <<>> => read_tags + status_tags = 0
  /\ given /\ told = <<>> =>
       IF status_tags > 0 THEN cb_copies ELSE status_cb_ /\ read_tags = 1

\* A status of the server's, OK above all, is reported only to a client that
\* has read every message the server's handler wrote.
ServerStatusMeansAll ==
  \A i \in DOMAIN told : told[i] \in StreamStatuses =>
    told[i] = status /\ delivered = accepted

\* Once the server has ended the stream or the call is broken, a started
\* reader tells its status_cb.
EndIsTold == (given /\ (broken \/ status # NoStatus)) ~> (told # <<>>)
=============================================================================
