---------------------- MODULE ClientAsyncReaderWriter ----------------------
(***************************************************************************)
(* A bidirectional-streaming call seen by the client:                      *)
(* src/src/client/impl/client_async_reader_writer_impl.cc.                 *)
(*                                                                         *)
(* Every entry point holds mtx_, a recursive mutex ("Callbacks will lock   *)
(* again"), and calls the user's msg_cb and status_cb under it.  A handler *)
(* is therefore split only where it calls the user: `stack' holds the      *)
(* callbacks that are running, innermost last.  While it is not empty all  *)
(* other threads wait for mtx_, but the callback itself may call back into *)
(* the object, which then sees a half-finished handler.                    *)
(*                                                                         *)
(* The asserts that do not follow from a test just made are kept: a failed *)
(* one is recorded by its line and the handler goes on, as it does when    *)
(* NDEBUG is defined.                                                      *)
(***************************************************************************)
EXTENDS Naturals, SequencesExt

CONSTANTS
  MsgCbCalls,     \* the calls a msg_cb makes, of Calls
  ErrorCbCalls,   \* the calls a status_cb makes when it is told an error
  EndCbCalls,     \* the calls a status_cb makes when it is told OK
  MaxWrites,      \* bound on the messages Write() accepts
  MaxReads        \* bound on the messages the server sends

Calls == {"Write", "CloseWriting", "ReadEach", "SetErrorStatus"}

ASSUME ReaderWriterAssumption ==
  /\ MsgCbCalls \subseteq Calls /\ ErrorCbCalls \subseteq Calls
  /\ EndCbCalls \subseteq Calls
  /\ MaxWrites \in Nat /\ MaxReads \in Nat

OK == "OK"
InternalError == "InternalError"
UserError == "UserError"      \* from SetErrorStatus(), msg_cb or a bad message
Statuses == {OK, InternalError, UserError}
Frames == {"msg", "error", "end"}

VARIABLES
  status_,
  msg_cb_, status_cb_,            \* whether the std::function is not empty
  inited_, reading_started_, writing_closing_,
  reading_ended_, writing_ended_,
  queued,                         \* size of msg_queue_; its front is being sent
  send_tags, read_tags,           \* tags of each kind in the completion queue
  stack,                          \* user callbacks running under mtx_
  handle,                         \* the user's handle: held, dropped; impl gone;
                                  \* or the process has crashed
  \* history
  given,                          \* a status_cb was given to the constructor
  told,                           \* statuses status_cb was called with
  accepted, sends, half_closes,   \* messages accepted; batches started
  reads,                          \* messages read
  failed_asserts                  \* lines of the asserts that failed

ends == <<reading_ended_, writing_ended_>>
flags == <<inited_, reading_started_, writing_closing_>>
tags == <<send_tags, read_tags>>
counts == <<accepted, sends, half_closes, reads>>
vars == <<status_, msg_cb_, status_cb_, flags, ends, queued, tags, stack,
          handle, given, told, counts, failed_asserts>>

TypeOK ==
  /\ status_ \in Statuses
  /\ msg_cb_ \in BOOLEAN /\ status_cb_ \in BOOLEAN /\ given \in BOOLEAN
  /\ inited_ \in BOOLEAN /\ reading_started_ \in BOOLEAN
  /\ writing_closing_ \in BOOLEAN
  /\ reading_ended_ \in BOOLEAN /\ writing_ended_ \in BOOLEAN
  /\ queued \in 0..MaxWrites
  /\ send_tags \in 0..1 /\ read_tags \in 0..1
  /\ stack \in SeqOf(Frames, 2)
  /\ handle \in {"held", "dropped", "gone", "crashed"}
  /\ told \in Seq(Statuses)
  /\ accepted \in 0..MaxWrites /\ sends \in 0..MaxWrites
  /\ reads \in 0..MaxReads /\ half_closes \in 0..1
  /\ failed_asserts \subseteq {30, 31, 38, 59, 88, 92, 118, 194, 210, 232}

-----------------------------------------------------------------------------
Init ==
  /\ status_ = OK
  /\ given \in BOOLEAN /\ status_cb_ = given /\ msg_cb_ = FALSE
  /\ inited_ = FALSE /\ reading_started_ = FALSE /\ writing_closing_ = FALSE
  /\ reading_ended_ = FALSE /\ writing_ended_ = FALSE
  /\ queued = 0 /\ send_tags = 0 /\ read_tags = 0
  /\ stack = <<>> /\ handle = "held"
  /\ told = <<>>
  /\ accepted = 0 /\ sends = 0 /\ half_closes = 0 /\ reads = 0
  /\ failed_asserts = {}

Alive == handle # "crashed"

\* A user thread calls when no handler holds mtx_; a running callback calls
\* from inside the handler that called it.
MayCall(op) ==
  /\ handle = "held"
  /\ stack # <<>> =>
       op \in CASE Last(stack) = "msg"   -> MsgCbCalls
                [] Last(stack) = "error" -> ErrorCbCalls
                [] Last(stack) = "end"   -> EndCbCalls

\* The asserts of one step: the lines of those that do not hold.
AssertAt(line, holds) == IF holds THEN {} ELSE {line}
Check(failed) == failed_asserts' = failed_asserts \cup failed

\* The handler goes on, or returns, without an error.
GoOn(stk, w) ==
  /\ stack' = stk /\ writing_ended_' = w
  /\ UNCHANGED <<status_, reading_ended_, told>>

\* EndOnErrorStatus(st) with the callbacks stk running, up to the call of
\* status_cb_ (ReturnFromError is the rest), or to its end if there is none.
EndOnErrorStatus(st, stk, w) ==
  /\ status_' = st
  /\ \/ /\ status_cb_
        /\ stack' = Append(stk, "error") /\ told' = Append(told, st)
        /\ writing_ended_' = w /\ UNCHANGED reading_ended_
     \/ /\ ~status_cb_
        /\ reading_ended_' = TRUE /\ writing_ended_' = TRUE
        /\ stack' = stk /\ UNCHANGED told

SetInternalError(stk, w) == EndOnErrorStatus(InternalError, stk, w)

\* Mutants of the test "both ended".
ForgetsToTell(r, w) == FALSE
EitherEnded(r, w) == status_cb_

\* CallStatusCb() when the first half to end was followed by the second.
TellsEnd(r, w) == r /\ w /\ status_cb_

EndNormally(r, w) ==
  /\ reading_ended_' = r /\ writing_ended_' = w
  /\ \/ TellsEnd(r, w) /\ stack' = <<"end">> /\ told' = Append(told, OK)
     \/ ~TellsEnd(r, w) /\ UNCHANGED <<stack, told>>
  /\ UNCHANGED status_

\* SendNext() with n other sends in flight: grpc takes the batch or refuses.
SendNext(n) ==
  \/ send_tags' = n + 1 /\ sends' = sends + 1 /\ GoOn(stack, writing_ended_)
  \/ send_tags' = n /\ UNCHANGED sends /\ SetInternalError(stack, writing_ended_)

\* ReadNext(), leaving the callbacks stk running.
ReadNext(stk) ==
  \/ read_tags' = read_tags + 1 /\ GoOn(stk, writing_ended_)
  \/ UNCHANGED read_tags /\ SetInternalError(stk, writing_ended_)

\* SendClose(): the batch half-closes the call; nobody waits for its tag.
SendClose == half_closes' = half_closes + 1
SendCloseFails == SendClose /\ SetInternalError(stack, TRUE)

\* The tests the handlers make, each behind a mutant of it.
IsSending == queued > 0

AssumesAllSent == TRUE
AllSent == queued = 0

ClosesAgain == FALSE
IsClosing == writing_closing_

IsReading == reading_started_

IgnoresError == TRUE
IsGood == status_ = OK

-----------------------------------------------------------------------------
\* InitIfNot(): sends the initial metadata and asks for the server's, once;
\* either batch may be refused.
InitFails == ~inited_ /\ status_ = OK /\ SetInternalError(stack, writing_ended_)

\* Write(), refused for the reason of an error, or of the end of writing.
WriteRejected ==
  /\ status_ # OK \/ writing_closing_ \/ writing_ended_
  /\ GoOn(stack, writing_ended_)
  /\ Check(AssertAt(38, status_ # OK => reading_ended_ /\ writing_ended_))
  /\ UNCHANGED <<queued, accepted, sends, send_tags>>

WriteAccepted ==
  /\ status_ = OK /\ ~writing_closing_ /\ ~writing_ended_
  /\ accepted < MaxWrites
  /\ queued' = queued + 1
  /\ \/ IsSending /\ GoOn(stack, writing_ended_) /\ UNCHANGED <<sends, send_tags>>
     \/ ~IsSending /\ SendNext(send_tags)
  /\ accepted' = IF status_' = OK THEN accepted + 1 ELSE accepted
  /\ UNCHANGED failed_asserts

Write ==
  /\ MayCall("Write")
  /\ inited_' = TRUE
  /\ \/ InitFails /\ UNCHANGED <<queued, accepted, sends, send_tags, failed_asserts>>
     \/ WriteRejected
     \/ WriteAccepted
  /\ UNCHANGED <<msg_cb_, status_cb_, reading_started_, writing_closing_,
                 read_tags, handle, given, half_closes, reads>>

\* The part of CloseWriting() behind its first test.  Unlike OnSent(), it
\* does not look at reading_ended_ when it has ended writing.
Closes ==
  IF IsGood /\ AllSent
  THEN /\ Check(AssertAt(59, half_closes = 0))
       /\ (SendClose /\ GoOn(stack, TRUE)) \/ SendCloseFails
  ELSE GoOn(stack, writing_ended_) /\ UNCHANGED <<half_closes, failed_asserts>>

CloseWriting ==
  /\ MayCall("CloseWriting")
  /\ ~IsClosing
  /\ writing_closing_' = TRUE
  /\ Closes
  /\ UNCHANGED <<msg_cb_, status_cb_, inited_, reading_started_, queued, tags,
                 handle, given, accepted, sends, reads>>

\* The wrapper's destructor, when the last copy of the handle goes away.
Drop ==
  /\ MayCall("CloseWriting")
  /\ handle' = "dropped"
  /\ writing_closing_' = TRUE
  /\ IF IsClosing
     THEN GoOn(stack, writing_ended_) /\ UNCHANGED <<half_closes, failed_asserts>>
     ELSE Closes
  /\ UNCHANGED <<msg_cb_, status_cb_, inited_, reading_started_, queued, tags,
                 given, accepted, sends, reads>>

\* ReadEach() with an empty msg_cb or not; only the first call counts.
ReadEach(cb) ==
  /\ MayCall("ReadEach")
  /\ ~IsReading
  /\ reading_started_' = TRUE
  /\ inited_' = TRUE
  /\ \/ InitFails /\ UNCHANGED <<msg_cb_, read_tags>>
     \/ status_ # OK /\ GoOn(stack, writing_ended_) /\ UNCHANGED <<msg_cb_, read_tags>>
     \/ status_ = OK /\ msg_cb_' = cb /\ ReadNext(stack)
  /\ UNCHANGED <<status_cb_, writing_closing_, queued, send_tags, handle, given,
                 counts, failed_asserts>>

\* SetErrorStatus(): end the call, or only replace an earlier error.
SetErrorStatus ==
  /\ MayCall("SetErrorStatus")
  /\ \/ status_ = OK /\ EndOnErrorStatus(UserError, stack, writing_ended_)
     \/ /\ status_ # OK /\ status_' = UserError
        /\ UNCHANGED <<stack, ends, told>>
  /\ UNCHANGED <<msg_cb_, status_cb_, flags, queued, tags, handle, given, counts,
                 failed_asserts>>

-----------------------------------------------------------------------------
\* OnSent() once the sent message was popped: the batch failed; there is more
\* to send; or it was the last message, and writing ends if it was closed.
OnSentFailed == send_tags' = send_tags - 1 /\ UNCHANGED <<sends, half_closes>>
                /\ SetInternalError(stack, writing_ended_)

OnSentSendsNext == queued' > 0 /\ SendNext(send_tags - 1) /\ UNCHANGED half_closes

OnSentLast ==
  /\ queued' = 0
  /\ send_tags' = send_tags - 1 /\ UNCHANGED sends
  /\ \/ ~writing_closing_ /\ GoOn(stack, writing_ended_) /\ UNCHANGED half_closes
     \/ writing_closing_ /\ SendClose /\ EndNormally(reading_ended_, TRUE)
     \/ writing_closing_ /\ SendCloseFails

OnSent ==
  /\ stack = <<>> /\ send_tags > 0
  /\ queued' = IF queued = 0 THEN 0 ELSE queued - 1
  /\ \/ /\ ~IsGood
        /\ send_tags' = send_tags - 1
        /\ GoOn(stack, writing_ended_) /\ UNCHANGED <<sends, half_closes>>
     \/ IsGood /\ (OnSentFailed \/ OnSentSendsNext \/ OnSentLast)
  /\ Check(AssertAt(88, queued > 0) \cup AssertAt(92, ~IsGood => ~status_cb_)
           \cup AssertAt(210, half_closes' > half_closes => half_closes = 0))
  /\ UNCHANGED <<msg_cb_, status_cb_, flags, read_tags, handle, given,
                 accepted, reads>>

\* OnRead() with a message: unreadable, or passed to msg_cb_ (ReturnFromMsg
\* is the rest), or dropped for want of a msg_cb_.
OnReadMsg ==
  /\ reads < MaxReads /\ reads' = reads + 1
  /\ \/ EndOnErrorStatus(UserError, stack, writing_ended_)
        /\ read_tags' = read_tags - 1
     \/ msg_cb_ /\ GoOn(<<"msg">>, writing_ended_) /\ read_tags' = read_tags - 1
     \/ /\ ~msg_cb_
        /\ \/ GoOn(stack, writing_ended_) /\ UNCHANGED read_tags
           \/ SetInternalError(stack, writing_ended_) /\ read_tags' = read_tags - 1

OnReadEnds ==
  /\ UNCHANGED reads /\ read_tags' = read_tags - 1
  /\ EndNormally(TRUE, writing_ended_) \/ SetInternalError(stack, writing_ended_)

OnRead ==
  /\ stack = <<>> /\ read_tags > 0
  /\ \/ /\ status_ # OK
        /\ read_tags' = read_tags - 1
        /\ GoOn(stack, writing_ended_) /\ UNCHANGED reads
     \/ status_ = OK /\ (OnReadMsg \/ OnReadEnds)
  /\ Check(AssertAt(118, status_ # OK => ~status_cb_))
  /\ UNCHANGED <<msg_cb_, status_cb_, flags, queued, send_tags, handle, given,
                 accepted, sends, half_closes>>

-----------------------------------------------------------------------------
\* msg_cb returns: OK, and the next read starts, or an error.  What it called
\* may have ended the call: assert(status_.ok()) of ReadNext() or of
\* EndOnErrorStatus() fails then, and the release build reads on.
ReturnFromMsg ==
  /\ stack # <<>> /\ Last(stack) = "msg"
  /\ \/ ReadNext(Front(stack)) /\ Check(AssertAt(194, status_ = OK))
     \/ /\ EndOnErrorStatus(UserError, Front(stack), writing_ended_)
        /\ Check(AssertAt(232, status_ = OK))
        /\ UNCHANGED read_tags
  /\ UNCHANGED <<msg_cb_, status_cb_, flags, queued, send_tags, handle, given, counts>>

\* status_cb returns, and is reset; after an error both halves are ended.  If
\* it was called inside an outer call of status_cb_, the reset destroys what
\* still runs (undefined behaviour): the outer call goes on, or the process
\* crashes.
InsideItself == stack = <<"end", "error">>
KeepsStatusCb == UNCHANGED status_cb_
ResetStatusCb == status_cb_' = FALSE

ReturnFromStatus ==
  /\ stack # <<>> /\ Last(stack) \in {"error", "end"}
  /\ stack' = Front(stack)
  /\ ResetStatusCb
  /\ \/ Last(stack) = "error" /\ reading_ended_' = TRUE /\ writing_ended_' = TRUE
     \/ Last(stack) = "end" /\ UNCHANGED ends
  /\ handle' \in {handle} \cup
       IF InsideItself THEN {"crashed"} ELSE {}
  /\ UNCHANGED <<status_, msg_cb_, flags, queued, tags, given, told, counts,
                 failed_asserts>>

\* The last reference goes away: no handle, and no tag holding one.
Destruct ==
  /\ handle = "dropped" /\ stack = <<>> /\ send_tags = 0 /\ read_tags = 0
  /\ handle' = "gone"
  /\ Check(AssertAt(30, reading_ended_) \cup AssertAt(31, writing_ended_))
  /\ UNCHANGED <<status_, msg_cb_, status_cb_, flags, ends, queued, tags, stack,
                 given, told, counts>>

Next ==
  /\ Alive
  /\ \/ Write \/ CloseWriting \/ Drop \/ SetErrorStatus
     \/ \E cb \in BOOLEAN : ReadEach(cb)
     \/ OnSent \/ OnRead
     \/ ReturnFromMsg \/ ReturnFromStatus
     \/ Destruct

\* grpc completes every batch it took, a thread runs the completion queue,
\* callbacks return, and the server ends its stream in the end.
Fairness ==
  /\ WF_vars(Alive /\ OnSent) /\ WF_vars(Alive /\ OnRead)
  /\ WF_vars(Alive /\ ReturnFromMsg) /\ WF_vars(Alive /\ ReturnFromStatus)

Spec == Init /\ [][Next]_vars /\ Fairness

-----------------------------------------------------------------------------
Running(f) == \E i \in DOMAIN stack : stack[i] = f

\* Whatever ends the call first, a batch, the server, msg_cb or the user, in a
\* handler or inside a callback: status_cb is called at most once, an error
\* is never kept from it, and it is pending exactly until it was called.  Only
\* when it was told OK, and calls SetErrorStatus() itself before it returns, is
\* it called again, inside that call, which it outlives: status_cb_ is reset
\* while the outer call runs.
Reentered == told = <<OK, UserError>>
StatusCbOnce ==
  /\ TypeOK
  /\ Len(told) =< 1 \/ Reentered
  /\ given /\ status_ # OK => told # <<>>
  /\ status_cb_ <=>
       given /\ (told = <<>> \/ Running("error") \/ (Running("end") /\ ~Reentered))

\* grpc allows one outstanding send and one outstanding read per call.  While
\* the call is good a send is in flight exactly when a message is queued, and
\* reading goes on, in grpc or in msg_cb, from ReadEach() to its end.
OneSendOneRead ==
  /\ send_tags =< 1 /\ read_tags =< 1 /\ send_tags =< queued
  /\ ~(Running("msg") /\ read_tags > 0)
  /\ status_ = OK =>
       /\ send_tags = IF queued > 0 THEN 1 ELSE 0
       /\ reading_started_ /\ ~reading_ended_ <=> read_tags > 0 \/ Running("msg")

\* Half-closing is the last thing the writing half sends, is sent once, and
\* not before all accepted messages were sent and completed.
HalfCloseIsLast ==
  /\ half_closes =< 1
  /\ half_closes = 1 => writing_closing_ /\ queued = 0 /\ sends = accepted

\* Both: each half of the call has at most one batch in flight, the right one.
BatchesInOrder == OneSendOneRead /\ HalfCloseIsLast

\* status_cb hears OK only when the server has ended its stream, the client
\* has sent all it accepted and its half-close, and nothing is in flight.
OkMeansBothEnded ==
  \A i \in DOMAIN told : told[i] = OK =>
    /\ reading_ended_ /\ writing_ended_ /\ half_closes = 1
    /\ send_tags = 0 /\ read_tags = 0

\* Nothing is sent after an error, whoever caused it.
NothingSentAfterError ==
  [][status_ # OK => sends' = sends /\ half_closes' = half_closes]_vars

\* The asserts on what the handlers leave for each other hold: OnSent() finds
\* its message (88), a status_cb is reset once an error was told (92, 118), the
\* half-close is sent once (59, 210), and writing has ended when the call is
\* destroyed (31).  The others fail in no more than these cases: the call was
\* never read (30); the status_cb that is told an error calls Write() before it
\* returns (38); msg_cb has set an error before it returns (194, 232).
AssertsHold ==
  [][\A line \in failed_asserts' \ failed_asserts :
       \/ line = 30 /\ ~reading_started_
       \/ line = 38 /\ Running("error")
       \/ line \in {194, 232} /\ Running("msg") /\ status_ # OK]_vars

\* When reading or a send is what the call still waits for, status_cb hears
\* of its end.
EndIsTold ==
  (given /\ writing_closing_ /\ reading_started_ /\ (read_tags > 0 \/ queued > 0))
     ~> (told # <<>>)

\* The two below fail.
\* No assert of client_async_reader_writer_impl.cc fails: a call is over when it
\* is destroyed (30), an error has ended both halves for a later Write() (38),
\* no read follows an error (194), and a call ends on an error once (232).  Each
\* of these four does fail, in the case that AssertsHold names.
AssertsNeverFail == failed_asserts = {}

\* "Both ended." (OnSent): once reading and writing have both ended,
\* status_cb is called.  CloseWriting() after the end of reading does not.
BothEndedIsTold == (given /\ reading_ended_ /\ writing_ended_) ~> (told # <<>>)
=============================================================================
