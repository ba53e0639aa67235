----------------------- MODULE ClientSyncReaderWriter -----------------------
(***************************************************************************)
(* The blocking readers of the client: ClientSyncReader (one request, many *)
(* responses; src/src/client/client_sync_reader.cc) and                    *)
(* ClientSyncReaderWriter (client_sync_reader_writer_impl.h), which share  *)
(* client_sync_reader_helper.h.  Copies of one object share its data with  *)
(* no lock ("XXX thread-safe?"), so threads may write, read and set the    *)
(* status at the same time.                                                *)
(*                                                                         *)
(* A thread is at a label of the call it is in, named for what comes next, *)
(* and is "idle" in none.  What it reads or writes of the shared data is   *)
(* one step; a test of the status and the start of the batch it guards are *)
(* two.  Two accesses are one step only where nobody can tell: a test that *)
(* the next one repeats, and a write that only makes others return.        *)
(* Calls that return at once and change nothing are left out.  A status is *)
(* its code, written whole; what the race does to its text is left out.    *)
(*                                                                         *)
(* External: grpc may refuse any batch, and refuses one with an operation  *)
(* that is outstanding, that a call has only once and has had, or that     *)
(* sends after the half-close; the server sends initial metadata with its  *)
(* first message or its status; a status reaches the client behind the     *)
(* messages; a call may break (a deadline, a lost connection), which loses *)
(* what has not been read.                                                 *)
(***************************************************************************)
EXTENDS Naturals

CONSTANTS
  Writers, Readers,   \* threads that call Write(), and threads that read
  MaxWrites,          \* bound on the calls of Write()
  MaxMsgs             \* bound on the messages of the server

ASSUME ReaderWriterAssumption == MaxWrites \in Nat /\ MaxMsgs \in Nat

OK == "OK"
InternalError == "InternalError"  \* made up by the client
UserError == "UserError"          \* given to SetErrorStatus()
ServerError == "ServerError"      \* sent by the server
Statuses == {OK, InternalError, UserError}
NoStatus == "NoStatus"

Threads == Writers \cup Readers

\* The operations of a call (CallOperations), those a call has once, and the
\* batches of operations that the constructors start.
Ops == {"SendInitMd", "SendMsg", "SendClose", "RecvInitMd", "RecvMsg", "RecvStatus"}
OnceOps == Ops \ {"SendMsg", "RecvMsg"}

SendInitMdTag == {"SendInitMd"}
ReaderInitTag == {"SendMsg", "SendInitMd", "RecvInitMd", "SendClose"}

\* The labels at which a thread is about to start a batch, having passed the
\* test of the status, and those at which it is in Pluck(), each with the one
\* operation of its batch.
StartLabels ==
  {"write", "close_start", "init_set", "init_assert", "init_start", "read_start", "status_start"}

Batch == [sending |-> "SendMsg", closing |-> "SendClose", init_wait |-> "RecvInitMd",
          reading |-> "RecvMsg", status_wait |-> "RecvStatus"]
WaitLabels == DOMAIN Batch

Labels == {"idle", "close", "read", "assign", "result", "status_copy"}
            \cup StartLabels \cup WaitLabels

\* The labels inside ReadOne() and RecvStatus().
ReadLabels == Labels \ {"idle", "write", "sending", "close", "close_start", "closing"}

VARIABLES
  class,              \* which of the two classes the object is of
  status,             \* data_sptr_->status
  writing_closed_, init_md_received_,
  dropped,            \* the last copy is gone
  at,                 \* the label each thread is at
  \* the call, in grpc
  had,                \* the OnceOps that grpc took
  sent,               \* number of messages the server sent
  server_status, broken,
  \* history
  writes,             \* calls of Write() that passed the test of the status
  reads, got,         \* messages read, and those that ReadOne() returned
  told_ok,            \* RecvStatus() has returned OK
  overlapped,         \* two threads have been in ReadOne() or RecvStatus() at once
  late,               \* batches each thread started since the status is an error
  \* the process
  crashed             \* an assert has ended the process

object == <<class, writing_closed_, init_md_received_, dropped>>
server == <<sent, server_status, broken>>
history == <<writes, reads, got, told_ok, overlapped, crashed>>
vars == <<object, status, at, had, server, history, late>>

TypeOK ==
  /\ class \in {"reader", "reader_writer"} /\ status \in Statuses
  /\ writing_closed_ \in BOOLEAN /\ init_md_received_ \in BOOLEAN
  /\ dropped \in BOOLEAN /\ broken \in BOOLEAN /\ had \subseteq OnceOps
  /\ at \in [Threads -> Labels]
  /\ server_status \in {NoStatus, OK, ServerError}
  /\ writes \in 0..MaxWrites /\ sent \in 0..MaxMsgs
  /\ reads \in 0..MaxMsgs /\ got \in Nat
  /\ told_ok \in BOOLEAN /\ overlapped \in BOOLEAN
  /\ late \in [Threads -> Nat] /\ crashed \in BOOLEAN

\* The constructors, their batches complete or refused.
InitReader ==
  /\ class = "reader"
  /\ writing_closed_ = TRUE /\ init_md_received_ = TRUE
  /\ \/ status = OK /\ had = ReaderInitTag \cap OnceOps
     \/ status = InternalError /\ had = {}

InitReaderWriter ==
  /\ class = "reader_writer"
  /\ writing_closed_ = FALSE /\ init_md_received_ = FALSE
  /\ \/ status = OK /\ had = SendInitMdTag
     \/ status = InternalError /\ had = {}

Init ==
  /\ InitReader \/ InitReaderWriter
  /\ dropped = FALSE /\ at = [t \in Threads |-> "idle"]
  /\ sent = 0 /\ server_status = NoStatus /\ broken = FALSE
  /\ writes = 0 /\ reads = 0 /\ got = 0 /\ told_ok = FALSE
  /\ overlapped = FALSE /\ late = [t \in Threads |-> 0] /\ crashed = FALSE

-----------------------------------------------------------------------------
Idle(t) == at[t] = "idle" /\ ~dropped
Go(t, label) == at' = [at EXCEPT ![t] = label]
HalfClosed == "SendClose" \in had
Outstanding == {Batch[at[u]] : u \in {v \in Threads : at[v] \in WaitLabels}}

\* Assignments of the status, which the history `late` follows.
SetStatus(st) ==
  /\ status' = st
  /\ late' = IF st = OK THEN [t \in Threads |-> 0] ELSE late

\* Call::StartBatch() if grpc takes the batch: the thread waits for it.
StartBatch(t, wait) ==
  /\ Batch[wait] \notin had \cup Outstanding
  /\ HalfClosed => Batch[wait] # "SendMsg"
  /\ Go(t, wait)
  /\ had' = had \cup ({Batch[wait]} \cap OnceOps)
  /\ late' = IF status = OK THEN late ELSE [late EXCEPT ![t] = @ + 1]
  /\ UNCHANGED status

\* A batch that is taken or refused: SetInternalError(), and on to label next.
StartOrFail(t, wait, next) ==
  \/ StartBatch(t, wait)
  \/ SetStatus(InternalError) /\ Go(t, next) /\ UNCHANGED had

\* SyncWrite() of the writer's helper: the test, then the batch.
Write(t) ==
  /\ class = "reader_writer" /\ Idle(t) /\ status = OK /\ writes < MaxWrites
  /\ writes' = writes + 1 /\ Go(t, "write")
  /\ UNCHANGED <<object, status, had, server, late>>
  /\ UNCHANGED <<reads, got, told_ok, overlapped, crashed>>

StartWrite(t) ==
  /\ at[t] = "write" /\ StartOrFail(t, "sending", "idle")
  /\ UNCHANGED <<object, server, history>>

\* CloseWriting(): two threads may both find the flag unset.
CloseWriting(t) ==
  /\ Idle(t) /\ ~writing_closed_ /\ Go(t, "close")
  /\ UNCHANGED <<object, status, had, server, history, late>>

\* The flag is set and the status tested; nothing repeats a half-close that an
\* error kept from starting.
HalfClose(t) ==
  /\ at[t] = "close" /\ writing_closed_' = TRUE
  /\ Go(t, IF status = OK THEN "close_start" ELSE "idle")
  /\ UNCHANGED <<class, init_md_received_, dropped, status, had, server, history, late>>

StartClose(t) ==
  /\ at[t] = "close_start" /\ StartOrFail(t, "closing", "idle")
  /\ UNCHANGED <<object, server, history>>

\* The last copy goes out of scope on thread t: the destructor closes writing.
Destruct(t) ==
  /\ \A u \in Threads : Idle(u)
  /\ dropped' = TRUE
  /\ IF writing_closed_ THEN UNCHANGED at ELSE Go(t, "close")
  /\ UNCHANGED <<class, writing_closed_, init_md_received_>>
  /\ UNCHANGED <<status, had, server, history, late>>

\* Pluck() returns in SyncWrite() and in CloseWriting().
SendReturns(t) ==
  /\ at[t] \in {"sending", "closing"} /\ Go(t, "idle")
  /\ UNCHANGED <<object, status, had, server, history, late>>

-----------------------------------------------------------------------------
\* Thread t enters ReadOne() or RecvStatus().
Enter(t, label) ==
  /\ Go(t, label)
  /\ overlapped' = (overlapped \/ \E u \in Threads \ {t} : at[u] \in ReadLabels)

\* ReadOne(), after its first test of the status and that of the flag: a
\* ClientSyncReader received the initial metadata in its constructor.
ReadOne(t) ==
  /\ Idle(t) /\ status = OK
  /\ Enter(t, IF init_md_received_ THEN "read" ELSE "init_set")
  /\ UNCHANGED <<object, status, had, server, late>>
  /\ UNCHANGED <<writes, reads, got, told_ok, crashed>>

\* RecvInitMdIfNot(): the flag is set, the status is asserted to be OK, which
\* another thread may have changed since the test (the process dies, or, with
\* NDEBUG, goes on), and the batch is started.
InitMdFlag(t) ==
  /\ at[t] = "init_set" /\ Go(t, "init_assert") /\ init_md_received_' = TRUE
  /\ UNCHANGED <<class, writing_closed_, dropped, status, had, server, history, late>>

InitMdAssert(t) ==
  /\ at[t] = "init_assert" /\ Go(t, "init_start")
  /\ crashed' \in {FALSE, status # OK}
  /\ UNCHANGED <<object, status, had, server, late>>
  /\ UNCHANGED <<writes, reads, got, told_ok, overlapped>>

StartInitMd(t) ==
  /\ at[t] = "init_start" /\ StartOrFail(t, "init_wait", "read")
  /\ UNCHANGED <<object, server, history>>

InitMdArrives(t) ==
  /\ at[t] = "init_wait" /\ (sent > 0 \/ server_status # NoStatus \/ broken)
  /\ Go(t, "read")
  /\ UNCHANGED <<object, status, had, server, history, late>>

\* A mutant: the test of the status after RecvInitMdIfNot() is missing.
ReadsOn(t) == Go(t, "read_start")

\* ReadOne() and SyncReadOne() test the status again: another thread may have
\* set it.
TestStatus(t) == Go(t, IF status = OK THEN "read_start" ELSE "idle")

ReadOn(t) ==
  /\ at[t] = "read" /\ TestStatus(t)
  /\ UNCHANGED <<object, status, had, server, history, late>>

StartRead(t) ==
  /\ at[t] = "read_start" /\ StartOrFail(t, "reading", "idle")
  /\ UNCHANGED <<object, server, history>>

\* A mutant of ReadEnds: no message is taken for a message to come.
ReadsAgain(t) == UNCHANGED at

\* No message: ReadOne() returns false and leaves the status alone.
ReadEnds(t) == Go(t, "idle")

ReadReturns(t) ==
  /\ at[t] = "reading"
  /\ \/ reads < sent /\ reads' = reads + 1 /\ Go(t, "assign")
     \/ /\ broken \/ (server_status # NoStatus /\ reads = sent)
        /\ ReadEnds(t) /\ UNCHANGED reads
  /\ UNCHANGED <<object, status, had, server, late>>
  /\ UNCHANGED <<writes, got, told_ok, overlapped, crashed>>

\* A mutant: GetResultMsg() fails and the status does not tell.
SkipsMsg(t) ==
  \/ Go(t, "result") /\ SetStatus(OK)
  \/ Go(t, "idle") /\ UNCHANGED <<status, late>>

\* GetResultMsg() replaces the status, whatever it was by now.
GetResultMsg(t) == Go(t, "result") /\ (SetStatus(OK) \/ SetStatus(InternalError))

AssignStatus(t) ==
  /\ at[t] = "assign" /\ GetResultMsg(t)
  /\ UNCHANGED <<object, had, server, history>>

\* The result of ReadOne() is read from the status, and not from the message.
Result(t) ==
  /\ at[t] = "result" /\ Go(t, "idle")
  /\ got' = IF status = OK THEN got + 1 ELSE got
  /\ UNCHANGED <<object, status, had, server, late>>
  /\ UNCHANGED <<writes, reads, told_ok, overlapped, crashed>>

-----------------------------------------------------------------------------
Returns(ok) == told_ok' = (told_ok \/ ok)

\* RecvStatus() returns an error of the object's own, read a second time, or
\* asks grpc, which answers once per call.
RecvStatus(t) ==
  /\ Idle(t) /\ Enter(t, IF status = OK THEN "status_start" ELSE "status_copy")
  /\ UNCHANGED <<object, status, had, server, late>>
  /\ UNCHANGED <<writes, reads, got, told_ok, crashed>>

CopyStatus(t) ==
  /\ at[t] = "status_copy" /\ Go(t, "idle") /\ Returns(status = OK)
  /\ UNCHANGED <<object, status, had, server, late>>
  /\ UNCHANGED <<writes, reads, got, overlapped, crashed>>

StartStatus(t) ==
  /\ at[t] = "status_start"
  /\ \/ StartBatch(t, "status_wait")
     \/ Go(t, "idle") /\ UNCHANGED <<status, had, late>>   \* InternalError
  /\ UNCHANGED <<object, server, history>>

GetStatus ==
  \/ server_status # NoStatus /\ reads = sent /\ Returns(server_status = OK)
  \/ broken /\ Returns(FALSE)

StatusReturns(t) ==
  /\ at[t] = "status_wait" /\ Go(t, "idle") /\ GetStatus
  /\ UNCHANGED <<object, status, had, server, late>>
  /\ UNCHANGED <<writes, reads, got, overlapped, crashed>>

SetErrorStatus(t) ==
  /\ Idle(t) /\ SetStatus(UserError)
  /\ UNCHANGED <<object, at, had, server, history>>

-----------------------------------------------------------------------------
\* External: the server sends messages and a status; the call breaks.
ServerSends ==
  /\ server_status = NoStatus /\ sent < MaxMsgs /\ ~broken
  /\ sent' = sent + 1
  /\ UNCHANGED <<object, status, at, had, server_status, broken, history, late>>

ServerEnds ==
  /\ server_status = NoStatus /\ ~broken
  /\ server_status' \in {OK, ServerError}
  /\ UNCHANGED <<object, status, at, had, sent, broken, history, late>>

CallBreaks ==
  /\ ~broken /\ broken' = TRUE
  /\ UNCHANGED <<object, status, at, had, sent, server_status, history, late>>

Pluck(t) == SendReturns(t) \/ InitMdArrives(t) \/ ReadReturns(t) \/ StatusReturns(t)

\* The steps inside the calls, but for Pluck().
Run(t) ==
  \/ StartWrite(t) \/ HalfClose(t) \/ StartClose(t)
  \/ InitMdFlag(t) \/ InitMdAssert(t) \/ StartInitMd(t)
  \/ ReadOn(t) \/ StartRead(t) \/ AssignStatus(t) \/ Result(t)
  \/ CopyStatus(t) \/ StartStatus(t)

Next ==
  /\ ~crashed
  /\ \/ \E t \in Writers : Write(t)
     \/ \E t \in Readers : ReadOne(t) \/ RecvStatus(t)
     \/ \E t \in Threads : CloseWriting(t) \/ SetErrorStatus(t) \/ Destruct(t)
     \/ \E t \in Threads : Run(t) \/ Pluck(t)
     \/ ServerSends \/ ServerEnds \/ CallBreaks

\* Threads run, Pluck() returns when its batch completed, and the server
\* answers a client that has said all it has to say.
Fairness ==
  /\ \A t \in Threads : WF_vars(~crashed /\ Run(t)) /\ WF_vars(~crashed /\ Pluck(t))
  /\ WF_vars(~crashed /\ HalfClosed /\ ServerEnds)

Spec == Init /\ [][Next]_vars /\ Fairness

-----------------------------------------------------------------------------
\* Of an object that one thread at a time reads, while others write to it,
\* close it and set its status: RecvStatus() returns OK only when the server did
\* and every message was read; and unless the object has an error by then,
\* which RecvStatus() no longer sees once it waits, ReadOne() gave the user all
\* of them, readable each.
OkMeansAllRead ==
  /\ TypeOK
  /\ told_ok /\ ~overlapped =>
       server_status = OK /\ reads = sent /\ (status = OK => got = sent)

\* "Set error status to break reading": once the status is an error, each
\* thread starts at most the one batch it had already passed the test for, also
\* in the middle of a ReadOne(); until a read under way makes the status OK.
ErrorBreaksCalls == \A t \in Threads : late[t] <= 1

\* CloseWriting() is done, and an error kept the half-close from being sent.
Unclosed ==
  writing_closed_ /\ ~HalfClosed /\ \A t \in Threads : at[t] \notin {"close", "close_start"}

\* Once writing is closed, every call returns, unless the half-close fell to an
\* error: a read then waits for a server that may wait for the client.
\* RecvStatus() also waits for the user to read what the server sent.  The
\* assert of RecvInitMdIfNot() may end the process first.
BlockedCallReturns ==
  \A t \in Threads :
    (writing_closed_ /\ at[t] # "idle")
      ~> \/ at[t] = "idle" \/ (at[t] = "status_wait" /\ reads < sent)
         \/ Unclosed \/ crashed
=============================================================================
