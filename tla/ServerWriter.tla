---------------------------- MODULE ServerWriter ----------------------------
(***************************************************************************)
(* The server's stream of responses:                                       *)
(* src/src/server/impl/server_writer_impl.cc.                              *)
(*                                                                         *)
(* Threads call Write, SyncWrite, AsyncWrite, SyncClose and AsyncClose.    *)
(* The mutex is released between the steps of a call, so a call is a small *)
(* program: pc says where its thread is.  The poller threads run the       *)
(* completion queue (Server::Run()) and deliver completions, unless they   *)
(* are themselves inside a call of a handler.                              *)
(*                                                                         *)
(* A message is the number of the call that brings it, so all differ.      *)
(***************************************************************************)
EXTENDS Naturals, FiniteSets, SequencesExt

CONSTANTS
  Callers,     \* threads that call the writer
  Pollers,     \* threads in Server::Run(); a caller among them is a handler
  Statuses,    \* statuses a stream is closed with
  OKStatus,    \* the one the destructor closes with
  NoStatus,    \* close_status_uptr_ is empty
  InitialHigh, \* high queue size at the start
  HighSizes,   \* values SetHighQueueSize() is later called with
  MaxWrites    \* bound on the number of write calls

ASSUME ServerWriterAssumption ==
  /\ IsFiniteSet(Callers) /\ Callers # {}
  /\ OKStatus \in Statuses /\ NoStatus \notin Statuses
  /\ InitialHigh \in Nat /\ HighSizes \subseteq 0..InitialHigh
  /\ MaxWrites \in Nat

VARIABLES
  queue_, is_sending_, closed_, send_init_md_, high_queue_size_,
  close_status, \* *close_status_uptr_
  memory,       \* "sound", or what pop() of an empty std::queue has done:
                \* "wrapped" (its size is huge), "crashed"
  write_tags,   \* number of ServerWriterWriteCqTag in the completion queue
  handle,       \* "held" by the user, "dropped", or "gone": destructed
  pc, msg,      \* where each caller is in its call, and its message
  \* history
  calls,        \* number of write calls so far
  direct,       \* how many of them were AsyncWrite()
  accepted,     \* messages AsyncWrite() took, in order
  wire,         \* messages of the batches grpc accepted, in order
  completed,    \* how many of those batches completed
  init_mds,     \* number of batches that carried initial metadata
  status_sent,  \* the status batch was given to grpc
  synced        \* messages whose SyncWrite() returned true

impl == <<queue_, is_sending_, closed_, send_init_md_, high_queue_size_, close_status>>
batches == <<wire, init_mds, write_tags>>
log == <<calls, direct, synced>>
threads == <<pc, msg>>
vars == <<impl, batches, log, threads, memory, handle, accepted, completed, status_sent>>

TypeOK ==
  /\ queue_ \in Seq(Nat) /\ accepted \in Seq(Nat) /\ wire \in Seq(Nat)
  /\ is_sending_ \in BOOLEAN /\ closed_ \in BOOLEAN
  /\ send_init_md_ \in BOOLEAN /\ status_sent \in BOOLEAN
  /\ high_queue_size_ \in Nat /\ write_tags \in Nat /\ completed \in Nat
  /\ calls \in Nat /\ direct \in Nat /\ init_mds \in Nat
  /\ close_status \in Statuses \cup {NoStatus}
  /\ memory \in {"sound", "wrapped", "crashed"}
  /\ handle \in {"held", "dropped", "gone"}
  /\ pc \in [Callers -> {"idle", "low", "high", "spin", "return", "closing"}]
  /\ msg \in [Callers -> Nat]
  /\ synced \in SUBSET Nat

Init ==
  /\ queue_ = <<>> /\ is_sending_ = FALSE /\ closed_ = FALSE
  /\ send_init_md_ = TRUE
  /\ high_queue_size_ = InitialHigh /\ close_status = NoStatus
  /\ memory = "sound" /\ handle = "held"
  /\ write_tags = 0 /\ pc = [t \in Callers |-> "idle"] /\ msg = [t \in Callers |-> 0]
  /\ calls = 0 /\ direct = 0 /\ accepted = <<>> /\ wire = <<>> /\ completed = 0
  /\ init_mds = 0 /\ status_sent = FALSE /\ synced = {}

QueueSize == IF memory = "wrapped" THEN InitialHigh + MaxWrites ELSE Len(queue_)

\* A poller is waiting in the completion queue.
SomePollerFree == \E p \in Pollers : p \in Callers => pc[p] = "idle"

\* Thread t goes on at l; a finished call forgets its message.
Goto(t, l) ==
  /\ pc' = [pc EXCEPT ![t] = l]
  /\ msg' = IF l = "idle" THEN [msg EXCEPT ![t] = 0] ELSE msg

-----------------------------------------------------------------------------
\* SendMsg(m) with n other sends in flight, whose batch grpc takes.  The
\* first batch carries the initial metadata.
SendMsgOk(n, m) ==
  /\ is_sending_' = TRUE
  /\ write_tags' = n + 1
  /\ wire' = Append(wire, m)
  /\ init_mds' = init_mds + IF send_init_md_ THEN 1 ELSE 0
  /\ send_init_md_' = FALSE
  /\ UNCHANGED closed_

\* A mutant: the queue is reset but the writer stays open.
RefusalForgiven(n) ==
  /\ queue_' = <<>> /\ write_tags' = n
  /\ UNCHANGED <<is_sending_, closed_, send_init_md_, wire, init_mds>>

\* SendMsg() whose batch grpc refuses: closed, the queue is reset.
SendMsgFails(n) ==
  /\ is_sending_' = TRUE /\ closed_' = TRUE
  /\ queue_' = <<>>
  /\ write_tags' = n
  /\ UNCHANGED <<send_init_md_, wire, init_mds>>

\* SendStatus(): closed whether or not grpc takes the batch.
SendStatus ==
  /\ closed_' = TRUE
  /\ \/ /\ status_sent' = TRUE
        /\ init_mds' = init_mds + IF send_init_md_ THEN 1 ELSE 0
     \/ UNCHANGED <<status_sent, init_mds>>

\* AsyncWrite(msg[t]) of t, then to label l, or back to the user when it
\* returns false.
AcceptsWrites == ~closed_ /\ close_status = NoStatus

AsyncWrite(t, l) ==
  \/ /\ ~AcceptsWrites
     /\ Goto(t, "idle")
     /\ UNCHANGED <<queue_, is_sending_, closed_, send_init_md_, batches, accepted>>
  \/ /\ AcceptsWrites /\ is_sending_
     /\ queue_' = Append(queue_, msg[t])
     /\ accepted' = Append(accepted, msg[t])
     /\ Goto(t, l)
     /\ UNCHANGED <<is_sending_, closed_, send_init_md_, batches>>
  \/ /\ AcceptsWrites /\ ~is_sending_
     /\ SendMsgOk(write_tags, msg[t])
     /\ accepted' = Append(accepted, msg[t])
     /\ Goto(t, l)
     /\ UNCHANGED queue_
  \/ /\ AcceptsWrites /\ ~is_sending_
     /\ SendMsgFails(write_tags)
     /\ Goto(t, "idle")
     /\ UNCHANGED accepted

-----------------------------------------------------------------------------
\* A mutant: no limit.
NeverHigh == FALSE

\* A user calls Write(): look at the size under the lock, decide, unlock.
IsHigh == QueueSize >= high_queue_size_

CallWrite(t) ==
  pc' = [pc EXCEPT ![t] = IF IsHigh THEN "high" ELSE "low"] /\ UNCHANGED direct

\* SyncWrite() and AsyncWrite() called by the user.
CallSyncWrite(t) == pc' = [pc EXCEPT ![t] = "high"] /\ UNCHANGED direct
CallAsyncWrite(t) == pc' = [pc EXCEPT ![t] = "low"] /\ direct' = direct + 1

Call(t) ==
  /\ handle = "held" /\ pc[t] = "idle" /\ calls < MaxWrites
  /\ calls' = calls + 1
  /\ msg' = [msg EXCEPT ![t] = calls + 1]
  /\ CallWrite(t) \/ CallSyncWrite(t) \/ CallAsyncWrite(t)
  /\ UNCHANGED <<impl, batches, synced, memory, handle, accepted, completed, status_sent>>

\* The writing step of the call.
WriteLow(t) == pc[t] = "low" /\ AsyncWrite(t, "idle")
WriteHigh(t) == pc[t] = "high" /\ AsyncWrite(t, "spin")

DoWrite(t) ==
  /\ WriteLow(t) \/ WriteHigh(t)
  /\ UNCHANGED <<high_queue_size_, close_status, log, memory, handle, completed,
                 status_sent>>

\* A mutant: off by one.
LeavesEarly(t) == pc[t] = "spin" /\ QueueSize < 2 /\ Goto(t, "return") /\ UNCHANGED synced

\* SyncWrite() spins on GetQueueSize(), then reads closed_ under the lock.
LeaveSpin(t) == pc[t] = "spin" /\ QueueSize = 0 /\ Goto(t, "return") /\ UNCHANGED synced

SyncReturn(t) ==
  /\ pc[t] = "return"
  /\ synced' = IF closed_ THEN synced ELSE synced \cup {msg[t]}
  /\ Goto(t, "idle")

\* A mutant: only a sent status counts as a close.
ClosesAgain == ~closed_

\* AsyncClose(st), the first part of SyncClose(st) and of the destructor.
FirstClose == ~closed_ /\ close_status = NoStatus

AsyncClose(st) ==
  IF FirstClose
  THEN /\ close_status' = st
       /\ IF is_sending_ THEN UNCHANGED <<closed_, status_sent, init_mds>> ELSE SendStatus
  ELSE UNCHANGED <<closed_, close_status, status_sent, init_mds>>

Close(t) ==
  /\ handle = "held" /\ pc[t] = "idle"
  /\ \E st \in Statuses : AsyncClose(st)
  /\ \E l \in {"idle", "closing"} : Goto(t, l)
  /\ UNCHANGED <<queue_, is_sending_, send_init_md_, high_queue_size_, wire, write_tags,
                 log, memory, handle, accepted, completed>>

\* SyncClose() spins too.
LeaveClose(t) ==
  pc[t] = "closing" /\ QueueSize = 0 /\ Goto(t, "idle") /\ UNCHANGED synced

Leave(t) ==
  /\ LeaveSpin(t) \/ SyncReturn(t) \/ LeaveClose(t)
  /\ UNCHANGED <<impl, batches, calls, direct, memory, handle, accepted, completed,
                 status_sent>>

SetHighQueueSize(n) ==
  /\ handle = "held"
  /\ high_queue_size_' = n
  /\ UNCHANGED <<queue_, is_sending_, closed_, send_init_md_, close_status, batches,
                 log, threads, memory, handle, accepted, completed, status_sent>>

\* The user lets go of the last copy of the writer.
Drop ==
  /\ handle = "held" /\ \A t \in Callers : pc[t] = "idle"
  /\ handle' = "dropped"
  /\ UNCHANGED <<impl, batches, log, threads, memory, accepted, completed, status_sent>>

\* The destructor is a SyncClose(OK); a write tag keeps the writer alive.
\* It returns once GetQueueSize() is 0, which with sound memory it then is.
Destruct ==
  /\ handle = "dropped" /\ write_tags = 0
  /\ QueueSize = 0
  /\ handle' = "gone"
  /\ AsyncClose(OKStatus)
  /\ UNCHANGED <<queue_, is_sending_, send_init_md_, high_queue_size_, wire, write_tags,
                 log, threads, memory, accepted, completed>>

-----------------------------------------------------------------------------
\* A mutant: the queue waits for the next write.
ForgetsQueue ==
  /\ queue_ # <<>>
  /\ is_sending_' = FALSE /\ write_tags' = write_tags - 1
  /\ UNCHANGED <<queue_, closed_, send_init_md_, wire, init_mds, memory, status_sent>>

\* TryToWriteNext(): the front is sent, then popped.  When grpc refuses it,
\* SendMsg() has emptied the queue and the pop is undefined behaviour.
NextMessage ==
  /\ queue_ # <<>>
  /\ \/ /\ SendMsgOk(write_tags - 1, Head(queue_))
        /\ queue_' = Tail(queue_)
        /\ UNCHANGED memory
     \/ /\ SendMsgFails(write_tags - 1)
        /\ memory' \in {"wrapped", "crashed"}
  /\ UNCHANGED status_sent

\* A mutant: the waiting close is forgotten.
ForgetsStatus ==
  /\ queue_ = <<>> /\ close_status # NoStatus
  /\ is_sending_' = FALSE /\ write_tags' = write_tags - 1
  /\ UNCHANGED <<queue_, closed_, send_init_md_, wire, init_mds, memory, status_sent>>

NextStatus ==
  /\ queue_ = <<>> /\ close_status # NoStatus
  /\ SendStatus
  /\ is_sending_' = FALSE /\ write_tags' = write_tags - 1
  /\ UNCHANGED <<queue_, send_init_md_, wire, memory>>

\* A mutant: the finished send is not noted.
StaysSending ==
  /\ queue_ = <<>> /\ close_status = NoStatus
  /\ write_tags' = write_tags - 1
  /\ UNCHANGED <<is_sending_, queue_, closed_, send_init_md_, wire, init_mds, memory,
                 status_sent>>

NextNothing ==
  /\ queue_ = <<>> /\ close_status = NoStatus
  /\ is_sending_' = FALSE /\ write_tags' = write_tags - 1
  /\ UNCHANGED <<queue_, closed_, send_init_md_, wire, init_mds, memory, status_sent>>

\* A poller completes a ServerWriterWriteCqTag; whether the send succeeded is
\* ignored.  OneSendInFlight shows that the early return is never taken.
TryToWriteNext ==
  /\ write_tags > 0 /\ SomePollerFree
  /\ completed' = completed + 1
  /\ IF closed_
     THEN write_tags' = write_tags - 1
          /\ UNCHANGED <<queue_, is_sending_, closed_, send_init_md_, wire, init_mds,
                         memory, status_sent>>
     ELSE NextMessage \/ NextStatus \/ NextNothing
  /\ UNCHANGED <<high_queue_size_, close_status, log, threads, handle, accepted>>

Alive == memory # "crashed"

Next ==
  /\ Alive
  /\ \/ \E t \in Callers : Call(t) \/ DoWrite(t) \/ Leave(t) \/ Close(t)
     \/ \E n \in HighSizes : SetHighQueueSize(n)
     \/ Drop
     \/ Destruct
     \/ TryToWriteNext

\* Threads inside a call go on, grpc completes what it accepted and a free
\* poller delivers it: a handler makes finitely many calls, so a poller that
\* always gets out of them gets back to the completion queue.
Fairness ==
  /\ \A t \in Callers : WF_vars(Alive /\ DoWrite(t)) /\ WF_vars(Alive /\ Leave(t))
  /\ SF_vars(Alive /\ TryToWriteNext) /\ WF_vars(Alive /\ Destruct)

Spec == Init /\ [][Next]_vars /\ Fairness

-----------------------------------------------------------------------------
\* "grpc must send one by one": exactly the messages being sent are in flight,
\* and messages wait only behind one (the asserts that the queue is empty
\* where the writer is idle, closes or is destructed).
OneSendInFlight ==
  /\ TypeOK
  /\ write_tags = IF is_sending_ /\ ~closed_ THEN 1 ELSE 0
  /\ queue_ # <<>> => is_sending_ /\ ~closed_
  /\ completed + write_tags = Len(wire)

\* Whatever threads race to write, messages leave in the order the writer took
\* them, each once, and until the writer closes none is missing.
SentInOrder ==
  /\ IsPrefix(wire, accepted)
  /\ ~closed_ => accepted = wire \o queue_
  /\ IsInjective(accepted)

\* Initial metadata is sent by the first batch and by no other, even if that
\* is the status; the status is sent after every accepted message completed.
MetadataFirstStatusLast ==
  /\ init_mds = IF wire # <<>> \/ status_sent THEN 1 ELSE 0
  /\ status_sent => closed_ /\ close_status # NoStatus
                    /\ wire = accepted /\ write_tags = 0

\* Both: what the client sees of the stream, from the initial metadata to the
\* status, is what the threads of the server wrote.
StreamInOrder == SentInOrder /\ MetadataFirstStatusLast

\* The first close decides: later ones change nothing, no message is taken
\* after it, and nothing is sent once the writer is closed_.
CloseIsFinal ==
  [][/\ close_status # NoStatus => UNCHANGED <<close_status, accepted>>
     /\ closed_ => closed_' /\ UNCHANGED <<wire, status_sent, accepted>>]_vars

\* The writer implements the contract of a stream of messages: whatever the
\* threads and errors, its client gets what was written, in order, and the
\* status last.
Stream == INSTANCE MessageStream
            WITH Messages <- 1..MaxWrites,
                 status <- IF status_sent THEN close_status ELSE NoStatus

ImplementsStream == Stream!Spec

\* A SyncWrite() that returned true did hand its message to grpc: it was
\* neither dropped by an error nor left in the queue.
SyncedIsSent == synced \subseteq ToSet(wire)

\* The high queue size bounds the queue, though Write() tests it and enqueues
\* under separate locks: each caller can add one message that passed the test
\* too early, and, while it is blocked, the one it is blocked on.  Direct
\* AsyncWrite() calls are not bounded.
Blocked == {t \in Callers : pc[t] = "spin"}
Backpressure ==
  Len(queue_) < InitialHigh + Cardinality(Callers) + Cardinality(Blocked) + direct

\* The threads in Server::Run() wait in the writer for completions that only
\* they could deliver: a handler that blocks blocks its own writer.
RunWaitsForItself == []~SomePollerFree

\* Other threads write again and again.
OthersKeepWriting(t) ==
  []<><<\E u \in Callers \ {t} : DoWrite(u) /\ accepted' # accepted>>_vars

\* A thread inside SyncWrite() or SyncClose() gets out of it, in all but three
\* cases: the memory is corrupt; a handler has stopped Server::Run(); or other
\* threads write for ever, and each time the thread looks at the queue there
\* is one of their messages in it ("will block until all messages sent",
\* doc/README.md).  MaxWrites ends the writing of a run, not what is excused.
BlockedCallReturns ==
  \A t \in Callers :
    \/ OthersKeepWriting(t)
    \/ (pc[t] # "idle") ~> (pc[t] = "idle" \/ memory # "sound" \/ RunWaitsForItself)

\* "Close() is optional. Dtr() will auto SyncClose()": a closed or dropped
\* writer ends up closed_, unless a handler has stopped Server::Run().
ClosesInTheEnd ==
  (close_status # NoStatus \/ handle = "dropped") ~> (closed_ \/ RunWaitsForItself)

-----------------------------------------------------------------------------
\* "reset to break SyncWrite()" (SendMsg): on an error the queue reads as empty.
QueueClearedOnError == closed_ => QueueSize = 0
=============================================================================
