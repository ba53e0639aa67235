------------------------- MODULE ClientStreamingRpc -------------------------
(***************************************************************************)
(* A client-streaming call from end to end: ClientSyncWriter on one thread *)
(* of the client (src/src/client/client_sync_writer.cc), ServerReader and  *)
(* its tag in the server's completion queue (server_reader_cqtag.h), and   *)
(* the ServerReplier that answers (server_replier_impl.h).                 *)
(*                                                                         *)
(* A blocking call of the client is two actions: it starts a batch, and    *)
(* Pluck() returns when that is complete.  ReplyStr() and ReplyError() are *)
(* two: the test of replied_, and the rest; other threads do not see what  *)
(* is between setting replied_ and the batch.                              *)
(*                                                                         *)
(* External: the user's handler replies with an error in OnError() and     *)
(* with a response in OnEnd(), and relies on "Only accept the 1st reply";  *)
(* watchers (a timer, say) may reply with an error at any time.  grpc may  *)
(* refuse a batch; a call may break (a deadline, a lost connection, either *)
(* side letting go of it), which loses all that is still under way.        *)
(***************************************************************************)
EXTENDS Naturals, FiniteSets

CONSTANTS
  Watchers,     \* threads that may reply while the reader reads
  Reader,       \* the thread that completes the reader's tags
  NoStatus,
  MaxWrites     \* bound on the messages of the client

ASSUME RpcAssumption ==
  /\ IsFiniteSet(Watchers) /\ Reader \notin Watchers
  /\ NoStatus \notin {"OK", "InternalError", "ReplyError", "Broken"}
  /\ MaxWrites \in Nat

OK == "OK"
InternalError == "InternalError"  \* made up by the client
ReplyError == "ReplyError"        \* an error the server replied
Broken == "Broken"                \* made up by grpc
Statuses == {OK, InternalError, ReplyError, Broken}
Repliers == Watchers \cup {Reader}

VARIABLES
  \* ClientSyncWriter
  status,       \* data_sptr_->status
  client,       \* "idle", or the batch Pluck() waits for: "write", "close"
  \* the call, in grpc
  unsent,       \* the message being written is not on its way yet
  wire,         \* number of messages that will reach the server
  half_closed, broken,
  answer,       \* status on its way to the client
  \* the server
  started, read_tags, reply_tags,   \* tags of the reader and of the replier
  replied_,
  at,           \* what each replying thread is in: OnError(), OnEnd()
  passed,       \* it has found replied_ unset
  \* history
  writes,       \* messages for which Write() was called
  promised,     \* those for which it returned true, before Close()
  reads,        \* messages the server read
  handled,      \* messages for which OnMsgStr() returned OK
  errors, ends  \* calls of OnError() and OnEnd()

clients == <<status, client, unsent, writes, promised>>
stream == <<unsent, wire, half_closed, writes, promised>>
replier == <<replied_, passed, answer, reply_tags>>
reader == <<started, read_tags, reads, handled, errors, ends>>
vars == <<clients, wire, half_closed, broken, replier, at, reader>>

TypeOK ==
  /\ status \in Statuses /\ client \in {"idle", "write", "close"}
  /\ unsent \in BOOLEAN /\ half_closed \in BOOLEAN /\ broken \in BOOLEAN
  /\ started \in BOOLEAN /\ replied_ \in BOOLEAN
  /\ answer \in Statuses \cup {NoStatus}
  /\ at \in [Repliers -> {"idle", "error", "end", "done"}]
  /\ passed \in [Repliers -> BOOLEAN]
  /\ read_tags \in 0..1 /\ reply_tags \in 0..Cardinality(Repliers)
  /\ wire \in 0..MaxWrites /\ writes \in 0..MaxWrites /\ promised \in 0..MaxWrites
  /\ reads \in 0..MaxWrites /\ handled \in 0..MaxWrites
  /\ errors \in 0..1 /\ ends \in 0..1

\* The constructor: its batch is complete or was refused.
Init ==
  /\ status \in {OK, InternalError} /\ client = "idle"
  /\ unsent = FALSE /\ wire = 0 /\ half_closed = FALSE /\ broken = FALSE
  /\ answer = NoStatus
  /\ started = FALSE /\ read_tags = 0 /\ reply_tags = 0 /\ replied_ = FALSE
  /\ at = [t \in Repliers |-> "idle"] /\ passed = [t \in Repliers |-> FALSE]
  /\ writes = 0 /\ promised = 0 /\ reads = 0 /\ handled = 0
  /\ errors = 0 /\ ends = 0

-----------------------------------------------------------------------------
\* SyncWrite() and Close() with a batch that grpc refuses; it refuses a second
\* half-close.
Refused == status' = InternalError /\ UNCHANGED <<client, unsent, half_closed>>

\* Nothing keeps the user from writing after Close().
Write ==
  /\ client = "idle" /\ status = OK /\ writes < MaxWrites
  /\ writes' = writes + 1
  /\ \/ client' = "write" /\ unsent' = TRUE /\ UNCHANGED <<status, half_closed>>
     \/ Refused
  /\ UNCHANGED promised

Close ==
  /\ client = "idle" /\ status = OK
  /\ \/ /\ ~half_closed
        /\ client' = "close" /\ half_closed' = TRUE /\ UNCHANGED <<status, unsent>>
     \/ Refused
  /\ UNCHANGED <<writes, promised>>

\* Pluck() returns in SyncWrite(), which is true whether the message was sent
\* or lost.
WriteReturns ==
  /\ client = "write"
  /\ unsent => broken \/ half_closed \/ answer # NoStatus
  /\ client' = "idle" /\ unsent' = FALSE
  /\ promised' = IF half_closed THEN promised ELSE promised + 1
  /\ UNCHANGED <<status, half_closed, writes>>

\* Pluck() returns in Close(), with the server's status and a response that
\* may be unreadable, or with grpc's.
CloseReturnsStatus ==
  /\ client = "close" /\ client' = "idle"
  /\ \/ answer # NoStatus /\ status' \in {answer} \cup
          IF answer = OK THEN {InternalError} ELSE {}
     \/ broken /\ status' = Broken
  /\ UNCHANGED <<unsent, half_closed, writes, promised>>

Client ==
  /\ Write \/ Close \/ WriteReturns \/ CloseReturnsStatus
  /\ UNCHANGED <<wire, broken, replier, at, reader>>

-----------------------------------------------------------------------------
Goto(t, l) == at' = [at EXCEPT ![t] = l]

\* A mutant: the reader goes on after an error.
ReadsOnError ==
  Goto(Reader, "error") /\ errors' = errors + 1 /\ read_tags' = 1 /\ UNCHANGED ends

\* EndOnError() up to OnError(); FinishReply is its call of OnEnd().
EndOnError ==
  Goto(Reader, "error") /\ errors' = errors + 1 /\ read_tags' = 0 /\ UNCHANGED ends

ReadNext == read_tags' = 1 /\ UNCHANGED <<at, errors, ends>>

\* Start() of the reader, in the handler of a call that reached the server.
Start ==
  /\ ~started /\ started' = TRUE
  /\ ReadNext \/ EndOnError
  /\ UNCHANGED <<reads, handled>>

\* DoComplete() of ServerReaderCqTag: a message that cannot be read, one that
\* OnMsgStr() rejects, or one after which the next read starts or is refused.
ReadMsg ==
  /\ reads < wire /\ reads' = reads + 1
  /\ \/ EndOnError /\ UNCHANGED handled
     \/ (ReadNext \/ EndOnError) /\ handled' = handled + 1

\* No message: OnEnd().  A broken or answered call reads like an ended one.
ReadEnd ==
  /\ broken \/ answer # NoStatus \/ (half_closed /\ reads = wire)
  /\ Goto(Reader, "end") /\ ends' = ends + 1
  /\ read_tags' = 0 /\ UNCHANGED <<errors, reads, handled>>

ReadFails == EndOnError /\ UNCHANGED <<reads, handled>>

OnRead ==
  /\ read_tags > 0
  /\ ReadMsg \/ ReadEnd \/ ReadFails
  /\ UNCHANGED started

ServerReader ==
  /\ Start \/ OnRead
  /\ UNCHANGED <<clients, wire, half_closed, broken, replier>>

-----------------------------------------------------------------------------
\* The last part of a reply: after OnError() the reader's tag calls OnEnd().
FinishReply(t) ==
  /\ Goto(t, IF t # Reader THEN "idle" ELSE IF at[t] = "error" THEN "end" ELSE "done")
  /\ ends' = ends + IF t = Reader /\ at[t] = "error" THEN 1 ELSE 0

\* A watcher calls ReplyError(), with its copy of the ServerReplier.
WatcherReplies(t) ==
  /\ started /\ at[t] = "idle" /\ at[Reader] # "done"
  /\ Goto(t, "error") /\ UNCHANGED <<replier, ends>>

CheckReplied(t) ==
  /\ at[t] \in {"error", "end"} /\ ~passed[t]
  /\ IF replied_ THEN FinishReply(t) /\ UNCHANGED passed
     ELSE passed' = [passed EXCEPT ![t] = TRUE] /\ UNCHANGED <<at, ends>>
  /\ UNCHANGED <<replied_, answer, reply_tags>>

\* Mutants: an error is not noted as a reply; a refused tag is not deleted.
NotesResponseOnly(t) == replied_' = (replied_ \/ at[t] = "end")
SetReplied(t) == replied_' = TRUE

ForgetsTag == reply_tags' = reply_tags + 1 /\ UNCHANGED answer
ReplyRefused == UNCHANGED <<answer, reply_tags>>

\* The batch of a reply: grpc takes one status per call.
ReplyTaken(t) ==
  /\ answer = NoStatus
  /\ answer' = IF broken THEN NoStatus ELSE IF at[t] = "error" THEN ReplyError ELSE OK
  /\ reply_tags' = reply_tags + 1

Reply(t) ==
  /\ passed[t]
  /\ passed' = [passed EXCEPT ![t] = FALSE]
  /\ SetReplied(t)
  /\ ReplyTaken(t) \/ ReplyRefused
  /\ FinishReply(t)

Replier(t) ==
  /\ CheckReplied(t) \/ Reply(t)
  /\ UNCHANGED <<clients, wire, half_closed, broken, started, read_tags, reads, handled,
                 errors>>

Watch(t) ==
  /\ WatcherReplies(t)
  /\ UNCHANGED <<clients, wire, half_closed, broken, started, read_tags, reads, handled,
                 errors>>

-----------------------------------------------------------------------------
\* External: the message is on its way; the reply's tag completes; the call
\* breaks; the server lets go of the call with the last tag and replier.
Transmit ==
  /\ unsent /\ ~broken /\ ~half_closed /\ answer = NoStatus
  /\ unsent' = FALSE /\ wire' = wire + 1
  /\ UNCHANGED <<status, client, half_closed, writes, promised, broken, replier>>

ReplyCompletes ==
  /\ reply_tags > 0 /\ (broken \/ answer # NoStatus)
  /\ reply_tags' = reply_tags - 1
  /\ UNCHANGED <<status, client, stream, broken, replied_, passed, answer>>

CallBreaks ==
  /\ ~broken /\ broken' = TRUE
  /\ UNCHANGED <<status, client, stream, replier>>

ServerLetsGo ==
  /\ at[Reader] = "done" /\ \A t \in Watchers : at[t] = "idle"
  /\ reply_tags = 0 /\ answer = NoStatus
  /\ CallBreaks

Grpc ==
  /\ Transmit \/ ReplyCompletes \/ CallBreaks
  /\ UNCHANGED <<at, reader>>

Next ==
  \/ Client \/ ServerReader \/ Grpc
  \/ \E t \in Repliers : Replier(t)
  \/ \E t \in Watchers : Watch(t)

\* grpc completes the batches it took, the server takes the call and runs its
\* completion queue, the threads of a reply go on, and a call that nobody on
\* the server holds is cancelled.
Fairness ==
  /\ WF_vars((WriteReturns \/ CloseReturnsStatus) /\ Client)
  /\ WF_vars(ServerReader) /\ \A t \in Repliers : WF_vars(Replier(t))
  /\ WF_vars((Transmit \/ ReplyCompletes \/ ServerLetsGo) /\ Grpc)

Spec == Init /\ [][Next]_vars /\ Fairness

-----------------------------------------------------------------------------
\* The reader's tags are one chain: one read, or OnError() running, or OnEnd()
\* called, which is once; and OnError() is called before OnEnd(), not after it
\* ("OnError() is already called before OnEnd()").
ReaderEndsOnce ==
  /\ TypeOK
  /\ started => read_tags + ends + (IF at[Reader] = "error" THEN 1 ELSE 0) = 1
  /\ errors > 0 => at[Reader] # "idle" /\ read_tags = 0
  /\ handled = reads \/ errors > 0

\* Close() returns OK only if the server's OnMsgStr() has accepted every message
\* for which Write() had returned true: though SyncWrite() does not look at
\* whether its message was sent, ReplyStr() and ReplyError() race, and OnEnd()
\* is called after an error too.
OkMeansAllHandled ==
  half_closed /\ client = "idle" /\ status = OK => handled = promised

\* Close() returns: every way a call can end on the server, by a reply, by one
\* that is refused, or by an error of the reader, reaches the client.
CloseReturns == (client = "close") ~> (client # "close")
=============================================================================
