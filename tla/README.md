# grpc_cb_core in TLA+

A verification project for grpc_cb_core, a small C++ wrapper of grpc's C core
in callback style. Its streaming clients and its server keep queues, flags and
a status that user threads, callbacks and completions change in any order. The
modules here state what must stay true of them, TLC checks that on small
instances, and TLAPS proves the safety part of it for all instances.

Contents

1. The system: components, state, interaction, hard behaviours
2. The modules and how they correspond to the code
3. The runs: question, bounds, result
4. Fairness
5. The proofs
6. What is abstracted, and what is not modelled
7. Plan
8. How to run

## 1. The system

Everything turns on the completion queue of grpc. A user call or a handler
makes a *tag* (an object derived from `CompletionQueueTag`), gives it to grpc
with a batch of operations (`Call::StartBatch()`), and returns or blocks. grpc
may refuse the batch; if it takes it, the tag comes out of the completion queue
later, once, and `DoComplete()` of the tag calls back into the object that
started it. Asynchronous clients and the server have their completions
delivered by a thread inside `Run()`; blocking clients wait for their own tag
with `Pluck()`.

| component (under `src/src`, headers under `src/include`) | state it keeps | operations | what makes it correct |
|---|---|---|---|
| ClientAsyncWriter (`client/impl/client_async_writer_impl.cc`) | `msg_queue_`, `status_`, `is_sending_`, `is_closing_`, `close_cb_` | `Write`, `Close`, `OnSent`, `OnClosed` | one send at a time, in the order of `Write()`; half-close last; one callback, told one verdict |
| ClientAsyncReader (`client/impl/client_async_reader_impl.cc`) | `is_started_`, callbacks, `status_` | `Start`, `OnRead`, completion of the status | messages in order; one status callback; the server's status only after every message |
| ClientAsyncReaderWriter (`client/impl/client_async_reader_writer_impl.cc`) | `msg_queue_`, `status_`, `reading_ended_`, `writing_ended_`, `is_sending_`, ... | `Write`, `CloseWriting`, `ReadEach`, `SetErrorStatus`, `OnSent`, `OnRead` | one batch per direction; one status callback, OK only when both directions ended; re-entrant callbacks |
| ClientSyncWriter (`client/client_sync_writer.cc`) | `status`, half-close flag | `Write`, `Close`, `RecvStatus` | `Close()` returns; OK means the server accepted all |
| ClientSyncReader, ClientSyncReaderWriter (`client/client_sync_reader.cc`, `client/impl/client_sync_reader_writer_impl.h`) | `status`, which batches were done | `ReadOne`, `ReadEach`, `RecvStatus`, `Write`, `CloseWriting`, `SetErrorStatus` | OK only after every message; an error stops later calls; blocked calls return |
| ServerWriter (`server/impl/server_writer_impl.cc`) | `queue_`, `high_queue_size_`, `is_sending_`, `closed_`, `close_status_uptr_`, `send_init_md_` | `Write`, `SyncWrite`, `AsyncWrite`, `SyncClose`, `AsyncClose`, `OnCompleted`, destructor | order; metadata first, status last; first close decides; bounded queue; blocked calls return |
| ServerReader and tag (`server/impl/cqtag/server_reader_cqtag.h`) | which tag is outstanding | `OnMsg`, `OnError`, `OnEnd` | `OnEnd` once, last |
| ServerReplier (`server/impl/server_replier_impl.h`) | `replied_` | `ReplyStr`, `ReplyError` | at most one reply decides the call |
| Server (`server/server.cc`, `server/impl/cqtag/server_method_call_cqtag.cc`) | `service_map_`, `started_`, `shutdown_`, one tag per method | `RegisterService`, `AddListeningPort`, `Run`, `Shutdown`, a call of each method, destructor | each served method always has a tag, `Run()` returns after `Shutdown()`, stopping kills nothing |
| Completion queue loop (`common/run.cc`, `common/impl/do_next_completion.cc`, `common/impl/cqueue_for_pluck.cc`) | none of its own | next, pluck | only `CompletionQueueTag`s come out |
| Call, batches (`common/impl/call.h`, `call_operations.h`, `call_op_data.cc`) | the operations of a batch | `StartBatch` | each operation is legal when it is started |
| ServiceStub and its tags (`client/service_stub.cc`, `client/impl/cqtag/client_call_cqtag.h`, `client_async_call_cqtag.h`) | `call_timeout_ms`, the completion queue; the tags of its calls | `SyncRequest`, `AsyncRequest`, `Run`, `Shutdown` | each request is told one verdict, by its deadline; every `Run()` ends after `Shutdown()` |
| Channel, Status, slices, credentials | values, thin wrappers | | see section 6 |

**Interaction.** A client call and a server call meet only through grpc. Inside
one process the parts interact by shared state under a mutex (the asynchronous
clients: a recursive one; ServerWriter: an ordinary one, released between the
steps of a call), by shared state under no mutex (copies of the blocking
clients, `Server::shutdown_`, `ServerReplier::replied_`), and by callbacks that
call back in.

**Hard behaviours.** A completion that races a user call for who does the next
thing (the half-close, the next send, the status); the test of a queue size and
the enqueuing under two locks; refused batches in the middle of a handler;
callbacks that re-enter a half-finished handler; spinning for completions on
the only thread that could deliver them; shutting down while a handler runs; an
error status of one thread overwritten by the result of another. `PROJECT.json`
lists each at its line, with the properties meant to catch it.

## 2. The modules

Names of variables and actions are those of the code where TLA+ allows it.
`PROJECT.json` maps each definition to its lines.

| module | models | abstract counterpart |
|---|---|---|
| `ClientStreamingCall` | contract of an asynchronous client-streaming call | - |
| `ClientAsyncWriter` | ClientAsyncWriter | implements `ClientStreamingCall` (`Implements`) |
| `MessageStream` | contract of a stream of responses | - |
| `ServerWriter` | ServerWriter | implements `MessageStream` (`ImplementsStream`) |
| `ClientAsyncReader` | ClientAsyncReader | composed with `MessageStream` as its peer |
| `ClientAsyncReaderWriter` | ClientAsyncReaderWriter | |
| `ClientStreamingRpc` | ClientSyncWriter + ServerReader + ServerReplier, composed | |
| `ClientSyncReaderWriter` | ClientSyncReader and ClientSyncReaderWriter | |
| `Server` | Server, its method tags, the completion loop | |
| `ServiceStub` | ServiceStub, the tags of unary calls, `Run()` of a client | |
| `MC...` | the instance of each for TLC | |
| `...Proofs` | the theorems about each, of the two writers also their refinement | |

**ClientAsyncWriter.** The mutex is held from the first to the last line of
every handler, so each handler is one action, sends and callback included:
`Write`, `Close`, `OnSent`, `OnClosed`, and `Init` has the constructor with its
batch refused or taken. What grpc holds is counted: `send_tags`, `close_tags`.
The history variables `accepted`, `wire` (messages of the batches grpc took),
`registered`, `calls` and `half_closes` are there for properties; the only guard
that reads one is the bound on the writes. `deadline` says whether the call has
one (the default timeout is `INT64_MAX`): without it nothing obliges a server
to read or to answer. `OnClosedWithoutMsg` is `OnClosed()` of a call that ended
with OK and no response: `GetResultMsg()` finds no buffer (`call_op_data.cc:27`)
and the process dies (`crashed`), as it does in ServiceStub.

`ClientStreamingCall` knows neither queue nor tag: messages are accepted until
`Close()`, leave in order, the call gets one verdict, and the registered
callback hears it when both exist. The mapping takes the verdict to be
`status_` once that is an error, and OK once the half-close has completed with
an OK status; the report is what the callback was called with.

**ServerWriter.** The mutex is released between the steps of a call, so a call
is a program with a `pc` per thread: in `Write()` the size test and the enqueue
are separate steps, the waits of `SyncWrite()` and `SyncClose()` are actions
enabled when their condition holds. A thread in `Pollers` delivers completions
(`OnCompleted`) unless it is inside a call itself: a caller that is also a
poller is a handler called by `Run()`. Messages are numbered so all differ.

**ClientAsyncReaderWriter.** The mutex is recursive and callbacks run under it.
A handler is split exactly where it calls the user; `stack` holds the callbacks
that run, innermost last. Other threads enter only with an empty stack, the
callback on top may call any member. The asserts that do not merely repeat a
test made just before are kept: a failed one is recorded by its line in
`failed_asserts`, and the handler goes on as with `NDEBUG`.

**ClientAsyncReader.** Its peer is not a copy of the writer but its contract,
`MessageStream`, instantiated over the server's side: what holds for the reader
holds against any server that implements the contract, and `ServerWriter` is
checked to. A call may break at any time; the stream then reads as ended.

**ClientStreamingRpc.** One call, both sides. `ClientSyncWriter` starts a batch
and blocks in `Pluck()`: two actions. The reader's tag completes with a
message, an error or the end. Repliers test `replied_` in one step and set it
and start the batch in another (`replied_` is a `std::atomic_bool`, but nothing
makes the test and the assignment one). Watchers stand for user threads, such as
a timer, that may reply with an error.

**ClientSyncReaderWriter.** Threads work on copies of one object, which share
their data without a lock. A thread is at a label of its call, named for what
comes next, and what it reads or writes of the shared data is a step: each test
of the status and the start of the batch it guards are two steps, as are the test
and the set of `writing_closed_` and of `init_md_received_`, and the assignment of
the status after a read (`client_sync_reader_helper.h:49`) and the reading of
it for the result (`:50`). The assert of `RecvInitMdIfNot()` may fail, and then
ends the process (`crashed`), or does not, with `NDEBUG`. Two accesses are one
step only where nobody can tell: a test that the next one repeats, and a write
that only makes others return. A batch is the set of its operations;
`StartBatch` says which grpc refuses: one that has an operation still
outstanding, or once-only operations a second time, or a send after the
half-close.

**Server.** `RegisterService()` and `AddListeningPort()` before `Run()`, `Run()`
up to its exit, the destructor after it or without it, `Shutdown()` as steps (test, set, shut down
the server, shut down the queue), a tag for each method: complete, run the
handler, request the next call with a new tag. A request that grpc refuses,
because the queue is closed and nothing is outstanding on it, fails
`assert(GRPC_CALL_OK == ret)` and ends the process, or, with `NDEBUG`, leaks the
tag (`Request`). `DoNextCompletion()` deletes a
tag after `DoComplete()`. A service registered twice has null handles, for grpc
knows its methods already, and `Run()` skips them.

**ServiceStub.** A thread is in user code, in `Run()`, in a callback, or blocked
in `SyncRequest()`; since callbacks may use the stub, each thread has a stack of
the calls it is inside. `DoComplete()` is split where it calls `response_cb` or
`error_cb`, and what follows (`response_cb` may return an error, which
`error_cb` then hears) is `CallbackReturns`. A request remembers its kind, the
callbacks given, its deadline, where its tag is, how its batch ended and what
the caller was told; for a blocking request, being told is what it returns. The
blocking request has a queue of its own; that of the stub is known by which
asynchronous requests are outstanding (`Closed`) or unhandled (`Drained`).

## 3. The runs

Passing runs. Sizes are distinct states.

| run | asks | bounds, and why they are enough |
|---|---|---|
| `client_async_writer` (2,808) | Order, single send, callback and refinement of the asynchronous writer, and that closing is answered | 2 messages, 2 callbacks, 4 writes: with one in flight, three wait, more than one error or close has to deal with; a second `Close()` brings a different callback; calls with a deadline and without |
| `server_writer` (290,294) | One send in flight, stream order, `SyncWrite()`, backpressure; the refinement of `MessageStream`; a first close decides; blocked calls return, writers close | two callers, one of them a handler on the only thread in `Run()`; high size 1, changed to 0 at any time; two statuses; 4 writes: both callers pass the size test and overshoot it, and the queue would pass the bound if its size did not count. A completion with two callers inside a call needs a third thread, too many for the liveness properties; the safety properties are proved for any callers and pollers |
| `client_async_reader_writer` (13,605) | Callback protocol of the bidirectional client under re-entrance | 3 writes, 2 reads: a send and a read outstanding while one more of each waits; callbacks may call everything, also `SetErrorStatus()` in a `status_cb` that was just told OK |
| `client_async_reader` (14,866) | Delivery, one verdict, and the meaning of a server status | 3 messages of 2 values; the server may close with OK or an error or stop |
| `client_streaming_rpc` (35,364) | `Close()` returns, and OK means accepted | 2 messages, 3 threads that may reply |
| `client_sync_reader_writer` (554,935) | OK only after all messages; errors stop calls; blocked calls return | two threads read, one of them writes too, 1 write, 2 messages: one message is enough to hide an error, two to lose one and go on |
| `server` (10,425) | Tags kept, stopping is safe, calls handled, `Run()` ends | 2 methods of 2 services, 2 threads that shut down, 3 calls: a method is called again while the other is handled, one service is registered and the other not, or twice |
| `service_stub` (244,524) | One verdict per request, in time; nothing left behind by `Run()`; every `Run()` ends | 2 threads, 2 requests: a callback makes the second, or both run at once, while the other thread is in `Run()`, blocks or shuts down. A third request adds only more of the same waiting |

Deadlock is not checked where a behaviour may rightly stop: a call that has
ended, or whose user makes no further call, has nothing left to do.

Some invariants merge named parts, which the proofs can take one by one:
`StreamInOrder` (ServerWriter) is `SentInOrder /\ MetadataFirstStatusLast`;
`BatchesInOrder` (ClientAsyncReaderWriter) is `OneSendOneRead /\
HalfCloseIsLast`; `ToldOnce` (ServiceStub) is `TypeOK /\ VerdictsTold /\
OneThreadEach /\ KnownDeaths`; and one invariant of each module has its `TypeOK`
as the first conjunct. `TypeOK` of ClientAsyncWriter is in no run. All are proved (section 5).

What the checks show that is easy to misread:

- `SyncedIsSent`: `doc/README.md:18` says `SyncWrite()` blocks until all
  messages are sent. "Sent" is *handed to grpc*: it returns when the queue is
  empty, while the last send may still be outstanding. That is what holds.
- `Backpressure`: `Write()` tests the size and enqueues under two locks, so the
  queue may pass the high size. Each caller can add one message that passed the test
  too early, and, while it is blocked, the one it is blocked on; direct
  `AsyncWrite()` calls are unlimited by design. That is the bound the property
  states, and TLC reaches it.
- `BlockedCallReturns` and `ClosesInTheEnd` (ServerWriter) except the case
  `RunWaitsForItself`: if `SyncWrite()` is called on the only thread in `Run()`,
  it waits for completions that only this thread could deliver, and never
  returns. The library documents no restriction; the property states it.
- `BlockedCallReturns` (ServerWriter) has two more exceptions: memory that the
  `pop()` below has corrupted, and `OthersKeepWriting`. `SyncWrite()` spins on
  the whole queue, not on its own message, so threads that write again and again
  can keep it there for ever. The run bounds the writes, so it shows the
  property for threads that stop writing in the end, and says nothing of the
  others.
- `CloseIsAnswered` and `AcceptedIsSent` (ClientAsyncWriter) are about calls with
  a deadline. A call without one may wait for its server for ever
  (`WaitsForServer`). A server that says OK and sends no response kills the
  process instead of having the callback called.
- `OkMeansAllHandled`: `SyncWrite()` of the client ignores the result of its
  batch, so a lost message is noticed only in the status; it is: after `Close()`, OK implies that
  `OnMsgStr()` accepted every message for which `Write()` had returned true.
- `AssertsHold`: no assert of ClientAsyncReaderWriter fails but four, and those
  in no case but one each: the call was never read (line 30), the `status_cb`
  that hears an error calls `Write()` (38), `msg_cb` has set an error before it
  returns (194, 232). That the four do fail is the violation below.
- `StatusCbOnce` (ClientAsyncReaderWriter): `status_cb_` can be called twice in
  one way only, when it was told OK and calls `SetErrorStatus()` before it
  returns. The inner call then resets the `std::function` that still runs.
- `TagsAreKept` (Server) says which methods are served: those of a service that
  was registered once. Registering it again, "maybe null" in `server.cc:51`,
  ends its service silently.
- `StopIsSafe`: stopping can kill the process in four ways, all listed there. Two
  need only one thread that calls `Shutdown()` while `Run()` goes on: the popped
  notice below, and a request for the next call that is refused. `Run()` may
  still have failed tags to pop when the notice is out and the queue is closed,
  and each of them asks for a next call: a build with asserts aborts.
- `ErrorBreaksCalls` (blocking readers): an error stops a call that tests the
  status later, not one that has passed its test. Each thread may start one
  batch after the error, and no more; and a read under way replaces the error by
  the status of its message, so that `SetErrorStatus()` does not always "break
  reading" (`client_sync_reader_writer_impl.h:45`).
- `OkMeansAllRead` is about an object that one thread at a time reads, whatever
  others write, close or set: with two readers an OK may hide a message that one
  of them could not read (the second passes the test of the status, the message
  of the first is unreadable, that of the second makes the status OK again).
- `BlockedCallReturns` (blocking readers) excepts two things. `Unclosed`: an error
  has kept the half-close from being sent, and the server may wait for it. The
  error may come from `CloseWriting()` itself: two threads that call it at once may
  both find `writing_closed_` unset, and the second batch is refused, although
  "Redundant calls are ignored." (`client_sync_reader_writer.cc:22`). And
  `crashed`: the assert at `client_sync_reader_writer_impl.h:125` repeats a test
  that another thread may have made untrue since.
- `ToldOnce`, `KnownDeaths`: two ways to die of a unary call. An
  `AsyncRequest()` when the queue was shut down and nothing is outstanding: grpc
  asserts and does not refuse, so `error_cb` never hears of it. And a server that
  ends the call OK without a message (`ServerReplier::ReplyError(Status::OK)`):
  `GetResultMsg()` follows a null pointer.
- `AsyncIsAnswered` and `ShutdownEndsRuns` are about requests with a deadline.
  The default timeout is `INT64_MAX`: then nothing ends a call whose server is
  silent, and `Run()` waits for it also after `Shutdown()`.

Violations: four places where the code does not do what it says. Each run
checks one property.

| run | what TLC finds |
|---|---|
| `server_writer_pops_empty_queue` | `TryToWriteNext()` sends the front message and pops it. If the batch is refused, `SendMsg()` has already cleared the queue, so `pop()` works on an empty `std::queue` (`server_writer_impl.cc:100`) |
| `client_async_reader_writer_late_close` | the server ends its stream, then the user calls `CloseWriting()` with nothing queued: both directions have ended and `status_cb_` is never called (`client_async_reader_writer_impl.cc:60`) |
| `client_async_reader_writer_asserts` | `assert(reading_ended_ && writing_ended_)` of `Write()` fails inside the `status_cb` that hears an error, for the flags are set after it (`client_async_reader_writer_impl.cc:38`); as short is the trace of a call dropped without `ReadEach()`, which fails `assert(reading_ended_)` of the destructor (30). Longer ones fail `assert(status_.ok())` of `ReadNext()` (194) and of `EndOnErrorStatus()` (232), when `msg_cb` calls `SetErrorStatus()`, meant "to break reading", and returns |
| `server_foreign_tag` | `Shutdown()` passes the `Server` itself as the tag of the shutdown notice on the queue `Run()` serves; `DoNextCompletion()` treats it as a `CompletionQueueTag` and deletes it (`server.cc:85`) |

## 4. Fairness

Fairness is stated only for what the code or grpc drives, never for what a
user may choose to do.

- *grpc completes what it took.* Weak fairness on every completion action
  (`OnSent`, `OnRead`, ...): a batch that was accepted comes out of the queue,
  successful or not, as long as some thread is in `Run()` or in `Pluck()`. In
  ClientAsyncWriter, where a send and the status wait for the server, only for a
  call with a deadline.
- *A thread inside a call goes on.* Weak fairness on the steps of a call that
  has started. In ServerWriter the completion of a send has strong fairness,
  because it is disabled while every poller is inside a call of a handler: a
  handler makes finitely many calls, so a poller that gets out of them again and
  again is back at the completion queue in the end.
- *Callbacks return.* Weak fairness on the return of a user's callback.
- *The other side.* For `EndIsTold`: the server ends its stream. In
  `ClientSyncReaderWriter` the server ends once it has the half-close. In
  `ClientStreamingRpc` it takes the call, and a call whose last reference is
  gone is cancelled (`ServerLetsGo`); both are what grpc does with them.
- *Server.* Threads inside `Run()` and `Shutdown()` go on, handlers return, calls
  that were handled finish, and the queue hands out what it holds, each as long
  as the process lives (`crashed`).
- *ServiceStub.* Deadlines pass; threads in `Run()` and in `Pluck()` take what
  there is; callbacks return unless they block in a `SyncRequest()` of their own.
  No server need answer.

No fairness is put on `Write`, `Close`, `Shutdown`, on errors or on breaking a
call: liveness properties are conditional on the user having closed or shut
down.

## 5. The proofs

Each component's module has a `...Proofs` module beside it. Every safety
invariant and every action property that a passing run checks, and both
refinements, is there a theorem about `Spec` for all values of the constants;
the runs check the same definitions on one instance. All proofs have the same
shape: an inductive invariant `IInv`, checked by TLC before it was proved; a
lemma `Init => IInv`; a lemma `IInv /\ [Next]_vars => IInv'` with one step or
lemma per action and, below it, one per conjunct the action can disturb; and a
`THEOREM` for each property, from `Invariance` (`Spec => []IInv`) or, for an
action property, from `Invariance` and a step lemma.

The assumptions on constants are those named in the components' modules, no
more: sets of callers, watchers, stoppers or methods are finite where the proof
counts them (there is at least one caller), bounds are natural numbers, values that mark "none" are
not members of the sets they stand beside.

| module | theorems (property proved) |
|---|---|
| `ClientAsyncWriterProofs` | `TypeCorrect` (TypeOK), `OneSend` (OneSendInFlight), `InOrder` (SentInOrder), `HalfCloseLast` (HalfCloseIsLast, in no run), `CallbackOnce` (CallbackTellsVerdict), `EndIsFinal` (NothingAfterEnd), `Refinement` (Implements) |
| `ServerWriterProofs` | `OneSend` (OneSendInFlight), `InOrder` (StreamInOrder), `SyncWriteTrue` (SyncedIsSent), `BoundedQueue` (Backpressure), `FirstCloseDecides` (CloseIsFinal), `Refinement` (ImplementsStream) |
| `ClientAsyncReaderProofs` | `InOrder` (DeliveredInOrder), `VerdictOnce` (OneVerdict), `StatusMeansAll` (ServerStatusMeansAll) |
| `ClientAsyncReaderWriterProofs` | `StatusTold` (StatusCbOnce), `BatchOrder` (BatchesInOrder), `OkAtTheEnd` (OkMeansBothEnded), `Asserts` (AssertsHold), `ErrorStopsSending` (NothingSentAfterError) |
| `ClientStreamingRpcProofs` | `ReaderEnds` (ReaderEndsOnce), `OkIsEarned` (OkMeansAllHandled) |
| `ClientSyncReaderWriterProofs` | `OkIsEarned` (OkMeansAllRead), `ErrorsBreak` (ErrorBreaksCalls) |
| `ServerProofs` | `OneTag` (TagsAreKept), `SafeStop` (StopIsSafe) |
| `ServiceStubProofs` | `VerdictOnce` (ToldOnce), `NoneLeft` (NothingLeftBehind) |

What each `IInv` adds to the checked invariants, and why it is needed:

**ClientAsyncWriter.** `OnClosed` calls `close_cb_` and needs to know that this
is the callback of the first `Close()` and that it was not called before;
nothing in `CallbackTellsVerdict` links the stored callback, the outstanding
close tag and the list of calls made. `CallbackBooks` does: before `Close()` no
callback is stored or called; a stored one is the registered one; a callback
told OK means the half-close went out and its tag is back; a callback stored
after the half-close means its tag is still out. The order of messages rests on
one equation: while the call is good, `accepted` is `wire` followed by what the
queue holds behind the message in flight (`Unsent`); the lemmas `UnsentAppend`
and `UnsentSent` say that queueing and sending keep it.

**ServerWriter.** `SyncedIsSent` is about a thread that has looked at the queue
and not yet at `closed_`. `MessageBooks` says where the message of each thread
is at each place of its call: a message not taken yet is nobody else's and in no
sequence, that of a waiting `SyncWrite()` was taken, and when it stops waiting
on an open writer it has left. `Backpressure` is not inductive because of the
gap between the size test and the enqueuing; `QueueBound` counts a thread inside
that gap as if its message were queued already, and so survives it. The bound is
stated with cardinalities of sets of threads, hence the finite set of callers.

**ClientAsyncReader.** The proof uses of the server only what `MessageStream`
promises (`StreamBooks`: what left is a prefix of what was written, all of it
once there is a status). `ReadBooks` ties the reads to the messages delivered:
while a read or the status is outstanding nothing read is undelivered, which is
why the server's status means that all came. `Unstarted` is about callbacks set
before `Start()`. With `ServerWriterProofs!Refinement` the reader's theorems
hold against every stream that the writer can produce.

**ClientAsyncReaderWriter.** Under re-entrance most facts hold only in some of
the stacks of running callbacks. `CallbackBooks` lists the six stacks there are
and, by what `status_cb_` has heard, which of them are possible and whether
`status_cb_` is still to be reset; `ErrorEnds` says that both halves have ended
once no error callback runs (the code sets the flags after the callback);
`OkBooks` that the state in which OK is told is never left; `WriteBooks` and
`ReadBooks` are the accounts of the two halves, each about its own batch;
`DropBooks` is about the last reference. The two halves meet in `status_` alone.

**ClientStreamingRpc.** `OkMeansAllHandled` relates a value of the client
(`promised`, messages for which `Write()` returned true) with one of the server
(`handled`). `WireBooks` carries it across: until the call is lost, what reaches
the server is what was promised, and the one message `Write()` is about to return
for. `AnswerBooks` carries it back: only an `OnEnd()` after the whole stream
answers OK, because an `OnEnd()` that follows an error finds `replied_` set.
`ReplierBooks` counts the threads that are between the test and the setting of
`replied_`, so there are never more replies than threads.

**ClientSyncReaderWriter.** `LateBooks` is the reason for `ErrorBreaksCalls`: a
thread that started a batch with an error in the status is not at a label from
which it starts another, and a status that is OK forgives all. For an object that
one thread at a time reads (`OneInside`), `Returned` says that a message read
and not returned has left an error behind *and* no read under way that would
hide it, which is what makes it inductive; while a message is between
`Pluck()` and the result it is the one not yet returned. `CopiesError` says that
nobody makes the error OK that `RecvStatus()` is about to return, and
`VerdictBooks` that after an OK there is nothing left to send or read. Other
threads may set the status to an error at any label.

**Server.** `RunBooks` says what has been set up at each place of `Run()`;
`StopBooks` counts the threads inside `Shutdown()`: each was counted when it
passed the tests, and a closed queue has seen one leave, so a notice started on
a closed queue needs a second (`ClosedHasTwo`). `CallBooks` bounds the calls.
`StopIsSafe` is an action property: `DeathsAreKnown` goes through the steps that
can set `crashed` and shows each to be one of the four ways, with `RequestDies`
for the three places that request a call.

**ServiceStub.** `FrameBooks` says of each call a thread is inside that its
request is still where the call found it (a `response_cb` runs only for a
message that was read and told, a blocked `SyncRequest()` only for its own
pending or completed request); with `OneThreadEach` a request that is told a
second time would need a second thread inside it. `RequestBooks` relates the
place of a request and its result. `RunBooks` is the reason for
`NothingLeftBehind`: a queue that is drained stays drained, as a request that
could be added to it aborts. Every action edits one request and the calls of
one thread; `StepFacts` proves once what that preserves, and each action is
shown to fit it. `VerdictsTold` is read result by result through `ToldRight`
(`ToldFacts` proves the two equivalent).

**The refinements.** Every action is one of the contract or a stutter. Of
ClientAsyncWriter: `Write` is `Accept` (with the send, if the message leaves at
once), `OnSent` is the departure of the next message or the verdict, `OnClosed`
is the verdict, `Close` registers and, after an error, reports. Of ServerWriter:
the enqueuing step of a write is `Accept` (with the departure, if the message
leaves at once), a completion is `Send`, or `End` if a close waited for it, a
close with nothing to wait for is `End`, and a refused batch is a stutter: the
stream stays short. Both need the invariant: that what is taken is what left
followed by what is queued makes a completion the departure of the *next*
message.

**Only model-checked.** Every liveness property: they need `ENABLED`, and the
fairness of many actions at once. That the contract `MessageStream` composed with
ClientAsyncReader is what a ServerWriter and a ClientAsyncReader do together is
proved as a refinement on one side and an assumption on the other, not as one
specification. No module with a theorem declares or reaches a recursive operator.

## 6. Abstractions and what is not modelled

- **grpc** is external, version 1.44 as `conanfile.py` pins it. A batch may be
  refused at any time (`StartBatch` returning an error is a choice); an
  accepted one completes once. Messages of one direction stay in order.
- **Messages** are model values; a message that cannot be parsed is a choice
  where it is read. **Statuses** are codes.
- **Success of a completion** is ignored where the code ignores it (ServerWriter,
  `SyncWrite` of the client) and used where it is used.
- **Spin loops** (`SyncWrite`, `SyncClose`, `Write` over the high size) are
  waits for their condition.
- **Data races.** A status in the blocking readers is read and written by
  several threads at once. The model interleaves the accesses, one by one where
  it matters, and keeps the code of a status whole. What the race does to
  the `std::string` in it is not modelled.
- **User handlers** of a client-streaming method reply with an error in
  `OnError()` and with a response in `OnEnd()`, and rely on `OnError()` coming
  first ("OnError() is already called before OnEnd()", `server_reader.h:26`) and
  on the first reply being the one that counts.
- **SetErrorStatus() inside the final status_cb_** re-enters and destroys a
  `std::function` that runs: the model lets the outer callback go on, or the
  process crash.
- **The assert at `server_method_call_cqtag.cc:35`** fails wherever a request is
  made of a closed queue: in `RequestMethodsCalls()`, after a handler, and for
  a failed tag that is popped when the notice is out. The model has both builds:
  the process dies, or the tag is leaked and `Run()` returns.
- **Shutdown() before Run()** has no effect in the code, and none in the model;
  `ShutdownEndsRun` starts where `Shutdown()` has passed its tests. The deadline
  of `Shutdown(deadline)` is ignored by the code, and by the model.
- **The shutdown notice** is undefined behaviour when it is popped: the model
  lets the process crash or go on, and properties of the server that follow it
  excuse a crash.
- **Services** are registered before `Run()` (bound): a later registration gets
  no tags, or races with `Run()` visiting `service_map_`.
- **A stub and its threads.** `Run()` is not called inside a callback (bound).
  `SetCompletionQueue()`, `SetErrorCb()` and `SetDefaultErrorCb()`, documented as
  not thread-safe, come before the first request. A stub destroyed with requests
  outstanding behaves like one on which nobody calls `Run()` again; its queue is
  then destroyed without having been drained (`completion_queue.h:67` asks for
  that), and the callbacks are never called. A success of `DoComplete()` that is
  false does not occur: a batch with the status always completes with success.
- **Streams on a stub's queue** assume that the queue is not shut down while
  they are in progress.
- **Object lifetimes** (shared pointers kept by tags) are modelled only where a
  destructor acts (ServerWriter, the server letting go of a call).

Not modelled: `Status`, slices, byte buffers (values and copies; the one control
decision in them, a message that cannot be read, is a choice where it is read);
`string_ref` (used by one conversion that nothing calls); deadlines of `Next()`
and `Pluck()` and `time.h` (nothing passes one); credentials, library
initialisation and configuration (wrappers of grpc functions); build files and
`test_package`.

## 7. Plan

In the order in which they were or will be written:

1. ClientAsyncWriter with its contract and proofs (done).
2. ServerWriter with its contract (done); ClientAsyncReader against that
   contract (done); ClientAsyncReaderWriter (done).
3. Server and completion loop, the client-streaming call end to end, the
   blocking readers (done).
4. `ServiceStub`; services, ports and destructor of the server; re-entrant final
   callbacks of ClientAsyncReaderWriter (done).
5. Proofs of every safety invariant, every action property and both refinements
   that the runs check, for all values of the constants (done).
6. ServerWriter composed with ClientAsyncReader directly, as a check that the
   contract between them is the right one; theorems about the operators that the
   liveness arguments use (what each step of a fair action achieves), short of
   `ENABLED`.

## 8. How to run

    tlc -workers 2 -config ServerWriter.cfg MCServerWriter
    tlapm ServerWriterProofs.tla
