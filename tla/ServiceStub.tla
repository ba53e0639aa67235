----------------------------- MODULE ServiceStub -----------------------------
(***************************************************************************)
(* Unary calls: ServiceStub (src/src/client/service_stub.cc), the tags of  *)
(* its calls (src/src/client/impl/cqtag/client_call_cqtag.h,               *)
(* client_async_call_cqtag.h) and Run() on its completion queue            *)
(* (src/src/common/run.cc).                                                *)
(*                                                                         *)
(* A thread is in user code, in Run(), or blocked in SyncRequest().  Run() *)
(* calls the user back, and so does a refused AsyncRequest(); the user may *)
(* then call the stub again, on that thread: hence a stack per thread.     *)
(* SyncRequest() waits on a completion queue of its own, AsyncRequest()    *)
(* uses that of the stub.                                                  *)
(*                                                                         *)
(* grpc is external (1.44, conanfile.py).  It may refuse a batch.  A batch *)
(* that receives a status always completes with success, and does so when  *)
(* the deadline passes.  A batch for a queue that was shut down and has no *)
(* other outstanding aborts the process.                                   *)
(***************************************************************************)
EXTENDS Naturals, SequencesExt

CONSTANTS
  Threads,      \* threads of the user
  MaxRequests   \* bound on the requests made

ASSUME StubAssumption == MaxRequests \in Nat

VARIABLES
  call_timeout_ms,  \* "finite", or "infinite" (INT64_MAX, the channel's default)
  requests,         \* what became of each SyncRequest() and AsyncRequest()
  stack,            \* calls each thread is inside, innermost last
  cq_shutdown,      \* Shutdown() was called
  crashed,          \* the process is gone
  run_ended         \* history: some Run() has returned

vars == <<call_timeout_ms, requests, stack, cq_shutdown, crashed, run_ended>>

Callbacks == {"response", "error"}
Results == {"message", "unreadable", "no message", "error status"}

\* A request: is it asynchronous, with which callbacks; the deadline of its
\* call; where its tag is; how the batch ended; what the caller was told.
Request ==
  [async : BOOLEAN, callbacks : SUBSET Callbacks, deadline : {"finite", "infinite"},
   at : {"refused", "pending", "completed", "over"},
   result : Results \cup {"none", "rejected"},
   told : {<<>>, <<"response">>, <<"error">>, <<"response", "error">>}]

Frame ==
  {<<"Run", 0>>} \cup
  ({"response", "error", "SyncRequest"} \X (1..MaxRequests))

TypeOK ==
  /\ call_timeout_ms \in {"finite", "infinite"}
  /\ requests \in Seq(Request) /\ Len(requests) <= MaxRequests
  /\ stack \in [Threads -> Seq(Frame)]
  /\ cq_shutdown \in BOOLEAN /\ crashed \in BOOLEAN /\ run_ended \in BOOLEAN

\* A stub of a channel with any timeout.
Init ==
  /\ call_timeout_ms \in {"finite", "infinite"}
  /\ requests = <<>>
  /\ stack = [t \in Threads |-> <<>>]
  /\ cq_shutdown = FALSE /\ crashed = FALSE /\ run_ended = FALSE

-----------------------------------------------------------------------------
In(t, call) == stack[t] # <<>> /\ Last(stack[t])[1] = call
Top(t) == Last(stack[t])[2]
Enter(t, call, r) == stack' = [stack EXCEPT ![t] = Append(@, <<call, r>>)]
Leave(t) == stack' = [stack EXCEPT ![t] = Front(@)]

\* The user's own code runs on t.
InUserCode(t) == stack[t] = <<>> \/ In(t, "response") \/ In(t, "error")

\* Some asynchronous request is in one of these places.
AsyncIn(places) ==
  \E r \in DOMAIN requests : requests[r].async /\ requests[r].at \in places

\* The stub's queue takes no operation any more, and is empty (external).
Closed == cq_shutdown /\ ~AsyncIn({"pending"})
Drained == Closed /\ ~AsyncIn({"completed"})

\* MakeSharedCall(), with the timeout of now, and Start(): the request is the
\* next, and its batch is taken or refused.
MakeSharedCall(async, callbacks, at, told) ==
  requests' = Append(requests,
    [async |-> async, callbacks |-> callbacks, deadline |-> call_timeout_ms,
     at |-> at, result |-> "none", told |-> told])

New == Len(requests) + 1
MayRequest(t) == InUserCode(t) /\ New <= MaxRequests

-----------------------------------------------------------------------------
\* SyncRequest() on a queue of its own, which nobody shuts down.  It tells by
\* returning; refused, InternalError.
SyncRequest(t) ==
  /\ MayRequest(t)
  /\ \/ MakeSharedCall(FALSE, Callbacks, "refused", <<"error">>) /\ UNCHANGED stack
     \/ MakeSharedCall(FALSE, Callbacks, "pending", <<>>) /\ Enter(t, "SyncRequest", New)
  /\ UNCHANGED <<call_timeout_ms, cq_shutdown, crashed, run_ended>>

\* AsyncRequest() with the callbacks that are not empty; grpc takes the batch.
AsyncStarts(callbacks) ==
  /\ ~Closed /\ MakeSharedCall(TRUE, callbacks, "pending", <<>>)
  /\ UNCHANGED <<stack, crashed>>

\* A mutant: nobody looks at the result of Start().
IgnoresRefusal(t, callbacks) ==
  /\ MakeSharedCall(TRUE, callbacks, "lost", <<>>)
  /\ UNCHANGED <<stack, crashed>>

\* It refuses the batch: error_cb is called before AsyncRequest() returns.
AsyncIsRefused(t, callbacks) ==
  /\ \/ /\ "error" \in callbacks
        /\ MakeSharedCall(TRUE, callbacks, "refused", <<"error">>) /\ Enter(t, "error", New)
     \/ /\ "error" \notin callbacks
        /\ MakeSharedCall(TRUE, callbacks, "refused", <<>>) /\ UNCHANGED stack
  /\ UNCHANGED crashed

\* grpc_call_start_batch() asserts that the queue takes the operation.
AsyncAborts == Closed /\ crashed' = TRUE /\ UNCHANGED <<requests, stack>>

AsyncRequest(t, callbacks) ==
  /\ MayRequest(t)
  /\ AsyncStarts(callbacks) \/ AsyncIsRefused(t, callbacks) \/ AsyncAborts
  /\ UNCHANGED <<call_timeout_ms, cq_shutdown, run_ended>>

\* Copies of a stub share its timeout and its queue.
SetCallTimeoutMs(t) ==
  /\ InUserCode(t) /\ call_timeout_ms' \in {"finite", "infinite"}
  /\ UNCHANGED <<requests, stack, cq_shutdown, crashed, run_ended>>

Shutdown(t) ==
  /\ InUserCode(t) /\ cq_shutdown' = TRUE
  /\ UNCHANGED <<call_timeout_ms, requests, stack, crashed, run_ended>>

\* Bound: Run() is not called inside a callback.
Run(t) ==
  /\ stack[t] = <<>> /\ Enter(t, "Run", 0)
  /\ UNCHANGED <<call_timeout_ms, requests, cq_shutdown, crashed, run_ended>>

-----------------------------------------------------------------------------
\* Call a callback of r if it is not empty, over the calls that t is inside.
Tell(t, calls, r, callback, result) ==
  LET given == callback \in requests[r].callbacks IN
  /\ stack' = [stack EXCEPT ![t] = IF given THEN Append(calls, <<callback, r>>) ELSE calls]
  /\ requests' = [requests EXCEPT
       ![r].at = "over", ![r].result = result,
       ![r].told = IF given THEN Append(@, callback) ELSE @]

\* GetResponse() asks the status first, then GetResultMsg(), which follows a
\* null recv_buf_ if the status is OK and no message came: the process dies.
ResponseIsRead(r) == requests[r].result = "message"
ResponseIsNull(r) == requests[r].result = "no message"

\* DoComplete() of r up to its callback, after which Run() deletes the tag.
DoComplete(t, r) ==
  /\ In(t, "Run") /\ requests[r].async /\ requests[r].at = "completed"
  /\ \/ ResponseIsNull(r) /\ crashed' = TRUE /\ UNCHANGED <<requests, stack>>
     \/ /\ ~ResponseIsNull(r) /\ UNCHANGED crashed
        /\ Tell(t, stack[t], r, IF ResponseIsRead(r) THEN "response" ELSE "error",
                requests[r].result)
  /\ UNCHANGED <<call_timeout_ms, cq_shutdown, run_ended>>

\* A mutant: response_cb returns OK, and error_cb runs all the same.
TellsBoth(t) == Tell(t, Front(stack[t]), Top(t), "error", requests[Top(t)].result)

\* response_cb returns OK, and DoComplete() ends.
Accept(t) == Leave(t) /\ UNCHANGED requests

\* response_cb returns an error: error_cb hears it.
Reject(t) == Tell(t, Front(stack[t]), Top(t), "error", "rejected")

CallbackReturns(t) ==
  /\ \/ In(t, "response") /\ (Accept(t) \/ Reject(t))
     \/ In(t, "error") /\ Leave(t) /\ UNCHANGED requests
  /\ UNCHANGED <<call_timeout_ms, cq_shutdown, crashed, run_ended>>

\* The tag of SyncRequest() can be plucked.  A mutant: only Run() hands it out.
NeedsRun(t) ==
  /\ requests[Top(t)].at = "completed"
  /\ \E u \in Threads : In(u, "Run")
Plucked(t) == requests[Top(t)].at = "completed"

\* Pluck() ignores success; GetResponse() decides what is returned.
SyncRequestReturns(t) ==
  /\ In(t, "SyncRequest") /\ Plucked(t)
  /\ LET r == Top(t) IN
     \/ ResponseIsNull(r) /\ crashed' = TRUE /\ UNCHANGED <<requests, stack>>
     \/ /\ ~ResponseIsNull(r) /\ Leave(t) /\ UNCHANGED crashed
        /\ requests' = [requests EXCEPT ![r].at = "over",
             ![r].told = <<IF ResponseIsRead(r) THEN "response" ELSE "error">>]
  /\ UNCHANGED <<call_timeout_ms, cq_shutdown, run_ended>>

\* A mutant: Run() returns at the shutdown, whatever is outstanding.
LeavesAtOnce == cq_shutdown

\* GRPC_QUEUE_SHUTDOWN is the last event, and every Run() gets it (external).
QueueIsDrained == Drained

RunReturns(t) ==
  /\ In(t, "Run") /\ QueueIsDrained /\ Leave(t) /\ run_ended' = TRUE
  /\ UNCHANGED <<call_timeout_ms, requests, cq_shutdown, crashed>>

-----------------------------------------------------------------------------
Ends(r, result) ==
  /\ requests[r].at = "pending"
  /\ requests' = [requests EXCEPT ![r].at = "completed", ![r].result = result]
  /\ UNCHANGED <<call_timeout_ms, stack, cq_shutdown, crashed, run_ended>>

\* External: the server answers, or the call breaks.
Answer(r) == \E result \in Results : Ends(r, result)

\* External: the deadline of the call passes.
DeadlineExpires(r) == requests[r].deadline = "finite" /\ Ends(r, "error status")

Next ==
  /\ ~crashed
  /\ \/ \E t \in Threads :
          \/ SyncRequest(t) \/ SetCallTimeoutMs(t) \/ Shutdown(t) \/ Run(t)
          \/ \E callbacks \in SUBSET Callbacks : AsyncRequest(t, callbacks)
          \/ CallbackReturns(t) \/ SyncRequestReturns(t) \/ RunReturns(t)
          \/ \E r \in DOMAIN requests : DoComplete(t, r)
     \/ \E r \in DOMAIN requests : Answer(r) \/ DeadlineExpires(r)

\* Threads in Run() and Pluck() take what there is, callbacks return, and
\* deadlines pass.  No server need answer.
Fairness ==
  /\ \A t \in Threads :
       /\ WF_vars(~crashed /\ CallbackReturns(t))
       /\ WF_vars(~crashed /\ SyncRequestReturns(t))
       /\ WF_vars(~crashed /\ RunReturns(t))
       /\ WF_vars(~crashed /\ \E r \in DOMAIN requests : DoComplete(t, r))
  /\ \A r \in 1..MaxRequests :
       WF_vars(~crashed /\ r \in DOMAIN requests /\ DeadlineExpires(r))

Spec == Init /\ [][Next]_vars /\ Fairness

-----------------------------------------------------------------------------
\* The callbacks that a request that is over has called, were none empty.
Verdict(r) ==
  CASE requests[r].result = "message" -> {"response"}
    [] requests[r].result = "rejected" -> {"response", "error"}
    [] OTHER -> {"error"}

IsOver(r) == r \in DOMAIN requests /\ requests[r].at \in {"over", "refused"}

Hears(r, callback) ==
  IF callback \in Verdict(r) \cap requests[r].callbacks THEN <<callback>> ELSE <<>>

\* Each request is told its verdict once, by the callbacks given, and nothing
\* before: response_cb only of a message, error_cb of a failure or when
\* response_cb was not content.
VerdictsTold ==
  \A r \in DOMAIN requests :
    requests[r].told =
      IF IsOver(r) THEN Hears(r, "response") \o Hears(r, "error") ELSE <<>>

\* No two threads in Run() work on the same request.
OneThreadEach ==
  \A t, u \in Threads : \A i \in DOMAIN stack[t], j \in DOMAIN stack[u] :
    stack[t][i][2] = stack[u][j][2] /\ stack[t][i][2] # 0 => t = u /\ i = j

\* The process dies only if AsyncRequest() finds its queue closed, or of a call
\* that ended OK without a message: after an error no message is looked for.
KnownDeaths ==
  crashed => \/ Closed
             \/ \E r \in DOMAIN requests :
                  requests[r].at = "completed" /\ requests[r].result = "no message"

\* What becomes of a request.
ToldOnce == TypeOK /\ VerdictsTold /\ OneThreadEach /\ KnownDeaths

\* When a Run() has returned, no request of AsyncRequest() is left untold, and
\* none made afterwards will be: it is refused, or the process aborts.
NothingLeftBehind == run_ended => ~AsyncIn({"pending", "completed"})

\* AsyncRequest() is answered by its deadline, even if Shutdown() comes before,
\* unless no thread is in Run() to hear it.
Waits(r) == r \in DOMAIN requests /\ requests[r].deadline = "finite" /\ ~IsOver(r)
AsyncIsAnswered ==
  \A r \in 1..MaxRequests :
    (Waits(r) /\ requests[r].async) ~>
      (IsOver(r) \/ crashed \/ [](\A t \in Threads : ~In(t, "Run")))

\* SyncRequest() returns by its deadline whatever the threads in Run() do: with
\* none, after Shutdown(), and in a callback of the only one.
SyncReturns ==
  \A r \in 1..MaxRequests :
    (Waits(r) /\ ~requests[r].async) ~> (IsOver(r) \/ crashed)

\* "Request the shutdown of all runs" (service_stub.h): after Shutdown() every
\* Run() returns, unless it waits for a call without a deadline.
Endless(t, r) ==
  /\ requests[r].deadline = "infinite" /\ requests[r].at = "pending"
  /\ requests[r].async \/ <<"SyncRequest", r>> \in Range(stack[t])
ShutdownEndsRuns ==
  \A t \in Threads :
    (cq_shutdown /\ stack[t] # <<>> /\ stack[t][1][1] = "Run") ~>
      (stack[t] = <<>> \/ crashed \/ [](\E r \in DOMAIN requests : Endless(t, r)))
=============================================================================
