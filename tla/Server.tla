------------------------------- MODULE Server -------------------------------
(***************************************************************************)
(* The server's life: services and ports, Server::Run(),                   *)
(* Server::Shutdown(), the destructor, and the tags that ask grpc for the  *)
(* next call of each method                                                *)
(* (src/src/server/server.cc, server_method_call_cqtag.cc), on top of the  *)
(* completion queue loop (src/src/common/run.cc, do_next_completion.cc).   *)
(*                                                                         *)
(* One thread sets the server up, is in Run(), and destroys it.  Stoppers  *)
(* call Shutdown() at any time; nothing locks started_ and shutdown_, so   *)
(* their steps interleave.                                                 *)
(*                                                                         *)
(* grpc is external (1.44, conanfile.py).  A completion queue that was     *)
(* shut down refuses new operations once none is outstanding; a server     *)
(* that was shut down fails the requests it has and every later one, and   *)
(* reports the end of the shutdown when its calls are finished.  It knows  *)
(* a method by its name: a second registration yields null.                *)
(***************************************************************************)
EXTENDS Naturals, FiniteSets

CONSTANTS
  Methods,    \* methods of all services
  Services,   \* full names of services
  ServiceOf,  \* the service of each method
  Stoppers,   \* threads that call Shutdown()
  NoMethod,
  MaxCalls    \* bound on the calls of clients

ASSUME ServerAssumption ==
  /\ IsFiniteSet(Methods) /\ NoMethod \notin Methods
  /\ IsFiniteSet(Stoppers)
  /\ ServiceOf \in [Methods -> Services]
  /\ MaxCalls \in Nat

VARIABLES
  service_map_,   \* each service: not in it, or with handles grpc gave, or null
  listening,      \* grpc has bound a port
  started_, shutdown_,
  run,            \* where the thread of Run() is
  todo,           \* methods RequestMethodsCalls() has yet to visit
  current,        \* method whose CallMethod() is running, or NoMethod
  stop,           \* where each stopper is
  crashed,        \* undefined behaviour, grpc or an assert has killed the process
  \* ServerMethodCallCqTag objects of each method, by where they are
  requested,      \* waiting for a call
  arrived,        \* in the completion queue, with a call
  failed,         \* in the completion queue, without
  leaked,         \* refused by grpc: no completion will delete it, if the
                  \* process survives the assert
  \* grpc
  core_started, core_shutdown, cq_shutdown,
  notifying, notified,   \* shutdown notices outstanding, and queued
  live,           \* calls given to CallMethod() and not finished
  \* history
  calls,          \* calls that arrived
  stops,          \* calls of Shutdown() that passed its tests
  foreign         \* completions whose tag was no CompletionQueueTag

setup == <<service_map_, listening>>
flags == <<started_, shutdown_>>
tags == <<requested, arrived, failed, leaked>>
core == <<core_started, core_shutdown, cq_shutdown, notifying, notified>>
load == <<setup, live, calls>>
vars == <<flags, run, todo, current, stop, crashed, tags, core, load, stops, foreign>>

TypeOK ==
  /\ service_map_ \in [Services -> {"none", "handles", "nulls"}]
  /\ listening \in BOOLEAN /\ started_ \in BOOLEAN /\ shutdown_ \in BOOLEAN
  /\ crashed \in BOOLEAN /\ core_started \in BOOLEAN
  /\ core_shutdown \in BOOLEAN /\ cq_shutdown \in BOOLEAN
  /\ run \in {"off", "starting", "requesting", "polling", "handling", "returned", "destroyed"}
  /\ todo \subseteq Methods /\ current \in Methods \cup {NoMethod}
  /\ stop \in [Stoppers -> {"idle", "checked", "notify", "close"}]
  /\ requested \in [Methods -> 0..1] /\ arrived \in [Methods -> 0..1]
  /\ failed \in [Methods -> 0..1] /\ leaked \in [Methods -> 0..1]
  /\ notifying \in Nat /\ notified \in Nat /\ foreign \in Nat
  /\ stops \in 0..Cardinality(Stoppers)
  /\ live \in 0..MaxCalls /\ calls \in 0..MaxCalls

None == [m \in Methods |-> 0]
Add(f, m) == [f EXCEPT ![m] = @ + 1]
Remove(f, m) == [f EXCEPT ![m] = @ - 1]

\* The constructor.
Init ==
  /\ service_map_ = [s \in Services |-> "none"] /\ listening = FALSE
  /\ started_ = FALSE /\ shutdown_ = FALSE
  /\ run = "off" /\ todo = {} /\ current = NoMethod
  /\ stop = [t \in Stoppers |-> "idle"]
  /\ crashed = FALSE
  /\ requested = None /\ arrived = None /\ failed = None /\ leaked = None
  /\ core_started = FALSE /\ core_shutdown = FALSE /\ cq_shutdown = FALSE
  /\ notifying = 0 /\ notified = 0
  /\ live = 0 /\ calls = 0 /\ stops = 0 /\ foreign = 0

-----------------------------------------------------------------------------
\* The completion queue takes no operation any more (external).
Closed == cq_shutdown /\ requested = None /\ notifying = 0

\* new ServerMethodCallCqTag for m, where f are the failed tags that are left.
\* Refused, assert(GRPC_CALL_OK == ret) aborts the process, or, if NDEBUG is
\* defined, the tag is leaked.
Request(m, f) ==
  \/ /\ Closed
     /\ leaked' = Add(leaked, m) /\ failed' = f /\ crashed' \in BOOLEAN
     /\ UNCHANGED requested
  \/ /\ ~Closed /\ core_shutdown
     /\ failed' = Add(f, m) /\ UNCHANGED <<requested, leaked, crashed>>
  \/ /\ ~Closed /\ ~core_shutdown
     /\ requested' = Add(requested, m) /\ failed' = f /\ UNCHANGED <<leaked, crashed>>

\* RegisterService(): the first time grpc gives handles of the methods.  Again,
\* the handles are cleared and grpc gives null for each method it knows.  Bound:
\* services are registered before Run().
RegisterService(s) ==
  /\ run = "off"
  /\ service_map_' = [service_map_ EXCEPT ![s] = IF @ = "none" THEN "handles" ELSE "nulls"]
  /\ UNCHANGED listening

\* AddListeningPort(), "an error ... on an already started server": returns the
\* port, or 0 if grpc cannot bind it.
AddListeningPort ==
  /\ run = "off" /\ ~started_
  /\ listening' \in {listening, TRUE}
  /\ UNCHANGED service_map_

SetUp ==
  /\ AddListeningPort \/ \E s \in Services : RegisterService(s)
  /\ UNCHANGED <<flags, run, todo, current, stop, crashed, tags, core, live, calls,
                 stops, foreign>>

\* RequestServiceMethodsCalls() skips a method whose handle is null.
HasHandle(m) == service_map_[ServiceOf[m]] = "handles"

\* Run(): set started_, start grpc, visit the methods, go polling.
RunStarts ==
  /\ run = "off" /\ started_' = TRUE /\ run' = "starting"
  /\ UNCHANGED <<shutdown_, todo, crashed, tags, core>>

CoreStarts ==
  /\ run = "starting" /\ core_started' = TRUE
  /\ run' = "requesting" /\ todo' = {m \in Methods : HasHandle(m)}
  /\ UNCHANGED <<flags, crashed, tags, core_shutdown, cq_shutdown, notifying, notified>>

RequestMethodsCalls ==
  /\ run = "requesting"
  /\ \/ \E m \in todo : todo' = todo \ {m} /\ Request(m, failed) /\ UNCHANGED run
     \/ /\ todo = {} /\ run' = "polling"
        /\ UNCHANGED <<todo, requested, failed, leaked, crashed>>
  /\ UNCHANGED <<flags, arrived, core>>

Start ==
  /\ RunStarts \/ CoreStarts \/ RequestMethodsCalls
  /\ UNCHANGED <<current, stop, load, stops, foreign>>

\* DoNextCompletion() pops the tag of a call, and CallMethod() runs.
Handle(m) ==
  /\ run = "polling" /\ arrived[m] > 0
  /\ arrived' = Remove(arrived, m)
  /\ run' = "handling" /\ current' = m
  /\ live' = live + 1
  /\ UNCHANGED <<setup, flags, todo, stop, crashed, requested, failed, leaked, core,
                 calls, stops, foreign>>

\* A mutant: only one call is served.
ServesOnce(m) == UNCHANGED <<requested, failed, leaked, crashed>>

\* The rest of DoComplete(true): request the next call of the method.
Rearm(m) == Request(m, failed)

HandlerReturns ==
  /\ run = "handling"
  /\ Rearm(current)
  /\ run' = "polling" /\ current' = NoMethod
  /\ UNCHANGED <<flags, todo, stop, arrived, core, load, stops, foreign>>

\* DoComplete(false) does the same.  Between the shutdown of the server and
\* that of its queue, the new request fails at once: Run() spins.
Fail(m) ==
  /\ run = "polling" /\ failed[m] > 0
  /\ Request(m, Remove(failed, m))
  /\ UNCHANGED <<flags, run, todo, current, stop, arrived, core, load, stops, foreign>>

\* The shutdown notice: its tag is the Server, which DoNextCompletion() casts
\* to a CompletionQueueTag, calls and deletes.  Undefined behaviour.
PopNotice ==
  /\ run = "polling" /\ notified > 0
  /\ notified' = notified - 1 /\ foreign' = foreign + 1
  /\ crashed' \in BOOLEAN
  /\ UNCHANGED <<flags, run, todo, current, stop, tags, core_started, core_shutdown,
                 cq_shutdown, notifying, load, stops>>

\* A mutant: leave at the shutdown, whatever is queued.
LeavesAtOnce == cq_shutdown

\* GRPC_QUEUE_SHUTDOWN is the last event (external).
Drained == Closed /\ arrived = None /\ failed = None /\ notified = 0

RunReturns ==
  /\ run = "polling" /\ Drained
  /\ run' = "returned"
  /\ UNCHANGED <<flags, todo, current, stop, crashed, tags, core, load, stops,
                 foreign>>

-----------------------------------------------------------------------------
\* ~Server(), when nobody is inside a call of it.  Its Shutdown() does nothing
\* if Run() never came, and grpc aborts when a server that listens and was not
\* shut down is destroyed.
Destroy ==
  /\ run \in {"off", "returned"} /\ \A t \in Stoppers : stop[t] = "idle"
  /\ run' = "destroyed" /\ crashed' = (listening /\ ~core_shutdown)
  /\ UNCHANGED <<flags, todo, current, stop, tags, core, load, stops, foreign>>

-----------------------------------------------------------------------------
\* ShutdownInternal() of stopper t: the tests, the flag, the two calls of grpc.
\* The deadline is ignored.  A Shutdown() before Run() is lost.
Check(t) ==
  /\ stop[t] = "idle" /\ started_ /\ ~shutdown_ /\ run # "destroyed"
  /\ stop' = [stop EXCEPT ![t] = "checked"] /\ stops' = stops + 1
  /\ UNCHANGED <<shutdown_, crashed, tags, core>>

SetFlag(t) ==
  /\ stop[t] = "checked" /\ shutdown_' = TRUE
  /\ stop' = [stop EXCEPT ![t] = "notify"]
  /\ UNCHANGED <<crashed, tags, core, stops>>

\* A mutant: the queue is shut down before the server.
ClosesFirst(t) ==
  /\ stop[t] = "notify"
  /\ stop' = [stop EXCEPT ![t] = "close"]
  /\ core_shutdown' = TRUE /\ cq_shutdown' = TRUE
  /\ failed' = [m \in Methods |-> failed[m] + requested[m]] /\ requested' = None
  /\ crashed' = (requested = None /\ notifying = 0)
  /\ notifying' = IF crashed' THEN notifying ELSE notifying + 1
  /\ UNCHANGED <<shutdown_, arrived, leaked, core_started, notified, stops>>

\* A second stopper that was as quick can come when the queue takes no
\* operation any more: grpc aborts.
Notify(t) ==
  /\ stop[t] = "notify"
  /\ stop' = [stop EXCEPT ![t] = "close"]
  /\ core_shutdown' = TRUE
  /\ failed' = [m \in Methods |-> failed[m] + requested[m]] /\ requested' = None
  /\ crashed' = Closed /\ notifying' = IF Closed THEN notifying ELSE notifying + 1
  /\ UNCHANGED <<shutdown_, arrived, leaked, core_started, cq_shutdown, notified,
                 stops>>

\* A mutant: the queue stays open.
LeavesOpen == UNCHANGED cq_shutdown
ShutdownQueue == cq_shutdown' = TRUE

Close(t) ==
  /\ stop[t] = "close" /\ ShutdownQueue
  /\ stop' = [stop EXCEPT ![t] = "idle"]
  /\ UNCHANGED <<shutdown_, crashed, tags, core_started, core_shutdown, notifying, notified,
                 stops>>

Shutdown(t) ==
  /\ Check(t) \/ SetFlag(t) \/ Notify(t) \/ Close(t)
  /\ UNCHANGED <<started_, run, todo, current, load, foreign>>

-----------------------------------------------------------------------------
\* External: a client's call takes a requested tag; a call that has its
\* handler is finished; the shutdown is complete when no call is live.
CallArrives(m) ==
  /\ listening /\ core_started /\ ~core_shutdown /\ requested[m] > 0 /\ calls < MaxCalls
  /\ requested' = Remove(requested, m) /\ arrived' = Add(arrived, m)
  /\ calls' = calls + 1
  /\ UNCHANGED <<flags, run, todo, current, stop, crashed, failed, leaked, core,
                 setup, live, stops, foreign>>

CallFinishes ==
  /\ live > IF run = "handling" THEN 1 ELSE 0
  /\ live' = live - 1
  /\ UNCHANGED <<flags, run, todo, current, stop, crashed, tags, core, setup, calls,
                 stops, foreign>>

ShutdownCompletes ==
  /\ notifying > 0 /\ arrived = None /\ live = 0
  /\ notifying' = notifying - 1 /\ notified' = notified + 1
  /\ UNCHANGED <<flags, run, todo, current, stop, crashed, tags, core_started,
                 core_shutdown, cq_shutdown, load, stops, foreign>>

Next ==
  /\ ~crashed
  /\ \/ SetUp \/ Start \/ Destroy
     \/ \E m \in Methods : Handle(m) \/ Fail(m) \/ CallArrives(m)
     \/ HandlerReturns \/ PopNotice \/ RunReturns
     \/ \E t \in Stoppers : Shutdown(t)
     \/ CallFinishes \/ ShutdownCompletes

\* Threads that are in Run() or Shutdown() go on, handlers return, calls end,
\* and the completion queue hands out what it holds.
Fairness ==
  /\ WF_vars(~crashed /\ run # "off" /\ Start)
  /\ \A m \in Methods : WF_vars(~crashed /\ Handle(m)) /\ WF_vars(~crashed /\ Fail(m))
  /\ WF_vars(~crashed /\ HandlerReturns)
  /\ WF_vars(~crashed /\ PopNotice) /\ WF_vars(~crashed /\ RunReturns)
  /\ \A t \in Stoppers : WF_vars(~crashed /\ stop[t] # "idle" /\ Shutdown(t))
  /\ WF_vars(~crashed /\ CallFinishes) /\ WF_vars(~crashed /\ ShutdownCompletes)

Spec == Init /\ [][Next]_vars /\ Fairness

-----------------------------------------------------------------------------
\* Every method of a service that was registered, and not twice, has one tag
\* from the time Run() visits it, with grpc, in the queue, or leaked, except
\* while its own handler runs: no method loses its tag or gets a second one,
\* whenever Shutdown() comes, and none is leaked before the queue is closed.
\* The methods of other services have none: they are never served.
OneTagPerMethod ==
  \A m \in Methods :
    /\ requested[m] + arrived[m] + failed[m] + leaked[m] =
         IF HasHandle(m) /\ core_started /\ m \notin todo \cup {current} THEN 1 ELSE 0
    /\ leaked[m] > 0 => Closed

\* The books of the tags.
TagsAreKept == TypeOK /\ OneTagPerMethod

\* The four ways in which stopping a server can kill the process: the notice
\* of the shutdown is popped (OnlyTagsComplete); a tag asks for the next call
\* after the queue was closed and the notice is out, grpc refuses, and the
\* assert on that fails; a second Shutdown() that passed the tests too has its
\* notice refused; a server that listens and was never run is destroyed.
DiesOfNotice == foreign' > foreign
DiesOfRefusal == leaked' # leaked /\ cq_shutdown /\ notifying = 0
DiesOfSecondStop == stops > 1 /\ \E t \in Stoppers : stop[t] = "notify" /\ Notify(t)
DiesUnrun == Destroy /\ listening /\ ~started_

\* Stopping a server, and destroying it then, is safe in all other orders.
StopIsSafe ==
  [][crashed' => DiesOfNotice \/ DiesOfRefusal \/ DiesOfSecondStop \/ DiesUnrun]_vars

\* A call that arrived gets its handler, even if Shutdown() comes in between.
CallIsHandled ==
  \A m \in Methods : (arrived[m] > 0) ~> (current = m \/ crashed)

\* Once Shutdown() has passed its tests, Run() returns, "for this function to
\* ever return" (server.h), provided calls end.
ShutdownEndsRun == shutdown_ ~> (run \in {"returned", "destroyed"} \/ crashed)

-----------------------------------------------------------------------------
\* The one below fails.
\* "CompletionQueueTag is the element of CompletionQueue" (doc/README.md).
OnlyTagsComplete == foreign = 0
=============================================================================
