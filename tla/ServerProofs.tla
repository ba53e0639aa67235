---------------------------- MODULE ServerProofs ----------------------------
(***************************************************************************)
(* Proofs about Server for any finite set of methods, any services, any    *)
(* finite set of threads that stop it and any bound on the calls.          *)
(***************************************************************************)
EXTENDS Server, TLAPS, FiniteSetTheorems

\* Where Run() is decides what has been set up.
RunBooks ==
  /\ run = "off" => ~started_
  /\ run \in {"off", "starting"} => ~core_started
  /\ run \in {"requesting", "polling", "handling", "returned"} => core_started
  /\ run = "returned" => core_shutdown
  /\ run # "requesting" => todo = {}
  /\ run = "handling" <=> current # NoMethod
  /\ \A m \in todo : HasHandle(m)
  /\ current \in Methods => HasHandle(current)

\* Stoppers that are inside Shutdown().
Stopping(f) == {t \in Stoppers : f[t] # "idle"}

\* Every stopper was counted when it passed the tests; one that has shut the
\* queue down has left, so the queue that is closed has seen one more.
StopBooks ==
  /\ cq_shutdown => core_shutdown
  /\ \A t \in Stoppers : /\ stop[t] = "close" => core_shutdown
                         /\ stop[t] \in {"notify", "close"} => shutdown_
  /\ Cardinality(Stopping(stop)) <= stops
  /\ cq_shutdown => Cardinality(Stopping(stop)) < stops
  /\ ~shutdown_ => Cardinality(Stopping(stop)) = stops

\* Methods whose tag is in the completion queue with a call.
Waiting(f) == {m \in Methods : f[m] > 0}

\* A call that arrived waits in the queue, or has been given to CallMethod().
CallBooks == live + Cardinality(Waiting(arrived)) <= calls

\* The inductive invariant: the checked invariant and the books.
IInv ==
  /\ TagsAreKept
  /\ RunBooks
  /\ StopBooks
  /\ CallBooks

-----------------------------------------------------------------------------
\* Adding a tag of m where there is none, and taking one away.
LEMMA AddFacts ==
  ASSUME NEW f \in [Methods -> 0..1], NEW m \in Methods, f[m] = 0
  PROVE  /\ Add(f, m) \in [Methods -> 0..1] /\ Add(f, m)[m] = 1
         /\ \A x \in Methods \ {m} : Add(f, m)[x] = f[x]
  BY DEF Add

LEMMA RemoveFacts ==
  ASSUME NEW f \in [Methods -> 0..1], NEW m \in Methods, f[m] > 0
  PROVE  /\ Remove(f, m) \in [Methods -> 0..1] /\ f[m] = 1 /\ Remove(f, m)[m] = 0
         /\ \A x \in Methods \ {m} : Remove(f, m)[x] = f[x]
  BY DEF Remove

LEMMA NoneFacts ==
  /\ None \in [Methods -> 0..1] /\ \A m \in Methods : None[m] = 0
  /\ \A f \in [Methods -> 0..1] : (\A m \in Methods : f[m] = 0) => f = None
  BY DEF None

\* The tag of a method that has one is in one place, and others have none.
LEMMA TagFacts ==
  ASSUME IInv, NEW m \in Methods
  PROVE  /\ requested[m] \in 0..1 /\ arrived[m] \in 0..1 /\ failed[m] \in 0..1 /\ leaked[m] \in 0..1
         /\ requested[m] + arrived[m] + failed[m] + leaked[m] \in {0, 1}
         /\ leaked[m] > 0 => Closed
         /\ requested[m] + arrived[m] + failed[m] + leaked[m] = 1
              => HasHandle(m) /\ core_started /\ m \notin todo \cup {current}
         /\ m \in todo \cup {current}
              => requested[m] = 0 /\ arrived[m] = 0 /\ failed[m] = 0 /\ leaked[m] = 0
  <1>1. requested[m] \in 0..1 /\ arrived[m] \in 0..1 /\ failed[m] \in 0..1 /\ leaked[m] \in 0..1
    BY DEF IInv, TagsAreKept, TypeOK
  <1>2. /\ requested[m] + arrived[m] + failed[m] + leaked[m] =
             IF HasHandle(m) /\ core_started /\ m \notin todo \cup {current} THEN 1 ELSE 0
        /\ leaked[m] > 0 => Closed
    BY DEF IInv, TagsAreKept, OneTagPerMethod
  <1> QED BY <1>1, <1>2

\* A new tag of m, which has none but perhaps the failed one that f lacks.
LEMMA RequestFacts ==
  ASSUME IInv, NEW m \in Methods, NEW f \in [Methods -> 0..1],
         requested[m] = 0, leaked[m] = 0, f[m] = 0, Request(m, f),
         UNCHANGED <<cq_shutdown, notifying>>
  PROVE  /\ requested' \in [Methods -> 0..1] /\ failed' \in [Methods -> 0..1]
         /\ leaked' \in [Methods -> 0..1]
         /\ requested'[m] + failed'[m] + leaked'[m] = 1
         /\ \A x \in Methods \ {m} : /\ requested'[x] = requested[x]
                                     /\ failed'[x] = f[x] /\ leaked'[x] = leaked[x]
         /\ \A x \in Methods : leaked'[x] > 0 => Closed'
         /\ crashed' \in BOOLEAN
  <1>0. /\ requested \in [Methods -> 0..1] /\ leaked \in [Methods -> 0..1]
        /\ crashed \in BOOLEAN
    BY DEF IInv, TagsAreKept, TypeOK
  <1>1. CASE /\ Closed /\ UNCHANGED requested
             /\ leaked' = Add(leaked, m) /\ failed' = f /\ crashed' \in BOOLEAN
    <2>1. Closed'
      BY <1>1 DEF Closed
    <2> QED BY <1>0, <1>1, <2>1, AddFacts
  <1>2. ASSUME ~Closed
        PROVE  \A x \in Methods : leaked[x] = 0
    BY <1>2, TagFacts
  <1>3. CASE /\ ~Closed /\ core_shutdown
             /\ failed' = Add(f, m) /\ UNCHANGED <<requested, leaked, crashed>>
    BY <1>0, <1>2, <1>3, AddFacts
  <1>4. CASE /\ ~Closed /\ ~core_shutdown
             /\ requested' = Add(requested, m) /\ failed' = f /\ UNCHANGED <<leaked, crashed>>
    BY <1>0, <1>2, <1>4, AddFacts
  <1> QED BY <1>1, <1>3, <1>4 DEF Request

\* Methods that wait can be counted; one more or one less counts as one.
LEMMA WaitingFacts ==
  /\ \A f : IsFiniteSet(Waiting(f)) /\ Cardinality(Waiting(f)) \in Nat
  /\ \A f, g : \A m \in Methods :
       f[m] > 0 /\ ~(g[m] > 0) /\ (\A x \in Methods \ {m} : f[x] = g[x])
         => Cardinality(Waiting(f)) = Cardinality(Waiting(g)) + 1
  <1>1. ASSUME NEW f
        PROVE  IsFiniteSet(Waiting(f)) /\ Cardinality(Waiting(f)) \in Nat
    <2>1. Waiting(f) \in SUBSET Methods
      BY DEF Waiting
    <2> QED BY <2>1, ServerAssumption, FS_Subset, FS_CardinalityType
  <1>2. ASSUME NEW f, NEW g, NEW m \in Methods,
               f[m] > 0, ~(g[m] > 0), \A x \in Methods \ {m} : f[x] = g[x]
        PROVE  Cardinality(Waiting(f)) = Cardinality(Waiting(g)) + 1
    <2>1. Waiting(f) = Waiting(g) \cup {m} /\ m \notin Waiting(g)
      BY <1>2 DEF Waiting
    <2> QED BY <1>1, <2>1, FS_AddElement
  <1> QED BY <1>1, <1>2

\* The same for the stoppers inside Shutdown().
LEMMA StoppingFacts ==
  /\ \A f : /\ IsFiniteSet(Stopping(f)) /\ Cardinality(Stopping(f)) \in Nat
            /\ Cardinality(Stopping(f)) <= Cardinality(Stoppers)
  /\ Cardinality(Stoppers) \in Nat
  /\ \A f, g : \A t \in Stoppers :
       f[t] # "idle" /\ g[t] = "idle" /\ (\A u \in Stoppers \ {t} : f[u] = g[u])
         => Cardinality(Stopping(f)) = Cardinality(Stopping(g)) + 1
  /\ \A f, g : (\A t \in Stoppers : f[t] = "idle" <=> g[t] = "idle")
         => Cardinality(Stopping(f)) = Cardinality(Stopping(g))
  <1>1. ASSUME NEW f
        PROVE  /\ IsFiniteSet(Stopping(f)) /\ Cardinality(Stopping(f)) \in Nat
               /\ Cardinality(Stopping(f)) <= Cardinality(Stoppers)
    <2>1. Stopping(f) \in SUBSET Stoppers
      BY DEF Stopping
    <2> QED BY <2>1, ServerAssumption, FS_Subset, FS_CardinalityType
  <1>2. ASSUME NEW f, NEW g, NEW t \in Stoppers,
               f[t] # "idle", g[t] = "idle", \A u \in Stoppers \ {t} : f[u] = g[u]
        PROVE  Cardinality(Stopping(f)) = Cardinality(Stopping(g)) + 1
    <2>1. Stopping(f) = Stopping(g) \cup {t} /\ t \notin Stopping(g)
      BY <1>2 DEF Stopping
    <2> QED BY <1>1, <2>1, FS_AddElement
  <1>3. ASSUME NEW f, NEW g, \A t \in Stoppers : f[t] = "idle" <=> g[t] = "idle"
        PROVE  Cardinality(Stopping(f)) = Cardinality(Stopping(g))
    <2>1. Stopping(f) = Stopping(g)
      BY <1>3 DEF Stopping
    <2> QED BY <2>1
  <1> QED BY <1>1, <1>2, <1>3, ServerAssumption, FS_CardinalityType

-----------------------------------------------------------------------------
\* A server that was just constructed satisfies the invariant.
LEMMA InitEstablishesIInv == Init => IInv
  <1> SUFFICES ASSUME Init PROVE IInv
    OBVIOUS
  <1> USE DEF Init
  <1>1. Cardinality(Stopping(stop)) = 0 /\ Cardinality(Waiting(arrived)) = 0
    <2>1. Stopping(stop) = {} /\ Waiting(arrived) = {}
      BY NoneFacts DEF Stopping, Waiting
    <2> QED BY <2>1, FS_EmptySet
  <1>2. TypeOK
    <2>1. 0 \in 0..Cardinality(Stoppers) /\ 0 \in 0..MaxCalls
      BY StoppingFacts, ServerAssumption
    <2>2. requested \in [Methods -> 0..1] /\ arrived \in [Methods -> 0..1]
          /\ failed \in [Methods -> 0..1] /\ leaked \in [Methods -> 0..1]
      BY NoneFacts
    <2> QED BY <2>1, <2>2 DEF TypeOK
  <1>3. OneTagPerMethod
    BY NoneFacts DEF OneTagPerMethod
  <1>4. RunBooks
    BY ServerAssumption DEF RunBooks
  <1>5. StopBooks /\ CallBooks
    BY <1>1 DEF StopBooks, CallBooks
  <1> QED BY <1>2, <1>3, <1>4, <1>5 DEF IInv, TagsAreKept

-----------------------------------------------------------------------------
\* What a step leaves alone keeps its part of the books.
LEMMA StopFrame ==
  ASSUME IInv, UNCHANGED <<stop, stops, shutdown_, core_shutdown, cq_shutdown>>
  PROVE  StopBooks'
  BY DEF IInv, StopBooks

LEMMA CallFrame ==
  ASSUME IInv, UNCHANGED <<live, calls, arrived>>
  PROVE  CallBooks'
  BY DEF IInv, CallBooks

LEMMA TagFrame ==
  ASSUME IInv, UNCHANGED <<service_map_, core_started, todo, current, tags, cq_shutdown, notifying>>
  PROVE  OneTagPerMethod'
  BY DEF IInv, TagsAreKept, OneTagPerMethod, HasHandle, tags, Closed

\* Services are registered and ports bound before anything is requested.
LEMMA SetUpPreservesIInv ==
  ASSUME IInv, ~crashed, SetUp
  PROVE  IInv'
  <1>0. /\ run = "off" /\ ~started_ /\ ~core_started /\ todo = {} /\ current = NoMethod
        /\ UNCHANGED <<flags, run, todo, current, stop, crashed, tags, core, live, calls, stops, foreign>>
    BY DEF SetUp, AddListeningPort, RegisterService, IInv, RunBooks
  <1>1. UNCHANGED <<started_, shutdown_, core_started, core_shutdown, cq_shutdown, notifying, notified,
                    requested, arrived, failed, leaked>>
    BY <1>0 DEF flags, core, tags
  <1>2. listening' \in BOOLEAN /\ service_map_' \in [Services -> {"none", "handles", "nulls"}]
    <2>1. CASE AddListeningPort
      BY <2>1 DEF AddListeningPort, IInv, TagsAreKept, TypeOK
    <2>2. CASE \E s \in Services : RegisterService(s)
      BY <2>2 DEF RegisterService, IInv, TagsAreKept, TypeOK
    <2> QED BY <2>1, <2>2 DEF SetUp
  <1>3. TypeOK'
    BY <1>0, <1>1, <1>2 DEF IInv, TagsAreKept, TypeOK
  <1>4. OneTagPerMethod'
    BY <1>0, <1>1 DEF IInv, TagsAreKept, OneTagPerMethod, Closed
  <1>5. RunBooks'
    BY <1>0, <1>1, ServerAssumption DEF IInv, RunBooks
  <1> QED BY <1>0, <1>1, <1>3, <1>4, <1>5, StopFrame, CallFrame DEF IInv, TagsAreKept

\* Run() sets its flag, starts grpc and visits the methods.
LEMMA StartPreservesIInv ==
  ASSUME IInv, ~crashed, Start
  PROVE  IInv'
  <1>0. /\ UNCHANGED <<current, stop, service_map_, listening, live, calls, stops, foreign>>
        /\ TypeOK /\ OneTagPerMethod
    BY DEF Start, load, setup, IInv, TagsAreKept
  <1>1. CASE RunStarts
    <2>1. /\ run = "off" /\ started_' = TRUE /\ run' = "starting"
          /\ UNCHANGED <<shutdown_, todo, crashed, requested, arrived, failed, leaked, core_started,
                         core_shutdown, cq_shutdown, notifying, notified>>
      BY <1>1 DEF RunStarts, tags, core
    <2>2. TypeOK'
      BY <1>0, <2>1 DEF TypeOK
    <2>3. OneTagPerMethod'
      BY <1>0, <2>1, TagFrame DEF tags
    <2>4. RunBooks'
      BY <1>0, <2>1 DEF IInv, RunBooks, HasHandle
    <2> QED BY <1>0, <2>1, <2>2, <2>3, <2>4, StopFrame, CallFrame DEF IInv, TagsAreKept
  <1>2. CASE CoreStarts
    <2>1. /\ run = "starting" /\ core_started' = TRUE /\ ~core_started
          /\ run' = "requesting" /\ todo' = {m \in Methods : HasHandle(m)}
          /\ current = NoMethod
          /\ UNCHANGED <<started_, shutdown_, crashed, requested, arrived, failed, leaked,
                         core_shutdown, cq_shutdown, notifying, notified>>
      BY <1>2 DEF CoreStarts, flags, tags, IInv, RunBooks
    <2>2. TypeOK'
      BY <1>0, <2>1 DEF TypeOK
    <2>3. OneTagPerMethod'
      BY <1>0, <2>1 DEF OneTagPerMethod, HasHandle, Closed
    <2>4. RunBooks'
      BY <1>0, <2>1, ServerAssumption DEF IInv, RunBooks, HasHandle
    <2> QED BY <1>0, <2>1, <2>2, <2>3, <2>4, StopFrame, CallFrame DEF IInv, TagsAreKept
  <1>3. CASE RequestMethodsCalls
    <2>0. /\ run = "requesting" /\ core_started /\ current = NoMethod
          /\ UNCHANGED <<started_, shutdown_, arrived, core_started, core_shutdown, cq_shutdown,
                         notifying, notified>>
      BY <1>3 DEF RequestMethodsCalls, flags, core, IInv, RunBooks
    <2>1. ASSUME NEW m \in todo, todo' = todo \ {m}, Request(m, failed), UNCHANGED run
          PROVE  IInv'
      <3>1. m \in Methods /\ HasHandle(m)
        BY <1>0, <2>1 DEF TypeOK, IInv, RunBooks
      <3>2. requested[m] = 0 /\ arrived[m] = 0 /\ failed[m] = 0 /\ leaked[m] = 0
        BY <2>1, <3>1, TagFacts
      <3>3. /\ requested' \in [Methods -> 0..1] /\ failed' \in [Methods -> 0..1]
            /\ leaked' \in [Methods -> 0..1]
            /\ requested'[m] + failed'[m] + leaked'[m] = 1
            /\ \A x \in Methods \ {m} : /\ requested'[x] = requested[x]
                                        /\ failed'[x] = failed[x] /\ leaked'[x] = leaked[x]
            /\ \A x \in Methods : leaked'[x] > 0 => Closed'
            /\ crashed' \in BOOLEAN
        <4>1. failed \in [Methods -> 0..1]
          BY <1>0 DEF TypeOK
        <4> QED BY <2>0, <2>1, <3>1, <3>2, <4>1, RequestFacts
      <3>4. TypeOK'
        BY <1>0, <2>0, <2>1, <3>3 DEF TypeOK
      <3>5. OneTagPerMethod'
        <4>1. ASSUME NEW x \in Methods, x # m
              PROVE  requested'[x] + arrived'[x] + failed'[x] + leaked'[x] =
                       IF HasHandle(x)' /\ core_started' /\ x \notin todo' \cup {current'} THEN 1 ELSE 0
          BY <1>0, <2>0, <2>1, <3>3, <4>1 DEF OneTagPerMethod, HasHandle
        <4>2. requested'[m] + arrived'[m] + failed'[m] + leaked'[m] = 1
          <5>1. requested'[m] \in 0..1 /\ failed'[m] \in 0..1 /\ leaked'[m] \in 0..1 /\ arrived'[m] = 0
            BY <2>0, <3>1, <3>2, <3>3
          <5> QED BY <3>3, <5>1
        <4>3. HasHandle(m)' /\ core_started' /\ m \notin todo' \cup {current'}
          BY <1>0, <2>0, <2>1, <3>1, ServerAssumption DEF HasHandle
        <4> QED BY <3>3, <4>1, <4>2, <4>3 DEF OneTagPerMethod
      <3>6. RunBooks'
        BY <1>0, <2>0, <2>1 DEF IInv, RunBooks, HasHandle
      <3> QED BY <1>0, <2>0, <3>4, <3>5, <3>6, StopFrame, CallFrame DEF IInv, TagsAreKept
    <2>2. CASE todo = {} /\ run' = "polling" /\ UNCHANGED <<todo, requested, failed, leaked, crashed>>
      <3>1. TypeOK'
        BY <1>0, <2>0, <2>2 DEF TypeOK
      <3>2. OneTagPerMethod'
        BY <1>0, <2>0, <2>2, TagFrame DEF tags
      <3>3. RunBooks'
        BY <1>0, <2>0, <2>2 DEF IInv, RunBooks, HasHandle
      <3> QED BY <1>0, <2>0, <3>1, <3>2, <3>3, StopFrame, CallFrame DEF IInv, TagsAreKept
    <2> QED BY <1>3, <2>1, <2>2 DEF RequestMethodsCalls
  <1> QED BY <1>1, <1>2, <1>3 DEF Start

\* A call is popped and its handler begins: its tag is gone for that time.
LEMMA HandlePreservesIInv ==
  ASSUME IInv, ~crashed, NEW m \in Methods, Handle(m)
  PROVE  IInv'
  <1>0. /\ run = "polling" /\ arrived[m] > 0 /\ arrived' = Remove(arrived, m)
        /\ run' = "handling" /\ current' = m /\ live' = live + 1
        /\ UNCHANGED <<service_map_, listening, started_, shutdown_, todo, stop, crashed, requested,
                       failed, leaked, core_started, core_shutdown, cq_shutdown, notifying, notified,
                       calls, stops, foreign>>
        /\ TypeOK /\ OneTagPerMethod
        /\ m # NoMethod
    BY ServerAssumption DEF Handle, setup, flags, core, IInv, TagsAreKept
  <1>1. /\ arrived' \in [Methods -> 0..1] /\ arrived[m] = 1 /\ arrived'[m] = 0
        /\ \A x \in Methods \ {m} : arrived'[x] = arrived[x]
        /\ requested[m] = 0 /\ failed[m] = 0 /\ leaked[m] = 0
        /\ HasHandle(m) /\ core_started /\ m \notin todo
    <2>1. arrived \in [Methods -> 0..1]
      BY <1>0 DEF TypeOK
    <2>2. /\ arrived' \in [Methods -> 0..1] /\ arrived[m] = 1 /\ arrived'[m] = 0
          /\ \A x \in Methods \ {m} : arrived'[x] = arrived[x]
      BY <1>0, <2>1, RemoveFacts
    <2> QED BY <2>2, TagFacts
  <1>2. live' \in Nat /\ CallBooks'
    <2>1. Cardinality(Waiting(arrived)) = Cardinality(Waiting(arrived')) + 1
      BY <1>1, WaitingFacts
    <2>2. Cardinality(Waiting(arrived')) \in Nat /\ live \in Nat /\ calls \in Nat
      BY <1>0, WaitingFacts DEF TypeOK
    <2> QED BY <1>0, <2>1, <2>2 DEF IInv, CallBooks
  <1>3. live' \in 0..MaxCalls
    <2>1. Cardinality(Waiting(arrived')) \in Nat /\ MaxCalls \in Nat /\ calls' \in 0..MaxCalls
      BY <1>0, WaitingFacts, ServerAssumption DEF TypeOK
    <2> QED BY <1>2, <2>1 DEF CallBooks
  <1>4. TypeOK'
    BY <1>0, <1>1, <1>3 DEF TypeOK
  <1>5. OneTagPerMethod'
    <2>1. ASSUME NEW x \in Methods, x # m
          PROVE  requested'[x] + arrived'[x] + failed'[x] + leaked'[x] =
                   IF HasHandle(x)' /\ core_started' /\ x \notin todo' \cup {current'} THEN 1 ELSE 0
      <3>1. x # current
        BY <1>0, ServerAssumption DEF IInv, RunBooks
      <3> QED BY <1>0, <1>1, <2>1, <3>1 DEF OneTagPerMethod, HasHandle
    <2>2. requested'[m] + arrived'[m] + failed'[m] + leaked'[m] = 0
      BY <1>0, <1>1
    <2>3. \A x \in Methods : leaked'[x] > 0 => Closed'
      BY <1>0 DEF OneTagPerMethod, Closed
    <2> QED BY <1>0, <2>1, <2>2, <2>3 DEF OneTagPerMethod
  <1>6. RunBooks'
    BY <1>0, <1>1 DEF IInv, RunBooks, HasHandle
  <1> QED BY <1>0, <1>2, <1>4, <1>5, <1>6, StopFrame DEF IInv, TagsAreKept

\* The handler returns and the next call of its method is requested.
LEMMA HandlerReturnsPreservesIInv ==
  ASSUME IInv, ~crashed, HandlerReturns
  PROVE  IInv'
  <1>0. /\ run = "handling" /\ run' = "polling" /\ current' = NoMethod
        /\ Request(current, failed)
        /\ UNCHANGED <<service_map_, listening, started_, shutdown_, todo, stop, arrived,
                       core_started, core_shutdown, cq_shutdown, notifying, notified,
                       live, calls, stops, foreign>>
        /\ TypeOK /\ OneTagPerMethod
    BY DEF HandlerReturns, Rearm, load, setup, flags, core, IInv, TagsAreKept
  <1>1. /\ current \in Methods /\ HasHandle(current) /\ core_started /\ todo = {}
    BY <1>0 DEF TypeOK, IInv, RunBooks
  <1>2. PICK m \in Methods : m = current
    BY <1>1
  <1>3. requested[m] = 0 /\ arrived[m] = 0 /\ failed[m] = 0 /\ leaked[m] = 0
    BY <1>2, TagFacts
  <1>4. /\ requested' \in [Methods -> 0..1] /\ failed' \in [Methods -> 0..1]
        /\ leaked' \in [Methods -> 0..1]
        /\ requested'[m] + failed'[m] + leaked'[m] = 1
        /\ \A x \in Methods \ {m} : /\ requested'[x] = requested[x]
                                    /\ failed'[x] = failed[x] /\ leaked'[x] = leaked[x]
        /\ \A x \in Methods : leaked'[x] > 0 => Closed'
        /\ crashed' \in BOOLEAN
    <2>1. failed \in [Methods -> 0..1]
      BY <1>0 DEF TypeOK
    <2> QED BY <1>0, <1>2, <1>3, <2>1, RequestFacts
  <1>5. TypeOK'
    BY <1>0, <1>4 DEF TypeOK
  <1>6. OneTagPerMethod'
    <2>1. ASSUME NEW x \in Methods, x # m
          PROVE  requested'[x] + arrived'[x] + failed'[x] + leaked'[x] =
                   IF HasHandle(x)' /\ core_started' /\ x \notin todo' \cup {current'} THEN 1 ELSE 0
      BY <1>0, <1>1, <1>2, <1>4, <2>1, ServerAssumption DEF OneTagPerMethod, HasHandle
    <2>2. requested'[m] + arrived'[m] + failed'[m] + leaked'[m] = 1
      <3>1. requested'[m] \in 0..1 /\ failed'[m] \in 0..1 /\ leaked'[m] \in 0..1 /\ arrived'[m] = 0
        BY <1>0, <1>3, <1>4
      <3> QED BY <1>4, <3>1
    <2>3. HasHandle(m)' /\ core_started' /\ m \notin todo' \cup {current'}
      BY <1>0, <1>1, <1>2, ServerAssumption DEF HasHandle
    <2> QED BY <1>4, <2>1, <2>2, <2>3 DEF OneTagPerMethod
  <1>7. RunBooks'
    BY <1>0, <1>1, ServerAssumption DEF IInv, RunBooks, HasHandle
  <1> QED BY <1>0, <1>5, <1>6, <1>7, StopFrame, CallFrame DEF IInv, TagsAreKept

\* A failed request is popped and made again.
LEMMA FailPreservesIInv ==
  ASSUME IInv, ~crashed, NEW m \in Methods, Fail(m)
  PROVE  IInv'
  <1>0. /\ run = "polling" /\ failed[m] > 0 /\ Request(m, Remove(failed, m))
        /\ UNCHANGED <<service_map_, listening, started_, shutdown_, run, todo, current, stop,
                       arrived, core_started, core_shutdown, cq_shutdown, notifying, notified,
                       live, calls, stops, foreign>>
        /\ TypeOK /\ OneTagPerMethod
    BY DEF Fail, load, setup, flags, core, IInv, TagsAreKept
  <1>1. PICK f : f = Remove(failed, m)
    OBVIOUS
  <1>2. /\ f \in [Methods -> 0..1] /\ f[m] = 0 /\ failed[m] = 1
        /\ \A x \in Methods \ {m} : f[x] = failed[x]
    <2>1. failed \in [Methods -> 0..1]
      BY <1>0 DEF TypeOK
    <2> QED BY <1>0, <1>1, <2>1, RemoveFacts
  <1>3. /\ requested[m] = 0 /\ arrived[m] = 0 /\ leaked[m] = 0
        /\ HasHandle(m) /\ core_started /\ m \notin todo \cup {current}
    BY <1>2, TagFacts
  <1>4. /\ requested' \in [Methods -> 0..1] /\ failed' \in [Methods -> 0..1]
        /\ leaked' \in [Methods -> 0..1]
        /\ requested'[m] + failed'[m] + leaked'[m] = 1
        /\ \A x \in Methods \ {m} : /\ requested'[x] = requested[x]
                                    /\ failed'[x] = f[x] /\ leaked'[x] = leaked[x]
        /\ \A x \in Methods : leaked'[x] > 0 => Closed'
        /\ crashed' \in BOOLEAN
    BY <1>0, <1>1, <1>2, <1>3, RequestFacts
  <1>5. TypeOK'
    BY <1>0, <1>4 DEF TypeOK
  <1>6. OneTagPerMethod'
    <2>1. ASSUME NEW x \in Methods, x # m
          PROVE  requested'[x] + arrived'[x] + failed'[x] + leaked'[x] =
                   IF HasHandle(x)' /\ core_started' /\ x \notin todo' \cup {current'} THEN 1 ELSE 0
      BY <1>0, <1>2, <1>4, <2>1 DEF OneTagPerMethod, HasHandle
    <2>2. requested'[m] + arrived'[m] + failed'[m] + leaked'[m] = 1
      <3>1. requested'[m] \in 0..1 /\ failed'[m] \in 0..1 /\ leaked'[m] \in 0..1 /\ arrived'[m] = 0
        BY <1>0, <1>3, <1>4
      <3> QED BY <1>4, <3>1
    <2>3. HasHandle(m)' /\ core_started' /\ m \notin todo' \cup {current'}
      BY <1>0, <1>3 DEF HasHandle
    <2> QED BY <1>4, <2>1, <2>2, <2>3 DEF OneTagPerMethod
  <1>7. RunBooks'
    BY <1>0 DEF IInv, RunBooks, HasHandle
  <1> QED BY <1>0, <1>5, <1>6, <1>7, StopFrame, CallFrame DEF IInv, TagsAreKept

\* The notice is popped, Run() returns, the server is destroyed.
LEMMA EndPreservesIInv ==
  ASSUME IInv, ~crashed, PopNotice \/ RunReturns \/ Destroy
  PROVE  IInv'
  <1>0. /\ UNCHANGED <<service_map_, listening, started_, shutdown_, todo, current, stop,
                       requested, arrived, failed, leaked, core_started, core_shutdown, cq_shutdown,
                       notifying, live, calls, stops>>
        /\ TypeOK /\ OneTagPerMethod
    BY DEF PopNotice, RunReturns, Destroy, load, setup, flags, tags, core, IInv, TagsAreKept
  <1>1. OneTagPerMethod' /\ StopBooks' /\ CallBooks'
    BY <1>0, TagFrame, StopFrame, CallFrame DEF tags
  <1>2. CASE PopNotice
    <2>1. /\ run' = run /\ crashed' \in BOOLEAN /\ foreign' = foreign + 1
          /\ notified > 0 /\ notified' = notified - 1
      BY <1>2 DEF PopNotice
    <2>2. TypeOK'
      BY <1>0, <2>1 DEF TypeOK
    <2>3. RunBooks'
      BY <1>0, <2>1 DEF TypeOK, IInv, RunBooks, HasHandle
    <2> QED BY <1>1, <2>2, <2>3 DEF IInv, TagsAreKept
  <1>3. CASE RunReturns
    <2>1. /\ run = "polling" /\ run' = "returned" /\ cq_shutdown /\ UNCHANGED <<crashed, foreign, notified>>
      BY <1>3 DEF RunReturns, Drained, Closed, core
    <2>2. TypeOK'
      BY <1>0, <2>1 DEF TypeOK
    <2>3. RunBooks'
      BY <1>0, <2>1 DEF IInv, RunBooks, StopBooks, HasHandle
    <2> QED BY <1>1, <2>2, <2>3 DEF IInv, TagsAreKept
  <1>4. CASE Destroy
    <2>1. /\ run \in {"off", "returned"} /\ run' = "destroyed" /\ crashed' = (listening /\ ~core_shutdown)
          /\ UNCHANGED <<foreign, notified>>
      BY <1>4 DEF Destroy, core
    <2>2. TypeOK'
      <3>1. crashed' \in BOOLEAN
        BY <2>1
      <3> QED BY <1>0, <2>1, <3>1 DEF TypeOK
    <2>3. RunBooks'
      BY <1>0, <2>1 DEF IInv, RunBooks, HasHandle
    <2> QED BY <1>1, <2>2, <2>3 DEF IInv, TagsAreKept
  <1> QED BY <1>2, <1>3, <1>4

\* The steps of Shutdown(): only a second stopper can find the queue closed.
LEMMA ShutdownPreservesIInv ==
  ASSUME IInv, ~crashed, NEW t \in Stoppers, Shutdown(t)
  PROVE  IInv'
  <1>0. /\ UNCHANGED <<service_map_, listening, started_, run, todo, current, arrived, leaked,
                       core_started, notified, live, calls, foreign>>
        /\ TypeOK /\ OneTagPerMethod /\ StopBooks
        /\ Check(t) \/ SetFlag(t) \/ Notify(t) \/ Close(t)
    BY DEF Shutdown, Check, SetFlag, Notify, Close, tags, core, load, setup, IInv, TagsAreKept
  <1>1. RunBooks' /\ CallBooks'
    <2>1. core_shutdown => core_shutdown'
      BY <1>0 DEF Check, SetFlag, Notify, Close, core
    <2> QED BY <1>0, <2>1, CallFrame DEF IInv, RunBooks, HasHandle
  <1>2. /\ Cardinality(Stopping(stop)) \in Nat /\ Cardinality(Stopping(stop')) \in Nat
        /\ Cardinality(Stopping(stop)) <= Cardinality(Stoppers)
        /\ Cardinality(Stopping(stop')) <= Cardinality(Stoppers)
        /\ Cardinality(Stoppers) \in Nat /\ stops \in Nat /\ stops <= Cardinality(Stoppers)
    BY <1>0, StoppingFacts DEF TypeOK
  <1>3. ASSUME NEW l \in {"idle", "checked", "notify", "close"}, stop' = [stop EXCEPT ![t] = l]
        PROVE  /\ stop' \in [Stoppers -> {"idle", "checked", "notify", "close"}]
               /\ stop'[t] = l /\ \A u \in Stoppers \ {t} : stop'[u] = stop[u]
               /\ stop[t] = "idle" /\ l # "idle"
                    => Cardinality(Stopping(stop')) = Cardinality(Stopping(stop)) + 1
               /\ stop[t] # "idle" /\ l = "idle"
                    => Cardinality(Stopping(stop)) = Cardinality(Stopping(stop')) + 1
               /\ stop[t] # "idle" /\ l # "idle"
                    => Cardinality(Stopping(stop')) = Cardinality(Stopping(stop))
    <2>1. /\ stop' \in [Stoppers -> {"idle", "checked", "notify", "close"}]
          /\ stop'[t] = l /\ \A u \in Stoppers \ {t} : stop'[u] = stop[u]
      BY <1>0, <1>3 DEF TypeOK
    <2> QED BY <2>1, StoppingFacts
  <1>4. CASE Check(t)
    <2>1. /\ stop[t] = "idle" /\ ~shutdown_ /\ stop' = [stop EXCEPT ![t] = "checked"] /\ stops' = stops + 1
          /\ UNCHANGED <<shutdown_, crashed, requested, failed, core_shutdown, cq_shutdown, notifying>>
      BY <1>4 DEF Check, tags, core
    <2>2. /\ stop' \in [Stoppers -> {"idle", "checked", "notify", "close"}]
          /\ stop'[t] = "checked" /\ \A u \in Stoppers \ {t} : stop'[u] = stop[u]
          /\ Cardinality(Stopping(stop')) = Cardinality(Stopping(stop)) + 1
      BY <1>3, <2>1
    <2>3. Cardinality(Stopping(stop)) = stops
      BY <1>0, <2>1 DEF StopBooks
    <2>4. stops' \in 0..Cardinality(Stoppers)
      BY <1>2, <2>1, <2>2, <2>3
    <2>5. StopBooks'
      <3>1. \A u \in Stoppers : /\ stop'[u] = "close" => core_shutdown'
                                /\ stop'[u] \in {"notify", "close"} => shutdown_'
        BY <1>0, <2>1, <2>2 DEF StopBooks
      <3>2. Cardinality(Stopping(stop')) = stops' /\ ~cq_shutdown
        BY <1>0, <1>2, <2>1, <2>2, <2>3 DEF StopBooks
      <3> QED BY <1>2, <2>1, <2>4, <3>1, <3>2 DEF StopBooks
    <2>6. TypeOK' /\ OneTagPerMethod'
      BY <1>0, <2>1, <2>2, <2>4, TagFrame DEF TypeOK, tags
    <2> QED BY <1>1, <2>5, <2>6 DEF IInv, TagsAreKept
  <1>5. CASE SetFlag(t)
    <2>1. /\ stop[t] = "checked" /\ shutdown_' = TRUE /\ stop' = [stop EXCEPT ![t] = "notify"]
          /\ UNCHANGED <<crashed, requested, failed, core_shutdown, cq_shutdown, notifying, stops>>
      BY <1>5 DEF SetFlag, tags, core
    <2>2. /\ stop' \in [Stoppers -> {"idle", "checked", "notify", "close"}]
          /\ stop'[t] = "notify" /\ \A u \in Stoppers \ {t} : stop'[u] = stop[u]
          /\ Cardinality(Stopping(stop')) = Cardinality(Stopping(stop))
      BY <1>3, <2>1
    <2>3. StopBooks'
      BY <1>0, <2>1, <2>2 DEF StopBooks
    <2>4. TypeOK' /\ OneTagPerMethod'
      BY <1>0, <2>1, <2>2, TagFrame DEF TypeOK, tags
    <2> QED BY <1>1, <2>3, <2>4 DEF IInv, TagsAreKept
  <1>6. CASE Notify(t)
    <2>1. /\ stop[t] = "notify" /\ stop' = [stop EXCEPT ![t] = "close"]
          /\ core_shutdown' = TRUE /\ requested' = None
          /\ failed' = [m \in Methods |-> failed[m] + requested[m]]
          /\ crashed' = Closed
          /\ Closed => notifying' = notifying
          /\ ~Closed => notifying' = notifying + 1
          /\ UNCHANGED <<shutdown_, arrived, leaked, cq_shutdown, stops>>
      BY <1>6 DEF Notify
    <2>2. /\ stop' \in [Stoppers -> {"idle", "checked", "notify", "close"}]
          /\ stop'[t] = "close" /\ \A u \in Stoppers \ {t} : stop'[u] = stop[u]
          /\ Cardinality(Stopping(stop')) = Cardinality(Stopping(stop))
      BY <1>3, <2>1
    <2>3. StopBooks'
      <3>1. shutdown_ /\ UNCHANGED <<shutdown_, cq_shutdown, stops>> /\ core_shutdown'
        BY <1>0, <2>1 DEF StopBooks
      <3> QED BY <1>0, <2>2, <3>1 DEF StopBooks
    <2>5. /\ requested' \in [Methods -> 0..1] /\ failed' \in [Methods -> 0..1]
          /\ \A m \in Methods : requested'[m] = 0 /\ failed'[m] = failed[m] + requested[m]
      <3>1. \A m \in Methods : failed[m] + requested[m] \in 0..1
        BY TagFacts
      <3> QED BY <2>1, <3>1, NoneFacts
    <2>6. TypeOK'
      <3>1. notifying' \in Nat /\ crashed' \in BOOLEAN
        BY <1>0, <2>1 DEF TypeOK, Closed
      <3> QED BY <1>0, <2>1, <2>2, <2>5, <3>1 DEF TypeOK
    <2>7. OneTagPerMethod'
      <3>1. ASSUME NEW m \in Methods
            PROVE  requested'[m] + arrived'[m] + failed'[m] + leaked'[m]
                     = requested[m] + arrived[m] + failed[m] + leaked[m]
        BY <1>0, <2>5, TagFacts
      <3>2. Closed => Closed'
        BY <2>1 DEF Closed
      <3> QED BY <1>0, <3>1, <3>2 DEF OneTagPerMethod, HasHandle
    <2> QED BY <1>1, <2>3, <2>6, <2>7 DEF IInv, TagsAreKept
  <1>7. CASE Close(t)
    <2>1. /\ stop[t] = "close" /\ cq_shutdown' = TRUE /\ stop' = [stop EXCEPT ![t] = "idle"]
          /\ UNCHANGED <<shutdown_, crashed, requested, failed, core_shutdown, notifying, stops>>
      BY <1>7 DEF Close, ShutdownQueue, tags
    <2>2. /\ stop' \in [Stoppers -> {"idle", "checked", "notify", "close"}]
          /\ stop'[t] = "idle" /\ \A u \in Stoppers \ {t} : stop'[u] = stop[u]
          /\ Cardinality(Stopping(stop)) = Cardinality(Stopping(stop')) + 1
      BY <1>3, <2>1
    <2>3. StopBooks'
      <3>1. shutdown_' /\ core_shutdown' /\ Cardinality(Stopping(stop')) < stops'
        BY <1>0, <1>2, <2>1, <2>2 DEF StopBooks
      <3> QED BY <1>2, <2>1, <3>1 DEF StopBooks
    <2>4. TypeOK'
      BY <1>0, <2>1, <2>2 DEF TypeOK
    <2>5. OneTagPerMethod'
      BY <1>0, <2>1 DEF OneTagPerMethod, HasHandle, Closed
    <2> QED BY <1>1, <2>3, <2>4, <2>5 DEF IInv, TagsAreKept
  <1> QED BY <1>0, <1>4, <1>5, <1>6, <1>7

\* A call takes its tag, ends, or was the last one of a server that stops.
LEMMA CallsPreserveIInv ==
  ASSUME IInv, ~crashed, (\E m \in Methods : CallArrives(m)) \/ CallFinishes \/ ShutdownCompletes
  PROVE  IInv'
  <1>0. /\ UNCHANGED <<service_map_, listening, started_, shutdown_, run, todo, current, stop, crashed,
                       failed, leaked, core_started, core_shutdown, cq_shutdown, stops, foreign>>
        /\ TypeOK /\ OneTagPerMethod
    BY DEF CallArrives, CallFinishes, ShutdownCompletes, load, setup, flags, tags, core, IInv, TagsAreKept
  <1>1. RunBooks' /\ StopBooks'
    BY <1>0, StopFrame DEF IInv, RunBooks, HasHandle
  <1>2. ASSUME NEW m \in Methods, CallArrives(m)
        PROVE  IInv'
    <2>1. /\ requested[m] > 0 /\ calls < MaxCalls /\ calls' = calls + 1 /\ UNCHANGED <<live, notifying, notified>>
          /\ requested' = Remove(requested, m) /\ arrived' = Add(arrived, m)
          /\ requested \in [Methods -> 0..1] /\ arrived \in [Methods -> 0..1]
          /\ MaxCalls \in Nat /\ calls \in Nat /\ live \in Nat
      BY <1>0, <1>2, ServerAssumption DEF CallArrives, core, TypeOK
    <2>2. arrived[m] = 0
      BY <2>1, TagFacts
    <2>3. /\ requested' \in [Methods -> 0..1] /\ arrived' \in [Methods -> 0..1]
          /\ requested[m] = 1 /\ requested'[m] = 0 /\ arrived'[m] = 1
          /\ \A x \in Methods \ {m} : requested'[x] = requested[x] /\ arrived'[x] = arrived[x]
      BY <2>1, <2>2, AddFacts, RemoveFacts
    <2>4. CallBooks'
      <3>1. Cardinality(Waiting(arrived')) = Cardinality(Waiting(arrived)) + 1
        BY <2>2, <2>3, WaitingFacts
      <3>2. Cardinality(Waiting(arrived)) \in Nat
        BY WaitingFacts
      <3> QED BY <2>1, <3>1, <3>2 DEF IInv, CallBooks
    <2>5. TypeOK'
      BY <1>0, <2>1, <2>3 DEF TypeOK
    <2>6. OneTagPerMethod'
      <3>1. ASSUME NEW x \in Methods
            PROVE  requested'[x] + arrived'[x] + failed'[x] + leaked'[x]
                     = requested[x] + arrived[x] + failed[x] + leaked[x]
        <4>1. CASE x = m
          BY <1>0, <2>2, <2>3, <4>1, TagFacts
        <4>2. CASE x # m
          BY <1>0, <2>3, <4>2
        <4> QED BY <4>1, <4>2
      <3>2. ~Closed
        BY <2>3, NoneFacts DEF Closed
      <3> QED BY <1>0, <3>1, <3>2 DEF OneTagPerMethod, HasHandle
    <2> QED BY <1>1, <2>4, <2>5, <2>6 DEF IInv, TagsAreKept
  <1>3. CASE CallFinishes
    <2>1. /\ live > 0 /\ live' = live - 1 /\ UNCHANGED <<requested, arrived, notifying, notified, calls>>
          /\ live \in 0..MaxCalls /\ MaxCalls \in Nat /\ calls \in Nat
      <3>1. live \in 0..MaxCalls /\ MaxCalls \in Nat /\ calls \in Nat
        BY <1>0, ServerAssumption DEF TypeOK
      <3>2. live > 0
        BY <1>3, <3>1 DEF CallFinishes
      <3> QED BY <1>3, <3>1, <3>2 DEF CallFinishes, core, tags
    <2>2. CallBooks'
      <3>1. Cardinality(Waiting(arrived)) \in Nat
        BY WaitingFacts
      <3> QED BY <2>1, <3>1 DEF IInv, CallBooks
    <2>3. TypeOK'
      BY <1>0, <2>1 DEF TypeOK
    <2>4. OneTagPerMethod'
      BY <1>0, <2>1, TagFrame DEF tags
    <2> QED BY <1>1, <2>2, <2>3, <2>4 DEF IInv, TagsAreKept
  <1>4. CASE ShutdownCompletes
    <2>1. /\ notifying > 0 /\ notifying' = notifying - 1 /\ notified' = notified + 1
          /\ UNCHANGED <<requested, arrived, live, calls>>
          /\ notifying \in Nat /\ notified \in Nat
      BY <1>0, <1>4 DEF ShutdownCompletes, tags, load, setup, TypeOK
    <2>2. TypeOK'
      BY <1>0, <2>1 DEF TypeOK
    <2>3. ~Closed
      BY <2>1 DEF Closed
    <2>4. OneTagPerMethod'
      BY <1>0, <2>1, <2>3 DEF OneTagPerMethod, HasHandle
    <2> QED BY <1>1, <2>1, <2>2, <2>4, CallFrame DEF IInv, TagsAreKept
  <1> QED BY <1>2, <1>3, <1>4

\* Every step preserves it.
LEMMA NextPreservesIInv ==
  ASSUME IInv, [Next]_vars
  PROVE  IInv'
  <1>1. CASE UNCHANGED vars
    <2>1. UNCHANGED <<service_map_, listening, started_, shutdown_, run, todo, current, stop, crashed,
                      requested, arrived, failed, leaked, core_started, core_shutdown, cq_shutdown,
                      notifying, notified, live, calls, stops, foreign>>
      BY <1>1 DEF vars, load, setup, flags, tags, core
    <2> QED BY <2>1, TagFrame, StopFrame, CallFrame
         DEF IInv, TagsAreKept, TypeOK, tags, RunBooks, HasHandle
  <1>2. CASE Next
    BY <1>2, SetUpPreservesIInv, StartPreservesIInv, HandlePreservesIInv, HandlerReturnsPreservesIInv,
       FailPreservesIInv, EndPreservesIInv, ShutdownPreservesIInv, CallsPreserveIInv DEF Next
  <1> QED BY <1>1, <1>2

-----------------------------------------------------------------------------
\* The inductive invariant holds in every state of a server.
THEOREM Invariance == Spec => []IInv
  <1>1. Init => IInv
    BY InitEstablishesIInv
  <1>2. IInv /\ [Next]_vars => IInv'
    BY NextPreservesIInv
  <1> QED BY <1>1, <1>2, PTL DEF Spec

\* Whenever Shutdown() comes, a method keeps exactly one tag, or the one its
\* handler is about to renew (ServerMethodCallCqTag::DoComplete()).
THEOREM OneTag == Spec => []TagsAreKept
  <1>1. IInv => TagsAreKept
    BY DEF IInv
  <1> QED BY <1>1, Invariance, PTL

\* A second stopper is there if a notice finds the queue closed: the first was
\* counted, and has left.
LEMMA ClosedHasTwo ==
  ASSUME IInv, Closed, NEW t \in Stoppers, stop[t] = "notify"
  PROVE  stops > 1
  <1>1. Cardinality(Stopping(stop)) < stops
    BY DEF Closed, IInv, StopBooks
  <1>2. Cardinality(Stopping(stop)) # 0
    <2>1. t \in Stopping(stop) /\ IsFiniteSet(Stopping(stop))
      BY StoppingFacts DEF Stopping
    <2> QED BY <2>1, FS_EmptySet
  <1>3. Cardinality(Stopping(stop)) \in Nat /\ stops \in Nat
    BY StoppingFacts DEF IInv, TagsAreKept, TypeOK
  <1> QED BY <1>1, <1>2, <1>3

\* A request that grpc refuses is the one way it can kill the process.
LEMMA RequestDies ==
  ASSUME IInv, ~crashed, NEW m \in Methods, leaked[m] = 0, NEW f, Request(m, f), crashed'
  PROVE  DiesOfRefusal
  <1>1. Closed /\ leaked' = Add(leaked, m)
    BY DEF Request
  <1>2. leaked \in [Methods -> 0..1]
    BY DEF IInv, TagsAreKept, TypeOK
  <1>3. leaked' # leaked
    BY <1>1, <1>2, AddFacts
  <1> QED BY <1>1, <1>3 DEF DiesOfRefusal, Closed

\* A step of a live server that kills it is one of the four.
LEMMA DeathsAreKnown ==
  ASSUME IInv, Next, crashed'
  PROVE  DiesOfNotice \/ DiesOfRefusal \/ DiesOfSecondStop \/ DiesUnrun
  <1>0. ~crashed
    BY DEF Next
  <1>1. CASE RequestMethodsCalls
    <2>1. PICK m \in todo : Request(m, failed)
      BY <1>0, <1>1 DEF RequestMethodsCalls
    <2>2. m \in Methods
      BY <2>1 DEF IInv, TagsAreKept, TypeOK
    <2> QED BY <1>0, <2>1, <2>2, TagFacts, RequestDies
  <1>2. CASE HandlerReturns
    <2>1. run = "handling" /\ Request(current, failed)
      BY <1>2 DEF HandlerReturns, Rearm
    <2>2. current \in Methods
      BY <2>1 DEF IInv, RunBooks, TagsAreKept, TypeOK
    <2> QED BY <1>0, <2>1, <2>2, TagFacts, RequestDies
  <1>3. ASSUME NEW m \in Methods, Fail(m)
        PROVE  DiesOfRefusal
    <2>1. failed[m] > 0 /\ Request(m, Remove(failed, m))
      BY <1>3 DEF Fail
    <2> QED BY <1>0, <2>1, TagFacts, RequestDies
  <1>4. CASE PopNotice
    <2>1. foreign \in Nat /\ foreign' = foreign + 1
      BY <1>4 DEF PopNotice, IInv, TagsAreKept, TypeOK
    <2> QED BY <2>1 DEF DiesOfNotice
  <1>5. CASE Destroy
    <2>1. run \in {"off", "returned"} /\ listening /\ ~core_shutdown
      BY <1>5 DEF Destroy
    <2> QED BY <1>5, <2>1 DEF DiesUnrun, IInv, RunBooks
  <1>6. ASSUME NEW t \in Stoppers, Shutdown(t)
        PROVE  DiesOfSecondStop
    <2>1. Notify(t)
      BY <1>0, <1>6 DEF Shutdown, Check, SetFlag, Close
    <2>2. stop[t] = "notify" /\ Closed
      BY <2>1 DEF Notify
    <2> QED BY <2>1, <2>2, ClosedHasTwo DEF DiesOfSecondStop
  <1>7. CASE \/ SetUp \/ RunReturns \/ CallFinishes \/ ShutdownCompletes
             \/ \E m \in Methods : Handle(m) \/ CallArrives(m)
    BY <1>0, <1>7 DEF SetUp, RunReturns, CallFinishes, ShutdownCompletes, Handle, CallArrives
  <1>8. CASE RunStarts \/ CoreStarts
    BY <1>0, <1>8 DEF RunStarts, CoreStarts
  <1> QED BY <1>1, <1>2, <1>3, <1>4, <1>5, <1>6, <1>7, <1>8 DEF Next, Start

\* Stopping and destroying a server kills the process only if the notice was
\* popped as a tag, a request for the next call was refused by a queue that is
\* closed, two stoppers passed the tests, or a bound port was never served.
THEOREM SafeStop == Spec => StopIsSafe
  <1>1. IInv /\ [Next]_vars
          => [crashed' => DiesOfNotice \/ DiesOfRefusal \/ DiesOfSecondStop \/ DiesUnrun]_vars
    BY DeathsAreKnown
  <1> QED BY <1>1, Invariance, PTL DEF Spec, StopIsSafe
=============================================================================
