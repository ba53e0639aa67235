-------------------------- MODULE ServiceStubProofs --------------------------
(***************************************************************************)
(* Proofs about ServiceStub for any set of threads and any bound on the    *)
(* requests.                                                               *)
(***************************************************************************)
EXTENDS ServiceStub, TLAPS, SequenceTheorems

\* Where a request is decides how its batch ended; the caller of
\* SyncRequest() hears of everything.
RequestOk(q) ==
  /\ q.at \in {"pending", "refused"} => q.result = "none"
  /\ q.at = "completed" => q.result \in Results
  /\ ~q.async => q.callbacks = Callbacks
RequestBooks == \A r \in DOMAIN requests : RequestOk(requests[r])

\* A thread that is inside a call for a request has found it in the place it
\* is still in.
FrameOk(f, reqs) ==
  f[2] # 0 =>
    /\ f[2] \in DOMAIN reqs
    /\ f[1] = "SyncRequest" =>
         ~reqs[f[2]].async /\ reqs[f[2]].at \in {"pending", "completed"}
    /\ f[1] = "response" =>
         /\ reqs[f[2]].at = "over" /\ reqs[f[2]].result = "message"
         /\ "response" \in reqs[f[2]].callbacks
    /\ f[1] = "error" => reqs[f[2]].at \in {"over", "refused"}
FrameBooks == \A t \in Threads : \A i \in DOMAIN stack[t] : FrameOk(stack[t][i], requests)

\* A Run() that has returned left a queue behind that takes nothing any more.
RunBooks == run_ended => Drained

\* The inductive invariant: the checked ones and the books.
IInv == ToldOnce /\ RequestBooks /\ FrameBooks /\ RunBooks

-----------------------------------------------------------------------------
\* What the told of one request must be, result by result.
ToldRight(q) ==
  /\ q.at \notin {"over", "refused"} => q.told = <<>>
  /\ q.at \in {"over", "refused"} =>
       /\ q.result = "message" =>
            q.told = IF "response" \in q.callbacks THEN <<"response">> ELSE <<>>
       /\ q.result = "rejected" =>
            q.told = (IF "response" \in q.callbacks THEN <<"response">> ELSE <<>>)
                       \o (IF "error" \in q.callbacks THEN <<"error">> ELSE <<>>)
       /\ q.result \notin {"message", "rejected"} =>
            q.told = IF "error" \in q.callbacks THEN <<"error">> ELSE <<>>

LEMMA ConcatFacts ==
  /\ <<>> \o <<>> = <<>>
  /\ \A c \in Callbacks : <<c>> \o <<>> = <<c>> /\ <<>> \o <<c>> = <<c>>
  /\ <<"response">> \o <<"error">> = <<"response", "error">>
  /\ Append(<<"response">>, "error") = <<"response", "error">>
  /\ \A c \in Callbacks : Append(<<>>, c) = <<c>>
  <1>1. /\ <<>> \in Seq(Callbacks) /\ \A c \in Callbacks : <<c>> \in Seq(Callbacks)
        /\ "response" \in Callbacks /\ "error" \in Callbacks
    BY DEF Callbacks
  <1>2. /\ <<>> \o <<>> = <<>>
        /\ \A c \in Callbacks : <<c>> \o <<>> = <<c>> /\ <<>> \o <<c>> = <<c>>
    BY <1>1, ConcatEmptySeq
  <1> DEFINE s == <<"response">> \o <<"error">>
             t == Append(<<"response">>, "error")
             u == <<"response", "error">>
  <1>3. /\ <<"response">> \in Seq(Callbacks) /\ <<"error">> \in Seq(Callbacks)
        /\ Len(<<"response">>) = 1 /\ Len(<<"error">>) = 1
        /\ <<"response">>[1] = "response" /\ <<"error">>[1] = "error"
    BY <1>1
  <1>4. u \in Seq(Callbacks) /\ Len(u) = 2 /\ u[1] = "response" /\ u[2] = "error"
    BY <1>1
  <1>5. s \in Seq(Callbacks) /\ Len(s) = 2 /\ s[1] = "response" /\ s[2] = "error"
    BY <1>3, ConcatProperties
  <1>6. t \in Seq(Callbacks) /\ Len(t) = 2 /\ t[1] = "response" /\ t[2] = "error"
    BY <1>1, <1>3, AppendProperties
  <1> HIDE DEF s, t, u
  <1>7. /\ \A i \in 1..Len(s) : s[i] = u[i]
        /\ \A i \in 1..Len(t) : t[i] = u[i]
    BY <1>4, <1>5, <1>6
  <1>8. s = u /\ t = u
    BY <1>4, <1>5, <1>6, <1>7, SeqEqual
  <1>9. \A c \in Callbacks : Append(<<>>, c) = <<c>>
    OBVIOUS
  <1>. QED
    BY <1>2, <1>8, <1>9 DEF s, t, u

LEMMA ToldFacts ==
  /\ VerdictsTold <=> \A r \in DOMAIN requests : ToldRight(requests[r])
  /\ VerdictsTold' <=> \A r \in DOMAIN requests' : ToldRight(requests'[r])
  <1>1. ASSUME NEW r \in DOMAIN requests
        PROVE  (requests[r].told =
                  IF IsOver(r) THEN Hears(r, "response") \o Hears(r, "error") ELSE <<>>)
                 <=> ToldRight(requests[r])
    <2> DEFINE q == requests[r]
    <2>1. CASE q.result = "message"
      BY <2>1, ConcatFacts DEF IsOver, Hears, Verdict, ToldRight, Callbacks
    <2>2. CASE q.result = "rejected"
      BY <2>2, ConcatFacts DEF IsOver, Hears, Verdict, ToldRight, Callbacks
    <2>3. CASE q.result \notin {"message", "rejected"}
      BY <2>3, ConcatFacts DEF IsOver, Hears, Verdict, ToldRight, Callbacks
    <2>. QED
      BY <2>1, <2>2, <2>3
  <1>2. ASSUME NEW r \in DOMAIN requests'
        PROVE  (requests'[r].told =
                  IF IsOver(r)' THEN Hears(r, "response")' \o Hears(r, "error")' ELSE <<>>)
                 <=> ToldRight(requests'[r])
    <2> DEFINE q == requests'[r]
    <2>1. CASE q.result = "message"
      BY <2>1, ConcatFacts DEF IsOver, Hears, Verdict, ToldRight, Callbacks
    <2>2. CASE q.result = "rejected"
      BY <2>2, ConcatFacts DEF IsOver, Hears, Verdict, ToldRight, Callbacks
    <2>3. CASE q.result \notin {"message", "rejected"}
      BY <2>3, ConcatFacts DEF IsOver, Hears, Verdict, ToldRight, Callbacks
    <2>. QED
      BY <2>1, <2>2, <2>3
  <1>. QED
    BY <1>1, <1>2 DEF VerdictsTold

-----------------------------------------------------------------------------
\* The calls a thread can be inside.
LEMMA FrameFacts ==
  /\ <<"Run", 0>> \in Frame
  /\ \A r \in 1..MaxRequests :
       \A call \in {"response", "error", "SyncRequest"} : <<call, r>> \in Frame
  /\ \A f \in Frame : f[2] \in Nat /\ (f[2] = 0 => f[1] = "Run") /\ (f[2] # 0 => f[1] # "Run")
  BY StubAssumption DEF Frame

\* A call entered is the new last one.
LEMMA PushFacts ==
  ASSUME NEW s \in Seq(Frame), NEW f \in Frame
  PROVE  /\ Append(s, f) \in Seq(Frame)
         /\ \A i \in DOMAIN Append(s, f) :
              \/ i = Len(s) + 1 /\ Append(s, f)[i] = f
              \/ i \in DOMAIN s /\ Append(s, f)[i] = s[i]
  <1>1. /\ Append(s, f) \in Seq(Frame) /\ Len(Append(s, f)) = Len(s) + 1
        /\ Append(s, f)[Len(s) + 1] = f
        /\ \A i \in 1..Len(s) : Append(s, f)[i] = s[i]
    BY AppendProperties
  <1>2. Len(s) \in Nat /\ DOMAIN s = 1..Len(s) /\ DOMAIN Append(s, f) = 1..(Len(s) + 1)
    BY <1>1, LenProperties
  <1>. QED
    BY <1>1, <1>2

\* The call left is the last one.
LEMMA PopFacts ==
  ASSUME NEW s \in Seq(Frame), s # <<>>
  PROVE  /\ Front(s) \in Seq(Frame)
         /\ Last(s) \in Frame /\ Len(s) \in DOMAIN s /\ Last(s) = s[Len(s)]
         /\ \A i \in DOMAIN Front(s) : i \in DOMAIN s /\ i # Len(s) /\ Front(s)[i] = s[i]
  <1>1. Len(s) \in Nat /\ Len(s) # 0 /\ DOMAIN s = 1..Len(s)
    BY EmptySeq, LenProperties
  <1>2. Len(s) \in DOMAIN s /\ Last(s) = s[Len(s)]
    BY <1>1 DEF Last
  <1>3. Last(s) \in Frame
    BY <1>1, <1>2, ElementOfSeq
  <1>4. Front(s) = [i \in 1..(Len(s) - 1) |-> s[i]]
    BY DEF Front
  <1>5. \A i \in 1..(Len(s) - 1) : i \in 1..Len(s) /\ i # Len(s)
    <2> DEFINE n == Len(s)
    <2>1. n \in Nat
      BY <1>1
    <2> HIDE DEF n
    <2>2. \A i \in 1..(n - 1) : i \in 1..n /\ i # n
      BY <2>1
    <2>. QED
      BY <2>2 DEF n
  <1>6. \A i \in 1..Len(s) : s[i] \in Frame
    BY <1>1, ElementOfSeq
  <1>7. Front(s) \in Seq(Frame)
    <2>1. Len(s) - 1 \in Nat
      BY <1>1
    <2>. QED
      BY <2>1, <1>4, <1>5, <1>6
  <1>. QED
    BY <1>1, <1>2, <1>3, <1>4, <1>5, <1>7

-----------------------------------------------------------------------------
\* A request made is the next one.
LEMMA MakeFacts ==
  ASSUME TypeOK, New <= MaxRequests,
         NEW async \in BOOLEAN, NEW callbacks \in SUBSET Callbacks,
         NEW at \in {"refused", "pending"}, NEW told \in {<<>>, <<"error">>},
         MakeSharedCall(async, callbacks, at, told)
  PROVE  /\ requests' \in Seq(Request) /\ Len(requests') <= MaxRequests
         /\ New \in DOMAIN requests' /\ New \notin DOMAIN requests
         /\ New \in 1..MaxRequests
         /\ DOMAIN requests \subseteq DOMAIN requests'
         /\ requests'[New] =
              [async |-> async, callbacks |-> callbacks, deadline |-> call_timeout_ms,
               at |-> at, result |-> "none", told |-> told]
         /\ \A q \in DOMAIN requests' :
              q = New \/ (q \in DOMAIN requests /\ requests'[q] = requests[q])
  <1> DEFINE q == [async |-> async, callbacks |-> callbacks, deadline |-> call_timeout_ms,
                   at |-> at, result |-> "none", told |-> told]
  <1>1. told \in {<<>>, <<"response">>, <<"error">>, <<"response", "error">>}
    OBVIOUS
  <1>2. requests \in Seq(Request) /\ q \in Request
    <2> HIDE <1>1
    <2> DEFINE T == {<<>>, <<"response">>, <<"error">>, <<"response", "error">>}
    <2>1. told \in T
      BY <1>1
    <2> HIDE DEF T
    <2>2. Request = [async : BOOLEAN, callbacks : SUBSET Callbacks,
                     deadline : {"finite", "infinite"},
                     at : {"refused", "pending", "completed", "over"},
                     result : Results \cup {"none", "rejected"}, told : T]
      BY DEF Request, T
    <2>. QED
      BY <2>1, <2>2 DEF TypeOK
  <1>3. requests' = Append(requests, q)
    BY DEF MakeSharedCall
  <1> HIDE DEF q
  <1>4. /\ requests' \in Seq(Request) /\ Len(requests') = Len(requests) + 1
        /\ requests'[Len(requests) + 1] = q
        /\ \A i \in 1..Len(requests) : requests'[i] = requests[i]
    BY <1>2, <1>3, AppendProperties
  <1>5. /\ Len(requests) \in Nat /\ DOMAIN requests = 1..Len(requests)
        /\ DOMAIN requests' = 1..(Len(requests) + 1)
    BY <1>2, <1>4, LenProperties
  <1>6. New = Len(requests) + 1 /\ MaxRequests \in Nat
    BY StubAssumption DEF New
  <1>7. New \in DOMAIN requests' /\ New \notin DOMAIN requests /\ New \in 1..MaxRequests
    BY <1>5, <1>6
  <1>8. \A p \in DOMAIN requests' :
          p = New \/ (p \in DOMAIN requests /\ requests'[p] = requests[p])
    BY <1>4, <1>5, <1>6
  <1>9. DOMAIN requests \subseteq DOMAIN requests'
    BY <1>5
  <1>10. Len(requests') <= MaxRequests
    BY <1>4, <1>6
  <1>. QED
    BY <1>4, <1>6, <1>7, <1>8, <1>9, <1>10 DEF q

\* A request that is edited stays where it is.
LEMMA EditFacts ==
  ASSUME TypeOK, NEW r \in DOMAIN requests, NEW q \in Request,
         requests' = [requests EXCEPT ![r] = q]
  PROVE  /\ requests' \in Seq(Request) /\ Len(requests') <= MaxRequests
         /\ DOMAIN requests' = DOMAIN requests /\ r \in 1..MaxRequests
         /\ requests'[r] = q
         /\ \A p \in DOMAIN requests' : p = r \/ requests'[p] = requests[p]
  <1>1. requests \in Seq(Request) /\ Len(requests) <= MaxRequests
    BY DEF TypeOK
  <1>2. Len(requests) \in Nat /\ DOMAIN requests = 1..Len(requests)
    BY <1>1, LenProperties
  <1>3. requests' \in Seq(Request) /\ Len(requests') = Len(requests)
    BY <1>1, <1>2, ExceptSeq
  <1>. QED
    BY <1>1, <1>2, <1>3, StubAssumption

-----------------------------------------------------------------------------
\* A step edits or makes the request r at most, and thread t enters at most the
\* call f, at k; every other call that a thread is inside is for a request that
\* is left alone.
Edits(r) ==
  /\ DOMAIN requests \subseteq DOMAIN requests'
  /\ \A q \in DOMAIN requests' :
       q = r \/ (q \in DOMAIN requests /\ requests'[q] = requests[q])
Enters(t, k, f, r) ==
  \A u \in Threads : \A i \in DOMAIN stack'[u] :
    \/ u = t /\ i = k /\ stack'[u][i] = f
    \/ i \in DOMAIN stack[u] /\ stack'[u][i] = stack[u][i] /\ stack[u][i][2] # r

LEMMA FrameStep ==
  ASSUME FrameBooks, OneThreadEach, NEW r, NEW t, NEW k, NEW f,
         Edits(r), Enters(t, k, f, r), f[2] \in {0, r}, FrameOk(f, requests')
  PROVE  FrameBooks' /\ OneThreadEach'
  <1>1. ASSUME NEW u \in Threads, NEW i \in DOMAIN stack'[u]
        PROVE  FrameOk(stack'[u][i], requests')
    <2>1. CASE u = t /\ i = k /\ stack'[u][i] = f
      BY <2>1
    <2>2. CASE i \in DOMAIN stack[u] /\ stack'[u][i] = stack[u][i] /\ stack[u][i][2] # r
      <3> DEFINE g == stack[u][i]
      <3>1. FrameOk(g, requests)
        BY <2>2 DEF FrameBooks
      <3> HIDE DEF g
      <3>2. CASE g[2] = 0
        BY <3>2, <2>2 DEF FrameOk, g
      <3>3. CASE g[2] # 0
        <4>1. g[2] \in DOMAIN requests /\ g[2] # r
          BY <3>1, <3>3, <2>2 DEF FrameOk, g
        <4>2. g[2] \in DOMAIN requests' /\ requests'[g[2]] = requests[g[2]]
          BY <4>1 DEF Edits
        <4>3. FrameOk(g, requests')
          BY <3>1, <4>1, <4>2 DEF FrameOk
        <4>. QED
          BY <4>3, <2>2 DEF g
      <3>. QED
        BY <3>2, <3>3
    <2>. QED
      BY <2>1, <2>2 DEF Enters
  <1>2. ASSUME NEW u \in Threads, NEW v \in Threads,
               NEW i \in DOMAIN stack'[u], NEW j \in DOMAIN stack'[v],
               stack'[u][i][2] = stack'[v][j][2], stack'[u][i][2] # 0
        PROVE  u = v /\ i = j
    <2>1. \/ u = t /\ i = k /\ stack'[u][i] = f
          \/ i \in DOMAIN stack[u] /\ stack'[u][i] = stack[u][i] /\ stack[u][i][2] # r
      BY DEF Enters
    <2>2. \/ v = t /\ j = k /\ stack'[v][j] = f
          \/ j \in DOMAIN stack[v] /\ stack'[v][j] = stack[v][j] /\ stack[v][j][2] # r
      BY DEF Enters
    <2>3. CASE stack'[u][i] = f \/ stack'[v][j] = f
      BY <1>2, <2>1, <2>2, <2>3
    <2>4. CASE stack'[u][i] # f /\ stack'[v][j] # f
      BY <1>2, <2>1, <2>2, <2>4 DEF OneThreadEach
    <2>. QED
      BY <2>3, <2>4
  <1>. QED
    BY <1>1, <1>2 DEF FrameBooks, OneThreadEach

\* No call is for a request that is not there, nor for one that is not
\* asynchronous and waits nowhere.
LEMMA Free ==
  ASSUME FrameBooks, NEW u \in Threads, NEW i \in DOMAIN stack[u], NEW r, r # 0,
         \/ r \notin DOMAIN requests
         \/ requests[r].async /\ requests[r].at = "completed",
         stack[u][i] \in Frame
  PROVE  stack[u][i][2] # r
  <1> DEFINE g == stack[u][i]
  <1>1. FrameOk(g, requests)
    BY DEF FrameBooks
  <1>2. g \in Frame
    OBVIOUS
  <1> HIDE DEF g
  <1>3. g[2] # 0 => g[1] \in {"response", "error", "SyncRequest"}
    BY <1>2 DEF Frame
  <1>4. g[2] # r
    BY <1>1, <1>3 DEF FrameOk
  <1>. QED
    BY <1>4 DEF g

\* The requests' part of the invariant, when r is the one that may change.
LEMMA RequestStep ==
  ASSUME RequestBooks, VerdictsTold, RunBooks, NEW r, Edits(r),
         r \in DOMAIN requests' => RequestOk(requests'[r]) /\ ToldRight(requests'[r]),
         run_ended' => (run_ended \/ Drained) /\ cq_shutdown',
         Drained => \/ r \notin DOMAIN requests'
                    \/ ~requests'[r].async
                    \/ requests'[r].at \notin {"pending", "completed"}
  PROVE  RequestBooks' /\ VerdictsTold' /\ RunBooks'
  <1>1. \A q \in DOMAIN requests' : RequestOk(requests'[q]) /\ ToldRight(requests'[q])
    BY ToldFacts DEF RequestBooks, Edits
  <1>2. RequestBooks' /\ VerdictsTold'
    BY <1>1, ToldFacts DEF RequestBooks
  <1>3. ASSUME run_ended' PROVE Drained'
    <2>1. Drained /\ cq_shutdown'
      BY <1>3 DEF RunBooks
    <2>2. \A q \in DOMAIN requests :
            requests[q].async => requests[q].at \notin {"pending", "completed"}
      BY <2>1 DEF Drained, Closed, AsyncIn
    <2>3. \A q \in DOMAIN requests' :
            requests'[q].async => requests'[q].at \notin {"pending", "completed"}
      BY <2>1, <2>2 DEF Edits
    <2>. QED
      BY <2>1, <2>3 DEF Drained, Closed, AsyncIn
  <1>. QED
    BY <1>2, <1>3 DEF RunBooks

\* A thread keeps these of its calls, and nobody keeps one for r.
Keeps(t, calls, r) ==
  /\ calls \in Seq(Frame)
  /\ \A i \in DOMAIN calls :
       i \in DOMAIN stack[t] /\ calls[i] = stack[t][i] /\ stack[t][i][2] # r
  /\ \A u \in Threads \ {t} : \A i \in DOMAIN stack[u] : stack[u][i][2] # r

\* It is then inside these, or enters f as well.
Holds(t, calls, f) ==
  \/ stack' = [stack EXCEPT ![t] = calls]
  \/ stack' = [stack EXCEPT ![t] = Append(calls, f)]

\* The calls of t after it has left or kept the last one, and entered f or none.
LEMMA StackStep ==
  ASSUME TypeOK, NEW t \in Threads, NEW calls, NEW r, NEW f \in Frame,
         Keeps(t, calls, r),
         Holds(t, calls, f)
  PROVE  /\ stack' \in [Threads -> Seq(Frame)]
         /\ Enters(t, Len(calls) + 1, f, r)
  <1>1. /\ stack \in [Threads -> Seq(Frame)] /\ calls \in Seq(Frame)
        /\ \A i \in DOMAIN calls :
             i \in DOMAIN stack[t] /\ calls[i] = stack[t][i] /\ stack[t][i][2] # r
        /\ \A u \in Threads \ {t} : \A i \in DOMAIN stack[u] : stack[u][i][2] # r
    BY DEF TypeOK, Keeps
  <1> DEFINE more == Append(calls, f)
  <1>2. /\ more \in Seq(Frame)
        /\ \A i \in DOMAIN more :
             \/ i = Len(calls) + 1 /\ more[i] = f
             \/ i \in DOMAIN calls /\ more[i] = calls[i]
    BY <1>1, PushFacts
  <1> HIDE DEF more
  <1>3. CASE stack' = [stack EXCEPT ![t] = calls]
    <2>1. stack'[t] = calls /\ \A u \in Threads \ {t} : stack'[u] = stack[u]
      BY <1>1, <1>3
    <2>2. stack' \in [Threads -> Seq(Frame)]
      BY <1>1, <1>3
    <2>. QED
      BY <1>1, <2>1, <2>2 DEF Enters
  <1>4. CASE stack' = [stack EXCEPT ![t] = more]
    <2>1. stack'[t] = more /\ \A u \in Threads \ {t} : stack'[u] = stack[u]
      BY <1>1, <1>4
    <2>2. stack' \in [Threads -> Seq(Frame)]
      BY <1>1, <1>2, <1>4
    <2>. QED
      BY <1>1, <1>2, <2>1, <2>2 DEF Enters
  <1>. QED
    BY <1>3, <1>4 DEF Holds, more

\* Nobody is inside a call for a request that is yet to be made, nor for one
\* that Run() can take.
LEMMA NoCallFacts ==
  ASSUME TypeOK, FrameBooks, NEW t \in Threads
  PROVE  /\ New \notin DOMAIN requests /\ New \in Nat \ {0} /\ 0 \notin DOMAIN requests
         /\ Keeps(t, stack[t], New)
         /\ \A r \in DOMAIN requests :
              requests[r].async /\ requests[r].at = "completed" => Keeps(t, stack[t], r)
  <1>1. requests \in Seq(Request) /\ stack \in [Threads -> Seq(Frame)]
    BY DEF TypeOK
  <1>2. DOMAIN requests = 1..Len(requests) /\ Len(requests) \in Nat
    BY <1>1, LenProperties
  <1>3. New \notin DOMAIN requests /\ New \in Nat \ {0} /\ 0 \notin DOMAIN requests
    BY <1>2 DEF New
  <1>4. \A u \in Threads : \A i \in DOMAIN stack[u] : stack[u][i] \in Frame
    <2>1. \A u \in Threads : stack[u] \in Seq(Frame)
      BY <1>1
    <2>. QED
      BY <2>1, LenProperties, ElementOfSeq
  <1>5. Keeps(t, stack[t], New)
    BY <1>1, <1>3, <1>4, Free DEF Keeps
  <1>6. ASSUME NEW r \in DOMAIN requests, requests[r].async, requests[r].at = "completed"
        PROVE  Keeps(t, stack[t], r)
    BY <1>1, <1>3, <1>4, <1>6, Free DEF Keeps
  <1>. QED
    BY <1>3, <1>5, <1>6

\* What the last call of t is; when t leaves it, nobody is left inside a call
\* for that request.
LEMMA TopFacts ==
  ASSUME TypeOK, FrameBooks, OneThreadEach, NEW t \in Threads, stack[t] # <<>>
  PROVE  /\ Last(stack[t]) \in Frame /\ FrameOk(Last(stack[t]), requests)
         /\ Top(t) = 0 => Keeps(t, Front(stack[t]), New)
         /\ Top(t) # 0 => Keeps(t, Front(stack[t]), Top(t))
  <1> DEFINE s == stack[t]
             n == Len(s)
  <1>1. s \in Seq(Frame) /\ s # <<>>
    BY DEF TypeOK
  <1>2. /\ Front(s) \in Seq(Frame)
        /\ Last(s) \in Frame /\ n \in DOMAIN s /\ Last(s) = s[n]
        /\ \A i \in DOMAIN Front(s) : i \in DOMAIN s /\ i # n /\ Front(s)[i] = s[i]
    BY <1>1, PopFacts
  <1> HIDE DEF n
  <1>3. FrameOk(Last(s), requests) /\ Top(t) = s[n][2]
    BY <1>2 DEF FrameBooks, Top
  <1>4. Top(t) # 0 => Keeps(t, Front(s), Top(t))
    BY <1>2, <1>3 DEF OneThreadEach, Keeps
  <1>5. Keeps(t, Front(s), New)
    BY <1>2, NoCallFacts DEF Keeps
  <1>. QED
    BY <1>2, <1>3, <1>4, <1>5

\* A step after which the process lives preserves the invariant when what it
\* does to its request and to its thread is right.
LEMMA StepFacts ==
  ASSUME IInv, NEW r, NEW t \in Threads, NEW calls, NEW f \in Frame,
         Keeps(t, calls, r),
         Holds(t, calls, f),
         f[2] \in {0, r}, FrameOk(f, requests'),
         Edits(r), requests' \in Seq(Request), Len(requests') <= MaxRequests,
         r \in DOMAIN requests' => RequestOk(requests'[r]) /\ ToldRight(requests'[r]),
         run_ended' => (run_ended \/ Drained) /\ cq_shutdown',
         Drained => \/ r \notin DOMAIN requests'
                    \/ ~requests'[r].async
                    \/ requests'[r].at \notin {"pending", "completed"},
         call_timeout_ms' \in {"finite", "infinite"},
         cq_shutdown' \in BOOLEAN, crashed' = FALSE, run_ended' \in BOOLEAN
  PROVE  IInv'
  <1>1. /\ TypeOK /\ VerdictsTold /\ OneThreadEach
        /\ RequestBooks /\ FrameBooks /\ RunBooks
    BY DEF IInv, ToldOnce
  <1>2. stack' \in [Threads -> Seq(Frame)] /\ Enters(t, Len(calls) + 1, f, r)
    BY <1>1, StackStep
  <1>3. FrameBooks' /\ OneThreadEach'
    BY <1>1, <1>2, FrameStep
  <1>4. RequestBooks' /\ VerdictsTold' /\ RunBooks'
    BY <1>1, RequestStep
  <1>5. TypeOK'
    BY <1>2 DEF TypeOK
  <1>6. KnownDeaths'
    BY DEF KnownDeaths
  <1>. QED
    BY <1>3, <1>4, <1>5, <1>6 DEF IInv, ToldOnce

\* The same for a step that makes a request, and enters a call for it or none.
LEMMA MakeStep ==
  ASSUME IInv, NEW t \in Threads, ~crashed, New <= MaxRequests,
         NEW async \in BOOLEAN, NEW callbacks \in SUBSET Callbacks,
         NEW at \in {"refused", "pending"}, NEW told \in {<<>>, <<"error">>},
         MakeSharedCall(async, callbacks, at, told),
         ~async => callbacks = Callbacks,
         at = "pending" => told = <<>>,
         at = "refused" => told = IF "error" \in callbacks THEN <<"error">> ELSE <<>>,
         async /\ at = "pending" => ~Closed,
         NEW call \in {"error", "SyncRequest"},
         \/ UNCHANGED stack
         \/ /\ Enter(t, call, New)
            /\ call = "SyncRequest" => ~async /\ at = "pending"
            /\ call = "error" => at = "refused",
         UNCHANGED <<call_timeout_ms, cq_shutdown, crashed, run_ended>>
  PROVE  IInv'
  <1>1. /\ TypeOK /\ OneThreadEach /\ FrameBooks /\ RunBooks
    BY DEF IInv, ToldOnce
  <1>2. /\ requests' \in Seq(Request) /\ Len(requests') <= MaxRequests
        /\ New \in DOMAIN requests' /\ New \notin DOMAIN requests
        /\ New \in 1..MaxRequests
        /\ DOMAIN requests \subseteq DOMAIN requests'
        /\ requests'[New] =
             [async |-> async, callbacks |-> callbacks, deadline |-> call_timeout_ms,
              at |-> at, result |-> "none", told |-> told]
        /\ \A q \in DOMAIN requests' :
             q = New \/ (q \in DOMAIN requests /\ requests'[q] = requests[q])
    BY <1>1, MakeFacts
  <1>3. /\ requests'[New].async = async /\ requests'[New].callbacks = callbacks
        /\ requests'[New].at = at /\ requests'[New].result = "none"
        /\ requests'[New].told = told
    BY <1>2
  <1>4. RequestOk(requests'[New])
    BY <1>3 DEF RequestOk
  <1>5. ToldRight(requests'[New])
    BY <1>3 DEF ToldRight
  <1>6. Keeps(t, stack[t], New)
    BY <1>1, NoCallFacts
  <1>7. /\ stack \in [Threads -> Seq(Frame)] /\ crashed' = FALSE
        /\ stack[t] \in Seq(Frame)
        /\ call_timeout_ms' \in {"finite", "infinite"}
        /\ cq_shutdown' \in BOOLEAN
    BY <1>1 DEF TypeOK
  <1>8. run_ended' \in BOOLEAN
    BY <1>1 DEF TypeOK
  <1>9. run_ended' => (run_ended \/ Drained) /\ cq_shutdown'
    BY <1>1 DEF RunBooks, Drained, Closed
  <1>10. Drained => ~requests'[New].async \/ requests'[New].at \notin {"pending", "completed"}
    BY <1>3 DEF Drained
  <1>11. Edits(New)
    BY <1>2 DEF Edits
  <1>12. requests' \in Seq(Request) /\ Len(requests') <= MaxRequests
    BY <1>2
  <1>13. CASE UNCHANGED stack
    <2> DEFINE f == <<"Run", 0>>
    <2>1. f \in Frame /\ f[2] \in {0, New}
      BY FrameFacts
    <2>2. FrameOk(f, requests')
      BY DEF FrameOk
    <2>3. Holds(t, stack[t], f)
      BY <1>7, <1>13 DEF Holds
    <2> HIDE DEF f
    <2>. QED
      BY <2>1, <2>2, <2>3, <1>4, <1>5, <1>6, <1>7, <1>8, <1>9, <1>10, <1>11, <1>12,
         StepFacts
  <1>14. CASE /\ Enter(t, call, New)
              /\ call = "SyncRequest" => ~async /\ at = "pending"
              /\ call = "error" => at = "refused"
    <2> DEFINE f == <<call, New>>
    <2>1. f \in Frame /\ f[2] \in {0, New}
      BY <1>2, FrameFacts
    <2>2. FrameOk(f, requests')
      BY <1>2, <1>3, <1>14 DEF FrameOk
    <2>3. Holds(t, stack[t], f)
      BY <1>14 DEF Enter, Holds
    <2> HIDE DEF f
    <2>. QED
      BY <2>1, <2>2, <2>3, <1>4, <1>5, <1>6, <1>7, <1>8, <1>9, <1>10, <1>11, <1>12,
         StepFacts
  <1>. QED
    BY <1>13, <1>14

\* The same for a step that touches neither: the process may die of what is
\* known, and the queue may be shut down.
LEMMA StillStep ==
  ASSUME IInv, UNCHANGED <<requests, stack>>,
         call_timeout_ms' \in {"finite", "infinite"},
         cq_shutdown' \in BOOLEAN, cq_shutdown => cq_shutdown',
         crashed' \in BOOLEAN,
         crashed' => \/ crashed
                     \/ Closed
                     \/ \E r \in DOMAIN requests :
                          requests[r].at = "completed" /\ requests[r].result = "no message",
         run_ended' = run_ended
  PROVE  IInv'
  <1>1. (Closed => Closed') /\ (Drained => Drained')
    BY DEF Closed, Drained, AsyncIn
  <1>2. TypeOK'
    BY DEF TypeOK, IInv, ToldOnce
  <1>3. KnownDeaths'
    BY <1>1 DEF KnownDeaths, IInv, ToldOnce
  <1>4. VerdictsTold'
    BY ToldFacts DEF IInv, ToldOnce
  <1>5. RunBooks'
    BY <1>1 DEF RunBooks, IInv
  <1>6. RequestBooks' /\ FrameBooks' /\ OneThreadEach'
    BY ZenonT(60) DEF RequestBooks, FrameBooks, OneThreadEach, IInv, ToldOnce
  <1>. QED
    BY <1>2, <1>3, <1>4, <1>5, <1>6 DEF IInv, ToldOnce

LEMMA SyncRequestStep ==
  ASSUME IInv, ~crashed, NEW t \in Threads, SyncRequest(t) PROVE IInv'
  <1>1. CASE MakeSharedCall(FALSE, Callbacks, "refused", <<"error">>) /\ UNCHANGED stack
    <2>1. "error" \in Callbacks /\ Callbacks \in SUBSET Callbacks
      BY DEF Callbacks
    <2>. QED
      BY <1>1, <2>1, MakeStep DEF SyncRequest, MayRequest
  <1>2. CASE MakeSharedCall(FALSE, Callbacks, "pending", <<>>) /\ Enter(t, "SyncRequest", New)
    BY <1>2, MakeStep DEF SyncRequest, MayRequest
  <1>. QED
    BY <1>1, <1>2 DEF SyncRequest

LEMMA AsyncRequestStep ==
  ASSUME IInv, ~crashed, NEW t \in Threads, NEW callbacks \in SUBSET Callbacks,
         AsyncRequest(t, callbacks)
  PROVE  IInv'
  <1>1. CASE AsyncStarts(callbacks)
    BY <1>1, MakeStep DEF AsyncStarts, AsyncRequest, MayRequest
  <1>2. CASE AsyncIsRefused(t, callbacks)
    <2>1. CASE /\ "error" \in callbacks
               /\ MakeSharedCall(TRUE, callbacks, "refused", <<"error">>)
               /\ Enter(t, "error", New)
      BY <1>2, <2>1, MakeStep DEF AsyncIsRefused, AsyncRequest, MayRequest
    <2>2. CASE /\ "error" \notin callbacks
               /\ MakeSharedCall(TRUE, callbacks, "refused", <<>>)
               /\ UNCHANGED stack
      BY <1>2, <2>2, MakeStep DEF AsyncIsRefused, AsyncRequest, MayRequest
    <2>. QED
      BY <1>2, <2>1, <2>2 DEF AsyncIsRefused
  <1>3. CASE AsyncAborts
    <2>1. /\ Closed /\ crashed' = TRUE /\ UNCHANGED <<requests, stack>>
          /\ UNCHANGED <<call_timeout_ms, cq_shutdown, run_ended>>
      BY <1>3 DEF AsyncAborts, AsyncRequest
    <2>2. call_timeout_ms \in {"finite", "infinite"} /\ cq_shutdown \in BOOLEAN
      BY DEF IInv, ToldOnce, TypeOK
    <2>. QED
      BY <2>1, <2>2, StillStep
  <1>. QED
    BY <1>1, <1>2, <1>3 DEF AsyncRequest

\* The same for a step that ends the request r, and leaves or enters a call.
LEMMA EndStep ==
  ASSUME IInv, ~crashed, NEW t \in Threads, NEW r \in DOMAIN requests,
         NEW q \in Request, requests' = [requests EXCEPT ![r] = q],
         q.at = "over", RequestOk(q), ToldRight(q),
         NEW calls, Keeps(t, calls, r),
         NEW f \in Frame, f[2] \in {0, r}, FrameOk(f, requests'), Holds(t, calls, f),
         UNCHANGED <<call_timeout_ms, cq_shutdown, crashed, run_ended>>
  PROVE  IInv'
  <1>1. TypeOK /\ RunBooks
    BY DEF IInv, ToldOnce
  <1>2. /\ requests' \in Seq(Request) /\ Len(requests') <= MaxRequests
        /\ DOMAIN requests' = DOMAIN requests /\ requests'[r] = q
        /\ \A p \in DOMAIN requests' : p = r \/ requests'[p] = requests[p]
    BY <1>1, EditFacts
  <1>3. requests' \in Seq(Request) /\ Len(requests') <= MaxRequests
    BY <1>2
  <1>4. RequestOk(requests'[r]) /\ ToldRight(requests'[r])
    BY <1>2
  <1>5. /\ crashed' = FALSE /\ call_timeout_ms' \in {"finite", "infinite"}
        /\ cq_shutdown' \in BOOLEAN
    BY <1>1 DEF TypeOK
  <1>6. run_ended' \in BOOLEAN
    BY <1>1 DEF TypeOK
  <1>7. run_ended' => (run_ended \/ Drained) /\ cq_shutdown'
    BY <1>1 DEF RunBooks, Drained, Closed
  <1>8. requests'[r].at \notin {"pending", "completed"}
    BY <1>2
  <1>9. Edits(r)
    BY <1>2 DEF Edits
  <1>. QED
    BY <1>3, <1>4, <1>5, <1>6, <1>7, <1>8, <1>9, StepFacts

\* The same for a step that leaves the requests alone.
LEMMA CallStep ==
  ASSUME IInv, ~crashed, NEW t \in Threads, NEW r, NEW calls, Keeps(t, calls, r),
         Holds(t, calls, <<"Run", 0>>),
         run_ended' \in BOOLEAN, run_ended' => run_ended \/ Drained,
         UNCHANGED <<call_timeout_ms, requests, cq_shutdown, crashed>>
  PROVE  IInv'
  <1>1. TypeOK /\ RequestBooks /\ RunBooks /\ VerdictsTold
    BY DEF IInv, ToldOnce
  <1> DEFINE f == <<"Run", 0>>
  <1>2. f \in Frame /\ f[2] \in {0, r}
    BY FrameFacts
  <1>3. FrameOk(f, requests')
    BY DEF FrameOk
  <1>4. Edits(r)
    BY DEF Edits
  <1>5. requests' \in Seq(Request) /\ Len(requests') <= MaxRequests
    BY <1>1 DEF TypeOK
  <1>6. r \in DOMAIN requests' => RequestOk(requests'[r]) /\ ToldRight(requests'[r])
    BY <1>1, ToldFacts DEF RequestBooks
  <1>7. Drained => \/ r \notin DOMAIN requests'
                   \/ ~requests'[r].async
                   \/ requests'[r].at \notin {"pending", "completed"}
    BY DEF Drained, Closed, AsyncIn
  <1>8. /\ call_timeout_ms' \in {"finite", "infinite"}
        /\ cq_shutdown' \in BOOLEAN /\ crashed' = FALSE
    BY <1>1 DEF TypeOK
  <1>9. run_ended' => (run_ended \/ Drained) /\ cq_shutdown'
    BY <1>1 DEF RunBooks, Drained, Closed
  <1>10. Holds(t, calls, f)
    OBVIOUS
  <1> HIDE DEF f
  <1>. QED
    BY <1>2, <1>3, <1>4, <1>5, <1>6, <1>7, <1>8, <1>9, <1>10, StepFacts

LEMMA RunStep ==
  ASSUME IInv, ~crashed, NEW t \in Threads, Run(t) PROVE IInv'
  <1>1. Keeps(t, stack[t], New)
    BY NoCallFacts DEF IInv, ToldOnce
  <1>2. Holds(t, stack[t], <<"Run", 0>>)
    BY DEF Run, Enter, Holds
  <1>3. run_ended' \in BOOLEAN
    BY DEF Run, IInv, ToldOnce, TypeOK
  <1>4. run_ended' => run_ended \/ Drained
    BY DEF Run
  <1>5. UNCHANGED <<call_timeout_ms, requests, cq_shutdown, crashed>>
    BY DEF Run
  <1>. QED
    BY <1>1, <1>2, <1>3, <1>4, <1>5, CallStep

LEMMA RunReturnsStep ==
  ASSUME IInv, ~crashed, NEW t \in Threads, RunReturns(t) PROVE IInv'
  <1>1. /\ stack[t] # <<>> /\ Drained /\ run_ended' = TRUE
        /\ stack' = [stack EXCEPT ![t] = Front(stack[t])]
        /\ UNCHANGED <<call_timeout_ms, requests, cq_shutdown, crashed>>
    BY DEF RunReturns, In, QueueIsDrained, Leave
  <1>2. \E r : Keeps(t, Front(stack[t]), r)
    BY <1>1, TopFacts DEF IInv, ToldOnce
  <1>3. Holds(t, Front(stack[t]), <<"Run", 0>>)
    BY <1>1 DEF Holds
  <1>. QED
    BY <1>1, <1>2, <1>3, CallStep

\* A callback that returns, when nothing follows.
LEMMA ReturnStep ==
  ASSUME IInv, ~crashed, NEW t \in Threads, stack[t] # <<>>, Leave(t),
         UNCHANGED <<call_timeout_ms, requests, cq_shutdown, crashed, run_ended>>
  PROVE  IInv'
  <1>1. \E r : Keeps(t, Front(stack[t]), r)
    BY TopFacts DEF IInv, ToldOnce
  <1>2. Holds(t, Front(stack[t]), <<"Run", 0>>)
    BY DEF Leave, Holds
  <1>3. run_ended' \in BOOLEAN
    BY DEF IInv, ToldOnce, TypeOK
  <1>4. run_ended' => run_ended \/ Drained
    OBVIOUS
  <1>. QED
    BY <1>1, <1>2, <1>3, <1>4, CallStep

-----------------------------------------------------------------------------
\* What a request may have been told.
Tolds == {<<>>, <<"response">>, <<"error">>, <<"response", "error">>}

LEMMA RequestSet ==
  Request = [async : BOOLEAN, callbacks : SUBSET Callbacks,
             deadline : {"finite", "infinite"},
             at : {"refused", "pending", "completed", "over"},
             result : Results \cup {"none", "rejected"}, told : Tolds]
  BY DEF Request, Tolds

\* Run() tells a request what it waited for.
LEMMA TellStep ==
  ASSUME IInv, ~crashed, NEW t \in Threads, NEW r \in DOMAIN requests,
         NEW calls, Keeps(t, calls, r), NEW callback \in Callbacks,
         NEW result \in Results \cup {"rejected"},
         \/ /\ requests[r].at = "completed" /\ result \in Results
            /\ result = "message" <=> callback = "response"
         \/ /\ requests[r].at = "over" /\ requests[r].result = "message"
            /\ "response" \in requests[r].callbacks
            /\ result = "rejected" /\ callback = "error",
         Tell(t, calls, r, callback, result),
         UNCHANGED <<call_timeout_ms, cq_shutdown, crashed, run_ended>>
  PROVE  IInv'
  <1> DEFINE p == requests[r]
             given == callback \in p.callbacks
             told == IF given THEN Append(p.told, callback) ELSE p.told
             q == [p EXCEPT !.at = "over", !.result = result, !.told = told]
             f == IF given THEN <<callback, r>> ELSE <<"Run", 0>>
  <1>1. /\ TypeOK /\ RequestOk(p) /\ ToldRight(p)
    BY ToldFacts DEF IInv, ToldOnce, RequestBooks
  <1>2. requests \in Seq(Request) /\ p \in Request
    BY <1>1, LenProperties, ElementOfSeq DEF TypeOK
  <1>3. p.told = IF p.at = "completed" THEN <<>> ELSE <<"response">>
    BY <1>1 DEF ToldRight
  <1>4. told = IF p.at = "completed"
                 THEN IF callback \in p.callbacks THEN <<callback>> ELSE <<>>
                 ELSE IF "error" \in p.callbacks THEN <<"response", "error">> ELSE <<"response">>
    BY <1>3, ConcatFacts DEF Callbacks
  <1>5. told \in Tolds
    BY <1>4 DEF Callbacks, Tolds
  <1>6. requests' = [requests EXCEPT ![r] = q]
    BY <1>2 DEF Tell
  <1>7. Holds(t, calls, f)
    BY DEF Tell, Holds
  <1> HIDE DEF told, q
  <1>8. /\ q \in Request /\ q.at = "over" /\ q.result = result /\ q.told = told
        /\ q.async = p.async /\ q.callbacks = p.callbacks
    <2>1. q = [p EXCEPT !.at = "over", !.result = result, !.told = told] /\ p \in Request
      BY <1>2 DEF q
    <2> HIDE DEF p
    <2>. QED
      BY <1>5, <2>1, RequestSet
  <1>9. RequestOk(q)
    BY <1>1, <1>8 DEF RequestOk
  <1>10. ToldRight(q)
    <2>1. CASE /\ p.at = "completed" /\ result \in Results
               /\ result = "message" <=> callback = "response"
      <3>1. CASE callback = "response"
        BY <1>4, <1>8, <2>1, <3>1 DEF ToldRight
      <3>2. CASE callback = "error"
        BY <1>4, <1>8, <2>1, <3>2 DEF ToldRight, Results
      <3>. QED
        BY <3>1, <3>2 DEF Callbacks
    <2>2. CASE /\ p.at = "over" /\ "response" \in p.callbacks /\ result = "rejected"
      <3>1. told = IF "error" \in p.callbacks THEN <<"response", "error">> ELSE <<"response">>
        BY <1>4, <2>2
      <3>2. told = <<"response">> \o (IF "error" \in p.callbacks THEN <<"error">> ELSE <<>>)
        BY <3>1, ConcatFacts DEF Callbacks
      <3>. QED
        BY <1>8, <2>2, <3>2 DEF ToldRight
    <2>. QED
      BY <2>1, <2>2
  <1>11. requests'[r] = q /\ DOMAIN requests' = DOMAIN requests /\ r \in 1..MaxRequests
    BY <1>1, <1>6, <1>8, EditFacts
  <1>12. f \in Frame /\ f[2] \in {0, r}
    BY <1>11, FrameFacts DEF Callbacks
  <1>13. FrameOk(f, requests')
    BY <1>8, <1>11 DEF FrameOk, Callbacks
  <1> HIDE DEF f
  <1>14. q \in Request /\ q.at = "over"
    BY <1>8
  <1>. QED
    BY <1>6, <1>7, <1>9, <1>10, <1>12, <1>13, <1>14, EndStep

LEMMA DoCompleteStep ==
  ASSUME IInv, ~crashed, NEW t \in Threads, NEW r \in DOMAIN requests, DoComplete(t, r)
  PROVE  IInv'
  <1> DEFINE p == requests[r]
  <1>1. TypeOK /\ FrameBooks /\ RequestOk(p)
    BY DEF IInv, ToldOnce, RequestBooks
  <1>2. p.async /\ p.at = "completed" /\ p.result \in Results
    BY <1>1 DEF DoComplete, RequestOk
  <1>3. CASE ResponseIsNull(r) /\ crashed' = TRUE /\ UNCHANGED <<requests, stack>>
    <2>1. /\ p.result = "no message"
          /\ UNCHANGED <<call_timeout_ms, cq_shutdown, run_ended>>
      BY <1>3 DEF DoComplete, ResponseIsNull
    <2>2. call_timeout_ms \in {"finite", "infinite"} /\ cq_shutdown \in BOOLEAN
      BY <1>1 DEF TypeOK
    <2>. QED
      BY <1>2, <1>3, <2>1, <2>2, StillStep
  <1>4. CASE /\ ~ResponseIsNull(r) /\ UNCHANGED crashed
             /\ Tell(t, stack[t], r, IF ResponseIsRead(r) THEN "response" ELSE "error",
                     requests[r].result)
    <2> DEFINE callback == IF ResponseIsRead(r) THEN "response" ELSE "error"
               result == p.result
    <2>1. callback \in Callbacks /\ (result = "message" <=> callback = "response")
      BY DEF Callbacks, ResponseIsRead
    <2>2. Tell(t, stack[t], r, callback, result)
      BY <1>4
    <2>3. Keeps(t, stack[t], r)
      BY <1>1, <1>2, NoCallFacts
    <2>4. UNCHANGED <<call_timeout_ms, cq_shutdown, crashed, run_ended>>
      BY <1>4 DEF DoComplete
    <2>5. result \in Results
      BY <1>2
    <2> HIDE DEF callback, result
    <2>. QED
      BY <1>2, <2>1, <2>2, <2>3, <2>4, <2>5, TellStep
  <1>. QED
    BY <1>3, <1>4 DEF DoComplete

LEMMA CallbackReturnsStep ==
  ASSUME IInv, ~crashed, NEW t \in Threads, CallbackReturns(t) PROVE IInv'
  <1>1. CASE In(t, "response") /\ Accept(t)
    BY <1>1, ReturnStep DEF CallbackReturns, In, Accept
  <1>2. CASE In(t, "error") /\ Leave(t) /\ UNCHANGED requests
    BY <1>2, ReturnStep DEF CallbackReturns, In
  <1>3. CASE In(t, "response") /\ Reject(t)
    <2> DEFINE r == Top(t)
               f == Last(stack[t])
    <2>1. stack[t] # <<>> /\ f[1] = "response" /\ f[2] = r
      BY <1>3 DEF In, Top
    <2>2. /\ f \in Frame /\ FrameOk(f, requests)
          /\ r # 0 => Keeps(t, Front(stack[t]), r)
      BY <2>1, TopFacts DEF IInv, ToldOnce
    <2> HIDE DEF r, f
    <2>3. f[2] # 0
      BY <2>1, <2>2, FrameFacts
    <2>4. /\ r \in DOMAIN requests /\ requests[r].at = "over"
          /\ requests[r].result = "message" /\ "response" \in requests[r].callbacks
      BY <2>1, <2>2, <2>3 DEF FrameOk
    <2>5. Tell(t, Front(stack[t]), r, "error", "rejected")
      BY <1>3 DEF Reject, r
    <2>6. Keeps(t, Front(stack[t]), r)
      BY <2>1, <2>2, <2>3
    <2>7. UNCHANGED <<call_timeout_ms, cq_shutdown, crashed, run_ended>>
      BY DEF CallbackReturns
    <2>. QED
      BY <2>4, <2>5, <2>6, <2>7, TellStep DEF Callbacks
  <1>. QED
    BY <1>1, <1>2, <1>3 DEF CallbackReturns

LEMMA SyncRequestReturnsStep ==
  ASSUME IInv, ~crashed, NEW t \in Threads, SyncRequestReturns(t) PROVE IInv'
  <1> DEFINE r == Top(t)
             f == Last(stack[t])
             p == requests[r]
  <1>1. TypeOK /\ RequestBooks
    BY DEF IInv, ToldOnce
  <1>2. stack[t] # <<>> /\ f[1] = "SyncRequest" /\ f[2] = r
    BY DEF SyncRequestReturns, In, Top
  <1>3. /\ f \in Frame /\ FrameOk(f, requests)
        /\ r # 0 => Keeps(t, Front(stack[t]), r)
    BY <1>2, TopFacts DEF IInv, ToldOnce
  <1>4. p.at = "completed"
    BY DEF SyncRequestReturns, Plucked
  <1>5. /\ UNCHANGED <<call_timeout_ms, cq_shutdown, run_ended>>
        /\ \/ ResponseIsNull(r) /\ crashed' = TRUE /\ UNCHANGED <<requests, stack>>
           \/ /\ ~ResponseIsNull(r) /\ Leave(t) /\ UNCHANGED crashed
              /\ requests' = [requests EXCEPT ![r].at = "over",
                   ![r].told = <<IF ResponseIsRead(r) THEN "response" ELSE "error">>]
    BY DEF SyncRequestReturns
  <1> HIDE DEF r, f
  <1>6. f[2] # 0
    BY <1>2, <1>3, FrameFacts
  <1>7. r \in DOMAIN requests /\ ~p.async
    BY <1>2, <1>3, <1>6 DEF FrameOk
  <1>8. RequestOk(p)
    BY <1>1, <1>7 DEF RequestBooks
  <1>9. CASE ResponseIsNull(r) /\ crashed' = TRUE /\ UNCHANGED <<requests, stack>>
    <2>1. p.result = "no message"
      BY <1>9 DEF ResponseIsNull
    <2>2. call_timeout_ms \in {"finite", "infinite"} /\ cq_shutdown \in BOOLEAN
      BY <1>1 DEF TypeOK
    <2>. QED
      BY <1>4, <1>5, <1>7, <1>9, <2>1, <2>2, StillStep
  <1>10. CASE /\ ~ResponseIsNull(r) /\ Leave(t) /\ UNCHANGED crashed
              /\ requests' = [requests EXCEPT ![r].at = "over",
                   ![r].told = <<IF ResponseIsRead(r) THEN "response" ELSE "error">>]
    <2> DEFINE told == <<IF ResponseIsRead(r) THEN "response" ELSE "error">>
               q == [p EXCEPT !.at = "over", !.told = told]
               g == <<"Run", 0>>
    <2>1. told = IF p.result = "message" THEN <<"response">> ELSE <<"error">>
      BY DEF ResponseIsRead
    <2>2. told \in Tolds
      BY <2>1 DEF Tolds
    <2>3. requests \in Seq(Request) /\ p \in Request
      BY <1>1, <1>7, LenProperties, ElementOfSeq DEF TypeOK
    <2>4. requests' = [requests EXCEPT ![r] = q]
      BY <1>10
    <2> HIDE DEF told
    <2>5. /\ q \in Request /\ q.at = "over" /\ q.told = told /\ q.result = p.result
          /\ q.async = p.async /\ q.callbacks = p.callbacks
      <3> HIDE DEF p
      <3>. QED
        BY <2>2, <2>3, RequestSet
    <2> HIDE DEF q
    <2>6. RequestOk(q)
      BY <1>8, <2>5 DEF RequestOk
    <2>7. q.callbacks = Callbacks /\ q.result \in Results
      BY <1>4, <1>7, <1>8, <2>5 DEF RequestOk
    <2>8. ToldRight(q)
      BY <2>1, <2>5, <2>7 DEF ToldRight, Callbacks, Results
    <2>9. Holds(t, Front(stack[t]), g)
      BY <1>10 DEF Leave, Holds
    <2>10. g \in Frame /\ g[2] \in {0, r}
      BY FrameFacts
    <2>11. FrameOk(g, requests')
      BY DEF FrameOk
    <2> HIDE DEF g
    <2>12. Keeps(t, Front(stack[t]), r)
      BY <1>2, <1>3, <1>6
    <2>13. q \in Request /\ q.at = "over"
      BY <2>5
    <2>14. UNCHANGED <<call_timeout_ms, cq_shutdown, crashed, run_ended>>
      BY <1>5, <1>10
    <2>. QED
      BY <1>7, <2>4, <2>6, <2>8, <2>9, <2>10, <2>11, <2>12, <2>13, <2>14, EndStep
  <1>. QED
    BY <1>5, <1>9, <1>10

LEMMA EndsStep ==
  ASSUME IInv, ~crashed, NEW r \in DOMAIN requests, NEW result \in Results, Ends(r, result)
  PROVE  IInv'
  <1> DEFINE p == requests[r]
             q == [p EXCEPT !.at = "completed", !.result = result]
  <1>1. /\ TypeOK /\ FrameBooks /\ RunBooks /\ RequestBooks /\ OneThreadEach
        /\ RequestOk(p) /\ ToldRight(p) /\ VerdictsTold
    BY ToldFacts DEF IInv, ToldOnce, RequestBooks
  <1>2. p.at = "pending" /\ UNCHANGED <<call_timeout_ms, stack, cq_shutdown, crashed, run_ended>>
    BY DEF Ends
  <1>3. requests \in Seq(Request) /\ p \in Request
    BY <1>1, LenProperties, ElementOfSeq DEF TypeOK
  <1>4. requests' = [requests EXCEPT ![r] = q]
    BY DEF Ends
  <1>5. /\ q \in Request /\ q.at = "completed" /\ q.told = p.told /\ q.result = result
        /\ q.async = p.async /\ q.callbacks = p.callbacks
    <2> HIDE DEF p
    <2>. QED
      BY <1>3, RequestSet
  <1> HIDE DEF q
  <1>6. RequestOk(q)
    BY <1>1, <1>5 DEF RequestOk
  <1>7. ToldRight(q)
    BY <1>1, <1>2, <1>5 DEF ToldRight
  <1>8. /\ requests' \in Seq(Request) /\ Len(requests') <= MaxRequests
        /\ DOMAIN requests' = DOMAIN requests /\ requests'[r] = q
        /\ \A s \in DOMAIN requests' : s = r \/ requests'[s] = requests[s]
    BY <1>1, <1>4, <1>5, EditFacts
  <1>9. Drained => ~q.async
    BY <1>2, <1>5 DEF Drained, Closed, AsyncIn
  <1>10. RequestBooks' /\ VerdictsTold' /\ RunBooks'
    <2>1. Edits(r)
      BY <1>8 DEF Edits
    <2>2. RequestOk(requests'[r]) /\ ToldRight(requests'[r])
      BY <1>6, <1>7, <1>8
    <2>3. Drained => ~requests'[r].async
      BY <1>8, <1>9
    <2>4. run_ended' => (run_ended \/ Drained) /\ cq_shutdown'
      BY <1>1, <1>2 DEF RunBooks, Drained, Closed
    <2>. QED
      BY <1>1, <2>1, <2>2, <2>3, <2>4, RequestStep
  <1>11. FrameBooks'
    <2>1. ASSUME NEW u \in Threads, NEW i \in DOMAIN stack[u]
          PROVE  FrameOk(stack[u][i], requests')
      <3> DEFINE f == stack[u][i]
      <3>1. FrameOk(f, requests)
        BY <1>1 DEF FrameBooks
      <3> HIDE DEF f
      <3>2. f[2] = r => FrameOk(f, requests')
        BY <1>2, <1>5, <1>8, <3>1 DEF FrameOk
      <3>3. f[2] # r => FrameOk(f, requests')
        BY <1>8, <3>1 DEF FrameOk
      <3>4. FrameOk(f, requests')
        BY <3>2, <3>3
      <3>. QED
        BY <3>4 DEF f
    <2>. QED
      BY <1>2, <2>1 DEF FrameBooks
  <1>12. OneThreadEach'
    BY <1>1, <1>2 DEF OneThreadEach
  <1>13. TypeOK'
    BY <1>1, <1>2, <1>8 DEF TypeOK
  <1>14. KnownDeaths'
    BY <1>2 DEF KnownDeaths
  <1>. QED
    BY <1>10, <1>11, <1>12, <1>13, <1>14 DEF IInv, ToldOnce

-----------------------------------------------------------------------------
LEMMA Initially == Init => IInv
  <1> SUFFICES ASSUME Init PROVE IInv
    OBVIOUS
  <1>1. /\ requests = <<>> /\ crashed = FALSE /\ run_ended = FALSE /\ cq_shutdown = FALSE
        /\ stack = [t \in Threads |-> <<>>] /\ call_timeout_ms \in {"finite", "infinite"}
    BY DEF Init
  <1>2. DOMAIN requests = {} /\ \A t \in Threads : DOMAIN stack[t] = {}
    BY <1>1
  <1>3. /\ requests \in Seq(Request) /\ Len(requests) <= MaxRequests
        /\ stack \in [Threads -> Seq(Frame)]
    BY <1>1, StubAssumption
  <1>4. TypeOK
    BY <1>1, <1>3 DEF TypeOK
  <1>5. VerdictsTold /\ OneThreadEach /\ KnownDeaths
    BY <1>1, <1>2 DEF VerdictsTold, OneThreadEach, KnownDeaths
  <1>6. RequestBooks /\ FrameBooks /\ RunBooks
    BY <1>1, <1>2 DEF RequestBooks, FrameBooks, RunBooks
  <1>. QED
    BY <1>4, <1>5, <1>6 DEF IInv, ToldOnce

LEMMA Inductive == IInv /\ [Next]_vars => IInv'
  <1> SUFFICES ASSUME IInv, [Next]_vars PROVE IInv'
    OBVIOUS
  <1>1. IInv => call_timeout_ms \in {"finite", "infinite"} /\ cq_shutdown \in BOOLEAN
    BY DEF IInv, ToldOnce, TypeOK
  <1>2. IInv => crashed \in BOOLEAN
    BY DEF IInv, ToldOnce, TypeOK
  <1>3. CASE UNCHANGED vars
    BY <1>1, <1>2, <1>3, StillStep DEF vars
  <1>4. CASE Next
    <2>1. ~crashed
      BY <1>4 DEF Next
    <2>2. ASSUME NEW t \in Threads, SetCallTimeoutMs(t) PROVE IInv'
      BY <1>1, <1>2, <2>1, <2>2, StillStep DEF SetCallTimeoutMs
    <2>3. ASSUME NEW t \in Threads, Shutdown(t) PROVE IInv'
      BY <1>1, <1>2, <2>1, <2>3, StillStep DEF Shutdown
    <2>4. ASSUME NEW r \in DOMAIN requests, Answer(r) \/ DeadlineExpires(r) PROVE IInv'
      <3>1. "error status" \in Results
        BY DEF Results
      <3>. QED
        BY <2>1, <2>4, <3>1, EndsStep DEF Answer, DeadlineExpires
    <2>. QED
      BY <1>4, <2>1, <2>2, <2>3, <2>4, SyncRequestStep, RunStep, AsyncRequestStep,
         CallbackReturnsStep, SyncRequestReturnsStep, RunReturnsStep, DoCompleteStep
      DEF Next
  <1>. QED
    BY <1>3, <1>4

\* The calls of the threads and the requests stay together.
THEOREM Invariance == Spec => []IInv
  <1>. QED
    BY Initially, Inductive, PTL DEF Spec

\* Each request is told its verdict once and by one thread only, whichever
\* thread runs it, however the callbacks call the stub again: DoComplete(),
\* the callback wrapper and SyncRequest() tell nothing twice and lose nothing
\* (service_stub.cc, client_async_call_cqtag.h).  The process dies in no other
\* way than the two known ones.
THEOREM VerdictOnce == Spec => []ToldOnce
  <1>1. IInv => ToldOnce
    BY DEF IInv
  <1>. QED
    BY <1>1, Invariance, PTL

\* When Run() has returned in some thread, no asynchronous request is left
\* without its callback, not even one that another thread makes at the time
\* (Run() and Shutdown(), service_stub.cc and run.cc).
THEOREM NoneLeft == Spec => []NothingLeftBehind
  <1>1. IInv => NothingLeftBehind
    BY DEF IInv, RunBooks, Drained, Closed, AsyncIn, NothingLeftBehind
  <1>. QED
    BY <1>1, Invariance, PTL
=============================================================================
