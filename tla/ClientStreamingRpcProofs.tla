---------------------- MODULE ClientStreamingRpcProofs ----------------------
(***************************************************************************)
(* Proofs about ClientStreamingRpc for any finite set of watchers and any  *)
(* bound on the messages.                                                  *)
(***************************************************************************)
EXTENDS ClientStreamingRpc, TLAPS, FiniteSetTheorems

\* The client is in one batch at a time, each message is written once, and
\* nobody but the server's OK leaves a closed client with status OK.
ClientBooks ==
  /\ unsent => client = "write"
  /\ client = "close" => half_closed
  /\ half_closed /\ client # "close" /\ status = OK => answer = OK
  /\ wire <= writes /\ (unsent => wire < writes)
  /\ promised <= writes /\ (client = "write" /\ ~half_closed => promised < writes)

\* The call can no longer be answered with OK.
Lost == (broken /\ answer = NoStatus) \/ answer = ReplyError

\* Until the call is lost, the messages that will reach the server are those
\* for which Write() has returned, and the one it is about to return for.
WireBooks ==
  \/ Lost
  \/ /\ ~half_closed /\ client = "write" /\ ~unsent
     /\ wire = promised + 1
  \/ /\ half_closed \/ client # "write" \/ unsent
     /\ wire = promised

\* Only OnEnd() after a complete stream answers with OK: when an error led to
\* it, the reply of OnError(), or an earlier one, is noted already.
AnswerBooks ==
  /\ answer \in {NoStatus, OK, ReplyError}
  /\ answer = OK => half_closed /\ handled = wire /\ at[Reader] = "done"
  /\ at[Reader] = "end" /\ errors > 0 => replied_ /\ ~passed[Reader]
  /\ at[Reader] = "end" /\ errors = 0 =>
       broken \/ answer # NoStatus \/ (half_closed /\ reads = wire)

\* Where the reader's thread is decides what has been called.
ReaderBooks ==
  /\ reads <= wire /\ handled <= reads
  /\ ~started => at[Reader] = "idle" /\ read_tags = 0
  /\ at[Reader] = "idle" => ends = 0 /\ errors = 0
  /\ at[Reader] = "error" => ends = 0 /\ read_tags = 0 /\ errors = 1
  /\ at[Reader] \in {"end", "done"} => ends = 1 /\ read_tags = 0

\* Threads that have found replied_ unset.
Passed(f) == {t \in Repliers : f[t]}

\* None passes after the first reply: a tag of a reply for each that did.
ReplierBooks ==
  /\ \A t \in Repliers : passed[t] => at[t] \in {"error", "end"}
  /\ \A t \in Watchers : at[t] \in {"idle", "error"}
  /\ ~replied_ => reply_tags = 0
  /\ reply_tags + Cardinality(Passed(passed)) <= Cardinality(Repliers)

\* The inductive invariant: OkMeansAllHandled follows from it.
IInv ==
  /\ ReaderEndsOnce
  /\ ClientBooks
  /\ WireBooks
  /\ AnswerBooks
  /\ ReaderBooks
  /\ ReplierBooks

-----------------------------------------------------------------------------
\* The statuses are different from each other and from none.
LEMMA StatusFacts ==
  /\ OK \in Statuses /\ InternalError \in Statuses /\ ReplyError \in Statuses /\ Broken \in Statuses
  /\ OK # InternalError /\ OK # ReplyError /\ OK # Broken
  /\ NoStatus # OK /\ NoStatus # ReplyError
  BY RpcAssumption DEF Statuses, OK, InternalError, ReplyError, Broken

\* Threads that passed can be counted; one more or one less counts as one.
LEMMA PassedFacts ==
  /\ IsFiniteSet(Repliers) /\ Cardinality(Repliers) \in Nat
  /\ \A f : /\ IsFiniteSet(Passed(f)) /\ Cardinality(Passed(f)) \in Nat
            /\ Cardinality(Passed(f)) <= Cardinality(Repliers)
  /\ \A f, g : \A t \in Repliers :
       f[t] /\ ~g[t] /\ (\A u \in Repliers \ {t} : f[u] = g[u])
         => Cardinality(Passed(f)) = Cardinality(Passed(g)) + 1
  <1>1. IsFiniteSet(Repliers) /\ Cardinality(Repliers) \in Nat
    BY RpcAssumption, FS_AddElement, FS_CardinalityType DEF Repliers
  <1>2. ASSUME NEW f
        PROVE  /\ IsFiniteSet(Passed(f)) /\ Cardinality(Passed(f)) \in Nat
               /\ Cardinality(Passed(f)) <= Cardinality(Repliers)
    <2>1. Passed(f) \in SUBSET Repliers
      BY DEF Passed
    <2> QED BY <1>1, <2>1, FS_Subset, FS_CardinalityType
  <1>3. ASSUME NEW f, NEW g, NEW t \in Repliers,
               f[t], ~g[t], \A u \in Repliers \ {t} : f[u] = g[u]
        PROVE  Cardinality(Passed(f)) = Cardinality(Passed(g)) + 1
    <2>1. Passed(f) = Passed(g) \cup {t} /\ t \notin Passed(g)
      BY <1>3, Zenon DEF Passed
    <2> QED BY <1>2, <2>1, FS_AddElement
  <1> QED BY <1>1, <1>2, <1>3

\* A call that has not begun satisfies the invariant.
LEMMA InitEstablishesIInv == Init => IInv
  <1> SUFFICES ASSUME Init PROVE IInv
    OBVIOUS
  <1>1. Reader \in Repliers /\ \A t \in Repliers : at[t] = "idle" /\ passed[t] = FALSE
    BY DEF Init, Repliers
  <1>2. TypeOK
    <2>1. unsent \in BOOLEAN /\ half_closed \in BOOLEAN /\ broken \in BOOLEAN
          /\ started \in BOOLEAN /\ replied_ \in BOOLEAN
      BY DEF Init
    <2>2. /\ wire \in 0..MaxWrites /\ writes \in 0..MaxWrites /\ promised \in 0..MaxWrites
          /\ reads \in 0..MaxWrites /\ handled \in 0..MaxWrites
          /\ read_tags \in 0..1 /\ reply_tags \in 0..Cardinality(Repliers)
          /\ errors \in 0..1 /\ ends \in 0..1
      BY PassedFacts, RpcAssumption DEF Init
    <2>3. /\ at \in [Repliers -> {"idle", "error", "end", "done"}]
          /\ passed \in [Repliers -> BOOLEAN]
      BY DEF Init
    <2>4. status \in Statuses /\ client \in {"idle", "write", "close"}
          /\ answer \in Statuses \cup {NoStatus}
      BY StatusFacts DEF Init
    <2> QED BY <2>1, <2>2, <2>3, <2>4 DEF TypeOK
  <1>3. ReaderEndsOnce /\ ClientBooks /\ WireBooks /\ AnswerBooks /\ ReaderBooks
    BY <1>1, <1>2, StatusFacts
    DEF Init, ReaderEndsOnce, ClientBooks, WireBooks, AnswerBooks, ReaderBooks
  <1>4. ReplierBooks
    <2>1. Passed(passed) = {}
      BY <1>1 DEF Passed
    <2> QED BY <1>1, <2>1, PassedFacts, FS_EmptySet DEF Init, ReplierBooks, Repliers
  <1> QED BY <1>3, <1>4 DEF IInv

-----------------------------------------------------------------------------
\* A step of the client preserves it.
LEMMA ClientPreservesIInv ==
  ASSUME IInv, Client
  PROVE  IInv'
  <1>0. /\ UNCHANGED <<wire, broken, replied_, passed, answer, reply_tags, at, started, read_tags,
                       reads, handled, errors, ends>>
        /\ TypeOK /\ ClientBooks /\ WireBooks /\ AnswerBooks
        /\ Write \/ Close \/ WriteReturns \/ CloseReturnsStatus
    BY DEF Client, replier, reader, IInv, ReaderEndsOnce
  <1>1. half_closed => half_closed'
    BY <1>0 DEF Write, Close, Refused, WriteReturns, CloseReturnsStatus
  <1>2. AnswerBooks' /\ ReaderBooks' /\ ReplierBooks'
    BY <1>0, <1>1 DEF IInv, AnswerBooks, ReaderBooks, ReplierBooks
  <1>3. CASE Write
    <2>1. /\ client = "idle" /\ status = OK /\ writes < MaxWrites /\ writes' = writes + 1
          /\ ~unsent /\ UNCHANGED <<promised, half_closed>>
          /\ \/ client' = "write" /\ unsent' = TRUE /\ status' = OK
             \/ client' = "idle" /\ unsent' = FALSE /\ status' = InternalError
      BY <1>0, <1>3 DEF Write, Refused, ClientBooks, TypeOK
    <2>2. writes \in 0..MaxWrites /\ wire \in 0..MaxWrites /\ promised \in 0..MaxWrites /\ MaxWrites \in Nat
      BY <1>0, RpcAssumption DEF TypeOK
    <2>3. TypeOK'
      <3>1. writes' \in 0..MaxWrites
        BY <2>1, <2>2
      <3>2. unsent' \in BOOLEAN
        BY <2>1
      <3> QED BY <1>0, <2>1, <3>1, <3>2, StatusFacts DEF TypeOK
    <2>4. ClientBooks'
      BY <1>0, <2>1, <2>2, StatusFacts DEF ClientBooks
    <2>5. WireBooks'
      BY <1>0, <2>1 DEF WireBooks, Lost
    <2> QED BY <1>0, <1>2, <2>3, <2>4, <2>5 DEF IInv, ReaderEndsOnce
  <1>4. CASE Close
    <2>1. /\ client = "idle" /\ status = OK /\ UNCHANGED <<promised, writes, unsent>> /\ ~unsent
          /\ \/ client' = "close" /\ half_closed' = TRUE /\ status' = OK
             \/ client' = "idle" /\ half_closed' = half_closed /\ status' = InternalError
      BY <1>0, <1>4 DEF Close, Refused, ClientBooks, TypeOK
    <2>2. TypeOK'
      <3>1. half_closed' \in BOOLEAN
        BY <1>0, <2>1 DEF TypeOK
      <3> QED BY <1>0, <2>1, <3>1, StatusFacts DEF TypeOK
    <2>3. ClientBooks'
      BY <1>0, <2>1, StatusFacts DEF ClientBooks
    <2>4. WireBooks'
      BY <1>0, <2>1 DEF WireBooks, Lost
    <2> QED BY <1>0, <1>2, <2>2, <2>3, <2>4 DEF IInv, ReaderEndsOnce
  <1>5. CASE WriteReturns
    <2>1. /\ client = "write" /\ client' = "idle" /\ unsent' = FALSE
          /\ unsent => broken \/ half_closed \/ answer # NoStatus
          /\ half_closed => promised' = promised
          /\ ~half_closed => promised' = promised + 1
          /\ UNCHANGED <<status, half_closed, writes>>
      BY <1>5 DEF WriteReturns
    <2>2. writes \in 0..MaxWrites /\ wire \in 0..MaxWrites /\ promised \in 0..MaxWrites /\ MaxWrites \in Nat
      BY <1>0, RpcAssumption DEF TypeOK
    <2>3. TypeOK'
      <3>1. promised' \in 0..MaxWrites
        BY <1>0, <2>1, <2>2 DEF ClientBooks
      <3> QED BY <1>0, <2>1, <3>1 DEF TypeOK
    <2>4. ClientBooks'
      BY <1>0, <2>1, <2>2 DEF ClientBooks
    <2>5. WireBooks'
      <3>1. CASE half_closed
        BY <1>0, <2>1, <3>1 DEF WireBooks, Lost
      <3>2. CASE ~half_closed /\ unsent
        BY <1>0, <2>1, <3>2 DEF WireBooks, Lost, AnswerBooks
      <3>3. CASE ~half_closed /\ ~unsent
        BY <1>0, <2>1, <3>3 DEF WireBooks, Lost
      <3> QED BY <3>1, <3>2, <3>3
    <2> QED BY <1>0, <1>2, <2>3, <2>4, <2>5 DEF IInv, ReaderEndsOnce
  <1>6. CASE CloseReturnsStatus
    <2>1. /\ client = "close" /\ client' = "idle" /\ UNCHANGED <<unsent, half_closed, writes, promised>>
          /\ \/ status' = answer /\ answer # NoStatus
             \/ status' \in {InternalError, Broken}
      BY <1>6 DEF CloseReturnsStatus
    <2>2. TypeOK'
      <3>1. status' \in Statuses
        BY <1>0, <2>1, StatusFacts DEF TypeOK
      <3> QED BY <1>0, <2>1, <3>1 DEF TypeOK
    <2>3. ClientBooks'
      BY <1>0, <2>1, StatusFacts DEF ClientBooks
    <2>4. WireBooks'
      BY <1>0, <2>1 DEF WireBooks, Lost, ClientBooks
    <2> QED BY <1>0, <1>2, <2>2, <2>3, <2>4 DEF IInv, ReaderEndsOnce
  <1> QED BY <1>0, <1>3, <1>4, <1>5, <1>6

-----------------------------------------------------------------------------
\* What a thread that goes on leaves true of the places.
LEMMA GotoFacts ==
  ASSUME TypeOK, NEW t \in Repliers, NEW l \in {"idle", "error", "end", "done"}, Goto(t, l)
  PROVE  /\ at' \in [Repliers -> {"idle", "error", "end", "done"}]
         /\ at'[t] = l /\ \A u \in Repliers \ {t} : at'[u] = at[u]
  BY DEF Goto, TypeOK

\* A step of the reader's tags preserves it.
LEMMA ReaderPreservesIInv ==
  ASSUME IInv, ServerReader
  PROVE  IInv'
  <1>0. /\ UNCHANGED <<status, client, unsent, writes, promised, wire, half_closed, broken,
                       replied_, passed, answer, reply_tags>>
        /\ TypeOK /\ ReaderEndsOnce /\ AnswerBooks /\ ReaderBooks /\ ReplierBooks
        /\ Reader \in Repliers /\ Reader \notin Watchers
        /\ Start \/ OnRead
    BY RpcAssumption DEF ServerReader, clients, replier, IInv, ReaderEndsOnce, Repliers
  <1>1. ClientBooks' /\ WireBooks'
    BY <1>0 DEF IInv, ClientBooks, WireBooks, Lost
  <1>2. /\ read_tags \in 0..1 /\ errors \in 0..1 /\ ends \in 0..1
        /\ reads \in 0..MaxWrites /\ handled \in 0..MaxWrites /\ wire \in 0..MaxWrites
        /\ MaxWrites \in Nat
    BY <1>0, RpcAssumption DEF TypeOK
  <1>3. at[Reader] = "idle" /\ ends = 0 /\ errors = 0 /\ ~passed[Reader] /\ handled = reads
        /\ answer # OK /\ started' = TRUE
    <2>1. CASE Start
      <3>1. ~started /\ started' = TRUE
        BY <2>1 DEF Start
      <3> QED BY <1>0, <3>1 DEF ReaderEndsOnce, ReaderBooks, ReplierBooks, AnswerBooks
    <2>2. CASE OnRead
      <3>1. read_tags = 1 /\ UNCHANGED started
        BY <1>2, <2>2 DEF OnRead
      <3>2. started = TRUE
        BY <1>0, <3>1 DEF ReaderBooks, TypeOK
      <3>3. at[Reader] \in {"idle", "error", "end", "done"}
        BY <1>0 DEF TypeOK
      <3> QED BY <1>0, <1>2, <3>1, <3>2, <3>3 DEF ReaderEndsOnce, ReaderBooks, ReplierBooks, AnswerBooks
    <2> QED BY <1>0, <2>1, <2>2
  <1>P. ASSUME NEW l \in {"idle", "error", "end"},
               at' \in [Repliers -> {"idle", "error", "end", "done"}],
               at'[Reader] = l, \A u \in Repliers \ {Reader} : at'[u] = at[u],
               reads' \in Nat, reads' <= wire, handled' \in Nat, handled' <= reads',
               read_tags' = IF l = "idle" THEN 1 ELSE 0,
               errors' = IF l = "error" THEN 1 ELSE 0,
               ends' = IF l = "end" THEN 1 ELSE 0,
               handled' = reads' \/ l = "error",
               l = "end" => broken \/ answer # NoStatus \/ (half_closed /\ reads' = wire)
        PROVE  IInv'
    <2>1. TypeOK'
      <3>1. /\ read_tags' \in 0..1 /\ errors' \in 0..1 /\ ends' \in 0..1
            /\ reads' \in 0..MaxWrites /\ handled' \in 0..MaxWrites
        BY <1>2, <1>P
      <3> QED BY <1>0, <1>3, <1>P, <3>1 DEF TypeOK
    <2>2. ReaderEndsOnce' /\ ReaderBooks'
      BY <1>0, <1>3, <1>P, <2>1 DEF ReaderEndsOnce, ReaderBooks
    <2>3. AnswerBooks'
      BY <1>0, <1>3, <1>P DEF AnswerBooks
    <2>4. ReplierBooks'
      <3>1. ASSUME NEW u \in Repliers
            PROVE  /\ passed'[u] => at'[u] \in {"error", "end"}
                   /\ u \in Watchers => at'[u] \in {"idle", "error"}
        BY <1>0, <1>3, <1>P DEF ReplierBooks
      <3> QED BY <1>0, <3>1 DEF ReplierBooks, Repliers
    <2> QED BY <1>1, <2>2, <2>3, <2>4 DEF IInv
  <1>4. ASSUME reads' \in Nat, reads' <= wire, handled' \in Nat, handled' <= reads', EndOnError
        PROVE  IInv'
    <2>1. /\ at' \in [Repliers -> {"idle", "error", "end", "done"}]
          /\ at'[Reader] = "error" /\ \A u \in Repliers \ {Reader} : at'[u] = at[u]
      BY <1>0, <1>4, GotoFacts DEF EndOnError
    <2>2. errors' = 1 /\ ends' = 0 /\ read_tags' = 0
      BY <1>3, <1>4 DEF EndOnError
    <2> QED BY <1>4, <1>P, <2>1, <2>2
  <1>5. ASSUME reads' \in Nat, reads' <= wire, handled' = reads', ReadNext
        PROVE  IInv'
    <2>1. /\ at' \in [Repliers -> {"idle", "error", "end", "done"}]
          /\ at'[Reader] = "idle" /\ \A u \in Repliers \ {Reader} : at'[u] = at[u]
      BY <1>0, <1>3, <1>5 DEF ReadNext, TypeOK
    <2>2. errors' = 0 /\ ends' = 0 /\ read_tags' = 1
      BY <1>3, <1>5 DEF ReadNext
    <2>3. handled' \in Nat /\ handled' <= reads'
      BY <1>5
    <2> QED BY <1>5, <1>P, <2>1, <2>2, <2>3
  <1>6. reads \in Nat /\ reads <= wire /\ handled \in Nat /\ handled <= reads /\ handled = reads
    BY <1>0, <1>2, <1>3 DEF ReaderBooks
  <1>7. CASE Start \/ (OnRead /\ ReadFails)
    <2>1. UNCHANGED <<reads, handled>> /\ (ReadNext \/ EndOnError)
      BY <1>7 DEF Start, OnRead, ReadFails
    <2> QED BY <1>4, <1>5, <1>6, <2>1
  <1>8. CASE OnRead /\ ReadMsg
    <2>1. /\ reads' = reads + 1 /\ reads < wire /\ handled' \in {handled, handled + 1}
          /\ EndOnError \/ (ReadNext /\ handled' = handled + 1)
      BY <1>8 DEF ReadMsg
    <2>2. reads' \in Nat /\ reads' <= wire /\ handled' \in Nat /\ handled' <= reads'
      BY <1>2, <1>6, <2>1
    <2> QED BY <1>4, <1>5, <1>6, <2>1, <2>2
  <1>9. CASE OnRead /\ ReadEnd
    <2>1. /\ broken \/ answer # NoStatus \/ (half_closed /\ reads = wire)
          /\ Goto(Reader, "end") /\ ends' = 1 /\ read_tags' = 0 /\ errors' = 0
          /\ UNCHANGED <<reads, handled>>
      BY <1>3, <1>9 DEF ReadEnd
    <2>2. /\ at' \in [Repliers -> {"idle", "error", "end", "done"}]
          /\ at'[Reader] = "end" /\ \A u \in Repliers \ {Reader} : at'[u] = at[u]
      BY <1>0, <2>1, GotoFacts
    <2> QED BY <1>6, <1>P, <2>1, <2>2
  <1> QED BY <1>0, <1>7, <1>8, <1>9 DEF OnRead

-----------------------------------------------------------------------------
\* The end of a reply: after OnError() the reader's thread calls OnEnd().
LEMMA FinishFacts ==
  ASSUME IInv, NEW t \in Repliers, at[t] \in {"error", "end"}, FinishReply(t),
         UNCHANGED <<started, read_tags, reads, handled, errors, wire>>
  PROVE  /\ at' \in [Repliers -> {"idle", "error", "end", "done"}]
         /\ \A u \in Repliers \ {t} : at'[u] = at[u]
         /\ t # Reader => at'[t] = "idle" /\ ends' = ends
         /\ t = Reader /\ at[t] = "error" => at'[t] = "end" /\ ends' = 1
         /\ t = Reader /\ at[t] = "end" => at'[t] = "done" /\ ends' = 1
         /\ ends' \in 0..1 /\ ReaderBooks' /\ (TypeOK' => ReaderEndsOnce')
  <1>0. /\ TypeOK /\ ReaderBooks /\ ReaderEndsOnce /\ ends \in 0..1
        /\ Reader \in Repliers
    BY DEF IInv, ReaderEndsOnce, TypeOK, Repliers
  <1>1. /\ at' \in [Repliers -> {"idle", "error", "end", "done"}]
        /\ \A u \in Repliers \ {t} : at'[u] = at[u]
        /\ t # Reader => at'[t] = "idle"
        /\ t = Reader /\ at[t] = "error" => at'[t] = "end"
        /\ t = Reader /\ at[t] = "end" => at'[t] = "done"
    BY <1>0, GotoFacts DEF FinishReply
  <1>2. /\ t # Reader => ends' = ends
        /\ t = Reader /\ at[t] = "error" => ends = 0 /\ ends' = 1
        /\ t = Reader /\ at[t] = "end" => ends = 1 /\ ends' = 1
    BY <1>0 DEF FinishReply, ReaderBooks
  <1>3. ends' \in 0..1
    BY <1>0, <1>2
  <1>4. ReaderBooks'
    BY <1>0, <1>1, <1>2 DEF ReaderBooks
  <1>5. TypeOK' => ReaderEndsOnce'
    BY <1>0, <1>1, <1>2 DEF ReaderEndsOnce, ReaderBooks
  <1> QED BY <1>1, <1>2, <1>3, <1>4, <1>5

\* A thread that replies preserves it, though others reply in between.
LEMMA ReplierPreservesIInv ==
  ASSUME IInv, NEW t \in Repliers, Replier(t)
  PROVE  IInv'
  <1>0. /\ UNCHANGED <<status, client, unsent, writes, promised, wire, half_closed, broken,
                       started, read_tags, reads, handled, errors>>
        /\ TypeOK /\ ReaderEndsOnce /\ AnswerBooks /\ ReaderBooks /\ ReplierBooks
        /\ Reader \in Repliers /\ Reader \notin Watchers
        /\ t # Reader => t \in Watchers
        /\ CheckReplied(t) \/ Reply(t)
    BY RpcAssumption DEF Replier, clients, IInv, ReaderEndsOnce, Repliers
  <1>1. at[t] \in {"error", "end"}
    BY <1>0 DEF CheckReplied, Reply, ReplierBooks
  <1>2. ASSUME FinishReply(t)
        PROVE  /\ at' \in [Repliers -> {"idle", "error", "end", "done"}]
               /\ \A u \in Repliers \ {t} : at'[u] = at[u]
               /\ t # Reader => at'[t] = "idle"
               /\ t = Reader /\ at[t] = "error" => at'[t] = "end"
               /\ t = Reader /\ at[t] = "end" => at'[t] = "done"
               /\ ends' \in 0..1 /\ ReaderBooks' /\ (TypeOK' => ReaderEndsOnce')
               /\ \A u \in Watchers : at'[u] \in {"idle", "error"}
    <2>1. /\ at' \in [Repliers -> {"idle", "error", "end", "done"}]
          /\ \A u \in Repliers \ {t} : at'[u] = at[u]
          /\ t # Reader => at'[t] = "idle"
          /\ t = Reader /\ at[t] = "error" => at'[t] = "end"
          /\ t = Reader /\ at[t] = "end" => at'[t] = "done"
          /\ ends' \in 0..1 /\ ReaderBooks' /\ (TypeOK' => ReaderEndsOnce')
      BY <1>0, <1>1, <1>2, FinishFacts
    <2> QED BY <1>0, <2>1 DEF ReplierBooks, Repliers
  <1>3. CASE CheckReplied(t) /\ replied_
    <2>1. ~passed[t] /\ FinishReply(t) /\ UNCHANGED <<replied_, passed, answer, reply_tags>>
      BY <1>3 DEF CheckReplied
    <2>2. TypeOK' /\ ReaderEndsOnce' /\ ReaderBooks'
      BY <1>0, <1>2, <2>1 DEF TypeOK
    <2>3. ClientBooks' /\ WireBooks'
      BY <1>0, <2>1 DEF IInv, ClientBooks, WireBooks, Lost
    <2>4. AnswerBooks'
      <3>1. at[Reader] = "done" => at'[Reader] = "done"
        BY <1>0, <1>1, <1>2, <2>1
      <3>2. at'[Reader] = "end" =>
              \/ at[Reader] = "end"
              \/ at[Reader] = "error" /\ t = Reader
        BY <1>0, <1>1, <1>2, <2>1
      <3>3. at[Reader] = "error" => errors = 1
        BY <1>0 DEF ReaderBooks
      <3> QED BY <1>0, <1>3, <2>1, <3>1, <3>2, <3>3 DEF AnswerBooks
    <2>5. ReplierBooks'
      BY <1>0, <1>2, <2>1 DEF ReplierBooks
    <2> QED BY <2>2, <2>3, <2>4, <2>5 DEF IInv
  <1>4. CASE CheckReplied(t) /\ ~replied_
    <2>1. /\ ~passed[t] /\ passed' = [passed EXCEPT ![t] = TRUE]
          /\ UNCHANGED <<replied_, answer, reply_tags, at, ends>> /\ reply_tags = 0
      BY <1>0, <1>4 DEF CheckReplied, ReplierBooks
    <2>2. /\ passed' \in [Repliers -> BOOLEAN] /\ passed'[t]
          /\ \A u \in Repliers \ {t} : passed'[u] = passed[u]
      BY <1>0, <2>1 DEF TypeOK
    <2>3. TypeOK' /\ ReaderEndsOnce' /\ ReaderBooks'
      BY <1>0, <2>1, <2>2 DEF TypeOK, ReaderEndsOnce, ReaderBooks
    <2>4. ClientBooks' /\ WireBooks'
      BY <1>0, <2>1 DEF IInv, ClientBooks, WireBooks, Lost
    <2>5. AnswerBooks'
      BY <1>0, <1>4, <2>1 DEF AnswerBooks
    <2>6. ReplierBooks'
      <3>1. \A u \in Repliers : passed'[u] => at'[u] \in {"error", "end"}
        BY <1>0, <1>1, <2>1, <2>2 DEF ReplierBooks
      <3>2. reply_tags' + Cardinality(Passed(passed')) <= Cardinality(Repliers)
        BY <2>1, PassedFacts
      <3> QED BY <1>0, <2>1, <3>1, <3>2 DEF ReplierBooks
    <2> QED BY <2>3, <2>4, <2>5, <2>6 DEF IInv
  <1>5. CASE Reply(t)
    <2>1. /\ passed[t] /\ passed' = [passed EXCEPT ![t] = FALSE] /\ replied_' = TRUE
          /\ ReplyTaken(t) \/ ReplyRefused
          /\ FinishReply(t)
      BY <1>5 DEF Reply, SetReplied
    <2>2. /\ passed' \in [Repliers -> BOOLEAN] /\ ~passed'[t]
          /\ \A u \in Repliers \ {t} : passed'[u] = passed[u]
      BY <1>0, <2>1 DEF TypeOK
    <2>3. /\ Cardinality(Passed(passed)) = Cardinality(Passed(passed')) + 1
          /\ Cardinality(Passed(passed')) \in Nat
      <3>1. \A u \in Repliers \ {t} : passed[u] = passed'[u]
        BY <2>2
      <3> QED BY <2>1, <2>2, <3>1, PassedFacts
    <2>4. /\ reply_tags' \in {reply_tags, reply_tags + 1}
          /\ answer # NoStatus => answer' = answer
          /\ answer = NoStatus => \/ answer' = NoStatus
                                  \/ ~broken /\ answer' = ReplyError
                                  \/ ~broken /\ answer' = OK /\ at[t] = "end"
      BY <1>1, <2>1 DEF ReplyTaken, ReplyRefused
    <2>5. ReplierBooks' /\ reply_tags' \in 0..Cardinality(Repliers)
      <3>1. reply_tags \in Nat /\ Cardinality(Repliers) \in Nat
        BY <1>0, PassedFacts DEF TypeOK
      <3>2. /\ reply_tags' \in Nat /\ reply_tags' <= Cardinality(Repliers)
            /\ reply_tags' + Cardinality(Passed(passed')) <= Cardinality(Repliers)
        BY <1>0, <2>3, <2>4, <3>1 DEF ReplierBooks
      <3>3. \A u \in Repliers : passed'[u] => at'[u] \in {"error", "end"}
        BY <1>0, <1>2, <2>1, <2>2 DEF ReplierBooks
      <3> QED BY <1>2, <2>1, <3>1, <3>2, <3>3 DEF ReplierBooks
    <2>6. TypeOK' /\ ReaderEndsOnce' /\ ReaderBooks'
      <3>1. answer' \in Statuses \cup {NoStatus}
        BY <1>0, <2>4, StatusFacts DEF TypeOK
      <3>2. replied_' \in BOOLEAN
        BY <2>1
      <3> QED BY <1>0, <1>2, <2>1, <2>2, <2>5, <3>1, <3>2 DEF TypeOK
    <2>7. ClientBooks'
      BY <1>0, <2>4, StatusFacts DEF IInv, ClientBooks
    <2>8. ASSUME answer = NoStatus, ~broken, answer' = OK, at[t] = "end"
          PROVE  half_closed /\ handled = wire /\ at'[Reader] = "done"
      <3>1. t = Reader
        BY <1>0, <2>8 DEF ReplierBooks
      <3>2. errors = 0 /\ half_closed /\ reads = wire
        BY <1>0, <2>1, <2>8, <3>1 DEF AnswerBooks, TypeOK
      <3>3. handled = reads
        BY <1>0, <3>2 DEF ReaderEndsOnce
      <3> QED BY <1>2, <2>1, <2>8, <3>1, <3>2, <3>3
    <2>9. WireBooks'
      <3>1. Lost => Lost'
        BY <1>0, <2>4, StatusFacts DEF Lost
      <3> QED BY <1>0, <3>1 DEF IInv, WireBooks
    <2>10. AnswerBooks'
      <3>1. answer' \in {NoStatus, OK, ReplyError}
        BY <1>0, <2>4 DEF AnswerBooks
      <3>2. at[Reader] = "done" => at'[Reader] = "done"
        BY <1>0, <1>1, <1>2, <2>1
      <3>3. answer' = OK => half_closed /\ handled = wire /\ at'[Reader] = "done"
        BY <1>0, <2>4, <2>8, <3>2, StatusFacts DEF AnswerBooks
      <3>4. at'[Reader] = "end" => \/ at[Reader] = "end" /\ t # Reader
                                   \/ at[Reader] = "error" /\ t = Reader
        BY <1>0, <1>1, <1>2, <2>1
      <3>5. at[Reader] = "error" => errors = 1
        BY <1>0 DEF ReaderBooks
      <3>6. t # Reader => passed'[Reader] = passed[Reader]
        BY <1>0, <2>2
      <3>7. at'[Reader] = "end" /\ errors > 0 => replied_' /\ ~passed'[Reader]
        BY <1>0, <2>1, <2>2, <3>4, <3>6 DEF AnswerBooks
      <3>8. at'[Reader] = "end" /\ errors = 0 =>
              broken \/ answer' # NoStatus \/ (half_closed /\ reads = wire)
        BY <1>0, <2>4, <3>4, <3>5 DEF AnswerBooks
      <3> QED BY <1>0, <3>1, <3>3, <3>7, <3>8 DEF AnswerBooks
    <2> QED BY <2>5, <2>6, <2>7, <2>9, <2>10 DEF IInv
  <1> QED BY <1>0, <1>3, <1>4, <1>5

\* A watcher that begins to reply preserves it.
LEMMA WatchPreservesIInv ==
  ASSUME IInv, NEW t \in Watchers, Watch(t)
  PROVE  IInv'
  <1>0. /\ UNCHANGED <<status, client, unsent, writes, promised, wire, half_closed, broken, started,
                       read_tags, reads, handled, errors, ends, replied_, passed, answer, reply_tags>>
        /\ at[t] = "idle" /\ Goto(t, "error")
        /\ TypeOK /\ t \in Repliers /\ t # Reader /\ Reader \in Repliers
    BY RpcAssumption DEF Watch, WatcherReplies, clients, replier, IInv, ReaderEndsOnce, Repliers
  <1>1. /\ at' \in [Repliers -> {"idle", "error", "end", "done"}]
        /\ at'[t] = "error" /\ \A u \in Repliers \ {t} : at'[u] = at[u]
        /\ at'[Reader] = at[Reader]
    BY <1>0, GotoFacts
  <1>2. TypeOK'
    BY <1>0, <1>1 DEF TypeOK
  <1>3. ReaderEndsOnce' /\ ClientBooks' /\ WireBooks' /\ AnswerBooks' /\ ReaderBooks'
    BY <1>0, <1>1, <1>2
    DEF IInv, ReaderEndsOnce, ClientBooks, WireBooks, Lost, AnswerBooks, ReaderBooks
  <1>4. ReplierBooks'
    BY <1>0, <1>1 DEF IInv, ReplierBooks, Repliers
  <1> QED BY <1>3, <1>4 DEF IInv

\* What grpc does preserves it.
LEMMA GrpcPreservesIInv ==
  ASSUME IInv, Grpc
  PROVE  IInv'
  <1>0. /\ UNCHANGED <<status, client, writes, promised, half_closed, replied_, passed, answer, at, started,
                       read_tags, reads, handled, errors, ends>>
        /\ TypeOK /\ ReaderEndsOnce /\ ClientBooks /\ WireBooks /\ AnswerBooks /\ ReaderBooks /\ ReplierBooks
        /\ Transmit \/ ReplyCompletes \/ CallBreaks
    BY DEF Grpc, Transmit, ReplyCompletes, CallBreaks, stream, replier, reader, IInv, ReaderEndsOnce
  <1>1. /\ wire \in 0..MaxWrites /\ writes \in 0..MaxWrites /\ promised \in 0..MaxWrites /\ MaxWrites \in Nat
        /\ reads \in 0..MaxWrites /\ handled \in 0..MaxWrites
    BY <1>0, RpcAssumption DEF TypeOK
  <1>2. CASE Transmit
    <2>1. /\ unsent /\ ~broken /\ ~half_closed /\ answer = NoStatus
          /\ unsent' = FALSE /\ wire' = wire + 1 /\ UNCHANGED <<broken, reply_tags>>
      BY <1>2 DEF Transmit, replier
    <2>2. TypeOK'
      <3>1. wire' \in 0..MaxWrites
        BY <1>0, <1>1, <2>1 DEF ClientBooks
      <3> QED BY <1>0, <2>1, <3>1 DEF TypeOK
    <2>3. ReaderEndsOnce' /\ ReaderBooks' /\ ReplierBooks'
      BY <1>0, <1>1, <2>1, <2>2 DEF ReaderEndsOnce, ReaderBooks, ReplierBooks
    <2>4. ClientBooks' /\ WireBooks'
      BY <1>0, <1>1, <2>1, StatusFacts DEF ClientBooks, WireBooks, Lost
    <2>5. AnswerBooks'
      BY <1>0, <2>1, StatusFacts DEF AnswerBooks
    <2> QED BY <2>3, <2>4, <2>5 DEF IInv
  <1>3. CASE ReplyCompletes
    <2>1. reply_tags > 0 /\ reply_tags' = reply_tags - 1 /\ UNCHANGED <<unsent, wire, broken>>
      BY <1>3 DEF ReplyCompletes, stream
    <2>2. /\ reply_tags \in 0..Cardinality(Repliers) /\ Cardinality(Repliers) \in Nat
          /\ Cardinality(Passed(passed)) \in Nat
      BY <1>0, PassedFacts DEF TypeOK
    <2>3. TypeOK'
      <3>1. reply_tags' \in 0..Cardinality(Repliers)
        BY <2>1, <2>2
      <3> QED BY <1>0, <2>1, <3>1 DEF TypeOK
    <2>4. ReaderEndsOnce' /\ ClientBooks' /\ WireBooks' /\ AnswerBooks' /\ ReaderBooks'
      BY <1>0, <2>1, <2>3 DEF ReaderEndsOnce, ClientBooks, WireBooks, Lost, AnswerBooks, ReaderBooks
    <2>5. ReplierBooks'
      BY <1>0, <2>1, <2>2 DEF ReplierBooks
    <2> QED BY <2>4, <2>5 DEF IInv
  <1>4. CASE CallBreaks
    <2>1. ~broken /\ broken' = TRUE /\ UNCHANGED <<unsent, wire, reply_tags>>
      BY <1>4 DEF CallBreaks, stream, replier
    <2>2. TypeOK'
      BY <1>0, <2>1 DEF TypeOK
    <2>3. ReaderEndsOnce' /\ ClientBooks' /\ ReaderBooks' /\ ReplierBooks'
      BY <1>0, <2>1, <2>2 DEF ReaderEndsOnce, ClientBooks, ReaderBooks, ReplierBooks
    <2>4. WireBooks' /\ AnswerBooks'
      BY <1>0, <2>1 DEF WireBooks, Lost, AnswerBooks
    <2> QED BY <2>3, <2>4 DEF IInv
  <1> QED BY <1>0, <1>2, <1>3, <1>4

\* Every step preserves it.
LEMMA NextPreservesIInv ==
  ASSUME IInv, [Next]_vars
  PROVE  IInv'
  <1>1. CASE UNCHANGED vars
    <2>1. UNCHANGED <<status, client, unsent, writes, promised, wire, half_closed, broken, replied_,
                      passed, answer, reply_tags, at, started, read_tags, reads, handled, errors, ends>>
      BY <1>1 DEF vars, clients, replier, reader
    <2> QED BY <2>1
         DEF IInv, ReaderEndsOnce, TypeOK, ClientBooks, WireBooks, Lost, AnswerBooks, ReaderBooks,
             ReplierBooks
  <1>2. CASE Next
    BY <1>2, ClientPreservesIInv, ReaderPreservesIInv, GrpcPreservesIInv, ReplierPreservesIInv,
       WatchPreservesIInv DEF Next
  <1> QED BY <1>1, <1>2

-----------------------------------------------------------------------------
\* The inductive invariant holds in every state of a call.
THEOREM Invariance == Spec => []IInv
  <1>1. Init => IInv
    BY InitEstablishesIInv
  <1>2. IInv /\ [Next]_vars => IInv'
    BY NextPreservesIInv
  <1> QED BY <1>1, <1>2, PTL DEF Spec

\* The reader's tags are one chain that ends with one OnEnd(), after OnError()
\* if there is one (ServerReaderCqTag), whoever replies meanwhile.
THEOREM ReaderEnds == Spec => []ReaderEndsOnce
  <1>1. IInv => ReaderEndsOnce
    BY DEF IInv
  <1> QED BY <1>1, Invariance, PTL

\* Close() returns OK only if OnMsgStr() accepted every message for which
\* Write() had returned true, though Write() does not know what was sent, any
\* number of threads race to reply, and OnEnd() follows an error too.
THEOREM OkIsEarned == Spec => []OkMeansAllHandled
  <1>1. ASSUME IInv PROVE OkMeansAllHandled
    <2>1. ASSUME half_closed, client = "idle", status = OK
          PROVE  handled = promised
      <3>1. answer = OK
        BY <1>1, <2>1 DEF IInv, ClientBooks
      <3>2. handled = wire /\ ~Lost
        BY <1>1, <3>1, StatusFacts DEF IInv, AnswerBooks, Lost
      <3> QED BY <1>1, <2>1, <3>2 DEF IInv, WireBooks
    <2> QED BY <2>1 DEF OkMeansAllHandled
  <1> QED BY <1>1, Invariance, PTL
=============================================================================
