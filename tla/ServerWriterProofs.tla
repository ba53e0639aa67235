------------------------- MODULE ServerWriterProofs -------------------------
(***************************************************************************)
(* Proofs about ServerWriter for any finite set of callers, any pollers,   *)
(* statuses, high sizes and bound on the writes.                           *)
(***************************************************************************)
EXTENDS ServerWriter, TLAPS, SequenceTheorems, FiniteSetTheorems

\* The callers that are at l when the program counters are f.
At(f, l) == {t \in Callers : f[t] = l}

\* A caller that is about to write.
Writing(t) == pc[t] \in {"low", "high"}

\* Messages are the numbers of calls.  That of a caller about to write is its
\* own and is not taken yet; that of a blocked SyncWrite() was taken, and when
\* it stops waiting on an open writer it has left.
MessageBooks ==
  /\ calls <= MaxWrites
  /\ ToSet(accepted) \subseteq 1..calls
  /\ \A t \in Callers :
       /\ Writing(t) => msg[t] \in 1..calls /\ msg[t] \notin ToSet(accepted)
       /\ pc[t] = "spin" => msg[t] \in ToSet(accepted)
       /\ pc[t] = "return" => closed_ \/ msg[t] \in ToSet(wire)
  /\ \A t, u \in Callers : Writing(t) /\ Writing(u) /\ t # u => msg[t] # msg[u]
  /\ memory # "sound" => closed_
  /\ send_init_md_ <=> wire = <<>>

\* A caller that has passed the size test counts as if its message were queued
\* already; so the bound survives the gap between the test and the enqueuing.
QueueBound ==
  /\ high_queue_size_ <= InitialHigh
  /\ Len(queue_) + Cardinality(At(pc, "low"))
       < InitialHigh + Cardinality(Callers) + Cardinality(At(pc, "spin")) + direct

\* The inductive invariant: the checked invariants and the books.
IInv ==
  /\ OneSendInFlight
  /\ StreamInOrder
  /\ SyncedIsSent
  /\ MessageBooks
  /\ QueueBound

-----------------------------------------------------------------------------
\* A sequence is a prefix of itself followed by anything.
LEMMA PrefixOfConcat ==
  ASSUME NEW S, NEW w \in Seq(S), NEW u \in Seq(S)
  PROVE  IsPrefix(w, w \o u)
  <1>1. Len(w) \in Nat /\ Len(u) \in Nat /\ Len(w \o u) = Len(w) + Len(u)
    BY LenProperties, ConcatProperties
  <1>2. CASE w = <<>>
    BY <1>1, <1>2, SubSeqEmpty, EmptySeq DEF IsPrefix
  <1>3. CASE Len(w) # 0
    BY <1>1, <1>3, SubSeqOfConcat1 DEF IsPrefix
  <1> QED BY <1>1, <1>2, <1>3, EmptySeq

\* Moving the head of the second part to the first changes nothing.
LEMMA MoveHead ==
  ASSUME NEW S, NEW w \in Seq(S), NEW q \in Seq(S), q # <<>>
  PROVE  Append(w, Head(q)) \o Tail(q) = w \o q
  <1>1. Head(q) \in S /\ Tail(q) \in Seq(S) /\ q = <<Head(q)>> \o Tail(q)
    BY HeadTailProperties
  <1>2. <<Head(q)>> \in Seq(S)
    BY <1>1
  <1>3. w \o (<<Head(q)>> \o Tail(q)) = (w \o <<Head(q)>>) \o Tail(q)
    BY <1>1, <1>2, ConcatAssociative, SMTT(30)
  <1>4. w \o <<Head(q)>> = Append(w, Head(q))
    BY <1>1, AppendIsConcat
  <1> QED BY <1>1, <1>3, <1>4

\* Appending adds one element to the set of those in a sequence.
LEMMA AppendToSet ==
  ASSUME NEW S, NEW s \in Seq(S), NEW m \in S
  PROVE  ToSet(Append(s, m)) = ToSet(s) \cup {m}
  <1> DEFINE a == Append(s, m)
  <1>1. /\ a \in Seq(S) /\ Len(a) = Len(s) + 1 /\ Len(s) \in Nat
        /\ \A i \in 1..Len(s) : a[i] = s[i]
        /\ a[Len(s) + 1] = m
    BY AppendProperties, LenProperties
  <1>2. DOMAIN s = 1..Len(s) /\ DOMAIN a = 1..(Len(s) + 1)
    BY <1>1, LenProperties
  <1> HIDE DEF a
  <1>3. ToSet(a) \subseteq ToSet(s) \cup {m}
    BY <1>1, <1>2 DEF ToSet
  <1>4. ToSet(s) \subseteq ToSet(a)
    BY <1>1, <1>2 DEF ToSet
  <1>5. m \in ToSet(a)
    BY <1>1, <1>2 DEF ToSet
  <1> QED BY <1>3, <1>4, <1>5 DEF a

\* Appending a new element keeps the elements of a sequence distinct.
LEMMA AppendNew ==
  ASSUME NEW S, NEW s \in Seq(S), NEW m \in S, IsInjective(s), m \notin ToSet(s)
  PROVE  IsInjective(Append(s, m))
  <1> DEFINE a == Append(s, m)
  <1>1. /\ a \in Seq(S) /\ Len(a) = Len(s) + 1 /\ Len(s) \in Nat
        /\ \A i \in 1..Len(s) : a[i] = s[i]
        /\ a[Len(s) + 1] = m
    BY AppendProperties, LenProperties
  <1>2. DOMAIN s = 1..Len(s) /\ DOMAIN a = 1..(Len(s) + 1)
    BY <1>1, LenProperties
  <1> HIDE DEF a
  <1>3. \A i \in 1..Len(s) : a[i] # m
    BY <1>1, <1>2 DEF ToSet
  <1>4. \A i, j \in DOMAIN a : a[i] = a[j] => i = j
    BY <1>1, <1>2, <1>3 DEF IsInjective
  <1> QED BY <1>4 DEF IsInjective, a

-----------------------------------------------------------------------------
\* Callers at a place can be counted, and one elsewhere is not among them.
LEMMA AtFacts ==
  ASSUME NEW l
  PROVE  /\ IsFiniteSet(At(pc, l))
         /\ Cardinality(At(pc, l)) \in Nat /\ Cardinality(Callers) \in Nat
         /\ \A t \in Callers : pc[t] # l => Cardinality(At(pc, l)) < Cardinality(Callers)
  <1>1. IsFiniteSet(Callers) /\ At(pc, l) \in SUBSET Callers
    BY ServerWriterAssumption DEF At
  <1>2. /\ IsFiniteSet(At(pc, l)) /\ Cardinality(At(pc, l)) <= Cardinality(Callers)
        /\ Cardinality(Callers) = Cardinality(At(pc, l)) => Callers = At(pc, l)
    BY <1>1, FS_Subset
  <1>3. Cardinality(At(pc, l)) \in Nat /\ Cardinality(Callers) \in Nat
    BY <1>1, <1>2, FS_CardinalityType
  <1>4. \A t \in Callers : pc[t] # l => At(pc, l) # Callers
    BY DEF At
  <1> QED BY <1>2, <1>3, <1>4

\* Program counters f differ from pc in that t has moved to k.
Moved(f, t, k) == f[t] = k /\ \A u \in Callers \ {t} : f[u] = pc[u]

\* A caller that goes on leaves one place and enters another.
LEMMA MoveCounts ==
  ASSUME NEW f, NEW t \in Callers, NEW k, Moved(f, t, k), NEW l
  PROVE  Cardinality(At(f, l)) = IF k = l /\ pc[t] # l THEN Cardinality(At(pc, l)) + 1
                                 ELSE IF k # l /\ pc[t] = l THEN Cardinality(At(pc, l)) - 1
                                 ELSE Cardinality(At(pc, l))
  <1>1. IsFiniteSet(At(pc, l)) /\ Cardinality(At(pc, l)) \in Nat
    BY AtFacts
  <1>2. CASE k = l
    <2>1. At(f, l) = At(pc, l) \cup {t}
      BY <1>2 DEF At, Moved
    <2>2. t \in At(pc, l) <=> pc[t] = l
      BY DEF At
    <2>3. Cardinality(At(pc, l) \cup {t}) = IF t \in At(pc, l) THEN Cardinality(At(pc, l))
                                            ELSE Cardinality(At(pc, l)) + 1
      BY <1>1, FS_AddElement
    <2> QED BY <1>1, <1>2, <2>1, <2>2, <2>3
  <1>3. CASE k # l
    <2>1. At(f, l) = At(pc, l) \ {t}
      BY <1>3 DEF At, Moved
    <2>2. t \in At(pc, l) <=> pc[t] = l
      BY DEF At
    <2>3. Cardinality(At(pc, l) \ {t}) = IF t \in At(pc, l) THEN Cardinality(At(pc, l)) - 1
                                         ELSE Cardinality(At(pc, l))
      BY <1>1, FS_RemoveElement
    <2> QED BY <1>1, <1>3, <2>1, <2>2, <2>3
  <1> QED BY <1>2, <1>3

\* What a call that goes on leaves true of the books.
LEMMA GotoFacts ==
  ASSUME TypeOK, NEW t \in Callers, NEW l \in {"idle", "low", "high", "spin", "return", "closing"},
         Goto(t, l)
  PROVE  /\ pc' \in [Callers -> {"idle", "low", "high", "spin", "return", "closing"}]
         /\ msg' \in [Callers -> Nat]
         /\ pc'[t] = l
         /\ l # "idle" => msg' = msg
         /\ \A u \in Callers \ {t} : pc'[u] = pc[u] /\ msg'[u] = msg[u]
         /\ Moved(pc', t, l)
  BY DEF Goto, TypeOK, Moved

-----------------------------------------------------------------------------
\* A writer that was just constructed satisfies the invariant.
LEMMA InitEstablishesIInv == Init => IInv
  <1> SUFFICES ASSUME Init PROVE IInv
    OBVIOUS
  <1> USE DEF Init
  <1>1. OneSendInFlight
    <2>1. TypeOK
      BY ServerWriterAssumption, EmptySeq DEF TypeOK
    <2>2. Len(wire) = 0
      BY EmptySeq
    <2> QED BY <2>1, <2>2 DEF OneSendInFlight
  <1>2. StreamInOrder
    <2>1. <<>> \in Seq(Nat) /\ Len(<<>>) = 0 /\ <<>> \o <<>> = <<>>
      BY EmptySeq, ConcatEmptySeq
    <2>2. IsPrefix(<<>>, <<>>)
      BY <2>1, PrefixOfConcat
    <2>3. DOMAIN accepted = {}
      BY <2>1, LenProperties
    <2>4. IsInjective(accepted)
      BY <2>3 DEF IsInjective
    <2> QED BY <2>1, <2>2, <2>4 DEF StreamInOrder, SentInOrder, MetadataFirstStatusLast
  <1>3. SyncedIsSent
    BY DEF SyncedIsSent
  <1>4. MessageBooks
    <2>1. ToSet(accepted) = {}
      BY EmptySeq, LenProperties DEF ToSet
    <2>2. \A t \in Callers : pc[t] = "idle"
      OBVIOUS
    <2>3. ToSet(accepted) \subseteq 1..calls
      BY <2>1
    <2> QED BY <2>2, <2>3, ServerWriterAssumption DEF MessageBooks, Writing
  <1>5. QueueBound
    <2>1. At(pc, "low") = {} /\ At(pc, "spin") = {}
      BY DEF At
    <2>2. Cardinality(At(pc, "low")) = 0 /\ Cardinality(At(pc, "spin")) = 0
      BY <2>1, FS_EmptySet
    <2>3. Cardinality(Callers) \in Nat /\ Cardinality(Callers) # 0
      BY ServerWriterAssumption, FS_CardinalityType, FS_EmptySet
    <2>4. Len(queue_) = 0
      BY EmptySeq
    <2> QED BY <2>2, <2>3, <2>4, ServerWriterAssumption DEF QueueBound
  <1> QED BY <1>1, <1>2, <1>3, <1>4, <1>5 DEF IInv

-----------------------------------------------------------------------------
\* What the invariant says about an open writer, in one place.
LEMMA InvFacts ==
  ASSUME IInv
  PROVE  /\ TypeOK
         /\ queue_ \in Seq(Nat) /\ wire \in Seq(Nat) /\ accepted \in Seq(Nat)
         /\ IsPrefix(wire, accepted) /\ IsInjective(accepted)
         /\ ~closed_ => /\ accepted = wire \o queue_ /\ ~status_sent
                        /\ queue_ = <<>> => accepted = wire
         /\ closed_ => queue_ = <<>>
         /\ ~is_sending_ => queue_ = <<>>
  BY ConcatEmptySeq
  DEF IInv, TypeOK, OneSendInFlight, StreamInOrder, SentInOrder, MetadataFirstStatusLast

\* A call of the user begins: it tests the size, if it is Write(), and goes on.
LEMMA CallPreservesIInv ==
  ASSUME IInv, NEW t \in Callers, Call(t)
  PROVE  IInv'
  <1>0. /\ TypeOK /\ pc[t] = "idle" /\ calls < MaxWrites
        /\ calls' = calls + 1 /\ msg' = [msg EXCEPT ![t] = calls + 1]
        /\ UNCHANGED <<impl, batches, synced, memory, handle, accepted, completed, status_sent>>
        /\ CallWrite(t) \/ CallSyncWrite(t) \/ CallAsyncWrite(t)
    BY InvFacts DEF Call
  <1> DEFINE Low == pc' = [pc EXCEPT ![t] = "low"]
  <1>1. /\ Low \/ pc' = [pc EXCEPT ![t] = "high"]
        /\ direct' \in {direct, direct + 1}
        /\ Low /\ direct' = direct => Len(queue_) < high_queue_size_
    <2>1. CASE CallWrite(t)
      <3>1. CASE memory = "wrapped"
        <4>1. QueueSize >= high_queue_size_
          BY <3>1, ServerWriterAssumption DEF IInv, OneSendInFlight, TypeOK, QueueBound, QueueSize
        <4> QED BY <2>1, <4>1, <1>0 DEF CallWrite, IsHigh, TypeOK
      <3>2. CASE memory # "wrapped"
        <4>1. QueueSize = Len(queue_) /\ Len(queue_) \in Nat /\ high_queue_size_ \in Nat
          BY <3>2, <1>0, LenProperties DEF QueueSize, TypeOK
        <4>2. CASE Len(queue_) >= high_queue_size_
          BY <2>1, <4>1, <4>2, <1>0 DEF CallWrite, IsHigh, TypeOK
        <4>3. CASE Len(queue_) < high_queue_size_
          BY <2>1, <4>1, <4>3 DEF CallWrite, IsHigh
        <4> QED BY <4>1, <4>2, <4>3
      <3> QED BY <3>1, <3>2
    <2>2. CASE CallSyncWrite(t)
      BY <2>2, <1>0 DEF CallSyncWrite, TypeOK
    <2>3. CASE CallAsyncWrite(t)
      BY <2>3, <1>0 DEF CallAsyncWrite, TypeOK
    <2> QED BY <1>0, <2>1, <2>2, <2>3
  <1>2. TypeOK'
    <2>1. direct' \in Nat /\ calls' \in Nat
      BY <1>0, <1>1 DEF TypeOK
    <2>2. /\ pc' \in [Callers -> {"idle", "low", "high", "spin", "return", "closing"}]
          /\ msg' \in [Callers -> Nat]
      <3>1. CASE pc' = [pc EXCEPT ![t] = "low"]
        BY <1>0, <2>1, <3>1 DEF TypeOK
      <3>2. CASE pc' = [pc EXCEPT ![t] = "high"]
        BY <1>0, <2>1, <3>2 DEF TypeOK
      <3> QED BY <1>1, <3>1, <3>2
    <2> QED BY <1>0, <2>1, <2>2 DEF TypeOK, impl, batches
  <1>3. OneSendInFlight' /\ StreamInOrder' /\ SyncedIsSent'
    BY <1>0, <1>2
    DEF IInv, OneSendInFlight, StreamInOrder, SentInOrder, MetadataFirstStatusLast,
        SyncedIsSent, impl, batches
  <1>4. MessageBooks'
    <2>1. /\ ToSet(accepted') = ToSet(accepted) /\ ToSet(wire') = ToSet(wire)
          /\ closed_' = closed_ /\ memory' = memory /\ send_init_md_' = send_init_md_
          /\ wire' = wire
      BY <1>0 DEF impl, batches
    <2>2. /\ ToSet(accepted) \subseteq 1..calls
          /\ calls \in Nat /\ MaxWrites \in Nat
      BY <1>0, ServerWriterAssumption DEF IInv, MessageBooks, TypeOK
    <2>3. /\ calls' <= MaxWrites /\ ToSet(accepted) \subseteq 1..calls'
          /\ calls + 1 \in 1..calls' /\ calls + 1 \notin ToSet(accepted)
      BY <1>0, <2>2
    <2>4. /\ pc'[t] \in {"low", "high"} /\ msg'[t] = calls + 1
          /\ \A u \in Callers \ {t} : pc'[u] = pc[u] /\ msg'[u] = msg[u]
      BY <1>0, <1>1 DEF TypeOK
    <2>5. \A u \in Callers \ {t} : Writing(u) => msg[u] \in 1..calls' /\ msg[u] # calls + 1
      BY <1>0, <2>2 DEF IInv, MessageBooks
    <2>6. ASSUME NEW u \in Callers
          PROVE  /\ Writing(u)' => msg'[u] \in 1..calls' /\ msg'[u] \notin ToSet(accepted)
                 /\ pc'[u] = "spin" => msg'[u] \in ToSet(accepted)
                 /\ pc'[u] = "return" => closed_ \/ msg'[u] \in ToSet(wire)
      BY <2>3, <2>4, <2>5 DEF IInv, MessageBooks, Writing
    <2>7. ASSUME NEW u \in Callers, NEW v \in Callers, Writing(u)', Writing(v)', u # v
          PROVE  msg'[u] # msg'[v]
      BY <2>4, <2>5, <2>7 DEF IInv, MessageBooks, Writing
    <2> QED BY <2>1, <2>3, <2>6, <2>7 DEF IInv, MessageBooks
  <1>5. QueueBound'
    <2> DEFINE low == Cardinality(At(pc, "low"))
               spin == Cardinality(At(pc, "spin"))
    <2>1. /\ low \in Nat /\ spin \in Nat /\ Cardinality(Callers) \in Nat /\ Len(queue_) \in Nat
          /\ low < Cardinality(Callers)
          /\ queue_' = queue_ /\ high_queue_size_' = high_queue_size_
          /\ InitialHigh \in Nat /\ direct \in Nat /\ high_queue_size_ \in Nat
      BY <1>0, AtFacts, LenProperties, ServerWriterAssumption DEF TypeOK, impl
    <2>2. CASE Low
      <3>1. Moved(pc', t, "low")
        BY <1>0, <2>2 DEF Moved, TypeOK
      <3>2. Cardinality(At(pc', "low")) = low + 1 /\ Cardinality(At(pc', "spin")) = spin
        BY <1>0, <3>1, MoveCounts
      <3> QED BY <1>1, <2>1, <2>2, <3>2, SMTT(30) DEF IInv, QueueBound
    <2>3. CASE pc' = [pc EXCEPT ![t] = "high"]
      <3>1. Moved(pc', t, "high")
        BY <1>0, <2>3 DEF Moved, TypeOK
      <3>2. Cardinality(At(pc', "low")) = low /\ Cardinality(At(pc', "spin")) = spin
        BY <1>0, <3>1, MoveCounts
      <3> QED BY <1>1, <2>1, <3>2 DEF IInv, QueueBound
    <2> QED BY <1>1, <2>2, <2>3
  <1> QED BY <1>3, <1>4, <1>5 DEF IInv

\* How a call that stops writing or waiting moves the counts of the bound.
LEMMA CountsAfterWrite ==
  ASSUME IInv, NEW t \in Callers, NEW l \in {"idle", "spin"}, Moved(pc', t, l),
         (pc[t] = "low" /\ l = "idle") \/ pc[t] = "high"
  PROVE  /\ Cardinality(At(pc, "low")) \in Nat /\ Cardinality(At(pc, "spin")) \in Nat
         /\ Cardinality(Callers) \in Nat
         /\ Cardinality(At(pc', "low")) \in Nat
         /\ Cardinality(At(pc', "low")) < Cardinality(Callers)
         /\ pc[t] = "low" => Cardinality(At(pc', "low")) + 1 = Cardinality(At(pc, "low"))
         /\ pc[t] # "low" => Cardinality(At(pc', "low")) = Cardinality(At(pc, "low"))
         /\ l = "spin" => Cardinality(At(pc', "spin")) = Cardinality(At(pc, "spin")) + 1
         /\ l = "idle" => Cardinality(At(pc', "spin")) = Cardinality(At(pc, "spin"))
  <1>1. /\ Cardinality(At(pc, "low")) \in Nat /\ Cardinality(At(pc, "spin")) \in Nat
        /\ Cardinality(Callers) \in Nat
    BY AtFacts
  <1>2. pc[t] # "low" => Cardinality(At(pc, "low")) < Cardinality(Callers)
    BY AtFacts
  <1>3. pc[t] = "low" => Cardinality(At(pc, "low")) # 0
    <2>1. pc[t] = "low" => At(pc, "low") # {}
      BY DEF At
    <2>2. IsFiniteSet(At(pc, "low"))
      BY AtFacts
    <2> QED BY <2>1, <2>2, FS_EmptySet
  <1>4. Cardinality(At(pc, "low")) <= Cardinality(Callers)
    <2>1. At(pc, "low") \in SUBSET Callers
      BY DEF At
    <2> QED BY <2>1, FS_Subset, ServerWriterAssumption
  <1>5. Cardinality(At(pc', "low")) = IF pc[t] = "low" THEN Cardinality(At(pc, "low")) - 1
                                      ELSE Cardinality(At(pc, "low"))
    BY MoveCounts
  <1>6. Cardinality(At(pc', "spin")) = IF l = "spin" THEN Cardinality(At(pc, "spin")) + 1
                                       ELSE Cardinality(At(pc, "spin"))
    BY MoveCounts
  <1> QED BY <1>1, <1>2, <1>3, <1>4, <1>5, <1>6

\* The books after a caller has written: its message was taken, or it is back.
LEMMA BooksAfterWrite ==
  ASSUME IInv, NEW t \in Callers, NEW l \in {"idle", "spin"}, Goto(t, l), Writing(t),
         UNCHANGED <<calls, memory>>, closed_ => closed_',
         send_init_md_' <=> wire' = <<>>,
         ToSet(wire) \subseteq ToSet(wire'),
         \/ ToSet(accepted') = ToSet(accepted) \cup {msg[t]}
         \/ ToSet(accepted') = ToSet(accepted) /\ l = "idle"
  PROVE  MessageBooks'
  <1>1. /\ pc'[t] = l
        /\ l # "idle" => msg' = msg
        /\ \A u \in Callers \ {t} : pc'[u] = pc[u] /\ msg'[u] = msg[u]
    BY InvFacts, GotoFacts
  <1>2. msg[t] \in 1..calls /\ msg[t] \notin ToSet(accepted)
    BY DEF IInv, MessageBooks
  <1>3. calls' <= MaxWrites /\ ToSet(accepted') \subseteq 1..calls'
    BY <1>2 DEF IInv, MessageBooks
  <1>4. ASSUME NEW u \in Callers
        PROVE  /\ Writing(u)' => msg'[u] \in 1..calls' /\ msg'[u] \notin ToSet(accepted')
               /\ pc'[u] = "spin" => msg'[u] \in ToSet(accepted')
               /\ pc'[u] = "return" => closed_' \/ msg'[u] \in ToSet(wire')
    <2>1. CASE u = t
      BY <1>1, <2>1 DEF Writing
    <2>2. CASE u # t
      BY <1>1, <1>2, <2>2 DEF IInv, MessageBooks, Writing
    <2> QED BY <2>1, <2>2
  <1>5. ASSUME NEW u \in Callers, NEW v \in Callers, Writing(u)', Writing(v)', u # v
        PROVE  msg'[u] # msg'[v]
    BY <1>1, <1>5 DEF IInv, MessageBooks, Writing
  <1>6. memory' # "sound" => closed_'
    BY DEF IInv, MessageBooks
  <1> QED BY <1>3, <1>4, <1>5, <1>6 DEF MessageBooks

\* The writing step of a call preserves it: the message is refused, queued
\* behind the one being sent, sent, or lost with a batch grpc refused.
LEMMA WritePreservesIInv ==
  ASSUME IInv, NEW t \in Callers, DoWrite(t)
  PROVE  IInv'
  <1>I. /\ TypeOK
        /\ queue_ \in Seq(Nat) /\ wire \in Seq(Nat) /\ accepted \in Seq(Nat)
        /\ IsInjective(accepted)
        /\ ~closed_ => /\ accepted = wire \o queue_ /\ ~status_sent
                       /\ queue_ = <<>> => accepted = wire
        /\ ~is_sending_ => queue_ = <<>>
    BY InvFacts
  <1>l. PICK l \in {"idle", "spin"} :
             AsyncWrite(t, l) /\ ((pc[t] = "low" /\ l = "idle") \/ (pc[t] = "high" /\ l = "spin"))
    BY DEF DoWrite, WriteLow, WriteHigh
  <1>0. /\ Writing(t) /\ msg[t] \in Nat /\ msg[t] \notin ToSet(accepted)
        /\ UNCHANGED <<high_queue_size_, close_status, calls, direct, synced, memory,
                       handle, completed, status_sent>>
    BY <1>I, <1>l DEF DoWrite, log, Writing, TypeOK, IInv, MessageBooks
  <1>T. wire \in Seq(Nat) /\ queue_ \in Seq(Nat) /\ accepted \in Seq(Nat)
    BY <1>I
  <1>m. PICK m \in Nat : m = msg[t]
    BY <1>0
  <1>P. ASSUME NEW k \in {"idle", "spin"}, Goto(t, k),
               k = "idle" \/ l = "spin",
               queue_' \in Seq(Nat), accepted' \in Seq(Nat), wire' \in Seq(Nat),
               is_sending_' \in BOOLEAN, closed_' \in BOOLEAN, send_init_md_' \in BOOLEAN,
               write_tags' \in Nat, init_mds' \in Nat,
               Len(queue_') <= Len(queue_) + (IF k = l /\ accepted' # accepted THEN 1 ELSE 0)
        PROVE  TypeOK' /\ QueueBound'
    <2>1. TypeOK'
      BY <1>I, <1>0, <1>P, GotoFacts DEF TypeOK
    <2>2. /\ Moved(pc', t, k) /\ Len(queue_) \in Nat /\ Len(queue_') \in Nat
          /\ InitialHigh \in Nat /\ direct \in Nat
      BY <1>I, <1>0, <1>P, GotoFacts, LenProperties, ServerWriterAssumption DEF TypeOK
    <2>3. QueueBound'
      <3>1. (pc[t] = "low" /\ k = "idle") \/ pc[t] = "high"
        BY <1>P, <1>l
      <3>2. /\ Cardinality(At(pc, "low")) \in Nat /\ Cardinality(At(pc, "spin")) \in Nat
            /\ Cardinality(Callers) \in Nat
            /\ Cardinality(At(pc', "low")) \in Nat
            /\ pc[t] = "low" => Cardinality(At(pc', "low")) + 1 = Cardinality(At(pc, "low"))
            /\ pc[t] # "low" => Cardinality(At(pc', "low")) = Cardinality(At(pc, "low"))
            /\ k = "spin" => Cardinality(At(pc', "spin")) = Cardinality(At(pc, "spin")) + 1
            /\ k = "idle" => Cardinality(At(pc', "spin")) = Cardinality(At(pc, "spin"))
        BY <2>2, <3>1, CountsAfterWrite
      <3>3. /\ Len(queue_) + Cardinality(At(pc, "low"))
                 < InitialHigh + Cardinality(Callers) + Cardinality(At(pc, "spin")) + direct
            /\ high_queue_size_' <= InitialHigh /\ direct' = direct
        BY <1>I, <1>0 DEF IInv, QueueBound
      <3>4. /\ Len(queue_') <= Len(queue_) + 1
            /\ k = "idle" /\ pc[t] = "high" => Len(queue_') <= Len(queue_)
        BY <1>P, <1>l, <2>2
      <3> DEFINE q == Len(queue_)      low == Cardinality(At(pc, "low"))
                 r == Len(queue_')     low2 == Cardinality(At(pc', "low"))
                 n == Cardinality(Callers)
                 s == Cardinality(At(pc, "spin"))
                 s2 == Cardinality(At(pc', "spin"))
      <3>5. q \in Nat /\ r \in Nat /\ low \in Nat /\ low2 \in Nat /\ n \in Nat /\ s \in Nat
        BY <2>2, <3>2
      <3>6. \/ low2 + 1 = low /\ s2 = s /\ r <= q + 1
            \/ low2 = low /\ s2 = s /\ r <= q
            \/ low2 <= low /\ s2 = s + 1 /\ r <= q + 1
        <4>1. CASE k = "idle" /\ pc[t] = "low"
          BY <3>2, <3>4, <4>1
        <4>2. CASE k = "idle" /\ pc[t] = "high"
          BY <3>2, <3>4, <4>2
        <4>3. CASE k = "spin"
          <5>1. low2 <= low
            BY <3>2
          <5> QED BY <3>2, <3>4, <4>3, <5>1
        <4> QED BY <3>1, <4>1, <4>2, <4>3
      <3>7. q + low < InitialHigh + n + s + direct
        BY <3>3
      <3> HIDE DEF q, r, low, low2, n, s, s2
      <3>8. r + low2 < InitialHigh + n + s2 + direct
        <4>1. low2 \in Nat /\ low \in Nat /\ InitialHigh \in Nat /\ direct \in Nat
          BY <2>2, <3>5
        <4> QED BY <3>5, <3>6, <3>7, <4>1
      <3> QED BY <3>3, <3>8 DEF QueueBound, r, low2, n, s2
    <2> QED BY <2>1, <2>3
  <1>1. CASE /\ ~AcceptsWrites
             /\ Goto(t, "idle")
             /\ UNCHANGED <<queue_, is_sending_, closed_, send_init_md_, batches, accepted>>
    <2>1. TypeOK' /\ QueueBound'
      BY <1>I, <1>0, <1>1, <1>P, LenProperties DEF TypeOK, batches
    <2>2. OneSendInFlight' /\ StreamInOrder' /\ SyncedIsSent'
      BY <1>I, <1>0, <1>1, <2>1
      DEF IInv, OneSendInFlight, StreamInOrder, SentInOrder, MetadataFirstStatusLast,
          SyncedIsSent, batches
    <2>3. MessageBooks'
      BY <1>I, <1>0, <1>1, BooksAfterWrite DEF batches, IInv, MessageBooks
    <2> QED BY <2>1, <2>2, <2>3 DEF IInv
  <1>2. CASE /\ AcceptsWrites /\ is_sending_
             /\ queue_' = Append(queue_, msg[t])
             /\ accepted' = Append(accepted, msg[t])
             /\ Goto(t, l)
             /\ UNCHANGED <<is_sending_, closed_, send_init_md_, batches>>
    <2>0. /\ ~closed_ /\ ~status_sent /\ accepted = wire \o queue_
          /\ queue_' \in Seq(Nat) /\ accepted' \in Seq(Nat) /\ accepted' # accepted
          /\ Len(queue_') = Len(queue_) + 1 /\ queue_' # <<>>
          /\ UNCHANGED <<wire, init_mds, write_tags>>
      <3>1. /\ queue_' \in Seq(Nat) /\ accepted' \in Seq(Nat) /\ queue_' # <<>>
            /\ Len(queue_') = Len(queue_) + 1 /\ Len(accepted') = Len(accepted) + 1
        BY <1>I, <1>0, <1>2, AppendProperties
      <3>2. accepted' # accepted
        BY <3>1, LenProperties
      <3> QED BY <1>I, <1>2, <3>1, <3>2 DEF AcceptsWrites, batches
    <2>1. TypeOK' /\ QueueBound'
      BY <1>I, <1>0, <1>2, <2>0, <1>P, LenProperties, SMTT(30) DEF TypeOK
    <2>2. OneSendInFlight'
      BY <1>I, <1>0, <1>2, <2>0, <2>1 DEF IInv, OneSendInFlight
    <2>3. StreamInOrder'
      <3>1. accepted' = wire' \o queue_'
        <4>1. <<m>> \in Seq(Nat) /\ queue_' = Append(queue_, m) /\ accepted' = Append(accepted, m)
          BY <1>m, <1>2
        <4>2. accepted' = (wire \o queue_) \o <<m>>
          BY <1>T, <2>0, <4>1, AppendIsConcat
        <4>3. @ = wire \o (queue_ \o <<m>>)
          BY <1>T, <4>1, ConcatAssociative, SMTT(30)
        <4>4. @ = wire \o queue_'
          BY <1>T, <4>1, AppendIsConcat
        <4> QED BY <2>0, <4>2, <4>3, <4>4
      <3>2. IsPrefix(wire', accepted')
        BY <2>0, <3>1, PrefixOfConcat
      <3>3. IsInjective(accepted')
        BY <1>I, <1>0, <1>2, AppendNew
      <3> QED BY <1>I, <1>0, <1>2, <2>0, <3>1, <3>2, <3>3
           DEF IInv, StreamInOrder, SentInOrder, MetadataFirstStatusLast
    <2>4. SyncedIsSent'
      BY <1>I, <1>0, <2>0 DEF IInv, SyncedIsSent
    <2>5. MessageBooks'
      <3>1. ToSet(accepted') = ToSet(accepted) \cup {msg[t]}
        <4>1. ToSet(Append(accepted, m)) = ToSet(accepted) \cup {m}
          BY <1>T, AppendToSet
        <4> QED BY <1>m, <1>2, <4>1
      <3> QED BY <1>I, <1>0, <1>2, <2>0, <3>1, BooksAfterWrite DEF IInv, MessageBooks
    <2> QED BY <2>1, <2>2, <2>3, <2>4, <2>5 DEF IInv
  <1>3. CASE /\ AcceptsWrites /\ ~is_sending_
             /\ SendMsgOk(write_tags, msg[t])
             /\ accepted' = Append(accepted, msg[t])
             /\ Goto(t, l)
             /\ UNCHANGED queue_
    <2>0. /\ ~closed_ /\ ~closed_' /\ ~status_sent /\ accepted = wire /\ queue_ = <<>>
          /\ write_tags = 0 /\ write_tags' = 1 /\ is_sending_' = TRUE /\ send_init_md_' = FALSE
          /\ init_mds' = 1 /\ wire' = Append(wire, msg[t])
      <3>1. /\ ~closed_ /\ ~status_sent /\ accepted = wire /\ queue_ = <<>>
        BY <1>I, <1>3 DEF AcceptsWrites
      <3>2. write_tags = 0
        BY <1>I, <1>3 DEF IInv, OneSendInFlight
      <3>3. init_mds + (IF send_init_md_ THEN 1 ELSE 0) = 1
        BY <1>I, <1>0, <3>1
        DEF IInv, StreamInOrder, MetadataFirstStatusLast, MessageBooks, TypeOK
      <3> QED BY <1>3, <3>1, <3>2, <3>3 DEF SendMsgOk
    <2>1. /\ wire' \in Seq(Nat) /\ wire' # <<>> /\ Len(wire') = Len(wire) + 1
          /\ accepted' = wire'
      <3>1. wire' \in Seq(Nat) /\ wire' # <<>> /\ Len(wire') = Len(wire) + 1
        BY <1>I, <1>0, <2>0, AppendProperties
      <3> QED BY <1>3, <2>0, <3>1
    <2>2. TypeOK' /\ QueueBound'
      <3>1. /\ queue_' \in Seq(Nat) /\ accepted' \in Seq(Nat) /\ wire' \in Seq(Nat)
            /\ is_sending_' \in BOOLEAN /\ closed_' \in BOOLEAN /\ send_init_md_' \in BOOLEAN
            /\ write_tags' \in Nat /\ init_mds' \in Nat
        <4>1. queue_' \in Seq(Nat) /\ accepted' \in Seq(Nat) /\ wire' \in Seq(Nat)
          BY <1>T, <1>3, <2>1
        <4>2. is_sending_' \in BOOLEAN /\ closed_' \in BOOLEAN /\ send_init_md_' \in BOOLEAN
          BY <1>I, <1>3, <2>0 DEF SendMsgOk, TypeOK
        <4>3. write_tags' \in Nat /\ init_mds' \in Nat
          BY <2>0
        <4> QED BY <4>1, <4>2, <4>3
      <3>2. Len(queue_') <= Len(queue_) + (IF l = l /\ accepted' # accepted THEN 1 ELSE 0)
        BY <1>I, <1>3, LenProperties
      <3> QED BY <1>3, <3>1, <3>2, <1>P
    <2>3. OneSendInFlight'
      BY <1>I, <1>0, <1>3, <2>0, <2>1, <2>2, LenProperties DEF IInv, OneSendInFlight, TypeOK
    <2>4. StreamInOrder'
      <3>1. accepted' = wire' \o queue_'
        BY <1>3, <2>0, <2>1, ConcatEmptySeq
      <3>2. IsPrefix(wire', accepted')
        <4>1. queue_' \in Seq(Nat)
          BY <1>I, <1>3
        <4> QED BY <2>1, <3>1, <4>1, PrefixOfConcat
      <3>3. IsInjective(accepted')
        BY <1>I, <1>0, <1>3, AppendNew
      <3> QED BY <1>I, <1>0, <2>0, <2>1, <3>1, <3>2, <3>3
           DEF IInv, StreamInOrder, SentInOrder, MetadataFirstStatusLast
    <2>5. ToSet(wire') = ToSet(wire) \cup {msg[t]} /\ ToSet(accepted') = ToSet(accepted) \cup {msg[t]}
      BY <1>I, <1>0, <1>3, <2>0, AppendToSet, SMTT(30)
    <2>6. SyncedIsSent'
      BY <1>I, <1>0, <2>5 DEF IInv, SyncedIsSent
    <2>7. MessageBooks'
      BY <1>I, <1>0, <1>3, <2>0, <2>1, <2>5, BooksAfterWrite
    <2> QED BY <2>2, <2>3, <2>4, <2>6, <2>7 DEF IInv
  <1>4. CASE /\ AcceptsWrites /\ ~is_sending_
             /\ SendMsgFails(write_tags)
             /\ Goto(t, "idle")
             /\ UNCHANGED accepted
    <2>0. /\ ~closed_ /\ closed_' = TRUE /\ ~status_sent /\ queue_ = <<>> /\ queue_' = <<>>
          /\ write_tags = 0 /\ write_tags' = 0 /\ is_sending_' = TRUE
          /\ UNCHANGED <<wire, init_mds, send_init_md_>>
      BY <1>I, <1>0, <1>4 DEF AcceptsWrites, SendMsgFails, IInv, OneSendInFlight, TypeOK
    <2>1. TypeOK' /\ QueueBound'
      BY <1>I, <1>0, <1>4, <2>0, <1>P, LenProperties DEF TypeOK
    <2>2. OneSendInFlight' /\ StreamInOrder' /\ SyncedIsSent'
      BY <1>I, <1>0, <1>4, <2>0, <2>1
      DEF IInv, OneSendInFlight, StreamInOrder, SentInOrder, MetadataFirstStatusLast, SyncedIsSent
    <2>3. MessageBooks'
      BY <1>I, <1>0, <1>4, <2>0, BooksAfterWrite DEF IInv, MessageBooks
    <2> QED BY <2>1, <2>2, <2>3 DEF IInv
  <1> QED BY <1>l, <1>1, <1>2, <1>3, <1>4 DEF AsyncWrite

\* The books after a caller has gone on without writing, anything sent, or not.
LEMMA BooksAfterStep ==
  ASSUME IInv, UNCHANGED <<calls, accepted>>, closed_ => closed_', ToSet(wire) \subseteq ToSet(wire'),
         memory' # "sound" => closed_', send_init_md_' <=> wire' = <<>>,
         \A u \in Callers : \/ pc'[u] = pc[u] /\ msg'[u] = msg[u]
                            \/ pc'[u] \in {"idle", "closing"}
                            \/ pc'[u] = "return" /\ (closed_' \/ msg'[u] \in ToSet(wire'))
  PROVE  MessageBooks'
  <1>1. ASSUME NEW u \in Callers
        PROVE  /\ Writing(u)' => msg'[u] \in 1..calls' /\ msg'[u] \notin ToSet(accepted')
               /\ pc'[u] = "spin" => msg'[u] \in ToSet(accepted')
               /\ pc'[u] = "return" => closed_' \/ msg'[u] \in ToSet(wire')
    BY DEF IInv, MessageBooks, Writing
  <1>2. ASSUME NEW u \in Callers, NEW v \in Callers, Writing(u)', Writing(v)', u # v
        PROVE  msg'[u] # msg'[v]
    BY <1>2 DEF IInv, MessageBooks, Writing
  <1> QED BY <1>1, <1>2 DEF IInv, MessageBooks

\* When the queue reads as empty it is empty, or the writer is closed.
LEMMA EmptyQueue ==
  ASSUME IInv, QueueSize = 0
  PROVE  queue_ = <<>> /\ Len(queue_) = 0 /\ (~closed_ => accepted = wire)
  <1>1. CASE closed_
    BY <1>1, InvFacts, EmptySeq
  <1>2. CASE ~closed_
    <2>1. Len(queue_) = 0
      BY <1>2 DEF IInv, MessageBooks, QueueSize
    <2> QED BY <2>1, InvFacts, EmptySeq
  <1> QED BY <1>1, <1>2

\* A waiting call that ends or goes on preserves it.
LEMMA LeavePreservesIInv ==
  ASSUME IInv, NEW t \in Callers, Leave(t)
  PROVE  IInv'
  <1>0. /\ TypeOK /\ queue_ \in Seq(Nat)
        /\ UNCHANGED <<impl, batches, calls, direct, memory, handle, accepted, completed,
                       status_sent>>
        /\ UNCHANGED <<queue_, is_sending_, closed_, send_init_md_, high_queue_size_, close_status,
                       wire, init_mds, write_tags>>
    BY InvFacts DEF Leave, impl, batches
  <1>1. PICK k \in {"idle", "return"} :
             /\ Goto(t, k) /\ pc[t] \notin {"low", "high"}
             /\ pc[t] = "spin" => QueueSize = 0
             /\ k = "return" => pc[t] = "spin"
             /\ synced' \in {synced, IF closed_ THEN synced ELSE synced \cup {msg[t]}}
             /\ synced' # synced => pc[t] = "return"
    BY DEF Leave, LeaveSpin, SyncReturn, LeaveClose
  <1>2. /\ pc'[t] = k
        /\ k # "idle" => msg' = msg
        /\ \A u \in Callers \ {t} : pc'[u] = pc[u] /\ msg'[u] = msg[u]
        /\ Moved(pc', t, k)
    BY <1>0, <1>1, GotoFacts
  <1>3. synced' \in SUBSET Nat /\ SyncedIsSent'
    <2>1. CASE synced' = synced
      BY <1>0, <2>1 DEF IInv, SyncedIsSent, TypeOK
    <2>2. CASE ~closed_ /\ synced' = synced \cup {msg[t]} /\ pc[t] = "return"
      <3>1. msg[t] \in ToSet(wire) /\ msg[t] \in Nat
        BY <1>0, <2>2 DEF IInv, MessageBooks, TypeOK
      <3> QED BY <1>0, <2>2, <3>1 DEF IInv, SyncedIsSent, TypeOK
    <2> QED BY <1>1, <2>1, <2>2
  <1>4. TypeOK'
    BY <1>0, <1>1, <1>3, GotoFacts DEF TypeOK
  <1>5. OneSendInFlight' /\ StreamInOrder'
    BY <1>0, <1>4
    DEF IInv, OneSendInFlight, StreamInOrder, SentInOrder, MetadataFirstStatusLast
  <1>6. MessageBooks'
    <2>1. k = "return" => closed_' \/ msg'[t] \in ToSet(wire')
      <3>1. ASSUME k = "return", ~closed_
            PROVE  msg[t] \in ToSet(wire)
        <4>1. msg[t] \in ToSet(accepted) /\ accepted = wire
          BY <1>1, <3>1, EmptyQueue DEF IInv, MessageBooks
        <4> QED BY <4>1
      <3> QED BY <1>0, <1>2, <3>1
    <2>2. \A u \in Callers : \/ pc'[u] = pc[u] /\ msg'[u] = msg[u]
                             \/ pc'[u] \in {"idle", "closing"}
                             \/ pc'[u] = "return" /\ (closed_' \/ msg'[u] \in ToSet(wire'))
      BY <1>2, <2>1
    <2>3. /\ UNCHANGED <<calls, accepted>> /\ (closed_ => closed_') /\ ToSet(wire) \subseteq ToSet(wire')
          /\ memory' # "sound" => closed_'
          /\ send_init_md_' <=> wire' = <<>>
      BY <1>0 DEF IInv, MessageBooks
    <2> QED BY <2>2, <2>3, BooksAfterStep
  <1>7. QueueBound'
    <2>1. /\ Cardinality(At(pc, "low")) \in Nat /\ Cardinality(At(pc, "spin")) \in Nat
          /\ Cardinality(Callers) \in Nat
          /\ Cardinality(At(pc, "low")) < Cardinality(Callers)
          /\ InitialHigh \in Nat /\ direct \in Nat /\ Len(queue_) \in Nat
      BY <1>0, <1>1, AtFacts, LenProperties, ServerWriterAssumption DEF TypeOK
    <2>2. Cardinality(At(pc', "low")) = Cardinality(At(pc, "low"))
      BY <1>1, <1>2, MoveCounts
    <2>3. CASE pc[t] = "spin"
      <3>1. At(pc, "spin") # {}
        BY <2>3 DEF At
      <3>2. Cardinality(At(pc, "spin")) # 0
        BY <3>1, AtFacts, FS_EmptySet
      <3>3. Cardinality(At(pc', "spin")) = Cardinality(At(pc, "spin")) - 1
        BY <1>1, <1>2, <2>3, MoveCounts
      <3>4. Len(queue_) = 0
        BY <1>1, <2>3, EmptyQueue
      <3> QED BY <1>0, <2>1, <2>2, <3>2, <3>3, <3>4 DEF IInv, QueueBound
    <2>4. CASE pc[t] # "spin"
      <3>1. Cardinality(At(pc', "spin")) = Cardinality(At(pc, "spin"))
        BY <1>1, <1>2, <2>4, MoveCounts
      <3> QED BY <1>0, <2>1, <2>2, <3>1 DEF IInv, QueueBound
    <2> QED BY <2>3, <2>4
  <1> QED BY <1>3, <1>5, <1>6, <1>7 DEF IInv

\* Closing, with status st: it waits behind what is being sent, or leaves.
LEMMA AsyncCloseFacts ==
  ASSUME IInv, NEW st \in Statuses, AsyncClose(st),
         UNCHANGED <<queue_, is_sending_, wire, write_tags, accepted, completed, send_init_md_, synced>>
  PROVE  /\ (closed_ => closed_') /\ closed_' \in BOOLEAN /\ status_sent' \in BOOLEAN
         /\ init_mds' \in Nat /\ close_status' \in Statuses \cup {NoStatus}
         /\ TypeOK' => OneSendInFlight'
         /\ StreamInOrder' /\ SyncedIsSent'
  <1>1. TypeOK
    BY InvFacts
  <1>2. CASE ~FirstClose
    <2>1. UNCHANGED <<closed_, close_status, status_sent, init_mds>>
      BY <1>2 DEF AsyncClose
    <2> QED BY <1>1, <2>1
         DEF TypeOK, IInv, OneSendInFlight, StreamInOrder, SentInOrder, MetadataFirstStatusLast,
             SyncedIsSent
  <1>3. CASE FirstClose /\ is_sending_
    <2>1. close_status' = st /\ UNCHANGED <<closed_, status_sent, init_mds>>
      BY <1>3 DEF AsyncClose
    <2> QED BY <1>1, <1>3, <2>1
         DEF FirstClose, TypeOK, IInv, OneSendInFlight, StreamInOrder, SentInOrder,
             MetadataFirstStatusLast, SyncedIsSent
  <1>4. CASE FirstClose /\ ~is_sending_
    <2>1. /\ close_status' = st /\ st # NoStatus /\ closed_' = TRUE
          /\ ~closed_ /\ ~status_sent /\ queue_ = <<>> /\ accepted = wire /\ write_tags = 0
          /\ SendStatus
      BY <1>4, InvFacts, ServerWriterAssumption DEF AsyncClose, FirstClose, SendStatus, IInv, OneSendInFlight
    <2>2. init_mds' \in Nat /\ init_mds' = IF wire # <<>> \/ status_sent' THEN 1 ELSE 0
      BY <1>1, <2>1
      DEF SendStatus, IInv, StreamInOrder, MetadataFirstStatusLast, MessageBooks, TypeOK
    <2>3. status_sent' \in BOOLEAN
      BY <1>1, <2>1 DEF SendStatus, TypeOK
    <2>4. TypeOK' => OneSendInFlight'
      BY <1>4, <2>1 DEF IInv, OneSendInFlight
    <2>5. StreamInOrder'
      BY <2>1, <2>2 DEF IInv, StreamInOrder, SentInOrder, MetadataFirstStatusLast
    <2> QED BY <2>1, <2>2, <2>3, <2>4, <2>5 DEF IInv, SyncedIsSent
  <1> QED BY <1>2, <1>3, <1>4

\* Close() and AsyncClose() of a caller preserve it.
LEMMA ClosePreservesIInv ==
  ASSUME IInv, NEW t \in Callers, Close(t)
  PROVE  IInv'
  <1>0. /\ TypeOK /\ pc[t] = "idle"
        /\ UNCHANGED <<queue_, is_sending_, send_init_md_, high_queue_size_, wire, write_tags,
                       calls, direct, synced, memory, handle, accepted, completed>>
    BY InvFacts DEF Close, log
  <1>1. PICK st \in Statuses : AsyncClose(st)
    BY DEF Close
  <1>2. PICK l \in {"idle", "closing"} : Goto(t, l)
    BY DEF Close
  <1>3. /\ (closed_ => closed_') /\ closed_' \in BOOLEAN /\ status_sent' \in BOOLEAN
        /\ init_mds' \in Nat /\ close_status' \in Statuses \cup {NoStatus}
        /\ TypeOK' => OneSendInFlight'
        /\ StreamInOrder' /\ SyncedIsSent'
    BY <1>0, <1>1, AsyncCloseFacts
  <1>4. /\ pc'[t] = l /\ Moved(pc', t, l)
        /\ \A u \in Callers \ {t} : pc'[u] = pc[u] /\ msg'[u] = msg[u]
    BY <1>0, <1>2, GotoFacts
  <1>5. TypeOK'
    BY <1>0, <1>2, <1>3, GotoFacts DEF TypeOK
  <1>6. MessageBooks'
    <2>1. \A u \in Callers : \/ pc'[u] = pc[u] /\ msg'[u] = msg[u]
                             \/ pc'[u] \in {"idle", "closing"}
      BY <1>4
    <2>2. (memory' # "sound" => closed_') /\ (send_init_md_' <=> wire' = <<>>)
      BY <1>0, <1>3 DEF IInv, MessageBooks
    <2> QED BY <1>0, <1>3, <2>1, <2>2, BooksAfterStep
  <1>7. QueueBound'
    <2>1. /\ Cardinality(At(pc', "low")) = Cardinality(At(pc, "low"))
          /\ Cardinality(At(pc', "spin")) = Cardinality(At(pc, "spin"))
      BY <1>0, <1>2, <1>4, MoveCounts
    <2> QED BY <1>0, <2>1 DEF IInv, QueueBound
  <1> QED BY <1>3, <1>5, <1>6, <1>7 DEF IInv

\* A new high size, dropping the writer and its destructor preserve it.
LEMMA OwnerPreservesIInv ==
  ASSUME IInv, (\E n \in HighSizes : SetHighQueueSize(n)) \/ Drop \/ Destruct
  PROVE  IInv'
  <1>0. /\ TypeOK
        /\ UNCHANGED <<queue_, is_sending_, send_init_md_, wire, write_tags, calls, direct,
                       synced, pc, msg, memory, accepted, completed>>
    BY InvFacts DEF SetHighQueueSize, Drop, Destruct, batches, log, threads, impl
  <1>1. high_queue_size_' \in Nat /\ high_queue_size_' <= InitialHigh
    <2>1. CASE \E n \in HighSizes : SetHighQueueSize(n)
      BY <2>1, ServerWriterAssumption DEF SetHighQueueSize
    <2>2. CASE Drop \/ Destruct
      BY <2>2, <1>0 DEF Drop, Destruct, impl, IInv, QueueBound, TypeOK
    <2> QED BY <2>1, <2>2
  <1>2. handle' \in {"held", "dropped", "gone"}
    BY <1>0 DEF SetHighQueueSize, Drop, Destruct, TypeOK
  <1>3. /\ (closed_ => closed_') /\ closed_' \in BOOLEAN /\ status_sent' \in BOOLEAN
        /\ init_mds' \in Nat /\ close_status' \in Statuses \cup {NoStatus}
        /\ TypeOK' => OneSendInFlight'
        /\ StreamInOrder' /\ SyncedIsSent'
    <2>1. CASE Destruct
      BY <1>0, <2>1, AsyncCloseFacts, ServerWriterAssumption DEF Destruct
    <2>2. CASE Drop \/ \E n \in HighSizes : SetHighQueueSize(n)
      <3>1. UNCHANGED <<closed_, status_sent, init_mds, close_status>>
        BY <2>2 DEF Drop, SetHighQueueSize, impl, batches
      <3> QED BY <1>0, <3>1
           DEF IInv, OneSendInFlight, StreamInOrder, SentInOrder, MetadataFirstStatusLast,
               SyncedIsSent, TypeOK
    <2> QED BY <2>1, <2>2
  <1>4. TypeOK'
    BY <1>0, <1>1, <1>2, <1>3 DEF TypeOK
  <1>5. MessageBooks'
    <2>1. (memory' # "sound" => closed_') /\ (send_init_md_' <=> wire' = <<>>)
      BY <1>0, <1>3 DEF IInv, MessageBooks
    <2> QED BY <1>0, <1>3, <2>1, BooksAfterStep
  <1>6. QueueBound'
    BY <1>0, <1>1 DEF IInv, QueueBound
  <1> QED BY <1>3, <1>4, <1>5, <1>6 DEF IInv

\* A completion preserves it: the next message, the status, or idleness.
LEMMA TryToWriteNextPreservesIInv ==
  ASSUME IInv, TryToWriteNext
  PROVE  IInv'
  <1>0. /\ TypeOK /\ queue_ \in Seq(Nat) /\ wire \in Seq(Nat) /\ accepted \in Seq(Nat)
        /\ IsInjective(accepted) /\ accepted = wire \o queue_
        /\ ~closed_ /\ ~status_sent /\ is_sending_ /\ write_tags = 1
        /\ queue_ = <<>> => accepted = wire
        /\ completed + 1 = Len(wire) /\ completed' = completed + 1
        /\ NextMessage \/ NextStatus \/ NextNothing
        /\ UNCHANGED <<high_queue_size_, close_status, calls, direct, synced, pc, msg, handle, accepted>>
    <2>1. write_tags = 1 /\ ~closed_ /\ is_sending_
      BY DEF TryToWriteNext, IInv, OneSendInFlight
    <2>2. completed + write_tags = Len(wire)
      BY DEF IInv, OneSendInFlight
    <2> QED BY <2>1, <2>2, InvFacts DEF TryToWriteNext, log, threads
  <1>S. queue_ \in Seq(Nat) /\ wire \in Seq(Nat) /\ accepted \in Seq(Nat)
    BY <1>0
  <1>P. ASSUME queue_' \in Seq(Nat), wire' \in Seq(Nat), is_sending_' \in BOOLEAN, closed_' \in BOOLEAN,
               send_init_md_' \in BOOLEAN, status_sent' \in BOOLEAN,
               write_tags' \in Nat, init_mds' \in Nat, memory' \in {"sound", "wrapped", "crashed"},
               Len(queue_') <= Len(queue_), ToSet(wire) \subseteq ToSet(wire'),
               memory' # "sound" => closed_', send_init_md_' <=> wire' = <<>>
        PROVE  TypeOK' /\ MessageBooks' /\ QueueBound' /\ SyncedIsSent'
    <2>1. TypeOK'
      BY <1>0, <1>P, SMTT(30) DEF TypeOK
    <2>2. MessageBooks'
      BY <1>0, <1>P, BooksAfterStep
    <2>3. QueueBound'
      <3>1. /\ Cardinality(At(pc, "low")) \in Nat /\ Cardinality(At(pc, "spin")) \in Nat
            /\ Cardinality(Callers) \in Nat /\ InitialHigh \in Nat /\ direct \in Nat
            /\ Len(queue_) \in Nat /\ Len(queue_') \in Nat
        BY <1>0, <1>P, AtFacts, LenProperties, ServerWriterAssumption DEF TypeOK
      <3> QED BY <1>0, <1>P, <3>1, SMTT(30) DEF IInv, QueueBound
    <2>4. SyncedIsSent'
      BY <1>0, <1>P DEF IInv, SyncedIsSent
    <2> QED BY <2>1, <2>2, <2>3, <2>4
  <1>1. CASE NextMessage /\ SendMsgOk(write_tags - 1, Head(queue_))
    <2>0. /\ queue_ # <<>> /\ queue_' = Tail(queue_) /\ wire' = Append(wire, Head(queue_))
          /\ ~closed_' /\ closed_' \in BOOLEAN /\ is_sending_' = TRUE /\ write_tags' = 1
          /\ send_init_md_' = FALSE /\ init_mds' = 1 /\ UNCHANGED <<memory, status_sent>>
      <3>1. wire # <<>>
        BY <1>0, EmptySeq DEF TypeOK
      <3>2. init_mds = 1 /\ ~send_init_md_
        BY <1>0, <3>1 DEF IInv, StreamInOrder, MetadataFirstStatusLast, MessageBooks
      <3>3. closed_' = closed_ /\ queue_' = Tail(queue_) /\ UNCHANGED <<memory, status_sent>>
        BY <1>0, <1>1 DEF NextMessage, SendMsgOk, SendMsgFails
      <3> QED BY <1>0, <1>1, <3>2, <3>3 DEF NextMessage, SendMsgOk, TypeOK
    <2>1. PICK h \in Nat : h = Head(queue_)
      BY <1>0, <2>0, HeadTailProperties
    <2>2. /\ queue_' \in Seq(Nat) /\ Len(queue_') <= Len(queue_)
          /\ wire' \in Seq(Nat) /\ wire' # <<>> /\ Len(wire') = Len(wire) + 1
      <3>1. queue_' \in Seq(Nat) /\ Len(queue_') = Len(queue_) - 1 /\ Len(queue_) \in Nat
        BY <1>0, <2>0, HeadTailProperties, LenProperties
      <3>2. wire' \in Seq(Nat) /\ wire' # <<>> /\ Len(wire') = Len(wire) + 1
        BY <1>0, <2>0, <2>1, AppendProperties
      <3> QED BY <3>1, <3>2
    <2>3. ToSet(wire) \subseteq ToSet(wire')
      <3>1. ASSUME NEW w \in Seq(Nat), NEW k \in Nat
            PROVE  ToSet(w) \subseteq ToSet(Append(w, k))
        <4>1. ToSet(Append(w, k)) = ToSet(w) \cup {k}
          BY AppendToSet
        <4> QED BY <4>1
      <3>2. ToSet(wire) \subseteq ToSet(Append(wire, h))
        BY <1>S, <3>1
      <3> QED BY <2>0, <2>1, <3>2
    <2>4. TypeOK' /\ MessageBooks' /\ QueueBound' /\ SyncedIsSent'
      <3>1. memory' \in {"sound", "wrapped", "crashed"} /\ (memory' # "sound" => closed_')
        BY <1>0, <2>0 DEF TypeOK, IInv, MessageBooks
      <3>2. /\ is_sending_' \in BOOLEAN /\ send_init_md_' \in BOOLEAN /\ status_sent' \in BOOLEAN
            /\ write_tags' \in Nat /\ init_mds' \in Nat
            /\ send_init_md_' <=> wire' = <<>>
        <4>1. status_sent' \in BOOLEAN
          BY <1>0, <2>0 DEF TypeOK
        <4> QED BY <2>0, <2>2, <4>1
      <3> QED BY <2>0, <2>2, <2>3, <3>1, <3>2, <1>P
    <2>5. OneSendInFlight'
      BY <1>0, <2>0, <2>2, <2>4, LenProperties DEF OneSendInFlight, TypeOK
    <2>6. StreamInOrder'
      <3>1. accepted' = wire' \o queue_'
        BY <1>0, <2>0, MoveHead
      <3>2. IsPrefix(wire', accepted')
        BY <2>2, <3>1, PrefixOfConcat
      <3> QED BY <1>0, <2>0, <2>2, <3>1, <3>2 DEF StreamInOrder, SentInOrder, MetadataFirstStatusLast
    <2> QED BY <2>4, <2>5, <2>6 DEF IInv
  <1>2. CASE NextMessage /\ SendMsgFails(write_tags - 1) /\ memory' \in {"wrapped", "crashed"}
    <2>0. /\ queue_' = <<>> /\ closed_' = TRUE /\ is_sending_' = TRUE /\ write_tags' = 0
          /\ UNCHANGED <<wire, init_mds, send_init_md_, status_sent>>
      BY <1>0, <1>2 DEF SendMsgFails, NextMessage
    <2>1. queue_' \in Seq(Nat) /\ Len(queue_') <= Len(queue_)
      BY <1>0, <2>0, EmptySeq, LenProperties
    <2>2. TypeOK' /\ MessageBooks' /\ QueueBound' /\ SyncedIsSent'
      BY <1>0, <1>2, <2>0, <2>1, <1>P DEF TypeOK, IInv, MessageBooks
    <2>3. OneSendInFlight' /\ StreamInOrder'
      BY <1>0, <2>0, <2>2
      DEF IInv, OneSendInFlight, StreamInOrder, SentInOrder, MetadataFirstStatusLast
    <2> QED BY <2>2, <2>3 DEF IInv
  <1>3. CASE NextStatus \/ NextNothing
    <2>0. /\ queue_ = <<>> /\ queue_' = <<>> /\ accepted = wire /\ is_sending_' = FALSE /\ write_tags' = 0
          /\ UNCHANGED <<wire, send_init_md_, memory>>
          /\ status_sent' \in BOOLEAN /\ closed_' \in BOOLEAN
          /\ status_sent' => closed_' /\ close_status # NoStatus
      <3>1. CASE NextStatus
        <4>1. status_sent' \in BOOLEAN /\ closed_' = TRUE /\ close_status # NoStatus
          BY <1>0, <3>1 DEF NextStatus, SendStatus, TypeOK
        <4>2. /\ queue_ = <<>> /\ queue_' = <<>> /\ is_sending_' = FALSE /\ write_tags' = 0
              /\ UNCHANGED <<wire, send_init_md_, memory>>
          BY <1>0, <3>1 DEF NextStatus
        <4> QED BY <1>0, <4>1, <4>2
      <3>2. CASE NextNothing
        <4>1. closed_' \in BOOLEAN /\ status_sent' \in BOOLEAN /\ ~status_sent'
          BY <1>0, <3>2 DEF NextNothing, TypeOK
        <4>2. /\ queue_ = <<>> /\ queue_' = <<>> /\ is_sending_' = FALSE /\ write_tags' = 0
              /\ UNCHANGED <<wire, send_init_md_, memory>>
          BY <1>0, <3>2 DEF NextNothing
        <4> QED BY <1>0, <4>1, <4>2
      <3> QED BY <1>3, <3>1, <3>2
    <2>1. init_mds' \in Nat /\ init_mds' = IF wire # <<>> \/ status_sent' THEN 1 ELSE 0
      <3>1. wire # <<>>
        BY <1>0, EmptySeq DEF TypeOK
      <3>2. init_mds = 1 /\ ~send_init_md_
        BY <1>0, <3>1 DEF IInv, StreamInOrder, MetadataFirstStatusLast, MessageBooks
      <3> QED BY <1>0, <1>3, <3>1, <3>2 DEF NextStatus, NextNothing, SendStatus, TypeOK
    <2>2. TypeOK' /\ MessageBooks' /\ QueueBound' /\ SyncedIsSent'
      <3>1. queue_' \in Seq(Nat) /\ Len(queue_') <= Len(queue_)
        BY <1>0, <2>0, LenProperties
      <3>2. memory' # "sound" => closed_'
        BY <1>0, <2>0 DEF IInv, MessageBooks
      <3> QED BY <1>0, <2>0, <2>1, <3>1, <3>2, <1>P DEF TypeOK, IInv, MessageBooks
    <2>3. OneSendInFlight'
      BY <1>0, <2>0, <2>2 DEF OneSendInFlight, TypeOK
    <2>4. StreamInOrder'
      <3>1. accepted' = wire' \o queue_'
        BY <1>0, <2>0
      <3>2. IsPrefix(wire', accepted')
        BY <1>0, <2>0, <3>1, PrefixOfConcat
      <3> QED BY <1>0, <2>0, <2>1, <3>1, <3>2 DEF StreamInOrder, SentInOrder, MetadataFirstStatusLast
    <2> QED BY <2>2, <2>3, <2>4 DEF IInv
  <1> QED BY <1>0, <1>1, <1>2, <1>3 DEF NextMessage

\* A step of another system leaves the writer as it is.
LEMMA StutterPreservesIInv ==
  ASSUME IInv, UNCHANGED vars
  PROVE  IInv'
  <1>0. UNCHANGED <<queue_, is_sending_, closed_, send_init_md_, high_queue_size_, close_status,
                    wire, init_mds, write_tags, calls, direct, synced, pc, msg, memory, handle,
                    accepted, completed, status_sent>>
    BY DEF vars, impl, batches, log, threads
  <1>1. OneSendInFlight' /\ StreamInOrder' /\ SyncedIsSent' /\ QueueBound'
    BY <1>0
    DEF IInv, OneSendInFlight, TypeOK, StreamInOrder, SentInOrder, MetadataFirstStatusLast,
        SyncedIsSent, QueueBound
  <1>2. MessageBooks'
    <2>1. (memory' # "sound" => closed_') /\ (send_init_md_' <=> wire' = <<>>)
      BY <1>0 DEF IInv, MessageBooks
    <2> QED BY <1>0, <2>1, BooksAfterStep
  <1> QED BY <1>1, <1>2 DEF IInv

\* Every step preserves it.
LEMMA NextPreservesIInv ==
  ASSUME IInv, [Next]_vars
  PROVE  IInv'
  <1>1. CASE UNCHANGED vars
    BY <1>1, StutterPreservesIInv
  <1>2. CASE \E t \in Callers : Call(t) \/ DoWrite(t) \/ Leave(t) \/ Close(t)
    <2>1. PICK t \in Callers : Call(t) \/ DoWrite(t) \/ Leave(t) \/ Close(t)
      BY <1>2
    <2> QED BY <2>1, CallPreservesIInv, WritePreservesIInv, LeavePreservesIInv, ClosePreservesIInv
  <1>3. CASE (\E n \in HighSizes : SetHighQueueSize(n)) \/ Drop \/ Destruct
    BY <1>3, OwnerPreservesIInv
  <1>4. CASE TryToWriteNext
    BY <1>4, TryToWriteNextPreservesIInv
  <1> QED BY <1>1, <1>2, <1>3, <1>4 DEF Next

-----------------------------------------------------------------------------
\* The inductive invariant holds in every state the writer reaches.
THEOREM Invariance == Spec => []IInv
  <1>1. Init => IInv
    BY InitEstablishesIInv
  <1>2. IInv /\ [Next]_vars => IInv'
    BY NextPreservesIInv
  <1> QED BY <1>1, <1>2, PTL DEF Spec

\* "grpc must send one by one": whatever threads race to write, at most one
\* message is being sent, and messages wait only behind one (SendMsg(),
\* TryToWriteNext() and the asserts about the queue).
THEOREM OneSend == Spec => []OneSendInFlight
  <1>1. IInv => OneSendInFlight
    BY DEF IInv
  <1> QED BY <1>1, Invariance, PTL

\* Messages leave in the order AsyncWrite() took them, each once; the first
\* batch, and only it, carries the initial metadata; the status goes last.
THEOREM InOrder == Spec => []StreamInOrder
  <1>1. IInv => StreamInOrder
    BY DEF IInv
  <1> QED BY <1>1, Invariance, PTL

\* A SyncWrite() returns true only for a message that was handed to grpc.
THEOREM SyncWriteTrue == Spec => []SyncedIsSent
  <1>1. IInv => SyncedIsSent
    BY DEF IInv
  <1> QED BY <1>1, Invariance, PTL

\* The high queue size bounds the queue but for one message of each caller,
\* one more of each blocked caller, and what AsyncWrite() added directly.
THEOREM BoundedQueue == Spec => []Backpressure
  <1>1. ASSUME IInv PROVE Backpressure
    <2>1. Blocked = At(pc, "spin")
      BY DEF Blocked, At
    <2>2. /\ Cardinality(At(pc, "low")) \in Nat /\ Cardinality(At(pc, "spin")) \in Nat
          /\ Cardinality(Callers) \in Nat
      BY AtFacts
    <2>3. Len(queue_) \in Nat /\ InitialHigh \in Nat /\ direct \in Nat
      BY <1>1, InvFacts, LenProperties, ServerWriterAssumption DEF TypeOK
    <2> QED BY <1>1, <2>1, <2>2, <2>3 DEF IInv, QueueBound, Backpressure
  <1> QED BY <1>1, Invariance, PTL

-----------------------------------------------------------------------------
\* A closed writer keeps what it sent, and one with a status takes no message.
LEMMA CloseStep ==
  ASSUME IInv, [Next]_vars
  PROVE  /\ close_status # NoStatus => UNCHANGED <<close_status, accepted>>
         /\ closed_ => closed_' /\ UNCHANGED <<wire, status_sent, accepted>>
  <1>0. closed_ => write_tags = 0 /\ ~AcceptsWrites
    BY DEF IInv, OneSendInFlight, AcceptsWrites
  <1>1. CASE UNCHANGED vars
    BY <1>1 DEF vars, impl, batches
  <1>2. ASSUME NEW t \in Callers, Call(t) \/ Leave(t)
        PROVE  UNCHANGED <<close_status, accepted, closed_, wire, status_sent>>
    BY <1>2 DEF Call, Leave, impl, batches
  <1>3. ASSUME NEW t \in Callers, DoWrite(t)
        PROVE  /\ close_status' = close_status /\ status_sent' = status_sent
               /\ ~AcceptsWrites => UNCHANGED <<closed_, wire, accepted>>
    BY <1>3 DEF DoWrite, WriteLow, WriteHigh, AsyncWrite, batches
  <1>4. ASSUME NEW st \in Statuses, AsyncClose(st)
        PROVE  ~FirstClose => UNCHANGED <<closed_, close_status, status_sent>>
    BY <1>4 DEF AsyncClose
  <1>5. ASSUME NEW t \in Callers, Close(t)
        PROVE  /\ UNCHANGED <<accepted, wire>>
               /\ ~FirstClose => UNCHANGED <<closed_, close_status, status_sent>>
    BY <1>4, <1>5 DEF Close
  <1>6. CASE (\E n \in HighSizes : SetHighQueueSize(n)) \/ Drop
    BY <1>6 DEF SetHighQueueSize, Drop, impl, batches
  <1>7. CASE Destruct
    BY <1>4, <1>7, ServerWriterAssumption DEF Destruct, FirstClose
  <1>8. CASE TryToWriteNext
    BY <1>0, <1>8, InvFacts DEF TryToWriteNext, TypeOK
  <1> QED BY <1>0, <1>1, <1>2, <1>3, <1>5, <1>6, <1>7, <1>8 DEF Next, FirstClose, AcceptsWrites

\* The first close decides: no message is taken after it, and once the writer
\* is closed_, by its status or by an error, nothing is sent.
THEOREM FirstCloseDecides == Spec => CloseIsFinal
  <1>1. IInv /\ [Next]_vars =>
           [/\ close_status # NoStatus => UNCHANGED <<close_status, accepted>>
            /\ closed_ => closed_' /\ UNCHANGED <<wire, status_sent, accepted>>]_vars
    BY CloseStep
  <1> QED BY <1>1, Invariance, PTL DEF Spec, CloseIsFinal

-----------------------------------------------------------------------------
\* Writing a message is accepting it, and handing it to grpc at once or not.
LEMMA WriteAccepts ==
  ASSUME IInv, NEW t \in Callers, DoWrite(t)
  PROVE  [Stream!Next]_(Stream!vars)
  <1>1. /\ wire \in Seq(Nat) /\ accepted \in Seq(Nat) /\ Len(wire) \in Nat
        /\ UNCHANGED <<status_sent, close_status>>
    BY InvFacts, LenProperties DEF DoWrite
  <1>2. CASE UNCHANGED <<wire, accepted>>
    BY <1>1, <1>2 DEF Stream!vars
  <1>3. CASE AcceptsWrites /\ accepted' = Append(accepted, msg[t])
    <2>1. ~closed_ /\ ~status_sent
      BY <1>3, InvFacts DEF AcceptsWrites
    <2>2. msg[t] \in 1..MaxWrites
      <3>1. pc[t] \in {"low", "high"} /\ calls \in Nat /\ MaxWrites \in Nat
        BY InvFacts, ServerWriterAssumption DEF DoWrite, WriteLow, WriteHigh, TypeOK
      <3> QED BY <3>1 DEF IInv, MessageBooks, Writing
    <2>3. CASE UNCHANGED wire
      BY <1>1, <1>3, <2>1, <2>2, <2>3 DEF Stream!Next, Stream!Accept
    <2>4. CASE wire' = Append(wire, msg[t]) /\ ~is_sending_
      <3>1. accepted = wire
        BY <2>1, <2>4, InvFacts
      <3>2. PICK m \in Nat : m = msg[t]
        BY <2>2
      <3>3. Len(accepted') = Len(wire) + 1 /\ accepted'[Len(wire) + 1] = m
        BY <1>1, <1>3, <3>1, <3>2, AppendProperties
      <3>4. Stream!Transmit
        BY <1>1, <2>4, <3>2, <3>3 DEF Stream!Transmit
      <3> QED BY <1>1, <1>3, <2>1, <2>2, <3>4 DEF Stream!Next, Stream!Accept
    <2> QED BY <1>3, <2>3, <2>4 DEF DoWrite, WriteLow, WriteHigh, AsyncWrite, SendMsgOk, batches,
                                    AcceptsWrites, SendMsgFails
  <1> QED BY <1>2, <1>3 DEF DoWrite, WriteLow, WriteHigh, AsyncWrite, SendMsgFails, batches

\* Sending the status, when nothing waits, ends the stream.
LEMMA StatusEnds ==
  ASSUME IInv, UNCHANGED <<wire, accepted>>, accepted = wire, ~status_sent,
         status_sent' => close_status' \in Statuses
  PROVE  [Stream!Next]_(Stream!vars)
  BY DEF Stream!Next, Stream!End, Stream!vars

\* A completion sends the next message, ends the stream, or is not seen.
LEMMA CompletionSends ==
  ASSUME IInv, TryToWriteNext
  PROVE  [Stream!Next]_(Stream!vars)
  <1>1. /\ wire \in Seq(Nat) /\ queue_ \in Seq(Nat) /\ accepted = wire \o queue_
        /\ ~closed_ /\ ~status_sent /\ (queue_ = <<>> => accepted = wire)
        /\ close_status \in Statuses \cup {NoStatus}
        /\ UNCHANGED <<accepted, close_status>>
        /\ NextMessage \/ NextStatus \/ NextNothing
    <2>1. ~closed_
      BY DEF TryToWriteNext, IInv, OneSendInFlight
    <2> QED BY <2>1, InvFacts DEF TryToWriteNext, TypeOK
  <1>2. CASE NextMessage /\ wire' = Append(wire, Head(queue_))
    <2>1. PICK h \in Nat : h = Head(queue_)
      BY <1>1, <1>2, HeadTailProperties DEF NextMessage
    <2>2. Len(wire) \in Nat /\ Len(queue_) \in Nat /\ Len(queue_) # 0 /\ queue_[1] = h
      BY <1>1, <1>2, <2>1, LenProperties, EmptySeq DEF NextMessage
    <2>3. Len(accepted) = Len(wire) + Len(queue_) /\ accepted[Len(wire) + 1] = h
      <3>1. /\ Len(wire \o queue_) = Len(wire) + Len(queue_)
            /\ \A i \in 1..(Len(wire) + Len(queue_)) :
                 (wire \o queue_)[i] = IF i <= Len(wire) THEN wire[i] ELSE queue_[i - Len(wire)]
        BY <1>1, ConcatProperties
      <3>2. Len(wire) + 1 \in 1..(Len(wire) + Len(queue_)) /\ (Len(wire) + 1) - Len(wire) = 1
            /\ ~(Len(wire) + 1 <= Len(wire))
        BY <2>2
      <3> QED BY <1>1, <2>2, <3>1, <3>2
    <2>4. Stream!Transmit
      BY <1>1, <1>2, <2>1, <2>2, <2>3 DEF Stream!Transmit
    <2>5. status_sent' = status_sent
      BY <1>2 DEF NextMessage
    <2> QED BY <1>1, <2>4, <2>5 DEF Stream!Next, Stream!Send
  <1>3. CASE NextMessage /\ SendMsgFails(write_tags - 1)
    BY <1>1, <1>3 DEF NextMessage, SendMsgFails, Stream!vars
  <1>4. CASE NextStatus \/ NextNothing
    BY <1>1, <1>4, StatusEnds DEF NextStatus, NextNothing
  <1> QED BY <1>1, <1>2, <1>3, <1>4 DEF NextMessage, SendMsgOk

\* Closing ends the stream at once, later, or not at all if it was closed.
LEMMA CloseEnds ==
  ASSUME IInv, NEW st \in Statuses, AsyncClose(st), UNCHANGED <<wire, accepted>>
  PROVE  [Stream!Next]_(Stream!vars)
  <1>1. CASE ~FirstClose
    BY <1>1 DEF AsyncClose, Stream!vars
  <1>2. CASE FirstClose
    <2>1. ~status_sent /\ (~is_sending_ => accepted = wire) /\ close_status' = st
          /\ (is_sending_ => status_sent' = status_sent)
      BY <1>2, InvFacts DEF FirstClose, AsyncClose
    <2>2. CASE is_sending_
      BY <2>1, <2>2 DEF Stream!vars
    <2>3. CASE ~is_sending_
      BY <2>1, <2>3, StatusEnds
    <2> QED BY <2>2, <2>3
  <1> QED BY <1>1, <1>2

\* The writer implements the contract of a stream of messages: what its client
\* receives is what the threads wrote, in order, with the status last.
THEOREM Refinement == Spec => ImplementsStream
  <1>1. Init => Stream!Init
    BY DEF Init, Stream!Init
  <1>2. ASSUME IInv, [Next]_vars
        PROVE  [Stream!Next]_(Stream!vars)
    <2>1. CASE UNCHANGED vars
      BY <2>1 DEF vars, impl, batches, Stream!vars
    <2>2. ASSUME NEW t \in Callers, Call(t) \/ Leave(t)
          PROVE  UNCHANGED Stream!vars
      BY <2>2 DEF Call, Leave, impl, batches, Stream!vars
    <2>3. ASSUME NEW t \in Callers, DoWrite(t)
          PROVE  [Stream!Next]_(Stream!vars)
      BY <1>2, <2>3, WriteAccepts
    <2>4. ASSUME NEW t \in Callers, Close(t)
          PROVE  [Stream!Next]_(Stream!vars)
      BY <1>2, <2>4, CloseEnds DEF Close
    <2>5. CASE (\E n \in HighSizes : SetHighQueueSize(n)) \/ Drop
      BY <2>5 DEF SetHighQueueSize, Drop, impl, batches, Stream!vars
    <2>6. CASE Destruct
      BY <1>2, <2>6, CloseEnds, ServerWriterAssumption DEF Destruct
    <2>7. CASE TryToWriteNext
      BY <1>2, <2>7, CompletionSends
    <2> QED BY <1>2, <2>1, <2>2, <2>3, <2>4, <2>5, <2>6, <2>7 DEF Next
  <1> QED BY <1>1, <1>2, Invariance, PTL DEF Spec, ImplementsStream, Stream!Spec
=============================================================================
