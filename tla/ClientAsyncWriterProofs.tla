---------------------- MODULE ClientAsyncWriterProofs ----------------------
(***************************************************************************)
(* Proofs about ClientAsyncWriter for every set of messages and callbacks, *)
(* every set of server errors and every bound on the writes.               *)
(***************************************************************************)
EXTENDS ClientAsyncWriter, TLAPS, SequenceTheorems

\* How the registered callback, its call and the end of the call relate.
CallbackBooks ==
  /\ ~is_closing_ => calls = <<>> /\ close_cb_ = NoCb
  /\ close_cb_ \in {NoCb, registered}
  /\ calls # <<>> /\ status_ = OK => half_closes = 1 /\ close_tags = 0
  /\ close_cb_ # NoCb /\ half_closes = 1 => close_tags = 1

\* The inductive invariant: the checked invariants and the books.
IInv ==
  /\ TypeOK
  /\ OneSendInFlight
  /\ SentInOrder
  /\ HalfCloseIsLast
  /\ CallbackTellsVerdict
  /\ CallbackBooks

\* The two statuses the writer itself makes are statuses.
LEMMA StatusFacts == OK \in Statuses /\ InternalError \in Statuses
                     /\ OK # InternalError /\ OK # "NoVerdict" /\ InternalError # "NoVerdict"
  BY DEF Statuses, OK, InternalError

-----------------------------------------------------------------------------
\* A sequence is a prefix of itself followed by anything.
LEMMA PrefixOfConcat ==
  ASSUME NEW S, NEW w \in Seq(S), NEW u \in Seq(S)
  PROVE  IsPrefix(w, w \o u)
  <1>1. Len(w) \in Nat /\ Len(u) \in Nat /\ Len(w \o u) = Len(w) + Len(u)
    BY LenProperties, ConcatProperties
  <1>2. CASE Len(w) = 0
    BY <1>1, <1>2, SubSeqEmpty DEF IsPrefix
  <1>3. CASE Len(w) # 0
    BY <1>1, <1>3, SubSeqOfConcat1 DEF IsPrefix
  <1> QED BY <1>2, <1>3

\* Queueing behind a nonempty queue appends to what is unsent.
LEMMA UnsentAppend ==
  ASSUME NEW S, NEW q \in Seq(S), q # <<>>, NEW m \in S
  PROVE  Unsent(Append(q, m)) = Append(Unsent(q), m)
  <1>1. Append(q, m) # <<>> /\ Tail(Append(q, m)) = Append(Tail(q), m)
    BY HeadTailAppend
  <1> QED BY <1>1 DEF Unsent

\* Sending the head of what is unsent moves it to the wire.
LEMMA UnsentSent ==
  ASSUME NEW S, NEW w \in Seq(S), NEW q \in Seq(S), q # <<>>
  PROVE  w \o q = Append(w, Head(q)) \o Unsent(q)
  <1>1. Head(q) \in S /\ Tail(q) \in Seq(S) /\ q = <<Head(q)>> \o Tail(q)
    BY HeadTailProperties
  <1>2. <<Head(q)>> \in Seq(S)
    BY <1>1
  <1>3. w \o (<<Head(q)>> \o Tail(q)) = (w \o <<Head(q)>>) \o Tail(q)
    BY <1>1, <1>2, ConcatAssociative, SMTT(30)
  <1>4. w \o <<Head(q)>> = Append(w, Head(q))
    BY <1>1, AppendIsConcat
  <1> QED BY <1>1, <1>3, <1>4 DEF Unsent

-----------------------------------------------------------------------------
\* A writer that was just constructed satisfies the invariant.
LEMMA InitEstablishesIInv == Init => IInv
  <1> SUFFICES ASSUME Init PROVE IInv
    OBVIOUS
  <1> USE DEF Init
  <1>1. TypeOK
    BY StatusFacts, EmptySeq DEF TypeOK
  <1>2. OneSendInFlight /\ HalfCloseIsLast
    BY DEF OneSendInFlight, HalfCloseIsLast
  <1>4. SentInOrder
    <2>1. <<>> \in Seq(Msgs) /\ <<>> \o <<>> = <<>>
      BY EmptySeq, ConcatEmptySeq
    <2>2. IsPrefix(<<>>, <<>>)
      BY <2>1, PrefixOfConcat
    <2> QED BY <2>1, <2>2 DEF SentInOrder, Unsent
  <1>3. CallbackTellsVerdict /\ CallbackBooks
    BY DEF CallbackTellsVerdict, CallbackBooks
  <1> QED BY <1>1, <1>2, <1>3, <1>4 DEF IInv

\* Write() preserves it: the message is queued, sent, or refused by grpc.
LEMMA WritePreservesIInv ==
  ASSUME IInv, NEW m \in Msgs, Write(m)
  PROVE  IInv'
  <1> DEFINE Others == UNCHANGED <<deadline, is_closing_, close_tags, crashed,
                                   half_closes, registered>>
  <1>0. /\ status_ = OK /\ ~is_closing_ /\ Others
        /\ msg_queue_' = Append(msg_queue_, m)
        /\ msg_queue_' \in Seq(Msgs) /\ msg_queue_' # <<>>
        /\ half_closes = 0 /\ close_tags = 0 /\ calls = <<>> /\ close_cb_ = NoCb
    <2>1. msg_queue_' = Append(msg_queue_, m) /\ msg_queue_ \in Seq(Msgs)
      BY DEF Write, IInv, TypeOK
    <2>2. msg_queue_' \in Seq(Msgs) /\ msg_queue_' # <<>>
      BY <2>1, AppendProperties
    <2>3. /\ status_ = OK /\ ~is_closing_ /\ Others
      BY DEF Write, IsWritable
    <2>4. half_closes = 0 /\ close_tags = 0 /\ calls = <<>> /\ close_cb_ = NoCb
      BY <2>3 DEF IInv, TypeOK, HalfCloseIsLast, CallbackBooks
    <2> QED BY <2>1, <2>2, <2>3, <2>4
  <1>1. CASE /\ IsSending
             /\ accepted' = Append(accepted, m)
             /\ UNCHANGED <<status_, close_cb_, send_tags, wire, calls>>
    <2>1. TypeOK'
      BY <1>0, <1>1, AppendProperties DEF IInv, TypeOK
    <2>2. OneSendInFlight'
      BY <1>0, <1>1, HeadTailAppend DEF IInv, TypeOK, OneSendInFlight, IsSending, Last
    <2>3. SentInOrder'
      <3>1. Unsent(msg_queue_) \in Seq(Msgs)
        BY HeadTailProperties, EmptySeq DEF IInv, TypeOK, Unsent
      <3>2. accepted' = Append(wire \o Unsent(msg_queue_), m)
        BY <1>0, <1>1 DEF IInv, SentInOrder
      <3>3. accepted' = wire \o Append(Unsent(msg_queue_), m)
        <4>1. wire \in Seq(Msgs) /\ <<m>> \in Seq(Msgs)
          BY DEF IInv, TypeOK
        <4>2. wire \o Unsent(msg_queue_) \in Seq(Msgs)
          BY <3>1, <4>1, ConcatProperties
        <4>3. accepted' = (wire \o Unsent(msg_queue_)) \o <<m>>
          BY <3>2, <4>2, AppendIsConcat
        <4>4. @ = wire \o (Unsent(msg_queue_) \o <<m>>)
          BY <3>1, <4>1, ConcatAssociative
        <4>5. @ = wire \o Append(Unsent(msg_queue_), m)
          BY <3>1, AppendIsConcat
        <4> QED BY <4>3, <4>4, <4>5
      <3>4. accepted' = wire \o Unsent(msg_queue_')
        BY <1>0, <1>1, <3>3, UnsentAppend DEF IInv, TypeOK, IsSending
      <3>5. Append(Unsent(msg_queue_), m) \in Seq(Msgs)
        BY <3>1, AppendProperties
      <3>6. IsPrefix(wire, accepted')
        BY <3>3, <3>5, PrefixOfConcat DEF IInv, TypeOK
      <3> QED BY <1>1, <3>4, <3>6 DEF SentInOrder
    <2>4. HalfCloseIsLast' /\ CallbackTellsVerdict' /\ CallbackBooks'
      BY <1>0, <1>1 DEF IInv, TypeOK, HalfCloseIsLast, CallbackTellsVerdict, CallbackBooks
    <2> QED BY <2>1, <2>2, <2>3, <2>4 DEF IInv
  <1>2. CASE ~IsSending /\ SendNextOk(send_tags, <<m>>) /\ accepted' = Append(accepted, m)
    <2>0. /\ msg_queue_ = <<>> /\ send_tags = 0 /\ msg_queue_' = <<m>>
          /\ send_tags' = 1 /\ wire' = Append(wire, m) /\ accepted' = Append(accepted, m)
          /\ UNCHANGED <<status_, close_cb_, calls>>
      BY <1>0, <1>2 DEF IsSending, SendNextOk, IInv, OneSendInFlight
    <2>1. TypeOK'
      <3>1. wire' \in Seq(Msgs) /\ accepted' \in Seq(Msgs)
        BY <2>0, AppendProperties DEF IInv, TypeOK
      <3> QED BY <1>0, <2>0, <3>1 DEF IInv, TypeOK
    <2>2. OneSendInFlight'
      <3>1. wire' # <<>> /\ wire'[Len(wire')] = m
        <4>1. wire \in Seq(Msgs)
          BY DEF IInv, TypeOK
        <4>2. wire' = Append(wire, m)
          BY <2>0
        <4> QED BY <4>1, <4>2, AppendProperties
      <3> QED BY <1>0, <2>0, <3>1 DEF OneSendInFlight, Last
    <2>3. SentInOrder'
      <3>1. accepted = wire
        BY <1>0, <2>0, ConcatEmptySeq DEF IInv, TypeOK, SentInOrder, Unsent
      <3>2. accepted' = wire' /\ wire' \in Seq(Msgs)
        BY <3>1, <2>0, AppendProperties DEF IInv, TypeOK
      <3>3. wire' = wire' \o <<>>
        BY <3>2, ConcatEmptySeq
      <3>4. IsPrefix(wire', accepted')
        BY <3>2, <3>3, PrefixOfConcat, EmptySeq
      <3>5. Unsent(msg_queue_') = <<>>
        BY <2>0 DEF Unsent
      <3> QED BY <3>2, <3>3, <3>4, <3>5 DEF SentInOrder
    <2>4. HalfCloseIsLast' /\ CallbackTellsVerdict' /\ CallbackBooks'
      BY <1>0, <2>0 DEF IInv, TypeOK, HalfCloseIsLast, CallbackTellsVerdict, CallbackBooks
    <2> QED BY <2>1, <2>2, <2>3, <2>4 DEF IInv
  <1>3. CASE ~IsSending /\ SendNextFails(send_tags) /\ UNCHANGED accepted
    <2>0. /\ msg_queue_ = <<>> /\ send_tags = 0 /\ send_tags' = 0
          /\ status_' = InternalError
          /\ UNCHANGED <<close_cb_, calls, wire, accepted>>
      BY <1>0, <1>3
      DEF IsSending, SendNextFails, EndOnInternalError, TryToCallCloseCb, IInv, OneSendInFlight
    <2>1. TypeOK'
      BY <1>0, <2>0, StatusFacts DEF IInv, TypeOK
    <2>2. OneSendInFlight' /\ SentInOrder'
      BY <1>0, <2>0, StatusFacts DEF IInv, OneSendInFlight, SentInOrder
    <2>3. HalfCloseIsLast' /\ CallbackTellsVerdict' /\ CallbackBooks'
      BY <1>0, <2>0 DEF IInv, TypeOK, HalfCloseIsLast, CallbackTellsVerdict, CallbackBooks
    <2> QED BY <2>1, <2>2, <2>3 DEF IInv
  <1> QED BY <1>1, <1>2, <1>3 DEF Write

\* A step that leaves the queue, the wire and the status alone, or spoils the
\* status, keeps what was sent in order.
LEMMA SentInOrderKept ==
  ASSUME IInv, UNCHANGED <<wire, accepted>>,
         status_' # OK \/ (status_ = OK /\ UNCHANGED msg_queue_)
  PROVE  SentInOrder'
  BY DEF IInv, SentInOrder

\* The first Close() preserves it: told at once, half-closed, or left to wait.
LEMMA ClosePreservesIInv ==
  ASSUME IInv, NEW cb \in Cbs \cup {NoCb}, Close(cb)
  PROVE  IInv'
  <1>0. /\ ~is_closing_ /\ is_closing_' = TRUE /\ registered' = cb
        /\ UNCHANGED <<deadline, msg_queue_, send_tags, crashed, accepted, wire>>
        /\ half_closes = 0 /\ close_tags = 0 /\ calls = <<>> /\ close_cb_ = NoCb
    BY DEF Close, IsClosed, IInv, TypeOK, HalfCloseIsLast, CallbackBooks
  <1> DEFINE Told(st) == calls' = IF cb = NoCb THEN <<>> ELSE <<[cb |-> cb, status |-> st]>>
  <1>T. ASSUME NEW st \in Statuses, CallCloseCb(cb, st)
        PROVE  Told(st) /\ calls' \in Seq([cb : Cbs, status : Statuses])
    <2>1. CASE cb = NoCb
      BY <1>0, <1>T, <2>1, EmptySeq DEF CallCloseCb
    <2>2. CASE cb # NoCb
      <3>1. [cb |-> cb, status |-> st] \in [cb : Cbs, status : Statuses]
        BY <2>2, <1>T
      <3>2. calls' = <<[cb |-> cb, status |-> st]>>
        BY <1>0, <1>T, <2>2 DEF CallCloseCb
      <3> QED BY <3>1, <3>2, <2>2
    <2> QED BY <2>1, <2>2
  <1>1. CASE /\ status_ # OK
             /\ CallCloseCb(cb, status_)
             /\ UNCHANGED <<status_, close_tags, half_closes>>
    <2>0. Told(status_) /\ calls' \in Seq([cb : Cbs, status : Statuses]) /\ close_cb_' = NoCb
      BY <1>1, <1>T DEF CallCloseCb, IInv, TypeOK
    <2>1. TypeOK'
      BY <1>0, <1>1, <2>0 DEF IInv, TypeOK
    <2>2. OneSendInFlight' /\ SentInOrder'
      BY <1>0, <1>1 DEF IInv, OneSendInFlight, SentInOrder
    <2>3. HalfCloseIsLast' /\ CallbackTellsVerdict' /\ CallbackBooks'
      BY <1>0, <1>1, <2>0 DEF HalfCloseIsLast, CallbackTellsVerdict, CallbackBooks
    <2> QED BY <2>1, <2>2, <2>3 DEF IInv
  <1>2. CASE status_ = OK /\ AllSent(msg_queue_) /\ SendClose(cb)
    <2>0. msg_queue_ = <<>> /\ wire = accepted /\ half_closes' = 1
      BY <1>0, <1>2, ConcatEmptySeq
      DEF AllSent, IInv, TypeOK, SentInOrder, Unsent, SendClose
    <2>1. CASE close_tags' = close_tags + 1 /\ close_cb_' = cb /\ UNCHANGED <<status_, calls>>
      <3>1. TypeOK'
        BY <1>0, <2>0, <2>1 DEF IInv, TypeOK
      <3>2. OneSendInFlight' /\ SentInOrder'
        BY <1>0, <1>2, <2>1, SentInOrderKept DEF IInv, OneSendInFlight
      <3>3. HalfCloseIsLast' /\ CallbackTellsVerdict' /\ CallbackBooks'
        BY <1>0, <1>2, <2>0, <2>1 DEF HalfCloseIsLast, CallbackTellsVerdict, CallbackBooks
      <3> QED BY <3>1, <3>2, <3>3 DEF IInv
    <2>2. CASE /\ status_' = InternalError
               /\ CallCloseCb(cb, InternalError)
               /\ UNCHANGED close_tags
      <3>0. /\ Told(InternalError) /\ close_cb_' = NoCb
            /\ calls' \in Seq([cb : Cbs, status : Statuses])
        BY <2>2, <1>T, StatusFacts DEF CallCloseCb
      <3>1. TypeOK'
        BY <1>0, <2>0, <2>2, <3>0, StatusFacts DEF IInv, TypeOK
      <3>2. OneSendInFlight' /\ SentInOrder'
        BY <1>0, <2>0, <2>2, SentInOrderKept, StatusFacts DEF IInv, OneSendInFlight
      <3>3. HalfCloseIsLast' /\ CallbackTellsVerdict' /\ CallbackBooks'
        BY <1>0, <2>0, <2>2, <3>0, StatusFacts
        DEF HalfCloseIsLast, CallbackTellsVerdict, CallbackBooks
      <3> QED BY <3>1, <3>2, <3>3 DEF IInv
    <2> QED BY <1>2, <2>1, <2>2 DEF SendClose
  <1>3. CASE /\ status_ = OK /\ ~AllSent(msg_queue_)
             /\ close_cb_' = cb
             /\ UNCHANGED <<status_, close_tags, half_closes, calls>>
    <2>1. TypeOK'
      BY <1>0, <1>3 DEF IInv, TypeOK
    <2>2. OneSendInFlight' /\ SentInOrder'
      BY <1>0, <1>3, SentInOrderKept DEF IInv, OneSendInFlight
    <2>3. HalfCloseIsLast' /\ CallbackTellsVerdict' /\ CallbackBooks'
      BY <1>0, <1>3 DEF HalfCloseIsLast, CallbackTellsVerdict, CallbackBooks
    <2> QED BY <2>1, <2>2, <2>3 DEF IInv
  <1> QED BY <1>1, <1>2, <1>3 DEF Close

\* What ending on an internal error does to the callback while none was called.
LEMMA ErrorTells ==
  ASSUME IInv, calls = <<>>, TryToCallCloseCb(InternalError)
  PROVE  /\ close_cb_' = NoCb
         /\ calls' = IF close_cb_ = NoCb THEN <<>>
                     ELSE <<[cb |-> registered, status |-> InternalError]>>
         /\ calls' \in Seq([cb : Cbs, status : Statuses])
  <1>1. CASE close_cb_ = NoCb
    BY <1>1, EmptySeq DEF TryToCallCloseCb, CallCloseCb
  <1>2. CASE close_cb_ # NoCb
    <2>1. is_closing_ /\ close_cb_ = registered /\ close_cb_ \in Cbs
      BY <1>2 DEF IInv, TypeOK, CallbackBooks
    <2>2. [cb |-> registered, status |-> InternalError] \in [cb : Cbs, status : Statuses]
      BY <2>1, StatusFacts
    <2>3. calls' = <<[cb |-> registered, status |-> InternalError]>> /\ close_cb_' = NoCb
      BY <1>2, <2>1 DEF TryToCallCloseCb, CallCloseCb
    <2> QED BY <1>2, <2>2, <2>3
  <1> QED BY <1>1, <1>2

\* OnSent() preserves it: a failed send, the next message, or the last one.
LEMMA OnSentPreservesIInv ==
  ASSUME IInv, OnSent
  PROVE  IInv'
  <1> DEFINE q == Tail(msg_queue_)
  <1>0. /\ send_tags = 1 /\ status_ = OK /\ msg_queue_ # <<>>
        /\ msg_queue_' = q /\ q \in Seq(Msgs)
        /\ half_closes = 0 /\ close_tags = 0 /\ calls = <<>>
        /\ UNCHANGED <<deadline, is_closing_, crashed, accepted, registered>>
        /\ OnSentFailed \/ OnSentSendsNext(q) \/ OnSentLast(q)
    <2>1. send_tags = 1 /\ status_ = OK /\ msg_queue_ # <<>> /\ msg_queue_ \in Seq(Msgs)
      BY DEF OnSent, IInv, TypeOK, OneSendInFlight
    <2>2. q \in Seq(Msgs)
      BY <2>1, HeadTailProperties
    <2>3. half_closes = 0 /\ close_tags = 0 /\ calls = <<>>
      BY <2>1 DEF IInv, TypeOK, HalfCloseIsLast, CallbackBooks
    <2> QED BY <2>1, <2>2, <2>3 DEF OnSent
  <1>U. accepted = wire \o q
    BY <1>0 DEF IInv, SentInOrder, Unsent
  <1>1. CASE OnSentFailed
    <2>0. /\ send_tags' = 0 /\ status_' = InternalError
          /\ TryToCallCloseCb(InternalError)
          /\ UNCHANGED <<close_tags, wire, half_closes>>
      BY <1>0, <1>1 DEF OnSentFailed, EndOnInternalError
    <2>1. TypeOK'
      BY <1>0, <2>0, ErrorTells, StatusFacts DEF IInv, TypeOK
    <2>2. OneSendInFlight'
      BY <1>0, <2>0, StatusFacts DEF OneSendInFlight
    <2>4. SentInOrder'
      <3>1. UNCHANGED <<wire, accepted>> /\ status_' # OK
        BY <1>0, <2>0, StatusFacts
      <3> QED BY <3>1 DEF IInv, SentInOrder
    <2>3. HalfCloseIsLast' /\ CallbackTellsVerdict' /\ CallbackBooks'
      <3>1. /\ close_cb_' = NoCb
            /\ calls' = IF close_cb_ = NoCb THEN <<>>
                        ELSE <<[cb |-> registered, status |-> status_']>>
        BY <1>0, <2>0, ErrorTells
      <3>2. HalfCloseIsLast'
        BY <1>0, <2>0 DEF HalfCloseIsLast
      <3>3. CallbackTellsVerdict'
        BY <1>0, <2>0, <3>1 DEF IInv, CallbackTellsVerdict
      <3>4. CallbackBooks'
        BY <1>0, <2>0, <3>1, StatusFacts DEF IInv, CallbackBooks
      <3> QED BY <3>2, <3>3, <3>4
    <2> QED BY <2>1, <2>2, <2>3, <2>4 DEF IInv
  <1>2. CASE q # <<>> /\ SendNextOk(send_tags - 1, q) /\ UNCHANGED <<close_tags, half_closes>>
    <2>0. /\ send_tags' = 1 /\ wire' = Append(wire, Head(q)) /\ Head(q) \in Msgs
          /\ UNCHANGED <<status_, close_cb_, calls, close_tags, half_closes>>
      BY <1>0, <1>2, HeadTailProperties DEF SendNextOk
    <2>1. wire' \in Seq(Msgs) /\ wire' # <<>> /\ wire'[Len(wire')] = Head(q)
      <3>1. wire \in Seq(Msgs) /\ Head(q) \in Msgs
        BY <2>0 DEF IInv, TypeOK
      <3> HIDE DEF q
      <3> QED BY <2>0, <3>1, AppendProperties
    <2>2. TypeOK'
      BY <1>0, <2>0, <2>1 DEF IInv, TypeOK
    <2>3. OneSendInFlight'
      BY <1>0, <1>2, <2>0, <2>1 DEF OneSendInFlight, Last
    <2>4. SentInOrder'
      <3>1. accepted' = wire' \o Unsent(q)
        BY <1>0, <1>2, <1>U, <2>0, UnsentSent DEF IInv, TypeOK
      <3>2. Unsent(q) \in Seq(Msgs)
        BY <1>0, <1>2, HeadTailProperties DEF Unsent
      <3>3. IsPrefix(wire', accepted')
        BY <2>1, <3>1, <3>2, PrefixOfConcat
      <3> QED BY <1>0, <3>1, <3>3 DEF SentInOrder
    <2>5. HalfCloseIsLast' /\ CallbackTellsVerdict' /\ CallbackBooks'
      BY <1>0, <2>0 DEF IInv, HalfCloseIsLast, CallbackTellsVerdict, CallbackBooks
    <2> QED BY <2>2, <2>3, <2>4, <2>5 DEF IInv
  <1>3. CASE q # <<>> /\ SendNextFails(send_tags - 1) /\ UNCHANGED <<close_tags, half_closes>>
    <2>0. /\ send_tags' = 0 /\ status_' = InternalError
          /\ TryToCallCloseCb(InternalError)
          /\ UNCHANGED <<close_tags, wire, half_closes>>
      BY <1>0, <1>3 DEF SendNextFails, EndOnInternalError
    <2>1. TypeOK'
      BY <1>0, <2>0, ErrorTells, StatusFacts DEF IInv, TypeOK
    <2>2. OneSendInFlight'
      BY <1>0, <2>0, StatusFacts DEF OneSendInFlight
    <2>4. SentInOrder'
      <3>1. UNCHANGED <<wire, accepted>> /\ status_' # OK
        BY <1>0, <2>0, StatusFacts
      <3> QED BY <3>1 DEF IInv, SentInOrder
    <2>3. HalfCloseIsLast' /\ CallbackTellsVerdict' /\ CallbackBooks'
      <3>1. /\ close_cb_' = NoCb
            /\ calls' = IF close_cb_ = NoCb THEN <<>>
                        ELSE <<[cb |-> registered, status |-> status_']>>
        BY <1>0, <2>0, ErrorTells
      <3>2. HalfCloseIsLast'
        BY <1>0, <2>0 DEF HalfCloseIsLast
      <3>3. CallbackTellsVerdict'
        BY <1>0, <2>0, <3>1 DEF IInv, CallbackTellsVerdict
      <3>4. CallbackBooks'
        BY <1>0, <2>0, <3>1, StatusFacts DEF IInv, CallbackBooks
      <3> QED BY <3>2, <3>3, <3>4
    <2> QED BY <2>1, <2>2, <2>3, <2>4 DEF IInv
  <1>4. CASE OnSentLast(q)
    <2>0. q = <<>> /\ send_tags' = 0 /\ UNCHANGED wire
      BY <1>0, <1>4 DEF OnSentLast
    <2>U. accepted = wire
      BY <1>U, <2>0, ConcatEmptySeq DEF IInv, TypeOK
    <2>S. ASSUME status_' \in {OK, InternalError} PROVE SentInOrder'
      <3>1. IsPrefix(wire', accepted')
        BY <1>0, <2>0 DEF IInv, SentInOrder
      <3>2. accepted' = wire' \o Unsent(msg_queue_')
        BY <1>0, <2>0, <2>U, ConcatEmptySeq DEF IInv, TypeOK, Unsent
      <3> QED BY <3>1, <3>2 DEF SentInOrder
    <2>1. CASE ~is_closing_
      <3>0. UNCHANGED <<status_, close_cb_, close_tags, half_closes, calls>>
        BY <1>4, <2>1 DEF OnSentLast
      <3>1. TypeOK' /\ OneSendInFlight' /\ SentInOrder'
        BY <1>0, <2>0, <2>S, <3>0 DEF IInv, TypeOK, OneSendInFlight
      <3>2. HalfCloseIsLast' /\ CallbackTellsVerdict' /\ CallbackBooks'
        BY <1>0, <2>0, <3>0 DEF IInv, HalfCloseIsLast, CallbackTellsVerdict, CallbackBooks
      <3> QED BY <3>1, <3>2 DEF IInv
    <2>2. CASE is_closing_ /\ SendClose(close_cb_)
      <3>1. half_closes' = 1
        BY <1>0, <2>2 DEF SendClose
      <3>2. CASE close_tags' = close_tags + 1 /\ close_cb_' = close_cb_ /\ UNCHANGED <<status_, calls>>
        <4>1. TypeOK' /\ OneSendInFlight' /\ SentInOrder'
          BY <1>0, <2>0, <2>S, <3>1, <3>2 DEF IInv, TypeOK, OneSendInFlight
        <4>2. HalfCloseIsLast'
          BY <1>0, <2>0, <2>U, <2>2, <3>1, <3>2 DEF HalfCloseIsLast
        <4>3. CallbackTellsVerdict'
          BY <1>0, <3>2 DEF IInv, CallbackTellsVerdict
        <4>4. CallbackBooks'
          BY <1>0, <2>2, <3>1, <3>2 DEF IInv, CallbackBooks
        <4> QED BY <4>1, <4>2, <4>3, <4>4 DEF IInv
      <3>3. CASE /\ status_' = InternalError
                 /\ CallCloseCb(close_cb_, InternalError)
                 /\ UNCHANGED close_tags
        <4>0. TryToCallCloseCb(InternalError)
          BY <2>2, <3>3 DEF TryToCallCloseCb
        <4>1. TypeOK' /\ OneSendInFlight' /\ SentInOrder'
          BY <1>0, <2>0, <2>S, <3>1, <3>3, <4>0, ErrorTells, StatusFacts
          DEF IInv, TypeOK, OneSendInFlight
        <4>2. HalfCloseIsLast'
          BY <1>0, <2>0, <2>U, <2>2, <3>1, <3>3 DEF HalfCloseIsLast
        <4>3. /\ close_cb_' = NoCb
              /\ calls' = IF close_cb_ = NoCb THEN <<>>
                          ELSE <<[cb |-> registered, status |-> status_']>>
          BY <1>0, <3>3, <4>0, ErrorTells
        <4>4. CallbackTellsVerdict'
          BY <1>0, <4>3 DEF IInv, CallbackTellsVerdict
        <4>5. CallbackBooks'
          BY <1>0, <2>2, <3>3, <4>3, StatusFacts DEF IInv, CallbackBooks
        <4> QED BY <4>1, <4>2, <4>4, <4>5 DEF IInv
      <3> QED BY <2>2, <3>2, <3>3 DEF SendClose
    <2> QED BY <1>4, <2>1, <2>2 DEF OnSentLast
  <1> QED BY <1>0, <1>1, <1>2, <1>3, <1>4 DEF OnSentSendsNext

\* OnClosed() preserves it: the status is told unless an error came first.
LEMMA OnClosedPreservesIInv ==
  ASSUME IInv, NEW st \in Statuses, OnClosed(st)
  PROVE  IInv'
  <1>0. /\ status_ = OK /\ half_closes = 1 /\ close_tags = 1 /\ close_tags' = 0
        /\ is_closing_ /\ msg_queue_ = <<>> /\ calls = <<>> /\ send_tags = 0
        /\ status_' = st /\ CallCloseCb(close_cb_, st)
        /\ UNCHANGED <<deadline, is_closing_, msg_queue_, send_tags, crashed>>
        /\ UNCHANGED <<accepted, wire, half_closes, registered>>
    BY DEF OnClosed, IInv, TypeOK, HalfCloseIsLast, OneSendInFlight, CallbackBooks
  <1>1. /\ close_cb_' = NoCb
        /\ calls' = IF close_cb_ = NoCb THEN <<>> ELSE <<[cb |-> registered, status |-> st]>>
        /\ calls' \in Seq([cb : Cbs, status : Statuses])
    <2>1. CASE close_cb_ = NoCb
      BY <1>0, <2>1, EmptySeq DEF CallCloseCb
    <2>2. CASE close_cb_ # NoCb
      <3>1. close_cb_ = registered /\ close_cb_ \in Cbs
        BY <2>2 DEF IInv, TypeOK, CallbackBooks
      <3>2. [cb |-> registered, status |-> st] \in [cb : Cbs, status : Statuses]
        BY <3>1
      <3>3. calls' = <<[cb |-> registered, status |-> st]>> /\ close_cb_' = NoCb
        BY <1>0, <2>2, <3>1 DEF CallCloseCb
      <3> QED BY <2>2, <3>2, <3>3
    <2> QED BY <2>1, <2>2
  <1>2. TypeOK'
    BY <1>0, <1>1 DEF IInv, TypeOK
  <1>3. OneSendInFlight' /\ SentInOrder'
    BY <1>0 DEF IInv, OneSendInFlight, SentInOrder
  <1>4. HalfCloseIsLast' /\ CallbackTellsVerdict' /\ CallbackBooks'
    BY <1>0, <1>1 DEF IInv, TypeOK, HalfCloseIsLast, CallbackTellsVerdict, CallbackBooks
  <1> QED BY <1>2, <1>3, <1>4 DEF IInv

\* So does the death of the process, which changes nothing else.
LEMMA CrashPreservesIInv ==
  ASSUME IInv, OnClosedWithoutMsg
  PROVE  IInv'
  <1>1. TypeOK'
    BY DEF OnClosedWithoutMsg, state, history, IInv, TypeOK
  <1>2. OneSendInFlight' /\ SentInOrder' /\ HalfCloseIsLast'
    BY DEF OnClosedWithoutMsg, state, history, IInv, OneSendInFlight, SentInOrder,
           HalfCloseIsLast
  <1>3. CallbackTellsVerdict' /\ CallbackBooks'
    BY DEF OnClosedWithoutMsg, state, history, IInv, CallbackTellsVerdict, CallbackBooks
  <1> QED BY <1>1, <1>2, <1>3 DEF IInv

\* A rejected call and a stuttering step preserve it.
LEMMA StutterPreservesIInv ==
  ASSUME IInv, UNCHANGED vars
  PROVE  IInv'
  BY DEF IInv, vars, state, history, TypeOK, OneSendInFlight, SentInOrder,
         HalfCloseIsLast, CallbackTellsVerdict, CallbackBooks

\* Every step of the writer preserves the invariant.
LEMMA NextPreservesIInv == IInv /\ [Next]_vars => IInv'
  <1> SUFFICES ASSUME IInv, [Next]_vars PROVE IInv'
    OBVIOUS
  <1>1. ASSUME NEW m \in Msgs, Write(m) PROVE IInv'
    BY <1>1, WritePreservesIInv
  <1>2. ASSUME NEW cb \in Cbs \cup {NoCb}, Close(cb) PROVE IInv'
    BY <1>2, ClosePreservesIInv
  <1>3. CASE OnSent
    BY <1>3, OnSentPreservesIInv
  <1>4. CASE OnClosedAny
    BY <1>4, OnClosedPreservesIInv, CrashPreservesIInv DEF OnClosedAny
  <1>5. CASE Rejected \/ UNCHANGED vars
    BY <1>5, StutterPreservesIInv DEF Rejected
  <1> QED BY <1>1, <1>2, <1>3, <1>4, <1>5 DEF Next

-----------------------------------------------------------------------------
\* Every state of the writer satisfies the inductive invariant.
THEOREM Invariance == Spec => []IInv
  BY InitEstablishesIInv, NextPreservesIInv, PTL DEF Spec

\* The variables keep their types.
THEOREM TypeCorrect == Spec => []TypeOK
  <1>1. IInv => TypeOK
    BY DEF IInv
  <1> QED BY Invariance, <1>1, PTL

\* One send batch at a time, and none in flight after an error.
THEOREM OneSend == Spec => []OneSendInFlight
  <1>1. IInv => OneSendInFlight
    BY DEF IInv
  <1> QED BY Invariance, <1>1, PTL

\* Messages leave in the order Write() took them; none is lost or repeated.
THEOREM InOrder == Spec => []SentInOrder
  <1>1. IInv => SentInOrder
    BY DEF IInv
  <1> QED BY Invariance, <1>1, PTL

\* The half-close is sent once, after everything that was accepted.
THEOREM HalfCloseLast == Spec => []HalfCloseIsLast
  <1>1. IInv => HalfCloseIsLast
    BY DEF IInv
  <1> QED BY Invariance, <1>1, PTL

\* The callback of the first Close() is called at most once, with the status.
THEOREM CallbackOnce == Spec => []CallbackTellsVerdict
  <1>1. IInv => CallbackTellsVerdict
    BY DEF IInv
  <1> QED BY Invariance, <1>1, PTL

-----------------------------------------------------------------------------
\* One step sends nothing after an error or the half-close.
LEMMA StepAfterEnd ==
  ASSUME IInv, [Next]_vars
  PROVE  [/\ status_ # OK => status_' = status_ /\ half_closes' = half_closes
          /\ status_ # OK \/ half_closes > 0 => wire' = wire]_vars
  <1>1. ASSUME NEW m \in Msgs, Write(m)
        PROVE  status_ = OK /\ half_closes = 0
    BY <1>1 DEF Write, IsWritable, IInv, TypeOK, HalfCloseIsLast
  <1>2. ASSUME NEW cb \in Cbs \cup {NoCb}, Close(cb)
        PROVE  wire' = wire /\ (status_ # OK => UNCHANGED <<status_, half_closes>>)
    BY <1>2 DEF Close
  <1>3. ASSUME OnSent
        PROVE  status_ = OK /\ half_closes = 0
    BY <1>3 DEF OnSent, IInv, TypeOK, OneSendInFlight, HalfCloseIsLast
  <1>4. ASSUME OnClosedAny
        PROVE  wire' = wire /\ status_ = OK
    BY <1>4 DEF OnClosedAny, OnClosed, OnClosedWithoutMsg, history, IInv, TypeOK,
                OneSendInFlight
  <1> QED BY <1>1, <1>2, <1>3, <1>4 DEF Next, Rejected

\* No batch is started after an error or after the half-close, and an error
\* status is final.
THEOREM EndIsFinal == Spec => NothingAfterEnd
  <1> QED BY Invariance, StepAfterEnd, PTL DEF Spec, NothingAfterEnd

-----------------------------------------------------------------------------
\* The callback was told the verdict exactly when it is due.
LEMMA ReportIsTold ==
  ASSUME IInv'
  PROVE  Report' = IF is_closing_' /\ Verdict' # "NoVerdict" /\ registered' # NoCb
                   THEN Verdict' ELSE "NoVerdict"
  <1>1. TypeOK' /\ CallbackTellsVerdict' /\ CallbackBooks' /\ HalfCloseIsLast'
    BY DEF IInv
  <1>2. CASE calls' = <<>>
    BY <1>1, <1>2, StatusFacts
    DEF Report, Verdict, TypeOK, CallbackTellsVerdict, CallbackBooks, HalfCloseIsLast
  <1>3. CASE calls' # <<>>
    <2>1. /\ Report' = status_' /\ is_closing_' /\ registered' # NoCb
          /\ Verdict' = status_' /\ status_' # "NoVerdict"
      BY <1>1, <1>3, StatusFacts, WriterAssumption
      DEF Report, Verdict, TypeOK, CallbackTellsVerdict, CallbackBooks, Statuses
    <2> QED BY <2>1
  <1> QED BY <1>2, <1>3

\* A step that keeps the invariant tells the callback as the contract asks.
LEMMA TellStep == ASSUME IInv' PROVE Contract!Tell
  BY ReportIsTold DEF Contract!Tell, Contract!NoVerdict

\* While the call is good and not half-closed it has no verdict.
LEMMA OpenHasNoVerdict ==
  ASSUME IInv, status_ = OK, half_closes = 0
  PROVE  Verdict = Contract!NoVerdict
  BY DEF Verdict, Contract!NoVerdict

\* The initial states of the writer are initial states of the contract.
LEMMA InitRefines == Init => Contract!Init
  BY StatusFacts DEF Init, Contract!Init, Contract!NoVerdict, Verdict, Report

\* Write() takes a message, or ends the call when grpc refuses.
LEMMA WriteRefines ==
  ASSUME IInv, IInv', NEW m \in Msgs, Write(m)
  PROVE  Contract!Next
  <1>1. /\ status_ = OK /\ ~is_closing_ /\ half_closes = 0
        /\ UNCHANGED <<is_closing_, half_closes, registered>>
        /\ Verdict = Contract!NoVerdict
    BY OpenHasNoVerdict DEF Write, IsWritable, IInv, TypeOK, HalfCloseIsLast
  <1>2. CASE /\ IsSending
             /\ accepted' = Append(accepted, m)
             /\ UNCHANGED <<status_, close_cb_, send_tags, wire, calls>>
    <2>1. Verdict' = Verdict /\ Report' = Report
      BY <1>1, <1>2 DEF Verdict, Report
    <2>2. Contract!Accept(m)
      BY <1>1, <1>2, <2>1 DEF Contract!Accept, Contract!MayTransmit
    <2> QED BY <2>2 DEF Contract!Next
  <1>3. CASE ~IsSending /\ SendNextOk(send_tags, <<m>>) /\ accepted' = Append(accepted, m)
    <2>1. Verdict' = Verdict /\ Report' = Report
      BY <1>1, <1>3 DEF Verdict, Report, SendNextOk
    <2>2. accepted = wire
      BY <1>1, <1>3, ConcatEmptySeq DEF IsSending, IInv, TypeOK, SentInOrder, Unsent
    <2>3. wire' = Append(wire, m) /\ Len(wire) < Len(accepted') /\ accepted'[Len(wire) + 1] = m
      BY <1>3, <2>2, AppendProperties, LenProperties DEF SendNextOk, IInv, TypeOK
    <2>4. Contract!Accept(m)
      BY <1>1, <1>3, <2>1, <2>3 DEF Contract!Accept, Contract!MayTransmit
    <2> QED BY <2>4 DEF Contract!Next
  <1>4. CASE ~IsSending /\ SendNextFails(send_tags) /\ UNCHANGED accepted
    <2>1. Verdict' = InternalError /\ wire' = wire
      BY <1>4, StatusFacts DEF Verdict, SendNextFails, EndOnInternalError
    <2>2. Contract!Advance
      BY <1>1, <1>4, <2>1, StatusFacts, TellStep
      DEF Contract!Advance, Contract!MayTransmit, Contract!MayEnd
    <2> QED BY <2>2 DEF Contract!Next
  <1> QED BY <1>2, <1>3, <1>4 DEF Write

\* The first Close() is the contract's Close().
LEMMA CloseRefines ==
  ASSUME IInv, IInv', NEW cb \in Cbs \cup {NoCb}, Close(cb)
  PROVE  Contract!Next
  <1>1. /\ ~is_closing_ /\ is_closing_' = TRUE /\ registered' = cb
        /\ UNCHANGED <<accepted, wire>> /\ half_closes = 0 /\ close_tags = 0
    BY DEF Close, IsClosed, IInv, TypeOK, HalfCloseIsLast
  <1>2. Contract!MayEnd
    <2>1. CASE UNCHANGED <<status_, close_tags, half_closes>>
      BY <2>1 DEF Contract!MayEnd, Verdict
    <2>2. CASE status_ = OK /\ SendClose(cb)
      <3>1. Verdict = Contract!NoVerdict
        BY <1>1, <2>2, OpenHasNoVerdict
      <3>2. CASE close_tags' = close_tags + 1 /\ status_' = OK
        <4>1. Verdict' = "NoVerdict"
          BY <1>1, <3>2 DEF Verdict
        <4> QED BY <3>1, <4>1 DEF Contract!MayEnd, Contract!NoVerdict
      <3>3. CASE status_' = InternalError
        BY <3>1, <3>3, StatusFacts DEF Contract!MayEnd, Verdict
      <3> QED BY <2>2, <3>2, <3>3 DEF SendClose
    <2> QED BY <2>1, <2>2 DEF Close
  <1>3. Contract!Close(cb)
    BY <1>1, <1>2, TellStep DEF Contract!Close
  <1> QED BY <1>3 DEF Contract!Next

\* OnSent() advances the call, or nothing the contract sees changes.
LEMMA OnSentRefines ==
  ASSUME IInv, IInv', OnSent
  PROVE  Contract!Next
  <1> DEFINE q == Tail(msg_queue_)
  <1>0. /\ status_ = OK /\ half_closes = 0 /\ close_tags = 0
        /\ UNCHANGED <<is_closing_, accepted, registered>>
        /\ Verdict = Contract!NoVerdict
        /\ accepted = wire \o q /\ wire \in Seq(Msgs) /\ q \in Seq(Msgs)
        /\ OnSentFailed \/ OnSentSendsNext(q) \/ OnSentLast(q)
    <2>1. status_ = OK /\ msg_queue_ # <<>> /\ half_closes = 0 /\ close_tags = 0
      BY DEF OnSent, IInv, TypeOK, OneSendInFlight, HalfCloseIsLast
    <2>2. q \in Seq(Msgs)
      BY <2>1, HeadTailProperties DEF IInv, TypeOK
    <2> QED BY <2>1, <2>2, OpenHasNoVerdict DEF OnSent, IInv, TypeOK, SentInOrder, Unsent
  <1>1. Contract!MayTransmit
    <2>1. CASE wire' = wire
      BY <2>1 DEF Contract!MayTransmit
    <2>2. CASE q # <<>> /\ wire' = Append(wire, Head(q))
      <3> HIDE DEF q
      <3>1. Len(q) \in Nat \ {0} /\ Len(wire) \in Nat
        BY <1>0, <2>2, EmptySeq, LenProperties
      <3>2. Len(accepted) = Len(wire) + Len(q) /\ accepted[Len(wire) + 1] = q[1]
        BY <1>0, <3>1, ConcatProperties
      <3>3. Head(q) = q[1]
        BY <1>0, <2>2
      <3> QED BY <1>0, <2>2, <3>1, <3>2, <3>3 DEF Contract!MayTransmit
    <2> QED
      BY <1>0, <2>1, <2>2
      DEF OnSentFailed, OnSentSendsNext, OnSentLast, SendNextOk, SendNextFails
  <1>2. Contract!MayEnd
    <2>1. CASE status_' = InternalError
      BY <1>0, <2>1, StatusFacts DEF Contract!MayEnd, Verdict
    <2>2. CASE status_' = OK /\ (UNCHANGED half_closes \/ close_tags' = close_tags + 1)
      <3>1. Verdict' = "NoVerdict"
        BY <1>0, <2>2 DEF Verdict
      <3> QED BY <1>0, <3>1 DEF Contract!MayEnd, Contract!NoVerdict
    <2> QED
      BY <1>0, <2>1, <2>2
      DEF OnSentFailed, OnSentSendsNext, OnSentLast, SendNextOk, SendNextFails,
          EndOnInternalError, SendClose
  <1>3. Contract!Advance
    BY <1>0, <1>1, <1>2, TellStep DEF Contract!Advance
  <1> QED BY <1>3 DEF Contract!Next

\* OnClosed() ends the call, with OK only after everything has left.
LEMMA OnClosedRefines ==
  ASSUME IInv, IInv', NEW st \in Statuses, OnClosed(st)
  PROVE  Contract!Next
  <1>1. /\ status_ = OK /\ half_closes = 1 /\ close_tags = 1 /\ close_tags' = 0
        /\ is_closing_ /\ wire = accepted /\ status_' = st
        /\ UNCHANGED <<is_closing_, accepted, wire, half_closes, registered>>
    BY DEF OnClosed, IInv, TypeOK, HalfCloseIsLast, OneSendInFlight
  <1>2. Verdict = "NoVerdict" /\ Verdict' = st
    BY <1>1 DEF Verdict
  <1>3. Contract!Advance
    BY <1>1, <1>2, TellStep
    DEF Contract!Advance, Contract!MayTransmit, Contract!MayEnd, Contract!NoVerdict
  <1> QED BY <1>3 DEF Contract!Next

\* Every step of the writer is a step of the contract, or stutters in it.
LEMMA StepRefines ==
  ASSUME IInv, IInv', [Next]_vars
  PROVE  [Contract!Next]_Contract!vars
  <1>1. ASSUME NEW m \in Msgs, Write(m) PROVE Contract!Next
    BY <1>1, WriteRefines
  <1>2. ASSUME NEW cb \in Cbs \cup {NoCb}, Close(cb) PROVE Contract!Next
    BY <1>2, CloseRefines
  <1>3. CASE OnSent
    BY <1>3, OnSentRefines
  <1>4. ASSUME NEW st \in Statuses, OnClosed(st) PROVE Contract!Next
    BY <1>4, OnClosedRefines
  <1>5. CASE Rejected \/ OnClosedWithoutMsg \/ UNCHANGED vars
    BY <1>5 DEF Rejected, OnClosedWithoutMsg, vars, state, history, Contract!vars,
                Verdict, Report
  <1> QED BY <1>1, <1>2, <1>3, <1>4, <1>5 DEF Next, OnClosedAny

\* The writer implements the contract of a client-streaming call: messages in
\* order, one verdict, success only after everything was sent, and the callback
\* told the verdict in the step that makes it due.
THEOREM Refinement == Spec => Implements
  <1>1. IInv /\ IInv' /\ [Next]_vars => [Contract!Next]_Contract!vars
    BY StepRefines
  <1> QED BY Invariance, InitRefines, <1>1, PTL DEF Spec, Implements, Contract!Spec
=============================================================================
