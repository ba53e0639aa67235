---------------------- MODULE ClientAsyncReaderProofs ----------------------
(***************************************************************************)
(* Proofs about ClientAsyncReader for any messages, errors of the server   *)
(* and length of the stream.                                               *)
(***************************************************************************)
EXTENDS ClientAsyncReader, TLAPS, SequenceTheorems

\* The server's end: what left is the beginning of what was written, and all
\* of it once the stream has ended.
StreamBooks ==
  /\ IsPrefix(wire, accepted) /\ Len(accepted) <= MaxMsgs
  /\ status # NoStatus => wire = accepted

\* Nothing happens before Start().
Unstarted ==
  ~is_started_ => /\ init_tags = 0 /\ read_tags = 0 /\ status_tags = 0
                  /\ reads = 0 /\ delivered = <<>> /\ told = <<>> /\ ~given

\* While a read or the status is awaited, msg_cb has had every message read;
\* a message that could not be read ends both.
ReadBooks ==
  /\ reads <= Len(wire) /\ IsPrefix(delivered, wire)
  /\ read_tags + status_tags > 0 => Len(delivered) = reads

\* The inductive invariant: the checked invariants and the books.
IInv ==
  /\ DeliveredInOrder
  /\ OneVerdict
  /\ ServerStatusMeansAll
  /\ StreamBooks
  /\ Unstarted
  /\ ReadBooks

-----------------------------------------------------------------------------
\* A prefix, element by element.
LEMMA PrefixElements ==
  ASSUME NEW S, NEW s \in Seq(S), NEW t \in Seq(S)
  PROVE  IsPrefix(s, t) <=> Len(s) <= Len(t) /\ \A i \in 1..Len(s) : s[i] = t[i]
  <1>1. Len(s) \in Nat /\ Len(t) \in Nat /\ SubSeq(s, 1, Len(s)) = s
    BY LenProperties, SubSeqFull
  <1>2. ASSUME Len(s) <= Len(t)
        PROVE  SubSeq(s, 1, Len(s)) = SubSeq(t, 1, Len(s)) <=> \A i \in 1..Len(s) : s[i] = t[i]
    <2> DEFINE u == SubSeq(t, 1, Len(s))
    <2>1. \A i \in 1..Len(s) : t[i] \in S
      BY <1>1, <1>2, ElementOfSeq
    <2>2. u \in Seq(S) /\ Len(u) = Len(s) /\ \A i \in 1..Len(s) : u[i] = t[i]
      BY <1>1, <2>1, SubSeqProperties
    <2> HIDE DEF u
    <2>3. s = u <=> \A i \in 1..Len(s) : s[i] = t[i]
      BY <2>2, SeqEqual
    <2> QED BY <1>1, <2>3 DEF u
  <1> QED BY <1>2 DEF IsPrefix

\* Prefixes: of itself, of a prefix, of all of it, and with one more element.
LEMMA PrefixFacts ==
  ASSUME NEW S, NEW s \in Seq(S), NEW t \in Seq(S), IsPrefix(s, t)
  PROVE  /\ IsPrefix(s, s) /\ IsPrefix(t, t)
         /\ Len(s) = Len(t) => s = t
         /\ Len(s) < Len(t) => /\ Append(s, t[Len(s) + 1]) \in Seq(S)
                               /\ IsPrefix(Append(s, t[Len(s) + 1]), t)
         /\ \A m \in S : IsPrefix(s, Append(t, m))
         /\ \A u \in Seq(S) : IsPrefix(t, u) => IsPrefix(s, u)
  <1>1. /\ Len(s) \in Nat /\ Len(t) \in Nat /\ Len(s) <= Len(t)
        /\ \A i \in 1..Len(s) : s[i] = t[i]
    BY LenProperties, PrefixElements
  <1>2. IsPrefix(s, s) /\ IsPrefix(t, t)
    BY <1>1, PrefixElements
  <1>3. Len(s) = Len(t) => s = t
    BY <1>1, SeqEqual
  <1>4. ASSUME Len(s) < Len(t)
        PROVE  /\ Append(s, t[Len(s) + 1]) \in Seq(S)
               /\ IsPrefix(Append(s, t[Len(s) + 1]), t)
    <2>1. PICK m \in S : m = t[Len(s) + 1]
      BY <1>1, <1>4, ElementOfSeq
    <2> DEFINE a == Append(s, m)
    <2>2. /\ a \in Seq(S) /\ Len(a) = Len(s) + 1
          /\ \A i \in 1..Len(s) : a[i] = s[i]
          /\ a[Len(s) + 1] = m
      BY AppendProperties
    <2> HIDE DEF a
    <2>3. Len(a) <= Len(t) /\ \A i \in 1..Len(a) : a[i] = t[i]
      BY <1>1, <1>4, <2>1, <2>2
    <2>4. IsPrefix(a, t)
      BY <2>2, <2>3, PrefixElements
    <2> QED BY <2>1, <2>2, <2>4 DEF a
  <1>5. ASSUME NEW m \in S
        PROVE  IsPrefix(s, Append(t, m))
    <2> DEFINE a == Append(t, m)
    <2>1. a \in Seq(S) /\ Len(a) = Len(t) + 1 /\ \A i \in 1..Len(t) : a[i] = t[i]
      BY AppendProperties
    <2> HIDE DEF a
    <2>2. IsPrefix(s, a)
      BY <1>1, <2>1, PrefixElements
    <2> QED BY <2>2 DEF a
  <1>6. ASSUME NEW u \in Seq(S), IsPrefix(t, u)
        PROVE  IsPrefix(s, u)
    <2>1. Len(u) \in Nat /\ Len(t) <= Len(u) /\ \A i \in 1..Len(t) : t[i] = u[i]
      BY <1>6, LenProperties, PrefixElements
    <2> QED BY <1>1, <2>1, PrefixElements
  <1> QED BY <1>2, <1>3, <1>4, <1>5, <1>6

\* The statuses of the reader and of grpc are none of the stream's.
LEMMA StatusFacts ==
  /\ StreamStatuses \subseteq Statuses /\ OK \in StreamStatuses
  /\ \A st \in {InternalError, UserError, Broken} : st \in Statuses /\ st \notin StreamStatuses
  /\ NoStatus \notin StreamStatuses
  BY ReaderAssumption DEF Statuses, StreamStatuses, OK, InternalError, UserError, Broken

\* The first status is the only one: it is told, or there is nobody to tell.
LEMMA TellFacts ==
  ASSUME NEW cb \in BOOLEAN, NEW st \in Statuses, told = <<>>, Tell(cb, st)
  PROVE  /\ told' \in Seq(Statuses) /\ Len(told') =< 1
         /\ cb => told' # <<>>
         /\ ~cb => told' = <<>>
         /\ \A i \in DOMAIN told' : told'[i] = st
  <1>1. CASE cb
    <2>1. <<>> \in Seq(Statuses) /\ Len(<<>>) = 0
      BY EmptySeq
    <2>2. told' \in Seq(Statuses) /\ told' # <<>> /\ Len(told') = 1 /\ told'[1] = st
      BY <1>1, <2>1, AppendProperties DEF Tell
    <2>3. DOMAIN told' = 1..1
      BY <2>2, LenProperties
    <2> QED BY <1>1, <2>2, <2>3
  <1>2. CASE ~cb
    <2>1. told' \in Seq(Statuses) /\ Len(told') = 0 /\ told' = <<>>
      BY <1>2, EmptySeq DEF Tell
    <2>2. DOMAIN told' = {}
      BY <2>1, LenProperties
    <2> QED BY <1>2, <2>1, <2>2
  <1> QED BY <1>1, <1>2

-----------------------------------------------------------------------------
\* A reader that was just constructed satisfies the invariant.
LEMMA InitEstablishesIInv == Init => IInv
  <1> SUFFICES ASSUME Init PROVE IInv
    OBVIOUS
  <1>0. accepted = <<>> /\ wire = <<>> /\ status = NoStatus /\ told = <<>> /\ delivered = <<>>
        /\ reads = 0 /\ read_tags = 0 /\ status_tags = 0 /\ given = FALSE
    BY DEF Init, Stream!Init
  <1>1. /\ <<>> \in Seq(Messages) /\ <<>> \in Seq(Statuses) /\ Len(<<>>) = 0
        /\ DOMAIN told = {}
    BY <1>0, EmptySeq, LenProperties
  <1>2. IsPrefix(<<>>, <<>>)
    BY <1>1 DEF IsPrefix
  <1>3. TypeOK
    <2>1. accepted \in Seq(Messages) /\ wire \in Seq(Messages) /\ delivered \in Seq(Messages)
          /\ told \in Seq(Statuses)
      BY <1>0, <1>1
    <2>2. status \in StreamStatuses \cup {NoStatus} /\ reads \in 0..MaxMsgs
      BY <1>0, ReaderAssumption
    <2>3. broken \in BOOLEAN /\ is_started_ \in BOOLEAN /\ msg_cb_ \in BOOLEAN
          /\ status_cb_ \in BOOLEAN /\ given \in BOOLEAN /\ cb_copies \in BOOLEAN
      BY DEF Init
    <2>4. /\ init_tags \in 0..1 /\ read_tags \in 0..1 /\ status_tags \in 0..1
          /\ status_ \in {OK, InternalError, UserError}
      BY DEF Init
    <2> QED BY <2>1, <2>2, <2>3, <2>4 DEF TypeOK
  <1>4. OneVerdict /\ ServerStatusMeansAll
    BY <1>0, <1>1 DEF OneVerdict, ServerStatusMeansAll
  <1>5. StreamBooks /\ Unstarted /\ ReadBooks
    BY <1>0, <1>1, <1>2, ReaderAssumption DEF Init, StreamBooks, Unstarted, ReadBooks
  <1> QED BY <1>0, <1>2, <1>3, <1>4, <1>5 DEF IInv, DeliveredInOrder

\* What a step of the reader must establish.
LEMMA ReaderStep ==
  ASSUME IInv, UNCHANGED <<server, broken>>, is_started_' = TRUE,
         msg_cb_' \in BOOLEAN, status_cb_' \in BOOLEAN, given' \in BOOLEAN, cb_copies' \in BOOLEAN,
         status_' \in {OK, InternalError, UserError},
         init_tags' \in 0..1, read_tags' \in 0..1, status_tags' \in 0..1,
         told' \in Seq(Statuses), OneVerdict',
         \A i \in DOMAIN told' : told'[i] \in StreamStatuses => told'[i] = status /\ delivered' = accepted,
         reads' \in Nat, reads' <= Len(wire),
         delivered' \in Seq(Messages), IsPrefix(delivered', wire),
         read_tags' + status_tags' > 0 => Len(delivered') = reads'
  PROVE  IInv'
  <1>0. /\ accepted \in Seq(Messages) /\ wire \in Seq(Messages) /\ MaxMsgs \in Nat
        /\ IsPrefix(wire, accepted) /\ Len(accepted) <= MaxMsgs
        /\ UNCHANGED <<accepted, wire, status, broken>>
    BY ReaderAssumption DEF IInv, DeliveredInOrder, TypeOK, StreamBooks, server
  <1>1. IsPrefix(delivered', accepted)
    BY <1>0, PrefixFacts
  <1>2. reads' \in 0..MaxMsgs
    <2>1. Len(wire) \in Nat /\ Len(accepted) \in Nat /\ Len(wire) <= Len(accepted)
      BY <1>0, LenProperties, PrefixElements
    <2> QED BY <1>0, <2>1
  <1>3. TypeOK'
    BY <1>0, <1>2 DEF IInv, DeliveredInOrder, TypeOK
  <1>4. ServerStatusMeansAll'
    BY <1>0 DEF ServerStatusMeansAll
  <1>5. StreamBooks' /\ Unstarted' /\ ReadBooks'
    BY <1>0 DEF IInv, StreamBooks, Unstarted, ReadBooks
  <1> QED BY <1>0, <1>1, <1>3, <1>4, <1>5 DEF IInv, DeliveredInOrder

\* The invariant, spelled out where the reader's steps need it.
LEMMA InvFacts ==
  ASSUME IInv
  PROVE  /\ TypeOK /\ OneVerdict /\ ReadBooks
         /\ told \in Seq(Statuses) /\ delivered \in Seq(Messages) /\ wire \in Seq(Messages)
         /\ accepted \in Seq(Messages) /\ reads \in Nat /\ reads <= Len(wire)
         /\ IsPrefix(delivered, wire)
         /\ read_tags \in 0..1 /\ status_tags \in 0..1 /\ init_tags \in 0..1
         /\ read_tags = 1 => status_tags = 0 /\ told = <<>> /\ Len(delivered) = reads
                             /\ is_started_ = TRUE /\ (given => status_cb_)
         /\ status_tags = 1 => read_tags = 0 /\ told = <<>> /\ Len(delivered) = reads
                               /\ is_started_ = TRUE /\ (given => cb_copies)
  BY DEF IInv, DeliveredInOrder, TypeOK, OneVerdict, Unstarted, ReadBooks

\* Start() preserves it: the first read is asked for, or the error is told.
LEMMA StartPreservesIInv ==
  ASSUME IInv, NEW mcb \in BOOLEAN, NEW scb \in BOOLEAN, Start(mcb, scb)
  PROVE  IInv'
  <1>0. /\ init_tags = 0 /\ read_tags = 0 /\ status_tags = 0
        /\ reads = 0 /\ delivered = <<>> /\ told = <<>>
        /\ is_started_' = TRUE /\ msg_cb_' = mcb /\ given' = scb
        /\ UNCHANGED <<server, broken, status_tags, cb_copies, reads, delivered>>
        /\ status_ \in {OK, InternalError, UserError} /\ cb_copies \in BOOLEAN
    BY InvFacts DEF Start, IsStarted, IInv, Unstarted, TypeOK
  <1>1. \/ read_tags' = 1 /\ status_cb_' = scb /\ told' = <<>> /\ status_' = status_
        \/ /\ read_tags' = 0 /\ status_cb_' = FALSE /\ Tell(scb, InternalError)
           /\ status_' = InternalError
    BY <1>0 DEF Start, ReadNext, Fail
  <1>2. init_tags' \in 0..1
    BY <1>0 DEF Start
  <1>3. /\ told' \in Seq(Statuses) /\ Len(told') =< 1
        /\ \A i \in DOMAIN told' : told'[i] = InternalError
        /\ read_tags' = 1 => told' = <<>>
        /\ read_tags' = 0 /\ scb => told' # <<>>
    <2>1. CASE told' = <<>> /\ read_tags' = 1
      <3>1. told' \in Seq(Statuses) /\ Len(told') = 0 /\ DOMAIN told' = {}
        BY <2>1, EmptySeq, LenProperties
      <3> QED BY <2>1, <3>1
    <2>2. CASE Tell(scb, InternalError) /\ read_tags' = 0
      BY <1>0, <2>2, TellFacts, StatusFacts
    <2> QED BY <1>1, <2>1, <2>2
  <1>4. OneVerdict'
    BY <1>0, <1>1, <1>3 DEF OneVerdict
  <1>5. /\ status_' \in {OK, InternalError, UserError} /\ status_cb_' \in BOOLEAN
        /\ read_tags' \in 0..1 /\ status_tags' \in 0..1
    <2>1. status_cb_' \in BOOLEAN
      BY <1>0, <1>1
    <2> QED BY <1>0, <1>1, <2>1
  <1>6. /\ reads' \in Nat /\ reads' <= Len(wire) /\ delivered' \in Seq(Messages)
        /\ IsPrefix(delivered', wire) /\ Len(delivered') = reads'
    <2>1. Len(<<>>) = 0
      BY EmptySeq
    <2> QED BY <1>0, <2>1, InvFacts
  <1>7. \A i \in DOMAIN told' : told'[i] \notin StreamStatuses
    BY <1>3, StatusFacts
  <1> QED BY <1>0, <1>2, <1>3, <1>4, <1>5, <1>6, <1>7, ReaderStep

\* The tag of Init() changes nothing else.
LEMMA InitCompletesPreservesIInv ==
  ASSUME IInv, InitCompletes
  PROVE  IInv'
  <1>1. init_tags = 1 /\ init_tags' = 0
    BY InvFacts DEF InitCompletes
  <1>2. UNCHANGED <<accepted, wire, status, broken, is_started_, status_, msg_cb_, status_cb_, read_tags,
                    status_tags, cb_copies, reads, given, delivered, told>>
    BY DEF InitCompletes, server, reader, history
  <1> QED BY <1>1, <1>2
       DEF IInv, DeliveredInOrder, TypeOK, OneVerdict, ServerStatusMeansAll, StreamBooks, Unstarted,
           ReadBooks

\* A read that ends preserves it: the next one, the status, or an error.
LEMMA OnReadPreservesIInv ==
  ASSUME IInv, OnRead
  PROVE  IInv'
  <1>0. /\ read_tags = 1 /\ status_tags = 0 /\ told = <<>> /\ Len(delivered) = reads
        /\ is_started_' = TRUE /\ (given => status_cb_)
        /\ UNCHANGED <<server, broken, is_started_, msg_cb_, init_tags, given>>
        /\ OnReadMsg \/ OnReadEnds \/ OnReadError
        /\ wire \in Seq(Messages) /\ delivered \in Seq(Messages) /\ IsPrefix(delivered, wire)
        /\ reads \in Nat /\ reads <= Len(wire) /\ Len(wire) \in Nat
        /\ init_tags \in 0..1
    <2>1. read_tags = 1
      BY InvFacts DEF OnRead
    <2>2. Len(wire) \in Nat
      BY InvFacts, LenProperties
    <2> QED BY <2>1, <2>2, InvFacts DEF OnRead
  <1>T. /\ msg_cb_ \in BOOLEAN /\ status_cb_ \in BOOLEAN /\ given \in BOOLEAN
        /\ cb_copies \in BOOLEAN /\ status_ \in {OK, InternalError, UserError}
        /\ msg_cb_' \in BOOLEAN /\ given' \in BOOLEAN /\ init_tags' \in 0..1
    BY <1>0, InvFacts DEF TypeOK
  <1>M. ASSUME OnReadMsg, delivered' = Append(delivered, wire[reads + 1])
        PROVE  /\ delivered' \in Seq(Messages) /\ IsPrefix(delivered', wire)
               /\ Len(delivered') = reads + 1
    <2>1. Len(delivered) < Len(wire)
      BY <1>0, <1>M DEF OnReadMsg, HasMsg
    <2>2. PICK m \in Messages : m = wire[reads + 1]
      BY <1>0, <2>1, ElementOfSeq
    <2>3. Len(Append(delivered, m)) = Len(delivered) + 1
      BY <1>0, AppendProperties
    <2>4. /\ Append(delivered, wire[Len(delivered) + 1]) \in Seq(Messages)
          /\ IsPrefix(Append(delivered, wire[Len(delivered) + 1]), wire)
      BY <1>0, <2>1, PrefixFacts
    <2> QED BY <1>0, <1>M, <2>2, <2>3, <2>4
  <1>1. ASSUME NEW st \in {InternalError, UserError}, OnReadFails(st),
               UNCHANGED <<status_tags, cb_copies>>, reads' \in Nat, reads' <= Len(wire),
               delivered' \in Seq(Messages), IsPrefix(delivered', wire)
        PROVE  IInv'
    <2>1. /\ read_tags' = 0 /\ status_' = st /\ status_cb_' = FALSE /\ Tell(status_cb_, st)
          /\ st \in Statuses /\ st \notin StreamStatuses
      BY <1>0, <1>1, StatusFacts DEF OnReadFails, Fail
    <2>2. /\ told' \in Seq(Statuses) /\ Len(told') =< 1 /\ (status_cb_ => told' # <<>>)
          /\ \A i \in DOMAIN told' : told'[i] = st
      BY <1>0, <1>T, <2>1, TellFacts
    <2>3. OneVerdict'
      BY <1>0, <1>1, <2>1, <2>2 DEF OneVerdict
    <2>4. status_cb_' \in BOOLEAN /\ cb_copies' \in BOOLEAN /\ status_' \in {OK, InternalError, UserError}
      BY <1>T, <1>1, <2>1
    <2>5. read_tags' \in 0..1 /\ status_tags' \in 0..1 /\ ~(read_tags' + status_tags' > 0)
      BY <1>0, <1>1, <2>1
    <2> QED BY <1>0, <1>T, <1>1, <2>1, <2>2, <2>3, <2>4, <2>5, ReaderStep
  <1>2. ASSUME OnReadMsg, ReadNext(read_tags - 1, status_cb_), ToMsgCb,
               UNCHANGED <<status_tags, cb_copies>>
        PROVE  IInv'
    <2>1. /\ delivered' \in Seq(Messages) /\ IsPrefix(delivered', wire) /\ Len(delivered') = reads'
          /\ reads' \in Nat /\ reads' <= Len(wire)
      BY <1>0, <1>M, <1>2 DEF OnReadMsg, HasMsg, ToMsgCb
    <2>2. CASE read_tags' = 1 /\ status_cb_' = status_cb_ /\ UNCHANGED <<status_, told>>
      <3>1. told' \in Seq(Statuses) /\ Len(told') = 0 /\ DOMAIN told' = {}
        BY <1>0, <2>2, EmptySeq, LenProperties
      <3>2. OneVerdict'
        BY <1>0, <1>2, <2>2, <3>1 DEF OneVerdict
      <3>3. status_cb_' \in BOOLEAN /\ cb_copies' \in BOOLEAN /\ status_' \in {OK, InternalError, UserError}
        BY <1>T, <1>2, <2>2
      <3>4. read_tags' \in 0..1 /\ status_tags' \in 0..1
        BY <1>0, <1>2, <2>2
      <3> QED BY <1>0, <1>T, <2>1, <3>1, <3>2, <3>3, <3>4, ReaderStep
    <2>3. CASE OnReadFails(InternalError)
      BY <1>1, <1>2, <2>1, <2>3
    <2> QED BY <1>0, <1>2, <2>2, <2>3 DEF ReadNext, OnReadFails
  <1>3. CASE OnReadMsg
    <2>0. reads' = reads + 1 /\ reads' \in Nat /\ reads' <= Len(wire) /\ UNCHANGED <<status_tags, cb_copies>>
      BY <1>0, <1>3 DEF OnReadMsg, HasMsg
    <2>1. CASE BadMsg
      BY <1>0, <1>1, <2>0, <2>1 DEF BadMsg
    <2>2. CASE ToMsgCb /\ OnReadFails(UserError)
      BY <1>M, <1>1, <1>3, <2>0, <2>2 DEF ToMsgCb
    <2>3. CASE ToMsgCb /\ ReadNext(read_tags - 1, status_cb_)
      BY <1>2, <1>3, <2>0, <2>3
    <2> QED BY <1>3, <2>1, <2>2, <2>3 DEF OnReadMsg
  <1>4. CASE OnReadError
    BY <1>0, <1>1, <1>4 DEF OnReadError
  <1>5. CASE OnReadEnds
    <2>1. read_tags' = 0 /\ RecvStatus /\ UNCHANGED <<status_, status_cb_, reads, delivered>>
      BY <1>0, <1>5 DEF OnReadEnds
    <2>2. CASE status_tags' = 1 /\ cb_copies' = status_cb_ /\ UNCHANGED told
      <3>1. told' \in Seq(Statuses) /\ Len(told') = 0 /\ DOMAIN told' = {}
        BY <1>0, <2>2, EmptySeq, LenProperties
      <3>2. OneVerdict'
        BY <1>0, <2>1, <2>2, <3>1 DEF OneVerdict
      <3>3. status_cb_' \in BOOLEAN /\ cb_copies' \in BOOLEAN /\ status_' \in {OK, InternalError, UserError}
        BY <1>T, <2>1, <2>2
      <3>4. /\ read_tags' \in 0..1 /\ status_tags' \in 0..1
            /\ reads' = reads /\ delivered' = delivered
        BY <1>0, <2>1, <2>2
      <3> QED BY <1>0, <1>T, <3>1, <3>2, <3>3, <3>4, ReaderStep
    <2>3. CASE Tell(status_cb_, InternalError) /\ UNCHANGED <<status_tags, cb_copies>>
      <3>1. /\ told' \in Seq(Statuses) /\ Len(told') =< 1 /\ (status_cb_ => told' # <<>>)
            /\ \A i \in DOMAIN told' : told'[i] = InternalError
        BY <1>0, <1>T, <2>3, TellFacts, StatusFacts
      <3>2. OneVerdict'
        BY <1>0, <2>1, <2>3, <3>1 DEF OneVerdict
      <3>3. status_cb_' \in BOOLEAN /\ cb_copies' \in BOOLEAN /\ status_' \in {OK, InternalError, UserError}
        BY <1>T, <2>1, <2>3
      <3>4. /\ read_tags' \in 0..1 /\ status_tags' \in 0..1 /\ ~(read_tags' + status_tags' > 0)
            /\ reads' = reads /\ delivered' = delivered
        BY <1>0, <2>1, <2>3
      <3> QED BY <1>0, <1>T, <3>1, <3>2, <3>3, <3>4, ReaderStep, StatusFacts
    <2> QED BY <1>0, <2>1, <2>2, <2>3 DEF RecvStatus
  <1> QED BY <1>0, <1>3, <1>4, <1>5

\* The status preserves it: the server's is told when all has been read.
LEMMA OnStatusPreservesIInv ==
  ASSUME IInv, OnStatus
  PROVE  IInv'
  <1>0. /\ status_tags = 1 /\ read_tags = 0 /\ told = <<>> /\ Len(delivered) = reads
        /\ is_started_' = TRUE /\ (given => cb_copies) /\ cb_copies \in BOOLEAN
        /\ wire \in Seq(Messages) /\ delivered \in Seq(Messages) /\ IsPrefix(delivered, wire)
        /\ reads \in Nat /\ reads <= Len(wire)
    <2>1. status_tags = 1
      BY InvFacts DEF OnStatus
    <2> QED BY <2>1, InvFacts DEF OnStatus, reader, TypeOK
  <1>1. /\ UNCHANGED <<server, broken>>
        /\ UNCHANGED <<is_started_, status_, msg_cb_, status_cb_, init_tags, read_tags, reads, given, delivered>>
        /\ status_tags' = 0 /\ cb_copies' = FALSE
    BY <1>0 DEF OnStatus, reader
  <1>2. /\ msg_cb_' \in BOOLEAN /\ status_cb_' \in BOOLEAN /\ given' \in BOOLEAN /\ cb_copies' \in BOOLEAN
        /\ status_' \in {OK, InternalError, UserError} /\ init_tags' \in 0..1
    BY <1>1, InvFacts DEF TypeOK
  <1>3. read_tags' \in 0..1 /\ status_tags' \in 0..1 /\ ~(read_tags' + status_tags' > 0)
    BY <1>0, <1>1
  <1>4. PICK st \in Statuses :
          /\ Tell(cb_copies, st)
          /\ st \in StreamStatuses => st = status /\ delivered = accepted
    <2>1. CASE status # NoStatus /\ ~HasMsg /\ Tell(cb_copies, status)
      <3>1. Len(delivered) = Len(wire)
        <4>1. Len(wire) \in Nat
          BY <1>0, LenProperties
        <4> QED BY <1>0, <2>1, <4>1 DEF HasMsg
      <3>2. delivered = wire /\ wire = accepted
        BY <1>0, <2>1, <3>1, PrefixFacts DEF IInv, StreamBooks
      <3>3. status \in Statuses
        BY <2>1, InvFacts, StatusFacts DEF TypeOK
      <3> QED BY <2>1, <3>2, <3>3
    <2>2. CASE Tell(cb_copies, Broken) \/ Tell(cb_copies, InternalError)
      BY <2>2, StatusFacts
    <2> QED BY <2>1, <2>2 DEF OnStatus
  <1>5. /\ told' \in Seq(Statuses) /\ Len(told') =< 1 /\ (cb_copies => told' # <<>>)
        /\ \A i \in DOMAIN told' : told'[i] = st
    BY <1>0, <1>4, TellFacts
  <1>6. OneVerdict'
    BY <1>0, <1>1, <1>5 DEF OneVerdict
  <1>7. \A i \in DOMAIN told' : told'[i] \in StreamStatuses => told'[i] = status /\ delivered' = accepted
    BY <1>1, <1>4, <1>5
  <1>8. reads' \in Nat /\ reads' <= Len(wire) /\ delivered' \in Seq(Messages) /\ IsPrefix(delivered', wire)
    BY <1>0, <1>1
  <1> QED BY <1>0, <1>1, <1>2, <1>3, <1>5, <1>6, <1>7, <1>8, ReaderStep

-----------------------------------------------------------------------------
\* A step of the stream writes, sends or ends, and only while it has not ended.
LEMMA StreamStep ==
  ASSUME IInv, ServerWrites
  PROVE  /\ status = NoStatus /\ status' \in StreamStatuses \cup {NoStatus}
         /\ accepted' \in Seq(Messages) /\ wire' \in Seq(Messages)
         /\ IsPrefix(wire, wire') /\ StreamBooks'
  <1>0. /\ accepted \in Seq(Messages) /\ wire \in Seq(Messages) /\ MaxMsgs \in Nat
        /\ IsPrefix(wire, accepted) /\ Len(accepted) <= MaxMsgs
        /\ Len(wire) \in Nat /\ Len(accepted) \in Nat
    BY InvFacts, LenProperties, ReaderAssumption DEF IInv, StreamBooks
  <1>1. IsPrefix(wire, wire)
    BY <1>0, PrefixFacts
  <1>S. ASSUME NEW a \in Seq(Messages), IsPrefix(wire, a), a = accepted', Stream!Transmit
        PROVE  wire' \in Seq(Messages) /\ IsPrefix(wire, wire') /\ IsPrefix(wire', a)
    <2>1. Len(wire) < Len(a) /\ wire' = Append(wire, a[Len(wire) + 1])
      BY <1>S DEF Stream!Transmit
    <2>2. PICK m \in Messages : m = a[Len(wire) + 1]
      <3>1. Len(a) \in Nat
        BY <1>S, LenProperties
      <3> QED BY <1>0, <2>1, <3>1, ElementOfSeq
    <2>3. IsPrefix(wire, Append(wire, m))
      BY <1>0, <1>1, PrefixFacts
    <2>4. Append(wire, a[Len(wire) + 1]) \in Seq(Messages) /\ IsPrefix(Append(wire, a[Len(wire) + 1]), a)
      BY <1>0, <1>S, <2>1, PrefixFacts
    <2> QED BY <2>1, <2>2, <2>3, <2>4
  <1>2. ASSUME NEW m \in Messages, Stream!Accept(m), Len(accepted) < MaxMsgs \/ UNCHANGED accepted
        PROVE  /\ status = NoStatus /\ status' \in StreamStatuses \cup {NoStatus}
               /\ accepted' \in Seq(Messages) /\ wire' \in Seq(Messages)
               /\ IsPrefix(wire, wire') /\ StreamBooks'
    <2>1. /\ status = NoStatus /\ status' = NoStatus /\ accepted' = Append(accepted, m)
          /\ Stream!Transmit \/ UNCHANGED wire
      BY <1>2 DEF Stream!Accept
    <2>2. /\ accepted' \in Seq(Messages) /\ IsPrefix(wire, accepted')
          /\ Len(accepted') = Len(accepted) + 1
      <3>1. IsPrefix(wire, Append(accepted, m))
        BY <1>0, PrefixFacts
      <3> QED BY <1>0, <2>1, <3>1, AppendProperties
    <2>3. Len(accepted') <= MaxMsgs
      BY <1>0, <1>2, <2>2
    <2>4. CASE Stream!Transmit
      BY <1>S, <2>1, <2>2, <2>3, <2>4 DEF StreamBooks
    <2>5. CASE UNCHANGED wire
      BY <1>0, <1>1, <2>1, <2>2, <2>3, <2>5 DEF StreamBooks
    <2> QED BY <2>1, <2>4, <2>5
  <1>3. CASE Stream!Send
    <2>1. status = NoStatus /\ UNCHANGED <<accepted, status>> /\ Stream!Transmit
      BY <1>3 DEF Stream!Send
    <2> QED BY <1>0, <1>S, <2>1 DEF StreamBooks
  <1>4. ASSUME NEW st \in StreamStatuses, Stream!End(st)
        PROVE  /\ status = NoStatus /\ status' \in StreamStatuses \cup {NoStatus}
               /\ accepted' \in Seq(Messages) /\ wire' \in Seq(Messages)
               /\ IsPrefix(wire, wire') /\ StreamBooks'
    BY <1>0, <1>1, <1>4 DEF Stream!End, StreamBooks
  <1> QED BY <1>2, <1>3, <1>4 DEF ServerWrites, Stream!Next

\* What the server writes, and a broken call, preserve it.
LEMMA ServerPreservesIInv ==
  ASSUME IInv, ServerWrites \/ CallBreaks
  PROVE  IInv'
  <1>0. UNCHANGED <<is_started_, status_, msg_cb_, status_cb_, init_tags, read_tags, status_tags,
                    cb_copies, reads, given, delivered, told>>
    BY DEF ServerWrites, CallBreaks, reader, tags, history
  <1>1. CASE ServerWrites
    <2>1. /\ status = NoStatus /\ status' \in StreamStatuses \cup {NoStatus}
          /\ accepted' \in Seq(Messages) /\ wire' \in Seq(Messages) /\ broken' = broken
          /\ IsPrefix(wire, wire') /\ StreamBooks' /\ IsPrefix(wire', accepted')
      BY <1>1, StreamStep DEF ServerWrites, StreamBooks
    <2>2. IsPrefix(delivered, wire') /\ IsPrefix(delivered, accepted') /\ reads <= Len(wire')
      <3>1. /\ delivered \in Seq(Messages) /\ wire \in Seq(Messages) /\ IsPrefix(delivered, wire)
            /\ reads \in Nat /\ reads <= Len(wire)
        BY InvFacts
      <3>2. IsPrefix(delivered, wire')
        BY <2>1, <3>1, PrefixFacts
      <3>3. Len(wire) <= Len(wire') /\ Len(wire) \in Nat /\ Len(wire') \in Nat
        BY <2>1, <3>1, LenProperties, PrefixElements
      <3>4. IsPrefix(delivered, accepted')
        BY <2>1, <3>1, <3>2, PrefixFacts
      <3> QED BY <3>1, <3>2, <3>3, <3>4
    <2>3. TypeOK' /\ OneVerdict'
      BY <1>0, <2>1 DEF IInv, DeliveredInOrder, TypeOK, OneVerdict
    <2>4. \A i \in DOMAIN told : told[i] \notin StreamStatuses
      BY <2>1, StatusFacts DEF IInv, ServerStatusMeansAll
    <2>5. DeliveredInOrder' /\ ServerStatusMeansAll'
      BY <1>0, <2>2, <2>3, <2>4 DEF DeliveredInOrder, ServerStatusMeansAll
    <2>6. Unstarted' /\ ReadBooks'
      BY <1>0, <2>2 DEF IInv, Unstarted, ReadBooks
    <2> QED BY <2>1, <2>3, <2>5, <2>6 DEF IInv
  <1>2. CASE CallBreaks
    <2>1. broken' = TRUE /\ UNCHANGED <<accepted, wire, status>>
      BY <1>2 DEF CallBreaks, server
    <2> QED BY <1>0, <2>1
         DEF IInv, DeliveredInOrder, TypeOK, OneVerdict, ServerStatusMeansAll, StreamBooks, Unstarted,
             ReadBooks
  <1> QED BY <1>1, <1>2

\* Every step preserves it.
LEMMA NextPreservesIInv ==
  ASSUME IInv, [Next]_vars
  PROVE  IInv'
  <1>1. CASE UNCHANGED vars
    <2>1. UNCHANGED <<accepted, wire, status, broken, is_started_, status_, msg_cb_, status_cb_, init_tags,
                      read_tags, status_tags, cb_copies, reads, given, delivered, told>>
      BY <1>1 DEF vars, server, reader, tags, history
    <2> QED BY <2>1
         DEF IInv, DeliveredInOrder, TypeOK, OneVerdict, ServerStatusMeansAll, StreamBooks, Unstarted,
             ReadBooks
  <1>2. CASE Next
    BY <1>2, StartPreservesIInv, InitCompletesPreservesIInv, OnReadPreservesIInv, OnStatusPreservesIInv,
       ServerPreservesIInv DEF Next
  <1> QED BY <1>1, <1>2

-----------------------------------------------------------------------------
\* The inductive invariant holds in every state of a call.
THEOREM Invariance == Spec => []IInv
  <1>1. Init => IInv
    BY InitEstablishesIInv
  <1>2. IInv /\ [Next]_vars => IInv'
    BY NextPreservesIInv
  <1> QED BY <1>1, <1>2, PTL DEF Spec

\* msg_cb gets what the server's handler wrote, in order and each message
\* once, from the first (OnRead()), whatever grpc refuses or fails.
THEOREM InOrder == Spec => []DeliveredInOrder
  <1>1. IInv => DeliveredInOrder
    BY DEF IInv
  <1> QED BY <1>1, Invariance, PTL

\* status_cb is called at most once and after the last read, and until then
\* exactly one completion is bound to call it (CallStatusCb(), RecvStatus()).
THEOREM VerdictOnce == Spec => []OneVerdict
  <1>1. IInv => OneVerdict
    BY DEF IInv
  <1> QED BY <1>1, Invariance, PTL

\* A status of the server's, OK above all, is told only when msg_cb has had
\* every message of the stream.
THEOREM StatusMeansAll == Spec => []ServerStatusMeansAll
  <1>1. IInv => ServerStatusMeansAll
    BY DEF IInv
  <1> QED BY <1>1, Invariance, PTL
=============================================================================
