-------------------- MODULE ClientAsyncReaderWriterProofs --------------------
(***************************************************************************)
(* Proofs about ClientAsyncReaderWriter for any calls that the callbacks   *)
(* make and any bounds on the messages.                                    *)
(***************************************************************************)
EXTENDS ClientAsyncReaderWriter, TLAPS, SequenceTheorems

\* The callbacks that can be running, and what status_cb can have heard.
NoneRuns == <<>>
MsgRuns == <<"msg">>
ErrorRuns == <<"error">>
EndRuns == <<"end">>
MsgThenError == <<"msg", "error">>
EndThenError == <<"end", "error">>

Nothing == <<>>
HeardOk == told \in {<<OK>>, <<OK, UserError>>}
HeardError == told \in {<<InternalError>>, <<UserError>>}

\* What status_cb has heard decides what is running, and whether it is pending.
CallbackBooks ==
  /\ stack \in {NoneRuns, MsgRuns, ErrorRuns, EndRuns, MsgThenError, EndThenError}
  /\ told = Nothing \/ HeardOk \/ HeardError
  /\ ~given => told = Nothing
  /\ told = Nothing =>
       /\ stack \in {NoneRuns, MsgRuns} /\ status_cb_ = given
       /\ given => status_ = OK
  /\ told = <<OK>> =>
       \/ stack = EndRuns /\ status_cb_ /\ status_ = OK
       \/ stack = NoneRuns /\ ~status_cb_
  /\ HeardError =>
       /\ status_ # OK
       /\ \/ stack \in {ErrorRuns, MsgThenError} /\ status_cb_
          \/ stack \in {NoneRuns, MsgRuns} /\ ~status_cb_
  /\ Reentered =>
       /\ status_ # OK
       /\ \/ stack = EndThenError /\ status_cb_
          \/ stack \in {EndRuns, NoneRuns} /\ ~status_cb_

\* An error has ended both halves when no status_cb runs that was told of it.
ErrorEnds ==
  status_ # OK /\ stack \in {NoneRuns, MsgRuns, EndRuns} =>
    reading_ended_ /\ writing_ended_

\* The state OK is told in, which nothing leaves.
OkBooks ==
  HeardOk =>
    /\ reading_started_ /\ reading_ended_ /\ writing_ended_ /\ half_closes = 1
    /\ send_tags = 0 /\ read_tags = 0

\* The messages accepted are those queued and those sent; one is both while
\* its send is in flight.  Writing ends with the half-close.
WriteBooks ==
  /\ HalfCloseIsLast
  /\ send_tags <= queued
  /\ status_ = OK =>
       /\ queued > 0 => send_tags = 1
       /\ sends + queued = accepted + send_tags /\ queued <= accepted
       /\ writing_ended_ => half_closes = 1
       /\ writing_closing_ /\ queued = 0 => writing_ended_
  /\ half_closes = 1 => writing_ended_

\* Reading goes on, in grpc or in msg_cb, from ReadEach() to its end.
InMsg == stack \in {MsgRuns, MsgThenError}
ReadBooks ==
  /\ InMsg => read_tags = 0 /\ reads > 0
  /\ status_ = OK =>
       /\ (reading_started_ /\ ~reading_ended_) <=> (read_tags > 0 \/ InMsg)
       /\ reading_ended_ => reading_started_
  /\ reading_started_ => inited_

\* The destructor closes writing, and runs when nothing is left to do.
DropBooks ==
  /\ handle \in {"dropped", "gone"} => writing_closing_
  /\ handle = "gone" => stack = NoneRuns /\ send_tags = 0 /\ read_tags = 0
  /\ 30 \in failed_asserts => handle = "gone"

\* The asserts that can have failed.
AssertBooks ==
  /\ failed_asserts \subseteq {30, 38, 194, 232}
  /\ 30 \in failed_asserts => ~reading_started_
  /\ {194, 232} \cap failed_asserts # {} => status_ # OK /\ reads > 0

\* The inductive invariant.
IInv ==
  /\ TypeOK /\ CallbackBooks /\ ErrorEnds /\ OkBooks
  /\ WriteBooks /\ ReadBooks /\ AssertBooks /\ DropBooks

-----------------------------------------------------------------------------
\* The stacks are typed and differ.
LEMMA StackTypes ==
  ASSUME NEW s \in {NoneRuns, MsgRuns, ErrorRuns, EndRuns, MsgThenError, EndThenError}
  PROVE  s \in SeqOf(Frames, 2)
  <1>1. ASSUME NEW n \in 0..2, NEW f \in [1..n -> Frames]
        PROVE  f \in SeqOf(Frames, 2)
    BY <1>1 DEF SeqOf
  <1>2. NoneRuns \in SeqOf(Frames, 2)
    <2>1. \A n : n = 0 => NoneRuns \in [1..n -> Frames]
      BY DEF NoneRuns
    <2>2. \A n : n = 0 => NoneRuns \in SeqOf(Frames, 2)
      BY <1>1, <2>1
    <2>. QED
      BY <2>2
  <1>3. /\ MsgRuns \in [1..1 -> Frames] /\ ErrorRuns \in [1..1 -> Frames]
        /\ EndRuns \in [1..1 -> Frames]
    BY DEF MsgRuns, ErrorRuns, EndRuns, Frames
  <1>4. MsgThenError \in [1..2 -> Frames] /\ EndThenError \in [1..2 -> Frames]
    BY DEF MsgThenError, EndThenError, Frames
  <1>5. CASE s = NoneRuns
    BY <1>2, <1>5
  <1>6. CASE s \in {MsgRuns, ErrorRuns, EndRuns}
    BY <1>1, <1>3, <1>6
  <1>7. CASE s \in {MsgThenError, EndThenError}
    BY <1>1, <1>4, <1>7
  <1>. QED
    BY <1>5, <1>6, <1>7

LEMMA StacksDiffer ==
  /\ NoneRuns \notin {MsgRuns, ErrorRuns, EndRuns, MsgThenError, EndThenError}
  /\ MsgRuns \notin {ErrorRuns, EndRuns, MsgThenError, EndThenError}
  /\ ErrorRuns \notin {EndRuns, MsgThenError, EndThenError}
  /\ EndRuns \notin {MsgThenError, EndThenError}
  /\ MsgThenError # EndThenError
  <1>1. /\ Len(NoneRuns) = 0 /\ Len(MsgRuns) = 1 /\ Len(ErrorRuns) = 1
        /\ Len(EndRuns) = 1 /\ Len(MsgThenError) = 2 /\ Len(EndThenError) = 2
    BY DEF NoneRuns, MsgRuns, ErrorRuns, EndRuns, MsgThenError, EndThenError
  <1>2. /\ MsgRuns[1] = "msg" /\ ErrorRuns[1] = "error" /\ EndRuns[1] = "end"
        /\ MsgThenError[1] = "msg" /\ EndThenError[1] = "end"
    BY DEF MsgRuns, ErrorRuns, EndRuns, MsgThenError, EndThenError
  <1>. QED
    BY <1>1, <1>2

\* A sequence of two elements is one with another appended.
LEMMA PairFacts ==
  ASSUME NEW S, NEW a \in S, NEW b \in S
  PROVE  /\ Append(<<a>>, b) = <<a, b>>
         /\ Front(<<a, b>>) = <<a>> /\ Last(<<a, b>>) = b
  <1> DEFINE t == Append(<<a>>, b)
             u == <<a, b>>
  <1>1. <<a>> \in Seq(S) /\ Len(<<a>>) = 1 /\ <<a>>[1] = a
    OBVIOUS
  <1>2. u \in Seq(S) /\ Len(u) = 2 /\ u[1] = a /\ u[2] = b
    OBVIOUS
  <1>3. t \in Seq(S) /\ Len(t) = 2 /\ t[1] = a /\ t[2] = b
    BY <1>1, AppendProperties
  <1>4. \A s \in Seq(S) : Front(Append(s, b)) = s /\ Last(Append(s, b)) = b
    BY DEF Front, Last
  <1>5. Front(t) = <<a>> /\ Last(t) = b
    BY <1>1, <1>4
  <1> HIDE DEF t, u
  <1>6. \A i \in 1..Len(t) : t[i] = u[i]
    BY <1>2, <1>3
  <1>7. t = u
    BY <1>2, <1>3, <1>6, SeqEqual
  <1>8. Front(u) = <<a>> /\ Last(u) = b
    BY <1>5, <1>7
  <1>. QED
    BY <1>7, <1>8 DEF t, u

\* What a handler puts on the stack, and finds there.
LEMMA StackAppend ==
  /\ Append(NoneRuns, "error") = ErrorRuns
  /\ Append(MsgRuns, "error") = MsgThenError
  /\ Append(EndRuns, "error") = EndThenError
  <1>1. Append(NoneRuns, "error") = ErrorRuns
    BY DEF NoneRuns, ErrorRuns
  <1>2. "msg" \in Frames /\ "end" \in Frames /\ "error" \in Frames
    BY DEF Frames
  <1>. QED
    BY <1>1, <1>2, PairFacts DEF MsgRuns, EndRuns, MsgThenError, EndThenError

LEMMA StackTop ==
  /\ Last(MsgRuns) = "msg" /\ Front(MsgRuns) = NoneRuns
  /\ Last(ErrorRuns) = "error" /\ Front(ErrorRuns) = NoneRuns
  /\ Last(EndRuns) = "end" /\ Front(EndRuns) = NoneRuns
  /\ Last(MsgThenError) = "error" /\ Front(MsgThenError) = MsgRuns
  /\ Last(EndThenError) = "error" /\ Front(EndThenError) = EndRuns
  <1>1. \A f \in Frames : Last(<<f>>) = f /\ Front(<<f>>) = <<>>
    BY DEF Last, Front
  <1>2. "msg" \in Frames /\ "end" \in Frames /\ "error" \in Frames
    BY DEF Frames
  <1>3. /\ Last(MsgThenError) = "error" /\ Front(MsgThenError) = MsgRuns
        /\ Last(EndThenError) = "error" /\ Front(EndThenError) = EndRuns
    BY <1>2, PairFacts DEF MsgRuns, EndRuns, MsgThenError, EndThenError
  <1>. QED
    BY <1>1, <1>2, <1>3 DEF NoneRuns, MsgRuns, ErrorRuns, EndRuns

LEMMA WhatRuns ==
  ASSUME stack \in {NoneRuns, MsgRuns, ErrorRuns, EndRuns, MsgThenError, EndThenError}
  PROVE  /\ Running("msg") <=> stack \in {MsgRuns, MsgThenError}
         /\ Running("error") <=> stack \in {ErrorRuns, MsgThenError, EndThenError}
         /\ Running("end") <=> stack \in {EndRuns, EndThenError}
  <1>1. CASE stack = NoneRuns
    BY <1>1, StacksDiffer DEF Running, NoneRuns
  <1>2. CASE stack \in {MsgRuns, ErrorRuns, EndRuns}
    <2>1. Running(stack[1]) /\ \A f : Running(f) => f = stack[1]
      BY <1>2 DEF Running, MsgRuns, ErrorRuns, EndRuns
    <2>2. /\ MsgRuns[1] = "msg" /\ ErrorRuns[1] = "error" /\ EndRuns[1] = "end"
      BY DEF MsgRuns, ErrorRuns, EndRuns
    <2>. QED
      BY <1>2, <2>1, <2>2, StacksDiffer
  <1>3. CASE stack \in {MsgThenError, EndThenError}
    <2>1. /\ Running(stack[1]) /\ Running(stack[2])
          /\ \A f : Running(f) => f \in {stack[1], stack[2]}
      BY <1>3 DEF Running, MsgThenError, EndThenError
    <2>2. /\ MsgThenError[1] = "msg" /\ EndThenError[1] = "end"
          /\ MsgThenError[2] = "error" /\ EndThenError[2] = "error"
      BY DEF MsgThenError, EndThenError
    <2>. QED
      BY <1>3, <2>1, <2>2, StacksDiffer
  <1>. QED
    BY <1>1, <1>2, <1>3

\* What status_cb is told first, and again inside itself.
LEMMA ToldAppend ==
  /\ Append(Nothing, OK) = <<OK>>
  /\ Append(Nothing, InternalError) = <<InternalError>>
  /\ Append(Nothing, UserError) = <<UserError>>
  /\ Append(<<OK>>, UserError) = <<OK, UserError>>
  <1>1. \A st \in Statuses : Append(Nothing, st) = <<st>>
    BY DEF Nothing
  <1>2. OK \in Statuses /\ InternalError \in Statuses /\ UserError \in Statuses
    BY DEF Statuses
  <1>. QED
    BY <1>1, <1>2, PairFacts

LEMMA ToldDiffer ==
  /\ Nothing \notin {<<OK>>, <<InternalError>>, <<UserError>>, <<OK, UserError>>}
  /\ <<OK>> \notin {<<InternalError>>, <<UserError>>, <<OK, UserError>>}
  /\ <<OK, UserError>> \notin {<<InternalError>>, <<UserError>>}
  <1>1. /\ Len(Nothing) = 0 /\ Len(<<OK>>) = 1 /\ Len(<<InternalError>>) = 1
        /\ Len(<<UserError>>) = 1 /\ Len(<<OK, UserError>>) = 2
    BY DEF Nothing
  <1>2. /\ <<OK>>[1] = OK /\ <<InternalError>>[1] = InternalError
        /\ <<UserError>>[1] = UserError
    OBVIOUS
  <1>3. OK # InternalError /\ OK # UserError
    BY DEF OK, InternalError, UserError
  <1>. QED
    BY <1>1, <1>2, <1>3

-----------------------------------------------------------------------------
\* The three ways in which a handler ends.  It goes on: the books of the
\* callbacks do not change.
LEMMA GoesOn ==
  ASSUME CallbackBooks, ErrorEnds, NEW w, w = writing_ended_ \/ w = TRUE,
         GoOn(stack, w), UNCHANGED <<status_cb_, given>>
  PROVE  /\ CallbackBooks' /\ ErrorEnds' /\ (HeardOk' <=> HeardOk)
         /\ stack' = stack /\ told' = told /\ status_' = status_
         /\ reading_ended_' = reading_ended_ /\ writing_ended_' = w
  <1>1. /\ stack' = stack /\ told' = told /\ status_' = status_
        /\ reading_ended_' = reading_ended_ /\ writing_ended_' = w
        /\ status_cb_' = status_cb_ /\ given' = given
    BY DEF GoOn
  <1>2. CallbackBooks' /\ (HeardOk' <=> HeardOk)
    BY <1>1 DEF CallbackBooks, HeardOk, HeardError, Reentered
  <1>3. ErrorEnds'
    BY <1>1 DEF ErrorEnds
  <1>. QED
    BY <1>1, <1>2, <1>3

\* It ends in an error, of its own or of msg_cb: status_cb runs if it is
\* pending, on what ran before, and otherwise both halves have ended.
LEMMA EndsOnError ==
  ASSUME CallbackBooks, ErrorEnds, NEW st \in {InternalError, UserError}, NEW stk,
         NEW w, w = writing_ended_ \/ w = TRUE,
         EndOnErrorStatus(st, stk, w), UNCHANGED <<status_cb_, given>>,
         \/ stk = stack /\ status_ = OK /\ (HeardOk => st = UserError)
         \/ stk = NoneRuns /\ stack = MsgRuns
  PROVE  /\ CallbackBooks' /\ ErrorEnds' /\ (HeardOk' <=> HeardOk) /\ status_' = st
         /\ st # OK
         /\ stack' \in {MsgRuns, MsgThenError} => stack = MsgRuns /\ stk = stack
         /\ reading_ended_' = reading_ended_ \/ reading_ended_' = TRUE
         /\ writing_ended_' = w \/ writing_ended_' = TRUE
  <1>0. st # OK /\ status_' = st /\ status_cb_' = status_cb_ /\ given' = given
    BY DEF EndOnErrorStatus, OK, InternalError, UserError
  <1>1. CASE status_cb_
    <2>1. /\ stack' = Append(stk, "error") /\ told' = Append(told, st)
          /\ reading_ended_' = reading_ended_ /\ writing_ended_' = w
      BY <1>1 DEF EndOnErrorStatus
    <2>2. \/ told = Nothing /\ given /\ status_ = OK /\ stack \in {NoneRuns, MsgRuns}
          \/ told = <<OK>> /\ given /\ status_ = OK /\ stack = EndRuns
      BY <1>1, StacksDiffer, ToldDiffer DEF CallbackBooks, HeardOk, HeardError, Reentered
    <2>3. CASE told = Nothing
      <3>1. told' = <<st>> /\ told' \in {<<InternalError>>, <<UserError>>}
        BY <2>1, <2>3, ToldAppend
      <3>2. stk \in {NoneRuns, MsgRuns} /\ (stack = NoneRuns => stk = NoneRuns)
        BY <2>2, <2>3, ToldDiffer
      <3>3. /\ stack' \in {ErrorRuns, MsgThenError}
            /\ stack' = MsgThenError => stk = MsgRuns
        BY <2>1, <3>2, StackAppend, StacksDiffer
      <3>4. CallbackBooks'
        <4>1. /\ HeardError' /\ ~HeardOk' /\ told' # Nothing /\ told' # <<OK>>
              /\ ~Reentered' /\ status_' # OK /\ given' /\ status_cb_'
          BY <1>0, <1>1, <2>2, <2>3, <3>1, ToldDiffer DEF HeardOk, HeardError, Reentered
        <4>. QED
          BY <3>3, <4>1 DEF CallbackBooks
      <3>5. ErrorEnds'
        BY <3>3, StacksDiffer DEF ErrorEnds
      <3>6. HeardOk' <=> HeardOk
        BY <2>3, <3>1, ToldDiffer DEF HeardOk
      <3>. QED
        BY <1>0, <2>1, <3>2, <3>3, <3>4, <3>5, <3>6, StacksDiffer
    <2>4. CASE told = <<OK>>
      <3>1. stk = EndRuns /\ st = UserError
        BY <2>2, <2>4, ToldDiffer, StacksDiffer DEF HeardOk
      <3>2. stack' = EndThenError /\ told' = <<OK, UserError>>
        BY <2>1, <2>4, <3>1, StackAppend, ToldAppend
      <3>3. CallbackBooks'
        <4>1. /\ Reentered' /\ HeardOk' /\ ~HeardError' /\ told' # Nothing
              /\ told' # <<OK>> /\ status_' # OK /\ given' /\ status_cb_'
          BY <1>0, <1>1, <2>2, <2>4, <3>2, ToldDiffer DEF HeardOk, HeardError, Reentered
        <4>. QED
          BY <3>2, <4>1 DEF CallbackBooks
      <3>4. ErrorEnds'
        BY <3>2, StacksDiffer DEF ErrorEnds
      <3>5. HeardOk' /\ HeardOk
        BY <2>4, <3>2 DEF HeardOk
      <3>. QED
        BY <1>0, <2>1, <3>2, <3>3, <3>4, <3>5, StacksDiffer
    <2>. QED
      BY <2>2, <2>3, <2>4
  <1>2. CASE ~status_cb_
    <2>1. /\ stack' = stk /\ told' = told
          /\ reading_ended_' = TRUE /\ writing_ended_' = TRUE
      BY <1>2 DEF EndOnErrorStatus
    <2>2. stack \in {NoneRuns, MsgRuns, EndRuns}
      BY <1>2 DEF CallbackBooks, HeardOk, HeardError, Reentered
    <2>3. /\ stack = EndRuns => told # Nothing /\ told # <<OK>>
          /\ stack = MsgRuns => ~HeardOk
      BY <1>2, <2>2, StacksDiffer, ToldDiffer DEF CallbackBooks, HeardOk, HeardError, Reentered
    <2>4. CallbackBooks'
      <3>1. CASE told = Nothing
        BY <1>0, <1>2, <2>1, <2>2, <2>3, <3>1, ToldDiffer, StacksDiffer
           DEF CallbackBooks, HeardOk, HeardError, Reentered
      <3>2. CASE HeardError
        BY <1>0, <1>2, <2>1, <2>2, <2>3, <3>2, ToldDiffer, StacksDiffer
           DEF CallbackBooks, HeardOk, HeardError, Reentered
      <3>3. CASE HeardOk
        BY <1>0, <1>2, <2>1, <2>2, <2>3, <3>3, ToldDiffer, StacksDiffer
           DEF CallbackBooks, HeardOk, HeardError, Reentered
      <3>. QED
        BY <3>1, <3>2, <3>3 DEF CallbackBooks
    <2>5. ErrorEnds'
      BY <2>1 DEF ErrorEnds
    <2>6. HeardOk' <=> HeardOk
      BY <2>1 DEF HeardOk
    <2>. QED
      BY <1>0, <2>1, <2>2, <2>4, <2>5, <2>6, StacksDiffer
  <1>. QED
    BY <1>1, <1>2

\* Its half of a call without an error ends: status_cb runs if it is pending
\* and the other half has ended as well.
LEMMA EndsNormally ==
  ASSUME CallbackBooks, ErrorEnds, stack = NoneRuns, status_ = OK, ~HeardOk,
         NEW r \in BOOLEAN, NEW w \in BOOLEAN,
         EndNormally(r, w), UNCHANGED <<status_cb_, given>>
  PROVE  /\ CallbackBooks' /\ ErrorEnds' /\ (HeardOk' => r /\ w)
         /\ stack' \in {NoneRuns, EndRuns} /\ status_' = OK
         /\ reading_ended_' = r /\ writing_ended_' = w
  <1>0. /\ status_' = OK /\ status_cb_' = status_cb_ /\ given' = given
        /\ reading_ended_' = r /\ writing_ended_' = w
    BY DEF EndNormally
  <1>1. ErrorEnds'
    BY <1>0 DEF ErrorEnds
  <1>2. told = Nothing /\ status_cb_ = given
    BY DEF CallbackBooks, HeardError
  <1>3. CASE TellsEnd(r, w)
    <2>1. stack' = EndRuns /\ told' = <<OK>> /\ status_cb_ /\ r /\ w
      BY <1>2, <1>3, ToldAppend DEF EndNormally, TellsEnd, EndRuns
    <2>2. CallbackBooks'
      BY <1>0, <1>2, <2>1, ToldDiffer, StacksDiffer
         DEF CallbackBooks, HeardOk, HeardError, Reentered
    <2>. QED
      BY <1>0, <1>1, <2>1, <2>2
  <1>4. CASE ~TellsEnd(r, w)
    <2>1. stack' = NoneRuns /\ told' = Nothing
      BY <1>2, <1>4 DEF EndNormally
    <2>2. CallbackBooks'
      BY <1>0, <1>2, <2>1, ToldDiffer, StacksDiffer
         DEF CallbackBooks, HeardOk, HeardError, Reentered
    <2>3. ~HeardOk'
      BY <2>1, ToldDiffer DEF HeardOk
    <2>. QED
      BY <1>0, <1>1, <2>1, <2>2, <2>3
  <1>. QED
    BY <1>3, <1>4

-----------------------------------------------------------------------------
\* The checked invariants follow.
LEMMA StatusCbFollows == IInv => StatusCbOnce
  <1> SUFFICES ASSUME IInv PROVE StatusCbOnce
    OBVIOUS
  <1>1. CallbackBooks /\ TypeOK
    BY DEF IInv
  <1>2. Len(told) =< 1 \/ Reentered
    <2>1. Len(Nothing) =< 1 /\ \A st : Len(<<st>>) =< 1
      BY DEF Nothing
    <2>2. \/ told = Nothing \/ \E st : told = <<st>>
          \/ Reentered
      BY <1>1 DEF CallbackBooks, HeardOk, HeardError, Reentered
    <2>. QED
      BY <2>1, <2>2
  <1>3. given /\ status_ # OK => told # <<>>
    BY <1>1 DEF CallbackBooks, Nothing
  <1>4. status_cb_ <=>
          given /\ (told = <<>> \/ Running("error") \/ (Running("end") /\ ~Reentered))
    <2>0. status_cb_ \in BOOLEAN /\ given \in BOOLEAN
      BY <1>1 DEF TypeOK
    <2>1. /\ Running("error") <=> stack \in {ErrorRuns, MsgThenError, EndThenError}
          /\ Running("end") <=> stack \in {EndRuns, EndThenError}
      BY <1>1, WhatRuns DEF CallbackBooks
    <2>2. CASE told = Nothing
      <3>1. status_cb_ = given /\ (given => told = <<>>)
        BY <1>1, <2>2 DEF CallbackBooks, Nothing
      <3>. QED
        BY <2>0, <3>1
    <2>3. CASE told # Nothing
      <3>1. given /\ told # <<>>
        BY <1>1, <2>3 DEF CallbackBooks, Nothing
      <3>2. CASE told = <<OK>>
        BY <1>1, <2>1, <3>1, <3>2, ToldDiffer, StacksDiffer DEF CallbackBooks, Reentered
      <3>3. CASE Reentered
        BY <1>1, <2>1, <3>1, <3>3, ToldDiffer, StacksDiffer DEF CallbackBooks, Reentered
      <3>4. CASE HeardError
        BY <1>1, <2>1, <3>1, <3>4, ToldDiffer, StacksDiffer
           DEF CallbackBooks, HeardError, Reentered
      <3>. QED
        BY <1>1, <2>3, <3>2, <3>3, <3>4 DEF CallbackBooks, HeardOk, Reentered
    <2>. QED
      BY <2>2, <2>3
  <1>. QED
    BY <1>1, <1>2, <1>3, <1>4 DEF StatusCbOnce

LEMMA BatchesFollow == IInv => BatchesInOrder
  <1> SUFFICES ASSUME IInv PROVE BatchesInOrder
    OBVIOUS
  <1>1. TypeOK /\ CallbackBooks /\ WriteBooks /\ ReadBooks
    BY DEF IInv
  <1>2. Running("msg") <=> InMsg
    BY <1>1, WhatRuns DEF CallbackBooks, InMsg
  <1>3. /\ send_tags \in 0..1 /\ read_tags \in 0..1 /\ queued \in 0..MaxWrites
    BY <1>1 DEF TypeOK
  <1>4. /\ send_tags =< 1 /\ read_tags =< 1 /\ send_tags =< queued
        /\ status_ = OK => send_tags = IF queued > 0 THEN 1 ELSE 0
    BY <1>1, <1>3, ReaderWriterAssumption DEF WriteBooks
  <1>5. /\ ~(Running("msg") /\ read_tags > 0)
        /\ status_ = OK =>
             (reading_started_ /\ ~reading_ended_ <=> read_tags > 0 \/ Running("msg"))
    BY <1>1, <1>2 DEF ReadBooks
  <1>. QED
    BY <1>1, <1>4, <1>5 DEF BatchesInOrder, OneSendOneRead, WriteBooks

LEMMA OkFollows == IInv => OkMeansBothEnded
  <1> SUFFICES ASSUME IInv, NEW i \in DOMAIN told, told[i] = OK
               PROVE  HeardOk
    BY DEF IInv, OkBooks, OkMeansBothEnded
  <1>1. CASE told = Nothing
    BY <1>1 DEF Nothing
  <1>2. CASE HeardError
    <2>1. ASSUME NEW st \in {InternalError, UserError}, told = <<st>>
          PROVE  FALSE
      BY <2>1 DEF OK, InternalError, UserError
    <2>. QED
      BY <1>2, <2>1 DEF HeardError
  <1>. QED
    BY <1>1, <1>2 DEF IInv, CallbackBooks

-----------------------------------------------------------------------------
\* What a step leaves alone.  The books of writing, of a step that sends and
\* accepts nothing, and ends writing only in an error.
LEMMA WriteKeep ==
  ASSUME WriteBooks, UNCHANGED <<queued, send_tags, accepted, sends, half_closes>>,
         writing_closing_' = writing_closing_,
         writing_ended_' = writing_ended_ \/ writing_ended_' = TRUE,
         status_' = OK => status_ = OK /\ writing_ended_' = writing_ended_
  PROVE  WriteBooks'
  <1>1. /\ queued' = queued /\ send_tags' = send_tags /\ accepted' = accepted
        /\ sends' = sends /\ half_closes' = half_closes
    OBVIOUS
  <1>. QED
    BY <1>1 DEF WriteBooks, HalfCloseIsLast

\* The books of reading, of a step that reads nothing, and ends reading only
\* in an error.
LEMMA ReadKeep ==
  ASSUME ReadBooks, UNCHANGED <<read_tags, reads, reading_started_>>,
         inited_' = inited_ \/ inited_' = TRUE,
         InMsg' => InMsg,
         status_' = OK => /\ status_ = OK /\ reading_ended_' = reading_ended_
                          /\ (InMsg' <=> InMsg)
  PROVE  ReadBooks'
  <1>1. /\ read_tags' = read_tags /\ reads' = reads
        /\ reading_started_' = reading_started_
    OBVIOUS
  <1>. QED
    BY <1>1 DEF ReadBooks

\* What status_cb heard when it heard OK.
LEMMA OkKeep ==
  ASSUME OkBooks, HeardOk' => HeardOk,
         UNCHANGED <<read_tags, send_tags, reading_started_, half_closes>>,
         reading_ended_' = reading_ended_ \/ reading_ended_' = TRUE,
         writing_ended_' = writing_ended_ \/ writing_ended_' = TRUE
  PROVE  OkBooks'
  BY DEF OkBooks

\* The asserts that failed, of a step of a call that is not gone.
LEMMA AssertsKeep ==
  ASSUME AssertBooks, DropBooks, handle # "gone", reads \in Nat,
         reads' \in Nat, reads <= reads',
         failed_asserts' = failed_asserts \/ failed_asserts' = failed_asserts \cup {38},
         status_ # OK => status_' # OK
  PROVE  AssertBooks'
  <1>1. 30 \notin failed_asserts'
    BY DEF DropBooks
  <1>2. reads > 0 => reads' > 0
    OBVIOUS
  <1>3. failed_asserts' \subseteq {30, 38, 194, 232}
    BY DEF AssertBooks
  <1>4. \A x \in failed_asserts' : x \in failed_asserts \/ x = 38
    OBVIOUS
  <1>5. {194, 232} \cap failed_asserts' # {} => {194, 232} \cap failed_asserts # {}
    BY <1>4
  <1>. QED
    BY <1>1, <1>2, <1>3, <1>5 DEF AssertBooks

LEMMA DropKeep ==
  ASSUME DropBooks, handle # "gone", handle' = handle,
         writing_closing_' = writing_closing_ \/ writing_closing_' = TRUE,
         failed_asserts' = failed_asserts \/ failed_asserts' = failed_asserts \cup {38}
  PROVE  DropBooks'
  BY DEF DropBooks

\* The types of the callbacks that run and of what status_cb has heard.
LEMMA CallbackTypes ==
  /\ CallbackBooks => stack \in SeqOf(Frames, 2) /\ told \in Seq(Statuses)
  /\ CallbackBooks' => stack' \in SeqOf(Frames, 2) /\ told' \in Seq(Statuses)
  <1>1. \A t \in {Nothing, <<OK>>, <<InternalError>>, <<UserError>>, <<OK, UserError>>} :
          t \in Seq(Statuses)
    <2>1. OK \in Statuses /\ InternalError \in Statuses /\ UserError \in Statuses
      BY DEF Statuses
    <2>2. Nothing \in Seq(Statuses)
      BY DEF Nothing
    <2>3. \A a \in Statuses : <<a>> \in Seq(Statuses)
      OBVIOUS
    <2>4. \A a, b \in Statuses : <<a, b>> \in Seq(Statuses)
      OBVIOUS
    <2>. QED
      BY <2>1, <2>2, <2>3, <2>4
  <1>. QED
    BY <1>1, StackTypes DEF CallbackBooks, HeardOk, HeardError

LEMMA InitIInv == Init => IInv
  <1> SUFFICES ASSUME Init PROVE IInv
    OBVIOUS
  <1>1. /\ msg_cb_ \in BOOLEAN /\ status_cb_ \in BOOLEAN /\ given \in BOOLEAN
        /\ inited_ \in BOOLEAN /\ reading_started_ \in BOOLEAN
        /\ writing_closing_ \in BOOLEAN
        /\ reading_ended_ \in BOOLEAN /\ writing_ended_ \in BOOLEAN
    BY DEF Init
  <1>2. /\ queued = 0 /\ send_tags = 0 /\ read_tags = 0
        /\ accepted = 0 /\ sends = 0 /\ half_closes = 0 /\ reads = 0
        /\ stack = NoneRuns /\ told = Nothing /\ status_ = OK
        /\ failed_asserts = {} /\ handle = "held"
    BY DEF Init, NoneRuns, Nothing
  <1>3. ~reading_started_ /\ ~reading_ended_ /\ ~writing_ended_ /\ ~writing_closing_
    BY DEF Init
  <1>4. ~HeardOk /\ ~HeardError /\ ~Reentered /\ ~InMsg
    BY <1>2, ToldDiffer, StacksDiffer DEF HeardOk, HeardError, Reentered, InMsg
  <1>5. CallbackBooks
    <2>1. status_cb_ = given
      BY DEF Init
    <2>. QED
      BY <1>2, <1>4, <2>1, ToldDiffer DEF CallbackBooks
  <1>6. TypeOK
    <2>1. /\ status_ \in Statuses /\ handle \in {"held", "dropped", "gone", "crashed"}
      BY <1>2 DEF Statuses
    <2>2. /\ queued \in 0..MaxWrites /\ send_tags \in 0..1 /\ read_tags \in 0..1
          /\ accepted \in 0..MaxWrites /\ sends \in 0..MaxWrites
          /\ reads \in 0..MaxReads /\ half_closes \in 0..1
      BY <1>2, ReaderWriterAssumption
    <2>. QED
      BY <1>1, <1>2, <1>5, <2>1, <2>2, CallbackTypes DEF TypeOK
  <1>7. WriteBooks /\ ReadBooks
    <2>1. WriteBooks
      BY <1>2, <1>3 DEF WriteBooks, HalfCloseIsLast
    <2>2. ReadBooks
      BY <1>2, <1>3, <1>4 DEF ReadBooks
    <2>. QED
      BY <2>1, <2>2
  <1>8. ErrorEnds /\ OkBooks /\ DropBooks /\ AssertBooks
    BY <1>2, <1>4 DEF ErrorEnds, OkBooks, DropBooks, AssertBooks
  <1>. QED
    BY <1>5, <1>6, <1>7, <1>8 DEF IInv

-----------------------------------------------------------------------------
\* What a step does that calls no msg_cb and ends no half of a good call.
Settles ==
  /\ CallbackBooks' /\ ErrorEnds'
  /\ HeardOk' => HeardOk
  /\ status_' \in Statuses
  /\ status_ # OK => status_' # OK
  /\ status_' = OK => stack' = stack /\ reading_ended_' = reading_ended_
  /\ InMsg' => InMsg
  /\ reading_ended_' = reading_ended_ \/ reading_ended_' = TRUE
  /\ writing_ended_' = writing_ended_ \/ writing_ended_' = TRUE

LEMMA GoOnSettles ==
  ASSUME TypeOK, CallbackBooks, ErrorEnds, NEW w, w = writing_ended_ \/ w = TRUE,
         GoOn(stack, w), UNCHANGED <<status_cb_, given>>
  PROVE  Settles /\ status_' = status_ /\ writing_ended_' = w
  <1>1. /\ CallbackBooks' /\ ErrorEnds' /\ (HeardOk' <=> HeardOk)
        /\ stack' = stack /\ status_' = status_
        /\ reading_ended_' = reading_ended_ /\ writing_ended_' = w
    BY GoesOn
  <1>2. InMsg' => InMsg
    BY <1>1 DEF InMsg
  <1>3. status_' \in Statuses
    BY <1>1 DEF TypeOK
  <1>. QED
    BY <1>1, <1>2, <1>3 DEF Settles

LEMMA ErrorSettles ==
  ASSUME CallbackBooks, ErrorEnds, NEW st \in {InternalError, UserError},
         NEW w, w = writing_ended_ \/ w = TRUE, status_ = OK,
         EndOnErrorStatus(st, stack, w), UNCHANGED <<status_cb_, given>>,
         HeardOk => st = UserError
  PROVE  Settles /\ status_' # OK
  <1>1. /\ CallbackBooks' /\ ErrorEnds' /\ (HeardOk' <=> HeardOk) /\ status_' = st
        /\ st # OK
        /\ stack' \in {MsgRuns, MsgThenError} => stack = MsgRuns
        /\ reading_ended_' = reading_ended_ \/ reading_ended_' = TRUE
        /\ writing_ended_' = w \/ writing_ended_' = TRUE
    BY EndsOnError
  <1>2. status_' \in Statuses
    BY <1>1 DEF Statuses
  <1>. QED
    BY <1>1, <1>2 DEF Settles, InMsg

\* So does an internal error of a call that has not told OK.
LEMMA InternalErrorSettles ==
  ASSUME CallbackBooks, ErrorEnds, status_ = OK, ~HeardOk,
         NEW w, w = writing_ended_ \/ w = TRUE,
         SetInternalError(stack, w), UNCHANGED <<status_cb_, given>>
  PROVE  Settles /\ status_' # OK
  BY ErrorSettles DEF SetInternalError

\* The types after such a step.
LEMMA SettlesTypes ==
  ASSUME TypeOK, Settles
  PROVE  /\ stack' \in SeqOf(Frames, 2) /\ told' \in Seq(Statuses)
         /\ status_' \in Statuses
         /\ reading_ended_' \in BOOLEAN /\ writing_ended_' \in BOOLEAN
  BY CallbackTypes, ZenonT(60) DEF Settles, TypeOK

\* A step that does no more, but for the initial metadata.
LEMMA QuietStep ==
  ASSUME IInv, Settles, handle = "held",
         status_' = OK => writing_ended_' = writing_ended_,
         UNCHANGED <<status_cb_, given, reading_started_, writing_closing_>>,
         UNCHANGED <<queued, tags, counts, handle, msg_cb_>>,
         inited_' = inited_ \/ inited_' = TRUE,
         failed_asserts' = failed_asserts \/ failed_asserts' = failed_asserts \cup {38}
  PROVE  IInv'
  <1>0. /\ TypeOK /\ CallbackBooks /\ ErrorEnds /\ OkBooks
        /\ WriteBooks /\ ReadBooks /\ AssertBooks /\ DropBooks
        /\ UNCHANGED <<queued, send_tags, read_tags, accepted, sends>>
        /\ UNCHANGED <<half_closes, reads>>
        /\ status_cb_' = status_cb_ /\ given' = given
        /\ reading_started_' = reading_started_
        /\ writing_closing_' = writing_closing_ /\ msg_cb_' = msg_cb_
        /\ handle' = handle
    BY DEF IInv, tags, counts
  <1>1. TypeOK'
    <2>1. failed_asserts' \subseteq {30, 31, 38, 59, 88, 92, 118, 194, 210, 232}
      BY <1>0, ZenonT(60) DEF TypeOK
    <2>2. inited_' \in BOOLEAN
      BY <1>0 DEF TypeOK
    <2>. QED
      BY <1>0, <2>1, <2>2, SettlesTypes DEF TypeOK
  <1>2. WriteBooks'
    BY <1>0, WriteKeep DEF Settles
  <1>3. ReadBooks'
    BY <1>0, ReadKeep DEF Settles, InMsg
  <1>4. OkBooks'
    BY <1>0, OkKeep DEF Settles
  <1>5. AssertBooks'
    <2>1. reads \in Nat /\ reads' \in Nat /\ reads <= reads'
      BY <1>0, ReaderWriterAssumption DEF TypeOK
    <2>. QED
      BY <1>0, <2>1, AssertsKeep DEF Settles
  <1>6. DropBooks'
    BY <1>0, DropKeep
  <1>. QED
    BY <1>1, <1>2, <1>3, <1>4, <1>5, <1>6 DEF IInv, Settles

-----------------------------------------------------------------------------
\* Write() refused, and Write() of a call that does not get as far.
LEMMA WriteRefusedStep ==
  ASSUME IInv, Write, (InitFails /\ UNCHANGED <<queued, accepted, sends, send_tags, failed_asserts>>)
                        \/ WriteRejected
  PROVE  IInv'
  <1>0. /\ handle = "held" /\ inited_' = TRUE
        /\ UNCHANGED <<status_cb_, given, reading_started_, writing_closing_>>
        /\ UNCHANGED <<read_tags, half_closes, reads, handle, msg_cb_>>
        /\ TypeOK /\ CallbackBooks /\ ErrorEnds /\ OkBooks /\ ReadBooks
    BY DEF Write, MayCall, IInv
  <1>1. CASE InitFails /\ UNCHANGED <<queued, accepted, sends, send_tags, failed_asserts>>
    <2>1. ~HeardOk /\ status_ = OK
      BY <1>0, <1>1 DEF InitFails, OkBooks, ReadBooks
    <2>2. Settles /\ status_' # OK
      BY <1>0, <1>1, <2>1, InternalErrorSettles DEF InitFails
    <2>. QED
      BY <1>0, <1>1, <2>2, QuietStep DEF tags, counts
  <1>2. CASE WriteRejected
    <2>1. /\ GoOn(stack, writing_ended_)
          /\ UNCHANGED <<queued, accepted, sends, send_tags>>
          /\ failed_asserts' = failed_asserts \/ failed_asserts' = failed_asserts \cup {38}
      BY <1>2 DEF WriteRejected, Check, AssertAt
    <2>2. Settles /\ writing_ended_' = writing_ended_
      BY <1>0, <2>1, GoOnSettles
    <2>. QED
      BY <1>0, <2>1, <2>2, QuietStep DEF tags, counts
  <1>. QED
    BY <1>1, <1>2

\* Write() accepted: behind a message in flight, or sent at once or refused.
LEMMA WriteAcceptedStep ==
  ASSUME IInv, Write, WriteAccepted
  PROVE  IInv'
  <1>0. /\ handle = "held" /\ inited_' = TRUE
        /\ UNCHANGED <<status_cb_, given, reading_started_, writing_closing_>>
        /\ UNCHANGED <<read_tags, half_closes, reads, handle, msg_cb_>>
        /\ UNCHANGED failed_asserts
        /\ TypeOK /\ CallbackBooks /\ ErrorEnds /\ OkBooks /\ ReadBooks
        /\ WriteBooks /\ AssertBooks /\ DropBooks
        /\ status_ = OK /\ accepted < MaxWrites /\ queued' = queued + 1
        /\ accepted' = IF status_' = OK THEN accepted + 1 ELSE accepted
    BY DEF Write, WriteAccepted, MayCall, IInv
  <1>1. ~writing_closing_ /\ ~writing_ended_
    BY DEF WriteAccepted
  <1>2. /\ queued \in Nat /\ accepted \in Nat /\ sends \in Nat /\ send_tags \in 0..1
        /\ half_closes \in 0..1 /\ reads \in Nat /\ MaxWrites \in Nat
    BY <1>0, ReaderWriterAssumption DEF TypeOK
  <1>3. /\ send_tags <= queued /\ queued <= accepted /\ half_closes = 0
        /\ sends + queued = accepted + send_tags /\ (queued > 0 => send_tags = 1)
    BY <1>0, <1>1, <1>2 DEF WriteBooks
  <1>4. ~HeardOk
    BY <1>0, <1>1 DEF OkBooks
  <1>5. /\ Settles
        /\ \/ /\ status_' = OK /\ send_tags' = 1 /\ sends' + queued' = accepted' + 1
              /\ sends' <= MaxWrites /\ accepted' = accepted + 1 /\ sends' \in Nat
              /\ writing_ended_' = writing_ended_
           \/ /\ status_' # OK /\ sends' = sends /\ send_tags' = 0 /\ queued = 0
              /\ accepted' = accepted
    <2>1. CASE IsSending /\ GoOn(stack, writing_ended_) /\ UNCHANGED <<sends, send_tags>>
      <3>1. Settles /\ status_' = OK /\ writing_ended_' = writing_ended_
        BY <1>0, <2>1, GoOnSettles
      <3>2. queued > 0
        BY <2>1 DEF IsSending
      <3>3. accepted' = accepted + 1 /\ sends' = sends /\ send_tags' = 1
        BY <1>0, <1>3, <2>1, <3>1, <3>2
      <3>. QED
        BY <1>0, <1>2, <1>3, <3>1, <3>2, <3>3
    <2>2. CASE ~IsSending /\ SendNext(send_tags)
      <3>1. queued = 0 /\ send_tags = 0 /\ sends = accepted
        BY <1>2, <1>3, <2>2 DEF IsSending
      <3>2. CASE send_tags' = send_tags + 1 /\ sends' = sends + 1 /\ GoOn(stack, writing_ended_)
        <4>1. Settles /\ status_' = OK /\ writing_ended_' = writing_ended_
          BY <1>0, <3>2, GoOnSettles
        <4>2. accepted' = accepted + 1 /\ sends' = sends + 1 /\ send_tags' = 1
          BY <1>0, <3>1, <3>2, <4>1
        <4>. QED
          BY <1>0, <1>2, <3>1, <4>1, <4>2
      <3>3. CASE send_tags' = send_tags /\ UNCHANGED sends
                 /\ SetInternalError(stack, writing_ended_)
        <4>1. Settles /\ status_' # OK
          BY <1>0, <1>4, <3>3, InternalErrorSettles
        <4>. QED
          BY <1>0, <3>1, <3>3, <4>1
      <3>. QED
        BY <2>2, <3>2, <3>3 DEF SendNext
    <2>. QED
      BY <2>1, <2>2 DEF WriteAccepted
  <1>6. TypeOK'
    <2>1. /\ queued' \in 0..MaxWrites /\ accepted' \in 0..MaxWrites
          /\ sends' \in 0..MaxWrites /\ send_tags' \in 0..1
          /\ read_tags' \in 0..1 /\ reads' \in 0..MaxReads /\ half_closes' \in 0..1
      <3>1. /\ read_tags' \in 0..1 /\ reads' \in 0..MaxReads /\ half_closes' \in 0..1
            /\ sends \in 0..MaxWrites
        BY <1>0 DEF TypeOK
      <3>. QED
        BY <1>0, <1>2, <1>3, <1>5, <3>1
    <2>. QED
      BY <1>0, <1>5, <2>1, SettlesTypes DEF TypeOK
  <1>7. WriteBooks'
    <2>1. ~writing_closing_' /\ half_closes' = 0
      BY <1>0, <1>1, <1>3
    <2>2. status_' = OK => ~writing_ended_'
      BY <1>1, <1>5
    <2>3. /\ send_tags' <= queued' /\ (status_' = OK => send_tags' = 1)
          /\ status_' = OK => sends' + queued' = accepted' + send_tags'
          /\ status_' = OK => queued' <= accepted'
      BY <1>0, <1>2, <1>3, <1>5
    <2>. QED
      BY <2>1, <2>2, <2>3 DEF WriteBooks, HalfCloseIsLast
  <1>8. ReadBooks' /\ OkBooks'
    <2>1. ReadBooks'
      BY <1>0, <1>5, ReadKeep DEF Settles, InMsg
    <2>2. OkBooks'
      BY <1>4, <1>5 DEF OkBooks, Settles
    <2>. QED
      BY <2>1, <2>2
  <1>9. AssertBooks' /\ DropBooks'
    <2>1. AssertBooks'
      BY <1>0, <1>2, <1>5, AssertsKeep DEF Settles
    <2>. QED
      BY <1>0, <2>1, DropKeep
  <1>. QED
    BY <1>5, <1>6, <1>7, <1>8, <1>9 DEF IInv, Settles

LEMMA WriteStep ==
  ASSUME IInv, Write
  PROVE  IInv'
  BY WriteRefusedStep, WriteAcceptedStep DEF Write

-----------------------------------------------------------------------------
\* The first close of writing: the half-close is sent, refused, or left to
\* OnSent().
LEMMA ClosesFacts ==
  ASSUME IInv, ~writing_closing_, writing_closing_' = TRUE, Closes,
         UNCHANGED <<queued, send_tags, accepted, sends, status_cb_, given>>
  PROVE  /\ Settles /\ WriteBooks' /\ ~HeardOk
         /\ half_closes' \in 0..1 /\ failed_asserts' = failed_asserts
  <1>0. /\ TypeOK /\ CallbackBooks /\ ErrorEnds /\ OkBooks /\ WriteBooks
        /\ queued' = queued /\ send_tags' = send_tags /\ accepted' = accepted
        /\ sends' = sends /\ writing_closing_' = TRUE
    BY DEF IInv
  <1>1. half_closes = 0 /\ ~HeardOk
    BY <1>0 DEF TypeOK, WriteBooks, HalfCloseIsLast, OkBooks
  <1>2. /\ queued \in Nat /\ accepted \in Nat /\ sends \in Nat /\ send_tags \in 0..1
    BY <1>0 DEF TypeOK
  <1>3. CASE IsGood /\ AllSent
    <2>1. /\ status_ = OK /\ queued = 0
          /\ failed_asserts' = failed_asserts
          /\ (SendClose /\ GoOn(stack, TRUE)) \/ SendCloseFails
      BY <1>1, <1>3 DEF Closes, IsGood, AllSent, Check, AssertAt
    <2>2. send_tags = 0 /\ sends = accepted
      BY <1>0, <1>2, <2>1 DEF WriteBooks
    <2>3. half_closes' = 1 /\ Settles /\ writing_ended_' = TRUE
      <3>1. CASE SendClose /\ GoOn(stack, TRUE)
        <4>1. Settles /\ writing_ended_' = TRUE
          BY <1>0, <3>1, GoOnSettles
        <4>. QED
          BY <1>1, <3>1, <4>1 DEF SendClose
      <3>2. CASE SendCloseFails
        <4>1. SendClose /\ SetInternalError(stack, TRUE)
          BY <3>2 DEF SendCloseFails
        <4>2. half_closes' = 1
          BY <1>1, <4>1 DEF SendClose
        <4>3. Settles
          BY <1>0, <1>1, <2>1, <4>1, InternalErrorSettles
        <4>4. writing_ended_' = TRUE
          BY <4>1 DEF SetInternalError, EndOnErrorStatus
        <4>. QED
          BY <4>2, <4>3, <4>4
      <3>. QED
        BY <2>1, <3>1, <3>2
    <2>4. WriteBooks'
      BY <1>0, <1>2, <2>1, <2>2, <2>3 DEF WriteBooks, HalfCloseIsLast
    <2>. QED
      BY <1>1, <2>1, <2>3, <2>4
  <1>4. CASE ~(IsGood /\ AllSent)
    <2>1. /\ GoOn(stack, writing_ended_) /\ failed_asserts' = failed_asserts
          /\ half_closes' = 0
          /\ status_ = OK => queued # 0
      BY <1>1, <1>4 DEF Closes, IsGood, AllSent
    <2>2. Settles /\ writing_ended_' = writing_ended_ /\ status_' = status_
      BY <1>0, <2>1, GoOnSettles
    <2>3. WriteBooks'
      BY <1>0, <1>1, <2>1, <2>2 DEF WriteBooks, HalfCloseIsLast
    <2>. QED
      BY <1>1, <2>1, <2>2, <2>3
  <1>. QED
    BY <1>3, <1>4

\* The rest of what the steps that close writing leave alone.
LEMMA ClosingStep ==
  ASSUME IInv, handle = "held", Settles, WriteBooks', OkBooks', DropBooks',
         UNCHANGED <<msg_cb_, status_cb_, inited_, reading_started_, given>>,
         UNCHANGED <<queued, tags, accepted, sends, reads, failed_asserts>>,
         writing_closing_' = TRUE, half_closes' \in 0..1,
         handle' \in {"held", "dropped"}
  PROVE  IInv'
  <1>0. /\ TypeOK /\ ReadBooks /\ AssertBooks /\ DropBooks
        /\ read_tags' = read_tags /\ send_tags' = send_tags /\ queued' = queued
        /\ accepted' = accepted /\ sends' = sends /\ reads' = reads
        /\ failed_asserts' = failed_asserts /\ msg_cb_' = msg_cb_
        /\ status_cb_' = status_cb_ /\ inited_' = inited_ /\ given' = given
        /\ reading_started_' = reading_started_
    BY DEF IInv, tags
  <1>1. handle' \in {"held", "dropped", "gone", "crashed"} /\ writing_closing_' \in BOOLEAN
    OBVIOUS
  <1>2. TypeOK'
    BY <1>0, <1>1, SettlesTypes DEF TypeOK
  <1>3. ReadBooks'
    BY <1>0, ReadKeep DEF Settles, InMsg
  <1>4. AssertBooks'
    <2>1. reads \in Nat /\ reads' \in Nat /\ reads <= reads'
      BY <1>0, ReaderWriterAssumption DEF TypeOK
    <2>. QED
      BY <1>0, <2>1, AssertsKeep DEF Settles
  <1>. QED
    BY <1>2, <1>3, <1>4 DEF IInv, Settles

LEMMA CloseWritingStep ==
  ASSUME IInv, CloseWriting
  PROVE  IInv'
  <1>0. /\ handle = "held" /\ handle' = "held" /\ ~writing_closing_
        /\ writing_closing_' = TRUE /\ Closes
        /\ UNCHANGED <<msg_cb_, status_cb_, inited_, reading_started_, given>>
        /\ UNCHANGED <<queued, tags, accepted, sends, reads>>
        /\ UNCHANGED send_tags
        /\ DropBooks
    BY DEF CloseWriting, MayCall, IsClosing, IInv, tags
  <1>1. /\ Settles /\ WriteBooks' /\ ~HeardOk
        /\ half_closes' \in 0..1 /\ failed_asserts' = failed_asserts
    BY <1>0, ClosesFacts
  <1>2. OkBooks' /\ DropBooks'
    BY <1>0, <1>1, DropKeep DEF OkBooks, Settles
  <1>. QED
    BY <1>0, <1>1, <1>2, ClosingStep

LEMMA DropStep ==
  ASSUME IInv, Drop
  PROVE  IInv'
  <1>0. /\ handle = "held" /\ handle' = "dropped" /\ writing_closing_' = TRUE
        /\ UNCHANGED <<msg_cb_, status_cb_, inited_, reading_started_, given>>
        /\ UNCHANGED <<queued, tags, accepted, sends, reads>>
        /\ UNCHANGED <<send_tags, read_tags>>
        /\ TypeOK /\ CallbackBooks /\ ErrorEnds /\ OkBooks /\ WriteBooks /\ DropBooks
    BY DEF Drop, MayCall, IInv, tags
  <1>1. CASE IsClosing
    <2>1. /\ GoOn(stack, writing_ended_) /\ UNCHANGED <<half_closes, failed_asserts>>
          /\ writing_closing_
      BY <1>1 DEF Drop, IsClosing
    <2>2. Settles /\ writing_ended_' = writing_ended_ /\ status_' = status_
      BY <1>0, <2>1, GoOnSettles
    <2>3. writing_closing_' = writing_closing_
      BY <1>0, <2>1 DEF TypeOK
    <2>4. WriteBooks' /\ OkBooks'
      BY <1>0, <2>1, <2>2, <2>3, WriteKeep, OkKeep DEF Settles
    <2>5. DropBooks'
      BY <1>0, <2>1 DEF DropBooks
    <2>6. half_closes' \in 0..1
      BY <1>0, <2>1 DEF TypeOK
    <2>. QED
      BY <1>0, <2>1, <2>2, <2>4, <2>5, <2>6, ClosingStep
  <1>2. CASE ~IsClosing
    <2>1. /\ Settles /\ WriteBooks' /\ ~HeardOk
          /\ half_closes' \in 0..1 /\ failed_asserts' = failed_asserts
      BY <1>0, <1>2, ClosesFacts DEF Drop, IsClosing
    <2>2. OkBooks' /\ DropBooks'
      BY <1>0, <2>1 DEF OkBooks, Settles, DropBooks
    <2>. QED
      BY <1>0, <2>1, <2>2, ClosingStep
  <1>. QED
    BY <1>1, <1>2

-----------------------------------------------------------------------------
LEMMA ReadEachStep ==
  ASSUME IInv, NEW cb \in BOOLEAN, ReadEach(cb)
  PROVE  IInv'
  <1>0. /\ handle = "held" /\ handle' = "held" /\ ~reading_started_
        /\ reading_started_' = TRUE /\ inited_' = TRUE
        /\ UNCHANGED <<status_cb_, writing_closing_, given, failed_asserts>>
        /\ UNCHANGED <<queued, send_tags, accepted, sends, half_closes, reads>>
        /\ TypeOK /\ CallbackBooks /\ ErrorEnds /\ OkBooks
        /\ WriteBooks /\ ReadBooks /\ AssertBooks /\ DropBooks
    BY DEF ReadEach, MayCall, IsReading, IInv, counts
  <1>1. ~HeardOk
    BY <1>0 DEF OkBooks
  <1>2. /\ Settles /\ (status_' = OK => writing_ended_' = writing_ended_)
        /\ \/ /\ status_' = OK /\ status_ = OK /\ read_tags' = read_tags + 1
              /\ msg_cb_' = cb
           \/ status_' # OK /\ read_tags' = read_tags /\ msg_cb_' \in BOOLEAN
    <2>1. CASE InitFails /\ UNCHANGED <<msg_cb_, read_tags>>
      <3>1. Settles /\ status_' # OK
        BY <1>0, <1>1, <2>1, InternalErrorSettles DEF InitFails
      <3>2. msg_cb_' \in BOOLEAN
        BY <1>0, <2>1 DEF TypeOK
      <3>. QED
        BY <2>1, <3>1, <3>2
    <2>2. CASE status_ # OK /\ GoOn(stack, writing_ended_) /\ UNCHANGED <<msg_cb_, read_tags>>
      <3>1. Settles /\ status_' # OK
        BY <1>0, <2>2, GoOnSettles
      <3>2. msg_cb_' \in BOOLEAN
        BY <1>0, <2>2 DEF TypeOK
      <3>. QED
        BY <2>2, <3>1, <3>2
    <2>3. CASE /\ status_ = OK /\ msg_cb_' = cb
               /\ read_tags' = read_tags + 1 /\ GoOn(stack, writing_ended_)
      <3>1. Settles /\ status_' = OK /\ writing_ended_' = writing_ended_
        BY <1>0, <2>3, GoOnSettles
      <3>. QED
        BY <2>3, <3>1
    <2>4. CASE /\ status_ = OK /\ msg_cb_' = cb
               /\ read_tags' = read_tags /\ SetInternalError(stack, writing_ended_)
      <3>1. Settles /\ status_' # OK
        BY <1>0, <1>1, <2>4, InternalErrorSettles
      <3>. QED
        BY <2>4, <3>1
    <2>. QED
      BY <2>1, <2>2, <2>3, <2>4 DEF ReadEach, ReadNext
  <1>3. status_ = OK => read_tags = 0 /\ ~InMsg /\ ~reading_ended_
    BY <1>0 DEF ReadBooks, TypeOK
  <1>4. /\ read_tags' \in 0..1 /\ msg_cb_' \in BOOLEAN
    BY <1>0, <1>2, <1>3 DEF TypeOK
  <1>5. TypeOK'
    <2>1. reading_started_' \in BOOLEAN /\ inited_' \in BOOLEAN
      BY <1>0
    <2>. QED
      BY <1>0, <1>2, <1>4, <2>1, SettlesTypes DEF TypeOK
  <1>6. WriteBooks'
    BY <1>0, <1>2, WriteKeep DEF Settles
  <1>7. ReadBooks'
    <2>1. CASE status_' = OK
      <3>1. read_tags' = 1 /\ stack' = stack /\ reading_ended_' = reading_ended_
        BY <1>2, <1>3, <2>1 DEF Settles
      <3>2. ~InMsg' /\ ~reading_ended_'
        BY <1>2, <1>3, <2>1, <3>1 DEF InMsg
      <3>. QED
        BY <1>0, <3>1, <3>2 DEF ReadBooks
    <2>2. CASE status_' # OK
      <3>1. read_tags' = read_tags /\ reads' = reads /\ (InMsg' => InMsg)
        BY <1>0, <1>2, <2>2 DEF Settles
      <3>. QED
        BY <1>0, <2>2, <3>1 DEF ReadBooks
    <2>. QED
      BY <2>1, <2>2
  <1>8. OkBooks' /\ DropBooks'
    BY <1>0, <1>1, <1>2, DropKeep DEF OkBooks, Settles
  <1>9. AssertBooks'
    <2>1. reads \in Nat /\ reads' \in Nat /\ reads <= reads'
      BY <1>0, ReaderWriterAssumption DEF TypeOK
    <2>. QED
      BY <1>0, <1>2, <2>1, AssertsKeep DEF Settles
  <1>. QED
    BY <1>2, <1>5, <1>6, <1>7, <1>8, <1>9 DEF IInv, Settles

LEMMA SetErrorStatusStep ==
  ASSUME IInv, SetErrorStatus
  PROVE  IInv'
  <1>0. /\ handle = "held"
        /\ UNCHANGED <<msg_cb_, status_cb_, inited_, reading_started_, writing_closing_>>
        /\ UNCHANGED <<queued, tags, handle, given, counts, failed_asserts>>
        /\ TypeOK /\ CallbackBooks /\ ErrorEnds
    BY DEF SetErrorStatus, MayCall, IInv, flags
  <1>1. Settles /\ status_' # OK
    <2>1. CASE status_ = OK /\ EndOnErrorStatus(UserError, stack, writing_ended_)
      BY <1>0, <2>1, ErrorSettles
    <2>2. CASE status_ # OK /\ status_' = UserError /\ UNCHANGED <<stack, ends, told>>
      <3>1. /\ stack' = stack /\ told' = told /\ reading_ended_' = reading_ended_
            /\ writing_ended_' = writing_ended_ /\ status_cb_' = status_cb_
            /\ given' = given /\ status_' # OK /\ status_' \in Statuses
        BY <1>0, <2>2 DEF ends, UserError, OK, Statuses
      <3>2. CallbackBooks' /\ (HeardOk' <=> HeardOk)
        BY <1>0, <2>2, <3>1 DEF CallbackBooks, HeardOk, HeardError, Reentered
      <3>3. ErrorEnds' /\ (InMsg' => InMsg)
        BY <1>0, <2>2, <3>1 DEF ErrorEnds, InMsg
      <3>. QED
        BY <3>1, <3>2, <3>3 DEF Settles
    <2>. QED
      BY <2>1, <2>2 DEF SetErrorStatus
  <1>. QED
    BY <1>0, <1>1, QuietStep

-----------------------------------------------------------------------------
\* With an error no status_cb is pending when none runs.
LEMMA NotPending ==
  ASSUME CallbackBooks, stack = NoneRuns, status_ # OK, given \in BOOLEAN
  PROVE  ~status_cb_
  <1>1. CASE told = Nothing
    BY <1>1 DEF CallbackBooks
  <1>2. CASE HeardOk \/ HeardError
    BY <1>2, StacksDiffer DEF CallbackBooks, HeardOk, HeardError, Reentered
  <1>. QED
    BY <1>1, <1>2 DEF CallbackBooks

\* The asserts of OnSent() and OnRead() hold, and a call that has a tag in
\* the completion queue has not told OK.
LEMMA CompletionFacts ==
  ASSUME IInv, stack = <<>>, send_tags > 0 \/ read_tags > 0
  PROVE  /\ stack = NoneRuns /\ ~InMsg /\ ~HeardOk /\ handle # "gone"
         /\ status_ # OK => ~status_cb_
         /\ AssertAt(92, ~IsGood => ~status_cb_) = {}
         /\ AssertAt(118, status_ # OK => ~status_cb_) = {}
  <1>1. stack = NoneRuns
    BY DEF NoneRuns
  <1>2. send_tags \in 0..1 /\ read_tags \in 0..1 /\ given \in BOOLEAN
    BY DEF IInv, TypeOK
  <1>3. ~HeardOk /\ handle # "gone"
    BY <1>2 DEF IInv, OkBooks, DropBooks
  <1>4. status_ # OK => ~status_cb_
    BY <1>1, <1>2, NotPending DEF IInv
  <1>. QED
    BY <1>1, <1>3, <1>4, StacksDiffer DEF InMsg, AssertAt, IsGood

LEMMA OnSentFacts ==
  ASSUME IInv, OnSent
  PROVE  /\ send_tags = 1 /\ queued > 0 /\ queued' = queued - 1 /\ half_closes = 0
         /\ failed_asserts' = failed_asserts
  <1>0. TypeOK /\ WriteBooks /\ stack = <<>> /\ send_tags > 0
    BY DEF IInv, OnSent
  <1>1. send_tags = 1 /\ queued \in Nat /\ half_closes \in 0..1
    BY <1>0 DEF TypeOK
  <1>2. queued > 0 /\ half_closes = 0
    BY <1>0, <1>1 DEF WriteBooks, HalfCloseIsLast
  <1>3. queued' = queued - 1
    BY <1>1, <1>2 DEF OnSent
  <1>4. AssertAt(92, ~IsGood => ~status_cb_) = {}
    BY <1>0, CompletionFacts
  <1>5. AssertAt(88, queued > 0) = {}
    BY <1>2 DEF AssertAt
  <1>6. AssertAt(210, half_closes' > half_closes => half_closes = 0) = {}
    BY <1>2 DEF AssertAt
  <1>7. failed_asserts' = failed_asserts
    BY <1>4, <1>5, <1>6 DEF OnSent, Check
  <1>. QED
    BY <1>1, <1>2, <1>3, <1>7

\* What OnSent() does to the sends: the error case, the next send, none.
LEMMA OnSentCases ==
  ASSUME IInv, OnSent
  PROVE  /\ CallbackBooks' /\ ErrorEnds' /\ OkBooks' /\ WriteBooks' /\ ReadBooks'
         /\ status_' \in Statuses /\ (status_ # OK => status_' # OK)
         /\ send_tags' \in 0..1 /\ half_closes' \in 0..1 /\ sends' \in 0..MaxWrites
         /\ reading_ended_' \in BOOLEAN /\ writing_ended_' \in BOOLEAN
  <1>0. /\ TypeOK /\ CallbackBooks /\ ErrorEnds /\ OkBooks /\ WriteBooks /\ ReadBooks
        /\ msg_cb_' = msg_cb_ /\ status_cb_' = status_cb_ /\ inited_' = inited_
        /\ reading_started_' = reading_started_ /\ writing_closing_' = writing_closing_
        /\ read_tags' = read_tags /\ given' = given /\ accepted' = accepted
        /\ reads' = reads
    BY DEF IInv, OnSent, flags
  <1>1. /\ send_tags = 1 /\ queued > 0 /\ queued' = queued - 1 /\ half_closes = 0
        /\ stack = NoneRuns /\ ~HeardOk /\ ~InMsg
    BY OnSentFacts, CompletionFacts DEF OnSent
  <1>2. /\ queued \in 0..MaxWrites /\ accepted \in 0..MaxWrites /\ sends \in 0..MaxWrites
        /\ MaxWrites \in Nat /\ reading_ended_ \in BOOLEAN /\ writing_ended_ \in BOOLEAN
    BY <1>0, ReaderWriterAssumption DEF TypeOK
  <1>3. status_ = OK => /\ sends + queued = accepted + 1 /\ queued <= accepted
                        /\ ~writing_ended_
    BY <1>0, <1>1 DEF WriteBooks
  \* The handler goes on, or ends in an error, and no half-close is sent.
  <1>4. ASSUME Settles, half_closes' = 0, send_tags' \in 0..1, sends' \in 0..MaxWrites,
               send_tags' <= queued',
               status_' = OK => /\ writing_ended_' = writing_ended_
                                /\ sends' = sends + send_tags' /\ status_ = OK
                                /\ queued' > 0 => send_tags' = 1
                                /\ queued' = 0 => ~writing_closing_
        PROVE  /\ CallbackBooks' /\ ErrorEnds' /\ OkBooks' /\ WriteBooks' /\ ReadBooks'
               /\ status_' \in Statuses /\ (status_ # OK => status_' # OK)
               /\ reading_ended_' \in BOOLEAN /\ writing_ended_' \in BOOLEAN
    <2>1. OkBooks' /\ ReadBooks'
      BY <1>0, <1>1, <1>4, ReadKeep DEF OkBooks, Settles, InMsg
    <2>2. WriteBooks'
      <3>1. status_' = OK => /\ sends' + queued' = accepted' + send_tags'
                             /\ queued' <= accepted'
        BY <1>0, <1>1, <1>2, <1>3, <1>4
      <3>2. status_' = OK => ~writing_ended_'
        BY <1>3, <1>4
      <3>. QED
        BY <1>0, <1>4, <3>1, <3>2 DEF WriteBooks, HalfCloseIsLast
    <2>. QED
      BY <1>0, <1>4, <2>1, <2>2, SettlesTypes DEF Settles
  <1>5. CASE /\ ~IsGood /\ send_tags' = send_tags - 1
             /\ GoOn(stack, writing_ended_) /\ UNCHANGED <<sends, half_closes>>
    <2>1. Settles /\ status_' # OK
      BY <1>0, <1>5, GoOnSettles DEF IsGood
    <2>2. /\ half_closes' = 0 /\ send_tags' \in 0..1 /\ sends' \in 0..MaxWrites
          /\ send_tags' <= queued'
      BY <1>1, <1>2, <1>5
    <2>. QED
      BY <1>4, <1>5, <2>1, <2>2
  <1>6. CASE OnSentFailed /\ status_ = OK
    <2>1. Settles /\ status_' # OK
      BY <1>0, <1>1, <1>6, InternalErrorSettles DEF OnSentFailed
    <2>2. /\ half_closes' = 0 /\ send_tags' \in 0..1 /\ sends' \in 0..MaxWrites
          /\ send_tags' <= queued'
      BY <1>1, <1>2, <1>6 DEF OnSentFailed
    <2>. QED
      BY <1>4, <2>1, <2>2
  <1>7. CASE OnSentSendsNext /\ status_ = OK
    <2>1. queued' > 0 /\ half_closes' = 0 /\ SendNext(0)
      BY <1>1, <1>7 DEF OnSentSendsNext
    <2>2. CASE send_tags' = 0 + 1 /\ sends' = sends + 1 /\ GoOn(stack, writing_ended_)
      <3>1. Settles /\ status_' = OK /\ writing_ended_' = writing_ended_
        BY <1>0, <1>7, <2>2, GoOnSettles
      <3>2. /\ send_tags' = 1 /\ sends' \in 0..MaxWrites /\ send_tags' <= queued'
            /\ sends' = sends + send_tags'
        BY <1>1, <1>2, <1>3, <1>7, <2>1, <2>2
      <3>3. send_tags' \in 0..1
        BY <3>2
      <3>. QED
        BY <1>4, <1>7, <2>1, <3>1, <3>2, <3>3
    <2>3. CASE send_tags' = 0 /\ UNCHANGED sends /\ SetInternalError(stack, writing_ended_)
      <3>1. Settles /\ status_' # OK
        BY <1>0, <1>1, <1>7, <2>3, InternalErrorSettles
      <3>2. send_tags' \in 0..1 /\ sends' \in 0..MaxWrites /\ send_tags' <= queued'
        BY <1>1, <1>2, <2>3
      <3>. QED
        BY <1>4, <2>1, <3>1, <3>2
    <2>. QED
      BY <2>1, <2>2, <2>3 DEF SendNext
  <1>8. CASE OnSentLast /\ status_ = OK
    <2>1. /\ queued' = 0 /\ send_tags' = 0 /\ sends' = sends /\ sends = accepted
      BY <1>1, <1>2, <1>3, <1>8 DEF OnSentLast
    <2>2. CASE /\ ~writing_closing_ /\ GoOn(stack, writing_ended_)
               /\ half_closes' = half_closes
      <3>1. Settles /\ status_' = OK /\ writing_ended_' = writing_ended_
        BY <1>0, <1>8, <2>2, GoOnSettles
      <3>2. /\ half_closes' = 0 /\ send_tags' \in 0..1 /\ sends' \in 0..MaxWrites
            /\ send_tags' <= queued' /\ sends' = sends + send_tags' /\ ~(queued' > 0)
        BY <1>1, <1>2, <2>1, <2>2
      <3>. QED
        BY <1>4, <1>8, <2>2, <3>1, <3>2
    <2>3. CASE writing_closing_ /\ SendClose /\ EndNormally(reading_ended_, TRUE)
      <3>1. half_closes' = 1
        BY <1>1, <2>3 DEF SendClose
      <3>2. /\ CallbackBooks' /\ ErrorEnds' /\ (HeardOk' => reading_ended_)
            /\ stack' \in {NoneRuns, EndRuns} /\ status_' = OK
            /\ reading_ended_' = reading_ended_ /\ writing_ended_' = TRUE
        BY <1>0, <1>1, <1>2, <1>8, <2>3, EndsNormally
      <3>3. ~InMsg'
        BY <3>2, StacksDiffer DEF InMsg
      <3>4. ReadBooks'
        BY <1>0, <1>1, <1>8, <3>2, <3>3, ReadKeep
      <3>5. reading_ended_ => reading_started_ /\ read_tags = 0
        BY <1>0, <1>8 DEF ReadBooks, TypeOK
      <3>6. OkBooks'
        BY <1>0, <2>1, <3>1, <3>2, <3>5 DEF OkBooks
      <3>7. WriteBooks'
        BY <1>0, <1>2, <2>1, <2>3, <3>1, <3>2 DEF WriteBooks, HalfCloseIsLast
      <3>8. /\ status_' \in Statuses /\ send_tags' \in 0..1
            /\ half_closes' \in 0..1 /\ sends' \in 0..MaxWrites
        BY <1>2, <2>1, <3>1, <3>2 DEF Statuses
      <3>9. reading_ended_' \in BOOLEAN /\ writing_ended_' \in BOOLEAN
        BY <1>2, <3>2
      <3>. QED
        BY <1>8, <3>2, <3>4, <3>6, <3>7, <3>8, <3>9
    <2>4. CASE writing_closing_ /\ SendCloseFails
      <3>1. half_closes' = 1
        BY <1>1, <2>4 DEF SendCloseFails, SendClose
      <3>2. Settles /\ status_' # OK
        BY <1>0, <1>1, <1>8, <2>4, InternalErrorSettles DEF SendCloseFails
      <3>3. writing_ended_' = TRUE
        BY <2>4 DEF SendCloseFails, SetInternalError, EndOnErrorStatus
      <3>4. WriteBooks'
        BY <1>0, <1>2, <2>1, <2>4, <3>1, <3>2, <3>3 DEF WriteBooks, HalfCloseIsLast
      <3>5. OkBooks' /\ ReadBooks'
        BY <1>0, <1>1, <3>2, ReadKeep DEF OkBooks, Settles
      <3>6. /\ send_tags' \in 0..1 /\ half_closes' \in 0..1 /\ sends' \in 0..MaxWrites
        BY <1>2, <2>1, <3>1
      <3>. QED
        BY <1>0, <3>2, <3>4, <3>5, <3>6, SettlesTypes DEF Settles
    <2>. QED
      BY <1>8, <2>2, <2>3, <2>4 DEF OnSentLast
  <1>. QED
    BY <1>5, <1>6, <1>7, <1>8 DEF OnSent, IsGood

LEMMA OnSentStep ==
  ASSUME IInv, OnSent
  PROVE  IInv'
  <1>0. /\ TypeOK /\ AssertBooks /\ DropBooks /\ handle # "gone"
        /\ msg_cb_' = msg_cb_ /\ status_cb_' = status_cb_ /\ inited_' = inited_
        /\ reading_started_' = reading_started_ /\ writing_closing_' = writing_closing_
        /\ read_tags' = read_tags /\ given' = given /\ accepted' = accepted
        /\ reads' = reads /\ handle' = handle
    BY CompletionFacts DEF IInv, OnSent, flags
  <1>1. queued' = queued - 1 /\ queued > 0 /\ failed_asserts' = failed_asserts
    BY OnSentFacts
  <1>2. queued' \in 0..MaxWrites
    BY <1>0, <1>1, ReaderWriterAssumption DEF TypeOK
  <1>3. TypeOK'
    BY <1>0, <1>1, <1>2, OnSentCases, CallbackTypes DEF TypeOK
  <1>4. AssertBooks'
    <2>1. reads \in Nat /\ reads' \in Nat /\ reads <= reads'
      BY <1>0, ReaderWriterAssumption DEF TypeOK
    <2>. QED
      BY <1>0, <1>1, <2>1, OnSentCases, AssertsKeep
  <1>5. DropBooks'
    BY <1>0, <1>1, DropKeep
  <1>. QED
    BY <1>3, <1>4, <1>5, OnSentCases DEF IInv

-----------------------------------------------------------------------------
\* What OnRead() does to the reads: nothing after an error; a message that is
\* bad, given to msg_cb or dropped; or the end of reading.
LEMMA OnReadCases ==
  ASSUME IInv, OnRead
  PROVE  /\ CallbackBooks' /\ ErrorEnds' /\ OkBooks' /\ WriteBooks' /\ ReadBooks'
         /\ status_' \in Statuses /\ (status_ # OK => status_' # OK)
         /\ read_tags' \in 0..1 /\ reads' \in 0..MaxReads /\ reads <= reads'
         /\ reading_ended_' \in BOOLEAN /\ writing_ended_' \in BOOLEAN
  <1>0. /\ TypeOK /\ CallbackBooks /\ ErrorEnds /\ OkBooks /\ WriteBooks /\ ReadBooks
        /\ msg_cb_' = msg_cb_ /\ status_cb_' = status_cb_ /\ inited_' = inited_
        /\ reading_started_' = reading_started_ /\ writing_closing_' = writing_closing_
        /\ send_tags' = send_tags /\ given' = given /\ accepted' = accepted
        /\ queued' = queued /\ sends' = sends /\ half_closes' = half_closes
    BY DEF IInv, OnRead, flags
  <1>1. stack = NoneRuns /\ ~HeardOk /\ ~InMsg /\ read_tags > 0
    BY CompletionFacts DEF OnRead
  <1>2. /\ read_tags = 1 /\ reads \in 0..MaxReads /\ MaxReads \in Nat
        /\ reading_ended_ \in BOOLEAN /\ writing_ended_ \in BOOLEAN
        /\ queued \in Nat /\ send_tags \in 0..1
    BY <1>0, <1>1, ReaderWriterAssumption DEF TypeOK
  <1>3. status_ = OK => reading_started_ /\ ~reading_ended_
    BY <1>0, <1>1, <1>2 DEF ReadBooks
  <1>4. reading_started_ => inited_'
    BY <1>0 DEF ReadBooks
  \* The handler goes on, or ends in an error.
  <1>5. ASSUME Settles, read_tags' \in 0..1, reads' \in 0..MaxReads, reads <= reads',
               status_' = OK => /\ status_ = OK /\ writing_ended_' = writing_ended_
                                /\ read_tags' > 0
        PROVE  /\ CallbackBooks' /\ ErrorEnds' /\ OkBooks' /\ WriteBooks' /\ ReadBooks'
               /\ status_' \in Statuses /\ (status_ # OK => status_' # OK)
               /\ read_tags' \in 0..1 /\ reads' \in 0..MaxReads /\ reads <= reads'
               /\ reading_ended_' \in BOOLEAN /\ writing_ended_' \in BOOLEAN
    <2>1. WriteBooks'
      BY <1>0, <1>5, WriteKeep DEF Settles
    <2>2. ReadBooks'
      <3>1. ~InMsg' /\ (reading_started_' => inited_')
        BY <1>0, <1>1, <1>4, <1>5 DEF Settles
      <3>2. status_' = OK => reading_started_' /\ ~reading_ended_'
        BY <1>0, <1>3, <1>5 DEF Settles
      <3>. QED
        BY <1>5, <3>1, <3>2 DEF ReadBooks
    <2>3. OkBooks'
      BY <1>1, <1>5 DEF OkBooks, Settles
    <2>. QED
      BY <1>0, <1>5, <2>1, <2>2, <2>3, SettlesTypes DEF Settles
  <1>6. CASE /\ status_ # OK /\ read_tags' = read_tags - 1
             /\ GoOn(stack, writing_ended_) /\ UNCHANGED reads
    <2>1. Settles /\ status_' # OK
      BY <1>0, <1>6, GoOnSettles
    <2>2. read_tags' \in 0..1 /\ reads' \in 0..MaxReads /\ reads <= reads'
      BY <1>2, <1>6
    <2>. QED
      BY <1>5, <2>1, <2>2
  <1>7. CASE status_ = OK /\ OnReadMsg
    <2>1. reads' \in 0..MaxReads /\ reads <= reads' /\ reads' > 0
      BY <1>2, <1>7 DEF OnReadMsg
    <2>2. CASE EndOnErrorStatus(UserError, stack, writing_ended_) /\ read_tags' = read_tags - 1
      <3>1. Settles /\ status_' # OK
        BY <1>0, <1>1, <1>7, <2>2, ErrorSettles
      <3>2. read_tags' \in 0..1
        BY <1>2, <2>2
      <3>. QED
        BY <1>5, <2>1, <3>1, <3>2
    <2>3. CASE /\ GoOn(<<"msg">>, writing_ended_) /\ read_tags' = read_tags - 1
      <3>1. /\ stack' = MsgRuns /\ told' = told /\ status_' = OK
            /\ reading_ended_' = reading_ended_ /\ writing_ended_' = writing_ended_
            /\ read_tags' = 0
        BY <1>2, <1>7, <2>3 DEF GoOn, MsgRuns
      <3>2. told = Nothing
        BY <1>1, <1>7, <1>0 DEF CallbackBooks, HeardError
      <3>3. CallbackBooks'
        BY <1>0, <3>1, <3>2, ToldDiffer DEF CallbackBooks, HeardOk, HeardError, Reentered
      <3>4. ErrorEnds'
        BY <3>1 DEF ErrorEnds
      <3>5. OkBooks'
        BY <3>1, <3>2, ToldDiffer DEF OkBooks, HeardOk
      <3>6. WriteBooks'
        BY <1>0, <1>7, <3>1, WriteKeep
      <3>7. ReadBooks'
        <4>1. InMsg' /\ read_tags' = 0 /\ reads' > 0
          BY <2>1, <3>1 DEF InMsg
        <4>2. reading_started_' /\ ~reading_ended_' /\ inited_'
          BY <1>0, <1>3, <1>4, <1>7, <3>1
        <4>. QED
          BY <4>1, <4>2 DEF ReadBooks
      <3>8. status_' \in Statuses /\ read_tags' \in 0..1
        BY <3>1 DEF Statuses
      <3>9. reading_ended_' \in BOOLEAN /\ writing_ended_' \in BOOLEAN
        BY <1>2, <3>1
      <3>. QED
        BY <1>7, <2>1, <3>3, <3>4, <3>5, <3>6, <3>7, <3>8, <3>9
    <2>4. CASE GoOn(stack, writing_ended_) /\ UNCHANGED read_tags
      <3>1. Settles /\ status_' = OK /\ writing_ended_' = writing_ended_
        BY <1>0, <1>7, <2>4, GoOnSettles
      <3>2. read_tags' \in 0..1 /\ read_tags' > 0
        BY <1>2, <2>4
      <3>. QED
        BY <1>5, <1>7, <2>1, <3>1, <3>2
    <2>5. CASE SetInternalError(stack, writing_ended_) /\ read_tags' = read_tags - 1
      <3>1. Settles /\ status_' # OK
        BY <1>0, <1>1, <1>7, <2>5, InternalErrorSettles
      <3>2. read_tags' \in 0..1
        BY <1>2, <2>5
      <3>. QED
        BY <1>5, <2>1, <3>1, <3>2
    <2>. QED
      BY <1>7, <2>2, <2>3, <2>4, <2>5 DEF OnReadMsg
  <1>8. CASE status_ = OK /\ OnReadEnds
    <2>1. read_tags' = 0 /\ reads' = reads
      BY <1>2, <1>8 DEF OnReadEnds
    <2>2. read_tags' \in 0..1 /\ reads' \in 0..MaxReads /\ reads <= reads'
      BY <1>2, <2>1
    <2>3. CASE EndNormally(TRUE, writing_ended_)
      <3>1. /\ CallbackBooks' /\ ErrorEnds' /\ (HeardOk' => writing_ended_)
            /\ stack' \in {NoneRuns, EndRuns} /\ status_' = OK
            /\ reading_ended_' = TRUE /\ writing_ended_' = writing_ended_
        BY <1>0, <1>1, <1>2, <1>8, <2>3, EndsNormally
      <3>2. ~InMsg'
        BY <3>1, StacksDiffer DEF InMsg
      <3>3. ReadBooks'
        BY <1>0, <1>3, <1>4, <1>8, <2>1, <3>1, <3>2 DEF ReadBooks
      <3>4. WriteBooks'
        BY <1>0, <1>8, <3>1, WriteKeep
      <3>5. writing_ended_ => half_closes = 1 /\ send_tags = 0
        BY <1>0, <1>2, <1>8 DEF WriteBooks, HalfCloseIsLast
      <3>6. OkBooks'
        BY <1>0, <1>3, <1>8, <2>1, <3>1, <3>5 DEF OkBooks
      <3>7. status_' \in Statuses
        BY <3>1 DEF Statuses
      <3>8. reading_ended_' \in BOOLEAN /\ writing_ended_' \in BOOLEAN
        BY <1>2, <3>1
      <3>. QED
        BY <1>8, <2>2, <3>1, <3>3, <3>4, <3>6, <3>7, <3>8
    <2>4. CASE SetInternalError(stack, writing_ended_)
      <3>1. Settles /\ status_' # OK
        BY <1>0, <1>1, <1>8, <2>4, InternalErrorSettles
      <3>. QED
        BY <1>5, <2>2, <3>1
    <2>. QED
      BY <1>8, <2>3, <2>4 DEF OnReadEnds
  <1>. QED
    BY <1>6, <1>7, <1>8 DEF OnRead

LEMMA OnReadStep ==
  ASSUME IInv, OnRead
  PROVE  IInv'
  <1>0. /\ TypeOK /\ AssertBooks /\ DropBooks /\ handle # "gone"
        /\ msg_cb_' = msg_cb_ /\ status_cb_' = status_cb_ /\ inited_' = inited_
        /\ reading_started_' = reading_started_ /\ writing_closing_' = writing_closing_
        /\ send_tags' = send_tags /\ given' = given /\ accepted' = accepted
        /\ queued' = queued /\ sends' = sends /\ half_closes' = half_closes
        /\ handle' = handle
    BY CompletionFacts DEF IInv, OnRead, flags
  <1>1. failed_asserts' = failed_asserts
    BY CompletionFacts DEF OnRead, Check
  <1>2. TypeOK'
    BY <1>0, <1>1, OnReadCases, CallbackTypes DEF TypeOK
  <1>3. AssertBooks'
    <2>1. reads \in Nat /\ reads' \in Nat /\ reads <= reads'
      BY <1>0, OnReadCases, ReaderWriterAssumption DEF TypeOK
    <2>. QED
      BY <1>0, <1>1, <2>1, OnReadCases, AssertsKeep
  <1>4. DropBooks'
    BY <1>0, <1>1, DropKeep
  <1>. QED
    BY <1>2, <1>3, <1>4, OnReadCases DEF IInv

-----------------------------------------------------------------------------
\* When msg_cb returns it is the only callback that runs: nothing was told
\* OK, and there is no read in flight.
LEMMA MsgFacts ==
  ASSUME IInv, stack # <<>>, Last(stack) = "msg"
  PROVE  /\ stack = MsgRuns /\ Front(stack) = NoneRuns /\ ~HeardOk
         /\ read_tags = 0 /\ reads > 0 /\ handle # "gone"
         /\ status_ # OK => ~status_cb_
  <1>1. stack = MsgRuns
    BY StackTop DEF IInv, CallbackBooks, NoneRuns
  <1>2. ~HeardOk /\ handle # "gone"
    BY <1>1, StacksDiffer, ToldDiffer
       DEF IInv, CallbackBooks, HeardOk, Reentered, DropBooks
  <1>3. status_ # OK => ~status_cb_
    <2>1. CASE told = Nothing
      BY <2>1 DEF IInv, CallbackBooks, TypeOK
    <2>2. CASE HeardError
      BY <1>1, <2>2, StacksDiffer DEF IInv, CallbackBooks
    <2>. QED
      BY <1>2, <2>1, <2>2 DEF IInv, CallbackBooks
  <1>. QED
    BY <1>1, <1>2, <1>3, StackTop DEF IInv, ReadBooks, InMsg

LEMMA ReturnFromMsgStep ==
  ASSUME IInv, ReturnFromMsg
  PROVE  IInv'
  <1>0. /\ TypeOK /\ CallbackBooks /\ ErrorEnds /\ OkBooks
        /\ WriteBooks /\ ReadBooks /\ AssertBooks /\ DropBooks
        /\ msg_cb_' = msg_cb_ /\ status_cb_' = status_cb_ /\ inited_' = inited_
        /\ reading_started_' = reading_started_ /\ writing_closing_' = writing_closing_
        /\ send_tags' = send_tags /\ given' = given /\ accepted' = accepted
        /\ queued' = queued /\ sends' = sends /\ half_closes' = half_closes
        /\ reads' = reads /\ handle' = handle
    BY DEF IInv, ReturnFromMsg, flags, counts
  <1>1. /\ stack = MsgRuns /\ Front(stack) = NoneRuns /\ ~HeardOk
        /\ read_tags = 0 /\ reads > 0 /\ handle # "gone"
        /\ status_ # OK => ~status_cb_
    BY MsgFacts DEF ReturnFromMsg
  <1>2. reads \in 0..MaxReads /\ MaxReads \in Nat
    BY <1>0, ReaderWriterAssumption DEF TypeOK
  <1>3. \/ failed_asserts' = failed_asserts
        \/ failed_asserts' = failed_asserts \cup {194} /\ status_ # OK
        \/ failed_asserts' = failed_asserts \cup {232} /\ status_ # OK
    <2>1. \/ Check(IF status_ = OK THEN {} ELSE {194})
          \/ Check(IF status_ = OK THEN {} ELSE {232})
      BY DEF ReturnFromMsg, AssertAt
    <2>2. CASE status_ = OK
      BY <2>1, <2>2 DEF Check
    <2>3. CASE status_ # OK
      BY <2>1, <2>3 DEF Check
    <2>. QED
      BY <2>2, <2>3
  <1>4. /\ CallbackBooks' /\ ErrorEnds' /\ (HeardOk' <=> HeardOk) /\ ~InMsg'
        /\ status_' \in Statuses /\ (status_ # OK => status_' # OK)
        /\ read_tags' \in 0..1
        /\ writing_ended_' = writing_ended_ \/ writing_ended_' = TRUE
        /\ reading_ended_' = reading_ended_ \/ reading_ended_' = TRUE
        /\ status_' = OK => /\ read_tags' = 1 /\ writing_ended_' = writing_ended_
                            /\ reading_ended_' = reading_ended_
    <2>1. CASE read_tags' = read_tags + 1 /\ GoOn(NoneRuns, writing_ended_)
      <3>1. /\ stack' = NoneRuns /\ told' = told /\ status_' = status_
            /\ reading_ended_' = reading_ended_ /\ writing_ended_' = writing_ended_
            /\ read_tags' = 1
        BY <1>1, <2>1 DEF GoOn
      <3>2. ErrorEnds'
        BY <1>0, <1>1, <3>1 DEF ErrorEnds
      <3>3. HeardOk' <=> HeardOk
        BY <3>1 DEF HeardOk
      <3>4. ~InMsg'
        BY <3>1, StacksDiffer DEF InMsg
      <3>5. CallbackBooks'
        <4>1. CASE told = Nothing
          BY <1>0, <3>1, <4>1, ToldDiffer DEF CallbackBooks, HeardOk, HeardError, Reentered
        <4>2. CASE HeardError
          <5>1. status_ # OK /\ ~status_cb_
            BY <1>0, <1>1, <4>2 DEF CallbackBooks
          <5>2. told # Nothing /\ told # <<OK>> /\ ~Reentered
            BY <4>2, ToldDiffer DEF HeardError, Reentered
          <5>. QED
            BY <1>0, <3>1, <4>2, <5>1, <5>2
               DEF CallbackBooks, HeardOk, HeardError, Reentered
        <4>. QED
          BY <1>0, <1>1, <4>1, <4>2 DEF CallbackBooks
      <3>6. status_' \in Statuses
        BY <1>0, <3>1 DEF TypeOK
      <3>. QED
        BY <3>1, <3>2, <3>3, <3>4, <3>5, <3>6
    <2>2. ASSUME NEW st \in {InternalError, UserError}, read_tags' = read_tags,
                 EndOnErrorStatus(st, NoneRuns, writing_ended_)
          PROVE  /\ CallbackBooks' /\ ErrorEnds' /\ (HeardOk' <=> HeardOk) /\ ~InMsg'
                 /\ status_' \in Statuses /\ status_' # OK /\ read_tags' \in 0..1
                 /\ writing_ended_' = writing_ended_ \/ writing_ended_' = TRUE
                 /\ reading_ended_' = reading_ended_ \/ reading_ended_' = TRUE
      <3>1. /\ CallbackBooks' /\ ErrorEnds' /\ (HeardOk' <=> HeardOk) /\ status_' = st
            /\ st # OK
            /\ stack' \in {MsgRuns, MsgThenError} => NoneRuns = stack
            /\ reading_ended_' = reading_ended_ \/ reading_ended_' = TRUE
            /\ writing_ended_' = writing_ended_ \/ writing_ended_' = TRUE
        BY <1>0, <1>1, <2>2, EndsOnError
      <3>2. ~InMsg'
        BY <1>1, <3>1, StacksDiffer DEF InMsg
      <3>3. status_' \in Statuses
        BY <3>1 DEF Statuses
      <3>4. read_tags' \in 0..1
        BY <1>1, <2>2
      <3>. QED
        BY <3>1, <3>2, <3>3, <3>4
    <2>. QED
      BY <1>1, <2>1, <2>2 DEF ReturnFromMsg, ReadNext, SetInternalError
  <1>5. TypeOK'
    <2>1. reading_ended_' \in BOOLEAN /\ writing_ended_' \in BOOLEAN
      BY <1>0, <1>4, ZenonT(60) DEF TypeOK
    <2>2. failed_asserts' \subseteq {30, 31, 38, 59, 88, 92, 118, 194, 210, 232}
      <3>1. failed_asserts \subseteq {30, 31, 38, 59, 88, 92, 118, 194, 210, 232}
        BY <1>0 DEF TypeOK
      <3>2. \A x \in failed_asserts' : x \in failed_asserts \/ x = 194 \/ x = 232
        BY <1>3
      <3>. QED
        BY <3>1, <3>2, ZenonT(60)
    <2>. QED
      BY <1>0, <1>4, <2>1, <2>2, CallbackTypes DEF TypeOK
  <1>6. WriteBooks'
    BY <1>0, <1>4, WriteKeep
  <1>7. ReadBooks'
    <2>1. status_' = OK => reading_started_' /\ ~reading_ended_'
      BY <1>0, <1>1, <1>4 DEF ReadBooks, InMsg
    <2>2. reading_started_' => inited_'
      BY <1>0 DEF ReadBooks
    <2>. QED
      BY <1>4, <2>1, <2>2 DEF ReadBooks
  <1>8. OkBooks'
    BY <1>1, <1>4 DEF OkBooks
  <1>9. AssertBooks'
    <2>1. 30 \notin failed_asserts'
      BY <1>0, <1>1, <1>3 DEF DropBooks
    <2>2. failed_asserts' \subseteq {30, 38, 194, 232}
      <3>1. failed_asserts \subseteq {30, 38, 194, 232}
        BY <1>0 DEF AssertBooks
      <3>2. \A x \in failed_asserts' : x \in failed_asserts \/ x = 194 \/ x = 232
        BY <1>3
      <3>. QED
        BY <3>1, <3>2
    <2>3. CASE status_ = OK
      BY <1>0, <1>3, <2>1, <2>3, ZenonT(60) DEF AssertBooks
    <2>4. CASE status_ # OK
      BY <1>0, <1>1, <1>4, <2>1, <2>2, <2>4 DEF AssertBooks
    <2>. QED
      BY <2>3, <2>4
  <1>10. DropBooks'
    BY <1>0, <1>1, <1>3 DEF DropBooks
  <1>. QED
    BY <1>4, <1>5, <1>6, <1>7, <1>8, <1>9, <1>10 DEF IInv

-----------------------------------------------------------------------------
\* When status_cb returns it is reset, and what ran before runs on.
LEMMA StatusFacts ==
  ASSUME IInv, ReturnFromStatus
  PROVE  /\ CallbackBooks' /\ ErrorEnds' /\ (HeardOk' <=> HeardOk) /\ (InMsg' <=> InMsg)
         /\ reading_ended_' = reading_ended_ \/ reading_ended_' = TRUE
         /\ writing_ended_' = writing_ended_ \/ writing_ended_' = TRUE
         /\ status_ = OK => /\ reading_ended_' = reading_ended_
                            /\ writing_ended_' = writing_ended_
         /\ stack # NoneRuns
  <1>0. /\ CallbackBooks /\ ErrorEnds /\ OkBooks
        /\ status_cb_' = FALSE /\ status_' = status_ /\ told' = told
        /\ given' = given /\ stack' = Front(stack) /\ stack # <<>>
    BY DEF IInv, ReturnFromStatus, ResetStatusCb
  <1>1. HeardOk' <=> HeardOk
    BY <1>0 DEF HeardOk
  <1>2. stack # NoneRuns /\ Last(stack) # "msg"
    BY <1>0 DEF NoneRuns, ReturnFromStatus
  <1>3. CASE stack = EndRuns
    <2>1. /\ stack' = NoneRuns /\ reading_ended_' = reading_ended_
          /\ writing_ended_' = writing_ended_
      BY <1>0, <1>3, StackTop DEF ReturnFromStatus, ends
    <2>2. told = <<OK>> \/ Reentered
      BY <1>0, <1>3, StacksDiffer DEF CallbackBooks, HeardOk, Reentered
    <2>3. HeardOk /\ told # Nothing /\ ~HeardError
      BY <2>2, ToldDiffer DEF HeardOk, HeardError, Reentered
    <2>4. CallbackBooks'
      BY <1>0, <2>1, <2>3 DEF CallbackBooks, HeardOk, HeardError, Reentered
    <2>5. ErrorEnds' /\ (InMsg' <=> InMsg)
      BY <1>0, <1>3, <2>1, StacksDiffer DEF ErrorEnds, InMsg
    <2>. QED
      BY <1>1, <1>2, <2>1, <2>4, <2>5
  <1>4. CASE stack \in {ErrorRuns, MsgThenError, EndThenError}
    <2>1. /\ reading_ended_' = TRUE /\ writing_ended_' = TRUE
          /\ stack = ErrorRuns => stack' = NoneRuns
          /\ stack = MsgThenError => stack' = MsgRuns
          /\ stack = EndThenError => stack' = EndRuns
      BY <1>0, <1>4, StackTop DEF ReturnFromStatus
    <2>2. \/ HeardError /\ stack \in {ErrorRuns, MsgThenError}
          \/ Reentered /\ stack = EndThenError
      BY <1>0, <1>4, StacksDiffer DEF CallbackBooks, HeardOk, Reentered
    <2>3. status_ # OK /\ told # Nothing /\ told # <<OK>> /\ ~(HeardError /\ Reentered)
      BY <1>0, <2>2, ToldDiffer DEF CallbackBooks, HeardError, Reentered
    <2>4. CallbackBooks'
      BY <1>0, <2>1, <2>2, <2>3 DEF CallbackBooks, HeardOk, HeardError, Reentered
    <2>5. ErrorEnds' /\ (InMsg' <=> InMsg)
      BY <1>4, <2>1, StacksDiffer DEF ErrorEnds, InMsg
    <2>. QED
      BY <1>0, <1>1, <1>2, <2>1, <2>3, <2>4, <2>5
  <1>. QED
    BY <1>0, <1>2, <1>3, <1>4, StackTop DEF CallbackBooks

LEMMA ReturnFromStatusStep ==
  ASSUME IInv, ReturnFromStatus
  PROVE  IInv'
  <1>0. /\ TypeOK /\ OkBooks /\ WriteBooks /\ ReadBooks /\ AssertBooks /\ DropBooks
        /\ msg_cb_' = msg_cb_ /\ inited_' = inited_ /\ status_cb_' = FALSE
        /\ reading_started_' = reading_started_ /\ writing_closing_' = writing_closing_
        /\ send_tags' = send_tags /\ given' = given /\ accepted' = accepted
        /\ queued' = queued /\ sends' = sends /\ half_closes' = half_closes
        /\ reads' = reads /\ read_tags' = read_tags /\ status_' = status_
        /\ failed_asserts' = failed_asserts
    BY DEF IInv, ReturnFromStatus, ResetStatusCb, flags, counts, tags
  <1>1. handle' \in {handle, "crashed"} /\ handle # "gone"
    BY <1>0, StatusFacts DEF ReturnFromStatus, DropBooks
  <1>2. TypeOK'
    <2>1. /\ reading_ended_' \in BOOLEAN /\ writing_ended_' \in BOOLEAN
          /\ status_cb_' \in BOOLEAN
      BY <1>0, StatusFacts DEF TypeOK
    <2>2. handle' \in {"held", "dropped", "gone", "crashed"}
      BY <1>0, <1>1 DEF TypeOK
    <2>. QED
      BY <1>0, <2>1, <2>2, StatusFacts, CallbackTypes DEF TypeOK
  <1>3. WriteBooks' /\ ReadBooks'
    BY <1>0, StatusFacts, WriteKeep, ReadKeep
  <1>4. OkBooks'
    BY <1>0, StatusFacts, OkKeep
  <1>5. AssertBooks' /\ DropBooks'
    BY <1>0, <1>1 DEF AssertBooks, DropBooks
  <1>. QED
    BY <1>2, <1>3, <1>4, <1>5, StatusFacts DEF IInv

\* A call that is destroyed has ended writing; and reading, if it was read.
LEMMA DestructStep ==
  ASSUME IInv, Destruct
  PROVE  IInv'
  <1>0. /\ TypeOK /\ CallbackBooks /\ ErrorEnds /\ OkBooks
        /\ WriteBooks /\ ReadBooks /\ AssertBooks /\ DropBooks
        /\ UNCHANGED <<status_, msg_cb_, status_cb_, queued, stack, given, told>>
        /\ UNCHANGED <<inited_, reading_started_, writing_closing_>>
        /\ UNCHANGED <<reading_ended_, writing_ended_, send_tags, read_tags>>
        /\ UNCHANGED <<accepted, sends, half_closes, reads>>
        /\ stack = NoneRuns /\ send_tags = 0 /\ read_tags = 0
        /\ handle = "dropped" /\ handle' = "gone"
    BY DEF IInv, Destruct, flags, ends, tags, counts, NoneRuns
  <1>1. CallbackBooks' /\ ErrorEnds' /\ OkBooks' /\ WriteBooks' /\ ReadBooks'
    <2>1. CallbackBooks' /\ ErrorEnds' /\ OkBooks'
      BY <1>0 DEF CallbackBooks, ErrorEnds, OkBooks, HeardOk, HeardError, Reentered
    <2>2. WriteBooks' /\ ReadBooks'
      BY <1>0 DEF WriteBooks, ReadBooks, HalfCloseIsLast, InMsg
    <2>. QED
      BY <2>1, <2>2
  <1>2. writing_ended_
    <2>1. queued \in Nat
      BY <1>0 DEF TypeOK
    <2>. QED
      BY <1>0, <2>1 DEF ErrorEnds, WriteBooks, DropBooks
  <1>3. reading_ended_ \/ ~reading_started_
    BY <1>0, StacksDiffer DEF ErrorEnds, ReadBooks, InMsg
  <1>4. \/ failed_asserts' = failed_asserts
        \/ failed_asserts' = failed_asserts \cup {30} /\ ~reading_started_
    BY <1>2, <1>3 DEF Destruct, Check, AssertAt
  <1>5. TypeOK'
    <2>1. failed_asserts' \subseteq {30, 31, 38, 59, 88, 92, 118, 194, 210, 232}
      BY <1>0, <1>4, ZenonT(60) DEF TypeOK
    <2>. QED
      BY <1>0, <2>1 DEF TypeOK
  <1>6. AssertBooks'
    <2>1. failed_asserts' \subseteq {30, 38, 194, 232}
      BY <1>0, <1>4 DEF AssertBooks
    <2>2. \A x \in failed_asserts' : x \in failed_asserts \/ x = 30
      BY <1>4
    <2>3. {194, 232} \cap failed_asserts' # {} => {194, 232} \cap failed_asserts # {}
      BY <2>2
    <2>4. 30 \in failed_asserts' => ~reading_started_
      BY <1>0, <1>4 DEF AssertBooks
    <2>. QED
      BY <1>0, <2>1, <2>3, <2>4 DEF AssertBooks
  <1>7. DropBooks'
    BY <1>0 DEF DropBooks
  <1>. QED
    BY <1>1, <1>5, <1>6, <1>7 DEF IInv

LEMMA StutterStep == IInv /\ UNCHANGED vars => IInv'
  <1> SUFFICES ASSUME IInv, UNCHANGED vars PROVE IInv'
    OBVIOUS
  <1>0. /\ UNCHANGED <<status_, msg_cb_, status_cb_, queued, stack, given, told>>
        /\ UNCHANGED <<inited_, reading_started_, writing_closing_>>
        /\ UNCHANGED <<reading_ended_, writing_ended_, send_tags, read_tags>>
        /\ UNCHANGED <<accepted, sends, half_closes, reads>>
        /\ UNCHANGED <<handle, failed_asserts>>
    BY DEF vars, flags, ends, tags, counts
  <1>1. TypeOK'
    BY <1>0 DEF IInv, TypeOK
  <1>2. CallbackBooks' /\ ErrorEnds' /\ OkBooks'
    BY <1>0 DEF IInv, CallbackBooks, ErrorEnds, OkBooks, HeardOk, HeardError, Reentered
  <1>3. WriteBooks' /\ ReadBooks'
    BY <1>0 DEF IInv, WriteBooks, ReadBooks, HalfCloseIsLast, InMsg
  <1>4. AssertBooks' /\ DropBooks'
    BY <1>0 DEF IInv, AssertBooks, DropBooks
  <1>. QED
    BY <1>1, <1>2, <1>3, <1>4 DEF IInv

LEMMA NextStep == IInv /\ [Next]_vars => IInv'
  BY WriteStep, CloseWritingStep, DropStep, SetErrorStatusStep, ReadEachStep,
     OnSentStep, OnReadStep, ReturnFromMsgStep, ReturnFromStatusStep, DestructStep,
     StutterStep DEF Next

-----------------------------------------------------------------------------
\* The books of the callbacks, of both halves and of the asserts hold in every
\* state, whatever the callbacks call.
THEOREM Invariance == Spec => []IInv
  BY InitIInv, NextStep, PTL DEF Spec

\* status_cb (EndOnErrorStatus, CallStatusCb) is called once, of whatever ends
\* the call first, and again only if it has heard OK and sets an error itself.
THEOREM StatusTold == Spec => []StatusCbOnce
  BY Invariance, StatusCbFollows, PTL

\* Each half has one batch in flight, the right one, and the half-close is the
\* last that is sent, behind every accepted message.
THEOREM BatchOrder == Spec => []BatchesInOrder
  BY Invariance, BatchesFollow, PTL

\* OK is told only when both halves have ended and nothing is in flight.
THEOREM OkAtTheEnd == Spec => []OkMeansBothEnded
  BY Invariance, OkFollows, PTL

\* No step makes an assert fail that the handlers make of each other; the rest
\* fail only when a callback calls back or has set an error, and when a call is
\* destroyed that was never read.
THEOREM Asserts == Spec => AssertsHold
  <1> DEFINE Step == \A line \in failed_asserts' \ failed_asserts :
                       \/ line = 30 /\ ~reading_started_
                       \/ line = 38 /\ Running("error")
                       \/ line \in {194, 232} /\ Running("msg") /\ status_ # OK
  <1>1. IInv /\ [Next]_vars => [Step]_vars
    <2> SUFFICES ASSUME IInv, Next, failed_asserts' # failed_asserts PROVE Step
      OBVIOUS
    <2>0. /\ TypeOK /\ CallbackBooks /\ ErrorEnds /\ WriteBooks /\ ReadBooks
          /\ DropBooks
      BY DEF IInv
    <2>1. CASE Write
      <3>1. WriteRejected
        BY <2>1 DEF Write, WriteAccepted
      <3>2. /\ failed_asserts' = failed_asserts \cup {38}
            /\ status_ # OK /\ ~(reading_ended_ /\ writing_ended_)
        BY <3>1 DEF WriteRejected, Check, AssertAt
      <3>3. stack \in {ErrorRuns, MsgThenError, EndThenError}
        BY <2>0, <3>2 DEF ErrorEnds, CallbackBooks
      <3>4. Running("error")
        BY <3>3, WhatRuns
      <3>. QED
        BY <3>2, <3>4
    <2>2. CASE CloseWriting
      <3>1. failed_asserts' = failed_asserts
        BY <2>2, ClosesFacts DEF CloseWriting, IsClosing, tags
      <3>. QED
        BY <3>1
    <2>3. CASE Drop
      <3>1. failed_asserts' = failed_asserts
        BY <2>3, ClosesFacts DEF Drop, IsClosing, tags
      <3>. QED
        BY <3>1
    <2>4. CASE OnSent
      BY <2>4, OnSentFacts
    <2>5. CASE OnRead
      <3>1. failed_asserts' = failed_asserts
        BY <2>5, CompletionFacts DEF OnRead, Check
      <3>. QED
        BY <3>1
    <2>6. CASE ReturnFromMsg
      <3>1. Running("msg")
        BY <2>0, <2>6, MsgFacts, WhatRuns DEF ReturnFromMsg, CallbackBooks
      <3>2. Check(AssertAt(194, status_ = OK)) \/ Check(AssertAt(232, status_ = OK))
        BY <2>6 DEF ReturnFromMsg
      <3>3. /\ status_ # OK
            /\ \/ failed_asserts' = failed_asserts \cup {194}
               \/ failed_asserts' = failed_asserts \cup {232}
        BY <3>2 DEF Check, AssertAt
      <3>. QED
        BY <3>1, <3>3
    <2>7. CASE Destruct
      <3>1. /\ stack = NoneRuns /\ send_tags = 0 /\ read_tags = 0
            /\ writing_closing_ /\ queued \in Nat
        BY <2>0, <2>7 DEF Destruct, NoneRuns, DropBooks, TypeOK
      <3>2. writing_ended_
        BY <2>0, <3>1 DEF ErrorEnds, WriteBooks
      <3>3. reading_ended_ \/ ~reading_started_
        BY <2>0, <3>1, StacksDiffer DEF ErrorEnds, ReadBooks, InMsg
      <3>4. ~reading_started_ /\ failed_asserts' = failed_asserts \cup {30}
        BY <2>7, <3>2, <3>3 DEF Destruct, Check, AssertAt
      <3>. QED
        BY <3>4
    <2>8. CASE \/ SetErrorStatus \/ ReturnFromStatus
               \/ \E cb \in BOOLEAN : ReadEach(cb)
      BY <2>8 DEF SetErrorStatus, ReturnFromStatus, ReadEach
    <2>. QED
      BY <2>1, <2>2, <2>3, <2>4, <2>5, <2>6, <2>7, <2>8 DEF Next
  <1>2. Spec => [][Step]_vars
    BY <1>1, Invariance, PTL DEF Spec
  <1>. QED
    BY <1>2 DEF AssertsHold

\* After an error no handler and no callback starts a send or the half-close.
THEOREM ErrorStopsSending == Spec => NothingSentAfterError
  <1> DEFINE Step == status_ # OK => sends' = sends /\ half_closes' = half_closes
  <1>1. [Next]_vars => [Step]_vars
    <2> SUFFICES ASSUME Next, status_ # OK
                 PROVE  sends' = sends /\ half_closes' = half_closes
      OBVIOUS
    <2>1. CASE Write
      BY <2>1 DEF Write, InitFails, WriteRejected, WriteAccepted
    <2>2. CASE CloseWriting
      BY <2>2 DEF CloseWriting, Closes, IsGood
    <2>3. CASE Drop
      BY <2>3 DEF Drop, Closes, IsGood
    <2>4. CASE OnSent
      BY <2>4 DEF OnSent, IsGood
    <2>5. CASE \/ OnRead \/ SetErrorStatus \/ ReturnFromMsg \/ ReturnFromStatus
               \/ Destruct \/ \E cb \in BOOLEAN : ReadEach(cb)
      BY <2>5 DEF OnRead, SetErrorStatus, ReturnFromMsg, ReturnFromStatus, Destruct,
                  ReadEach, counts
    <2>. QED
      BY <2>1, <2>2, <2>3, <2>4, <2>5 DEF Next
  <1>2. Spec => [][Step]_vars
    BY <1>1, PTL DEF Spec
  <1>. QED
    BY <1>2 DEF NothingSentAfterError
=============================================================================
