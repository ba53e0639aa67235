-------------------- MODULE ClientSyncReaderWriterProofs --------------------
(***************************************************************************)
(* Proofs about ClientSyncReaderWriter for any sets of threads that write  *)
(* and read, and any bounds on the messages.                               *)
(***************************************************************************)
EXTENDS ClientSyncReaderWriter, TLAPS

\* A thread that started a batch with an error in the status is not about to
\* start another.
LateBooks ==
  \A t \in Threads :
    /\ late[t] \in {0, 1} /\ (late[t] = 1 => at[t] \notin StartLabels)
    /\ status = OK => late[t] = 0

\* One thread at a time is inside ReadOne() or RecvStatus().
OneInside ==
  \A t, u \in Threads : at[t] \in ReadLabels /\ at[u] \in ReadLabels => t = u

\* Nobody can replace the error that RecvStatus() is about to return.
CopiesError == \A t \in Threads : at[t] = "status_copy" => status # OK

\* A message was read and ReadOne() has not returned it yet.
Reading == \E t \in Threads : at[t] \in {"assign", "result"}

\* A message that was read and not returned left an error behind, and no
\* thread that could make the status OK again.
Returned ==
  IF Reading THEN got + 1 = reads
  ELSE got = reads
         \/ (status # OK /\ \A t \in Threads : at[t] \notin {"read_start", "reading"})

\* After a verdict of OK nothing is left to be sent or read.
VerdictBooks == told_ok => server_status = OK /\ reads = sent /\ ~Reading

Alone == OneInside /\ CopiesError /\ Returned /\ VerdictBooks

\* The inductive invariant.
IInv ==
  /\ TypeOK /\ LateBooks /\ reads <= sent
  /\ ~overlapped => Alone


-----------------------------------------------------------------------------
\* The labels, one by one.
LEMMA LabelFacts ==
  /\ WaitLabels = {"sending", "closing", "init_wait", "reading", "status_wait"}
  /\ Labels = {"idle", "close", "read", "assign", "result", "status_copy",
               "write", "close_start", "init_set", "init_assert", "init_start",
               "read_start", "status_start",
               "sending", "closing", "init_wait", "reading", "status_wait"}
  /\ ReadLabels = {"read", "assign", "result", "status_copy", "init_set",
                   "init_assert", "init_start", "read_start", "status_start",
                   "init_wait", "reading", "status_wait"}
  <1>1. WaitLabels = {"sending", "closing", "init_wait", "reading", "status_wait"}
    BY DEF WaitLabels, Batch
  <1>2. Labels = {"idle", "close", "read", "assign", "result", "status_copy",
               "write", "close_start", "init_set", "init_assert", "init_start",
               "read_start", "status_start",
               "sending", "closing", "init_wait", "reading", "status_wait"}
    BY <1>1 DEF Labels, StartLabels
  <1>. QED
    BY <1>1, <1>2 DEF ReadLabels

\* A thread that goes on is at the new label; the others stay.
LEMMA GoFacts ==
  ASSUME TypeOK, NEW t \in Threads, NEW label \in Labels, Go(t, label)
  PROVE  /\ at' \in [Threads -> Labels] /\ at'[t] = label
         /\ \A u \in Threads \ {t} : at'[u] = at[u]
  BY DEF TypeOK, Go

\* An assignment of the status keeps the books of the late batches.
LEMMA SetStatusFacts ==
  ASSUME TypeOK, LateBooks, NEW st \in Statuses, SetStatus(st),
         NEW t \in Threads, NEW label \in Labels \ StartLabels, Go(t, label)
  PROVE  /\ status' = st /\ late' \in [Threads -> Nat]
         /\ LateBooks'
  <1>1. /\ at'[t] = label /\ \A u \in Threads \ {t} : at'[u] = at[u]
    BY GoFacts
  <1>2. CASE st = OK
    BY <1>1, <1>2 DEF SetStatus, LateBooks
  <1>3. CASE st # OK
    <2>1. late' = late /\ status' # OK
      BY <1>3 DEF SetStatus
    <2>. QED
      BY <1>1, <2>1 DEF LateBooks, TypeOK, SetStatus
  <1>. QED
    BY <1>2, <1>3

\* Nor does a batch break them: it is the thread's first since the error.
LEMMA StartFacts ==
  ASSUME TypeOK, LateBooks, NEW t \in Threads, NEW wait \in WaitLabels,
         at[t] \in StartLabels, StartBatch(t, wait)
  PROVE  /\ status' = status /\ had' \in SUBSET OnceOps
         /\ at' \in [Threads -> Labels] /\ at'[t] = wait
         /\ \A u \in Threads \ {t} : at'[u] = at[u]
         /\ late' \in [Threads -> Nat] /\ LateBooks'
  <1>1. wait \in Labels /\ wait \notin StartLabels
    BY LabelFacts DEF StartLabels
  <1>2. /\ status' = status /\ had' \in SUBSET OnceOps
    BY DEF StartBatch, TypeOK
  <1>3. /\ at' \in [Threads -> Labels] /\ at'[t] = wait
        /\ \A u \in Threads \ {t} : at'[u] = at[u]
    BY <1>1, GoFacts DEF StartBatch
  <1>4. late[t] = 0
    BY DEF LateBooks
  <1>5. CASE status = OK
    <2>1. late' = late
      BY <1>5 DEF StartBatch
    <2>. QED
      BY <1>1, <1>2, <1>3, <2>1 DEF LateBooks, TypeOK
  <1>6. CASE status # OK
    <2>1. late' = [late EXCEPT ![t] = @ + 1]
      BY <1>6 DEF StartBatch
    <2>2. late' \in [Threads -> Nat] /\ late'[t] = 1
      BY <1>4, <2>1 DEF TypeOK
    <2>3. \A u \in Threads \ {t} : late'[u] = late[u]
      BY <2>1 DEF TypeOK
    <2>. QED
      BY <1>1, <1>2, <1>3, <1>6, <2>2, <2>3 DEF LateBooks
  <1>. QED
    BY <1>2, <1>3, <1>5, <1>6

LEMMA StartOrFailFacts ==
  ASSUME TypeOK, LateBooks, NEW t \in Threads, NEW wait \in WaitLabels,
         NEW next \in Labels \ StartLabels,
         at[t] \in StartLabels, StartOrFail(t, wait, next)
  PROVE  /\ status' \in Statuses /\ (status' = status \/ status' # OK)
         /\ had' \in SUBSET OnceOps
         /\ at' \in [Threads -> Labels] /\ at'[t] \in {wait, next}
         /\ \A u \in Threads \ {t} : at'[u] = at[u]
         /\ late' \in [Threads -> Nat] /\ LateBooks'
  <1>1. CASE StartBatch(t, wait)
    BY <1>1, StartFacts DEF TypeOK
  <1>2. CASE SetStatus(InternalError) /\ Go(t, next) /\ UNCHANGED had
    <2>1. InternalError \in Statuses /\ InternalError # OK
      BY DEF Statuses, InternalError, OK
    <2>2. /\ status' = InternalError /\ late' \in [Threads -> Nat] /\ LateBooks'
      BY <1>2, <2>1, SetStatusFacts
    <2>3. /\ at' \in [Threads -> Labels] /\ at'[t] = next
          /\ \A u \in Threads \ {t} : at'[u] = at[u]
      BY <1>2, GoFacts
    <2>4. had' \in SUBSET OnceOps
      BY <1>2 DEF TypeOK
    <2>. QED
      BY <2>1, <2>2, <2>3, <2>4
  <1>. QED
    BY <1>1, <1>2 DEF StartOrFail

\* A thread that starts no batch, and is about to only with the status OK,
\* keeps the books.
LEMMA LateKeep ==
  ASSUME LateBooks, UNCHANGED <<late, status>>,
         \A u \in Threads :
           at'[u] = at[u] \/ at'[u] \notin StartLabels
             \/ status = OK \/ at[u] \in StartLabels
  PROVE  LateBooks'
  BY DEF LateBooks

-----------------------------------------------------------------------------
\* A step of thread u that neither enters nor leaves the part of ReadOne() that
\* has a message, and goes on to read only with the status OK.
Calm(u) ==
  \/ at'[u] = at[u]
  \/ /\ at[u] \notin {"assign", "result"}
     /\ at'[u] \notin {"assign", "result", "status_copy"}
     /\ at'[u] \in ReadLabels => at[u] \in ReadLabels
     /\ at'[u] \in {"read_start", "reading"} => at[u] = "read_start" \/ status = OK

\* Such steps keep the books of the messages if they forget no error.
LEMMA CalmKeep ==
  ASSUME Alone, UNCHANGED <<got, reads, sent, server_status, told_ok>>,
         status' = status \/ status' # OK,
         \A u \in Threads : Calm(u)
  PROVE  Alone'
  <1>1. OneInside'
    BY DEF Alone, OneInside, Calm
  <1>2. CopiesError'
    BY DEF Alone, CopiesError, Calm
  <1>3. Reading' = Reading
    BY DEF Reading, Calm
  <1>4. Returned'
    BY <1>3 DEF Alone, Returned, Reading, Calm
  <1>5. VerdictBooks'
    BY <1>3 DEF Alone, VerdictBooks
  <1>. QED
    BY <1>1, <1>2, <1>4, <1>5 DEF Alone

\* The whole invariant, for a calm step that does not touch the books.
LEMMA Keep ==
  ASSUME IInv, UNCHANGED <<got, reads, sent, server_status, told_ok, overlapped>>,
         status' = status \/ status' # OK,
         \A u \in Threads : Calm(u),
         TypeOK', LateBooks'
  PROVE  IInv'
  BY CalmKeep DEF IInv

\* The types of what a step may change besides the labels and the status.
LEMMA TypeKeep ==
  ASSUME TypeOK, UNCHANGED server,
         UNCHANGED <<class, writes, reads, got, told_ok, overlapped>>,
         writing_closed_' \in BOOLEAN, init_md_received_' \in BOOLEAN,
         dropped' \in BOOLEAN, crashed' \in BOOLEAN,
         status' \in Statuses, had' \in SUBSET OnceOps,
         at' \in [Threads -> Labels], late' \in [Threads -> Nat]
  PROVE  TypeOK'
  BY DEF TypeOK, server

LEMMA InitIInv == Init => IInv
  <1> SUFFICES ASSUME Init PROVE IInv
    OBVIOUS
  <1>1. /\ writing_closed_ \in BOOLEAN /\ init_md_received_ \in BOOLEAN
        /\ dropped \in BOOLEAN /\ broken \in BOOLEAN
        /\ told_ok \in BOOLEAN /\ overlapped \in BOOLEAN
    BY DEF Init, InitReader, InitReaderWriter
  <1>2. /\ class \in {"reader", "reader_writer"} /\ status \in Statuses
        /\ server_status \in {NoStatus, OK, ServerError}
    BY DEF Init, InitReader, InitReaderWriter, Statuses
  <1>3. had \subseteq OnceOps /\ crashed \in BOOLEAN
    BY DEF Init, InitReader, InitReaderWriter, OnceOps, Ops, SendInitMdTag
  <1>4. \A t \in Threads : at[t] = "idle" /\ late[t] = 0
    BY DEF Init
  <1>5. at \in [Threads -> Labels] /\ late \in [Threads -> Nat]
    BY LabelFacts DEF Init
  <1>6. /\ writes \in 0..MaxWrites /\ sent \in 0..MaxMsgs
        /\ reads \in 0..MaxMsgs /\ got \in Nat
        /\ reads = 0 /\ sent = 0 /\ got = 0 /\ told_ok = FALSE
    BY ReaderWriterAssumption DEF Init
  <1>7. LateBooks
    BY <1>4 DEF LateBooks, StartLabels
  <1>8. Alone
    BY <1>4, <1>6, LabelFacts
       DEF Alone, OneInside, CopiesError, Returned, Reading, VerdictBooks
  <1>. QED
    BY <1>1, <1>2, <1>3, <1>5, <1>6, <1>7, <1>8 DEF IInv, TypeOK


-----------------------------------------------------------------------------
\* A thread goes on to a label where it is calm.
LEMMA GoKeep ==
  ASSUME IInv, NEW t \in Threads, NEW label \in Labels, Go(t, label),
         UNCHANGED <<status, had, server, late>>,
         UNCHANGED <<class, reads, got, told_ok, overlapped>>,
         writes' \in 0..MaxWrites,
         writing_closed_' \in BOOLEAN, init_md_received_' \in BOOLEAN,
         dropped' \in BOOLEAN, crashed' \in BOOLEAN,
         at'[t] = label => Calm(t),
         label \notin StartLabels \/ status = OK \/ at[t] \in StartLabels
  PROVE  IInv'
  <1>0. TypeOK /\ LateBooks
    BY DEF IInv
  <1>1. /\ at' \in [Threads -> Labels] /\ at'[t] = label
        /\ \A u \in Threads \ {t} : at'[u] = at[u]
    BY <1>0, GoFacts
  <1>2. \A u \in Threads : Calm(u)
    BY <1>1 DEF Calm
  <1>3. TypeOK'
    BY <1>0, <1>1 DEF TypeOK, server
  <1>4. LateBooks'
    BY <1>0, <1>1, LateKeep
  <1>. QED
    BY <1>2, <1>3, <1>4, Keep DEF server

\* A thread starts a batch, or is refused.
LEMMA StartKeep ==
  ASSUME IInv, NEW t \in Threads, NEW wait \in WaitLabels,
         NEW next \in Labels \ StartLabels, at[t] \in StartLabels,
         StartOrFail(t, wait, next), UNCHANGED <<object, server, history>>,
         at'[t] \in {wait, next} => Calm(t)
  PROVE  IInv'
  <1>0. TypeOK /\ LateBooks
    BY DEF IInv
  <1>1. /\ status' \in Statuses /\ (status' = status \/ status' # OK)
        /\ had' \in SUBSET OnceOps
        /\ at' \in [Threads -> Labels] /\ at'[t] \in {wait, next}
        /\ \A u \in Threads \ {t} : at'[u] = at[u]
        /\ late' \in [Threads -> Nat] /\ LateBooks'
    BY <1>0, StartOrFailFacts
  <1>2. \A u \in Threads : Calm(u)
    BY <1>1 DEF Calm
  <1>3. TypeOK'
    BY <1>0, <1>1 DEF TypeOK, object, server, history
  <1>. QED
    BY <1>1, <1>2, <1>3, Keep DEF server, history

-----------------------------------------------------------------------------
LEMMA WriteStep ==
  ASSUME IInv, NEW t \in Threads, Write(t)
  PROVE  IInv'
  <1>1. /\ UNCHANGED <<class, writing_closed_, init_md_received_, dropped>>
        /\ UNCHANGED <<status, had, server, late>>
        /\ UNCHANGED <<reads, got, told_ok, overlapped, crashed>>
        /\ writes < MaxWrites /\ writes' = writes + 1 /\ status = OK
        /\ Go(t, "write") /\ at[t] = "idle" /\ TypeOK
    BY DEF IInv, Write, object, Idle
  <1>2. writes' \in 0..MaxWrites /\ "write" \in Labels
    BY <1>1, ReaderWriterAssumption, LabelFacts DEF TypeOK
  <1>3. at'[t] = "write" => Calm(t)
    BY <1>1, LabelFacts DEF Calm
  <1>. QED
    BY <1>1, <1>2, <1>3, GoKeep DEF TypeOK

\* CloseWriting() and the destructor.
LEMMA CloseStep ==
  ASSUME IInv, NEW t \in Threads, CloseWriting(t) \/ HalfClose(t)
  PROVE  IInv'
  <1> DEFINE next == IF status = OK THEN "close_start" ELSE "idle"
  <1>0. TypeOK /\ {"close", "close_start", "idle"} \subseteq Labels
    BY LabelFacts DEF IInv
  <1>1. CASE CloseWriting(t)
    <2>1. /\ UNCHANGED <<class, writing_closed_, init_md_received_, dropped>>
          /\ UNCHANGED <<status, had, server, late, writes>>
          /\ UNCHANGED <<reads, got, told_ok, overlapped, crashed>>
          /\ Go(t, "close") /\ at[t] = "idle"
      BY <1>1 DEF CloseWriting, object, history, Idle
    <2>2. "close" \notin StartLabels /\ (at'[t] = "close" => Calm(t))
      BY <2>1, LabelFacts DEF Calm, StartLabels
    <2>. QED
      BY <1>0, <2>1, <2>2, GoKeep DEF TypeOK
  <1>2. CASE HalfClose(t)
    <2>1. /\ UNCHANGED <<class, init_md_received_, dropped>>
          /\ UNCHANGED <<status, had, server, late, writes>>
          /\ UNCHANGED <<reads, got, told_ok, overlapped, crashed>>
          /\ Go(t, next) /\ at[t] = "close" /\ writing_closed_' = TRUE
      BY <1>2 DEF HalfClose, history
    <2>2. /\ next \in Labels /\ (next \notin StartLabels \/ status = OK)
          /\ next \in {"close_start", "idle"}
      BY <1>0 DEF StartLabels
    <2> HIDE DEF next
    <2>3. at'[t] = next => Calm(t)
      BY <2>1, <2>2, LabelFacts DEF Calm
    <2>. QED
      BY <1>0, <2>1, <2>2, <2>3, GoKeep DEF TypeOK
  <1>. QED
    BY <1>1, <1>2

LEMMA DestructStep ==
  ASSUME IInv, NEW t \in Threads, Destruct(t)
  PROVE  IInv'
  <1> DEFINE next == IF writing_closed_ THEN at[t] ELSE "close"
  <1>0. TypeOK /\ "close" \in Labels /\ "close" \notin StartLabels
    BY LabelFacts DEF IInv, StartLabels
  <1>1. /\ UNCHANGED <<class, writing_closed_, init_md_received_>>
        /\ UNCHANGED <<status, had, server, late, writes>>
        /\ UNCHANGED <<reads, got, told_ok, overlapped, crashed>>
        /\ dropped' = TRUE /\ at[t] = "idle"
    BY DEF Destruct, history, Idle
  <1>2. Go(t, next)
    BY <1>0 DEF Destruct, Go, TypeOK
  <1>3. next \in Labels /\ next \notin StartLabels /\ next \in {"idle", "close"}
    BY <1>0, <1>1, LabelFacts DEF StartLabels
  <1> HIDE DEF next
  <1>4. at'[t] = next => Calm(t)
    BY <1>1, <1>3, LabelFacts DEF Calm
  <1>. QED
    BY <1>0, <1>1, <1>2, <1>3, <1>4, GoKeep DEF TypeOK

LEMMA SendReturnsStep ==
  ASSUME IInv, NEW t \in Threads, SendReturns(t)
  PROVE  IInv'
  <1>1. /\ UNCHANGED <<class, writing_closed_, init_md_received_, dropped>>
        /\ UNCHANGED <<status, had, server, late, writes>>
        /\ UNCHANGED <<reads, got, told_ok, overlapped, crashed>>
        /\ Go(t, "idle") /\ at[t] \in {"sending", "closing"} /\ TypeOK
    BY DEF IInv, SendReturns, object, history
  <1>2. "idle" \in Labels /\ "idle" \notin StartLabels /\ (at'[t] = "idle" => Calm(t))
    BY <1>1, LabelFacts DEF Calm, StartLabels
  <1>. QED
    BY <1>1, <1>2, GoKeep DEF TypeOK

\* The steps that start the batch of a call, but for RecvStatus().
LEMMA StartStep ==
  ASSUME IInv, NEW t \in Threads,
         StartWrite(t) \/ StartClose(t) \/ StartInitMd(t) \/ StartRead(t)
  PROVE  IInv'
  <1>0. /\ {"sending", "closing", "init_wait", "reading"} \subseteq WaitLabels
        /\ {"idle", "read"} \subseteq Labels \ StartLabels
        /\ {"write", "close_start", "init_start", "read_start"} \subseteq StartLabels
    BY LabelFacts DEF StartLabels
  <1>1. ASSUME NEW wait, NEW next, at[t] \in StartLabels,
               <<at[t], wait, next>> \in
                 {<<"write", "sending", "idle">>, <<"close_start", "closing", "idle">>,
                  <<"init_start", "init_wait", "read">>, <<"read_start", "reading", "idle">>},
               at'[t] \in {wait, next}
        PROVE  Calm(t)
    BY <1>1, LabelFacts DEF Calm
  <1>2. CASE StartWrite(t)
    BY <1>0, <1>1, <1>2, StartKeep DEF StartWrite
  <1>3. CASE StartClose(t)
    BY <1>0, <1>1, <1>3, StartKeep DEF StartClose
  <1>4. CASE StartInitMd(t)
    BY <1>0, <1>1, <1>4, StartKeep DEF StartInitMd
  <1>5. CASE StartRead(t)
    BY <1>0, <1>1, <1>5, StartKeep DEF StartRead
  <1>. QED
    BY <1>2, <1>3, <1>4, <1>5


-----------------------------------------------------------------------------
\* The steps of ReadOne() that read no message.
LEMMA ReadOnStep ==
  ASSUME IInv, NEW t \in Threads,
         InitMdFlag(t) \/ InitMdAssert(t) \/ InitMdArrives(t) \/ ReadOn(t)
  PROVE  IInv'
  <1>0. TypeOK
    BY DEF IInv
  <1>1. CASE InitMdFlag(t)
    <2>1. /\ UNCHANGED <<class, writing_closed_, dropped>>
          /\ UNCHANGED <<status, had, server, late, writes>>
          /\ UNCHANGED <<reads, got, told_ok, overlapped, crashed>>
          /\ Go(t, "init_assert") /\ at[t] = "init_set" /\ init_md_received_' = TRUE
      BY <1>1 DEF InitMdFlag, history
    <2>2. /\ "init_assert" \in Labels /\ at[t] \in StartLabels
          /\ at'[t] = "init_assert" => Calm(t)
      BY <2>1, LabelFacts DEF Calm, StartLabels
    <2>. QED
      BY <1>0, <2>1, <2>2, GoKeep DEF TypeOK
  <1>2. CASE InitMdAssert(t)
    <2>1. /\ UNCHANGED <<class, writing_closed_, init_md_received_, dropped>>
          /\ UNCHANGED <<status, had, server, late, writes>>
          /\ UNCHANGED <<reads, got, told_ok, overlapped>>
          /\ Go(t, "init_start") /\ at[t] = "init_assert"
      BY <1>2 DEF InitMdAssert, object
    <2>2. crashed' \in BOOLEAN
      BY <1>0, <1>2 DEF InitMdAssert, TypeOK
    <2>3. /\ "init_start" \in Labels /\ at[t] \in StartLabels
          /\ at'[t] = "init_start" => Calm(t)
      BY <2>1, LabelFacts DEF Calm, StartLabels
    <2>. QED
      BY <1>0, <2>1, <2>2, <2>3, GoKeep DEF TypeOK
  <1>3. CASE InitMdArrives(t)
    <2>1. /\ UNCHANGED <<class, writing_closed_, init_md_received_, dropped>>
          /\ UNCHANGED <<status, had, server, late, writes>>
          /\ UNCHANGED <<reads, got, told_ok, overlapped, crashed>>
          /\ Go(t, "read") /\ at[t] = "init_wait"
      BY <1>3 DEF InitMdArrives, object, history
    <2>2. "read" \in Labels /\ "read" \notin StartLabels /\ (at'[t] = "read" => Calm(t))
      BY <2>1, LabelFacts DEF Calm, StartLabels
    <2>. QED
      BY <1>0, <2>1, <2>2, GoKeep DEF TypeOK
  <1>4. CASE ReadOn(t)
    <2> DEFINE next == IF status = OK THEN "read_start" ELSE "idle"
    <2>1. /\ UNCHANGED <<class, writing_closed_, init_md_received_, dropped>>
          /\ UNCHANGED <<status, had, server, late, writes>>
          /\ UNCHANGED <<reads, got, told_ok, overlapped, crashed>>
          /\ Go(t, next) /\ at[t] = "read"
      BY <1>4 DEF ReadOn, TestStatus, object, history
    <2>2. /\ next \in Labels /\ (next \notin StartLabels \/ status = OK)
          /\ next \in {"read_start", "idle"} /\ (next = "read_start" => status = OK)
      BY LabelFacts DEF StartLabels
    <2> HIDE DEF next
    <2>3. at'[t] = next => Calm(t)
      BY <2>1, <2>2, LabelFacts DEF Calm
    <2>. QED
      BY <1>0, <2>1, <2>2, <2>3, GoKeep DEF TypeOK
  <1>. QED
    BY <1>1, <1>2, <1>3, <1>4

\* A thread enters ReadOne() or RecvStatus(): it is alone there, or the history
\* says that it is not.
LEMMA EnterStep ==
  ASSUME IInv, NEW t \in Threads, ReadOne(t) \/ RecvStatus(t)
  PROVE  IInv'
  <1> DEFINE read == IF init_md_received_ THEN "read" ELSE "init_set"
             ask == IF status = OK THEN "status_start" ELSE "status_copy"
  <1>0. /\ TypeOK /\ LateBooks /\ reads <= sent /\ at[t] = "idle"
        /\ UNCHANGED <<class, writing_closed_, init_md_received_, dropped>>
        /\ UNCHANGED <<status, had, server, late, writes>>
        /\ UNCHANGED <<reads, got, told_ok, crashed>>
    BY DEF IInv, ReadOne, RecvStatus, Idle, object
  <1>1. PICK label \in {"read", "init_set", "status_start", "status_copy"} :
          /\ Enter(t, label)
          /\ label \in {"init_set", "status_start"} => status = OK
          /\ label = "status_copy" => status # OK
    <2>1. CASE ReadOne(t)
      <3>1. Enter(t, read) /\ status = OK
        BY <2>1 DEF ReadOne
      <3>2. read \in {"read", "init_set"}
        OBVIOUS
      <3>. QED
        BY <3>1, <3>2
    <2>2. CASE RecvStatus(t)
      <3>1. Enter(t, ask)
        BY <2>2 DEF RecvStatus
      <3>2. /\ ask \in {"status_start", "status_copy"}
            /\ ask = "status_start" => status = OK
            /\ ask = "status_copy" => status # OK
        OBVIOUS
      <3>. QED
        BY <3>1, <3>2
    <2>. QED
      BY <2>1, <2>2
  <1> HIDE DEF read, ask
  <1>2. label \in Labels
    BY LabelFacts
  <1>3. /\ at' \in [Threads -> Labels] /\ at'[t] = label
        /\ \A u \in Threads \ {t} : at'[u] = at[u]
    BY <1>0, <1>1, <1>2, GoFacts DEF Enter
  <1>4. overlapped' \in BOOLEAN
    BY <1>0, <1>1 DEF Enter, TypeOK
  <1>5. TypeOK'
    BY <1>0, <1>3, <1>4 DEF TypeOK, server
  <1>6. LateBooks'
    BY <1>0, <1>1, <1>3, LateKeep DEF StartLabels
  <1>7. ASSUME ~overlapped'
        PROVE  Alone'
    <2>1. Alone /\ \A u \in Threads \ {t} : at[u] \notin ReadLabels
      BY <1>1, <1>7 DEF Enter, IInv
    <2>2. OneInside'
      BY <1>3, <2>1 DEF OneInside
    <2>3. CopiesError'
      BY <1>0, <1>1, <1>3, <2>1 DEF CopiesError, Alone
    <2>4. ~Reading /\ ~Reading'
      BY <1>0, <1>1, <1>3, <2>1, LabelFacts DEF Reading
    <2>5. Returned'
      BY <1>0, <1>1, <1>3, <2>1, <2>4 DEF Returned, Alone
    <2>6. VerdictBooks'
      BY <1>0, <2>1, <2>4 DEF VerdictBooks, Alone, server
    <2>. QED
      BY <2>2, <2>3, <2>5, <2>6 DEF Alone
  <1>. QED
    BY <1>0, <1>5, <1>6, <1>7 DEF IInv, server


-----------------------------------------------------------------------------
LEMMA ReadReturnsStep ==
  ASSUME IInv, NEW t \in Threads, ReadReturns(t)
  PROVE  IInv'
  <1>0. /\ TypeOK /\ LateBooks /\ reads <= sent /\ at[t] = "reading"
        /\ UNCHANGED <<class, writing_closed_, init_md_received_, dropped>>
        /\ UNCHANGED <<status, had, server, late, writes>>
        /\ UNCHANGED <<got, told_ok, overlapped, crashed>>
    BY DEF IInv, ReadReturns, object
  <1>1. {"idle", "assign"} \subseteq Labels \ StartLabels
    BY LabelFacts DEF StartLabels
  <1>2. CASE reads < sent /\ reads' = reads + 1 /\ Go(t, "assign")
    <2>1. /\ at' \in [Threads -> Labels] /\ at'[t] = "assign"
          /\ \A u \in Threads \ {t} : at'[u] = at[u]
      BY <1>0, <1>1, <1>2, GoFacts
    <2>2. reads' \in 0..MaxMsgs /\ reads' <= sent'
      BY <1>0, <1>2, ReaderWriterAssumption DEF TypeOK, server
    <2>3. TypeOK'
      BY <1>0, <2>1, <2>2 DEF TypeOK, server
    <2>4. LateBooks'
      BY <1>0, <1>1, <2>1, LateKeep
    <2>5. ASSUME ~overlapped'
          PROVE  Alone'
      <3>1. Alone /\ at[t] \in ReadLabels
        BY <1>0, <2>5, LabelFacts DEF IInv
      <3>2. \A u \in Threads \ {t} : at[u] \notin ReadLabels /\ at'[u] \notin ReadLabels
        BY <2>1, <3>1 DEF Alone, OneInside
      <3>3. OneInside' /\ CopiesError'
        BY <2>1, <3>2, LabelFacts DEF OneInside, CopiesError
      <3>4. ~Reading /\ Reading'
        BY <1>0, <2>1, <3>2, LabelFacts DEF Reading
      <3>5. Returned'
        BY <1>0, <1>2, <3>1, <3>4 DEF Returned, Alone
      <3>6. VerdictBooks'
        BY <1>0, <1>2, <3>1 DEF VerdictBooks, Alone, TypeOK
      <3>. QED
        BY <3>1, <3>3, <3>5, <3>6 DEF Alone
    <2>. QED
      BY <2>2, <2>3, <2>4, <2>5 DEF IInv
  <1>3. CASE Go(t, "idle") /\ UNCHANGED reads
    <2>1. at'[t] = "idle" => Calm(t)
      BY <1>0, LabelFacts DEF Calm
    <2>. QED
      BY <1>0, <1>1, <1>3, <2>1, GoKeep DEF TypeOK
  <1>. QED
    BY <1>2, <1>3 DEF ReadReturns, ReadEnds

LEMMA AssignStatusStep ==
  ASSUME IInv, NEW t \in Threads, AssignStatus(t)
  PROVE  IInv'
  <1>0. /\ TypeOK /\ LateBooks /\ reads <= sent /\ at[t] = "assign"
        /\ UNCHANGED <<class, writing_closed_, init_md_received_, dropped>>
        /\ UNCHANGED <<had, server, writes>>
        /\ UNCHANGED <<reads, got, told_ok, overlapped, crashed>>
        /\ Go(t, "result")
    BY DEF IInv, AssignStatus, GetResultMsg, object, history
  <1>1. PICK st \in {OK, InternalError} : SetStatus(st)
    BY DEF AssignStatus, GetResultMsg
  <1>2. st \in Statuses /\ "result" \in Labels \ StartLabels
    BY LabelFacts DEF Statuses, StartLabels
  <1>3. /\ at' \in [Threads -> Labels] /\ at'[t] = "result"
        /\ \A u \in Threads \ {t} : at'[u] = at[u]
    BY <1>0, <1>2, GoFacts
  <1>4. status' \in Statuses /\ late' \in [Threads -> Nat] /\ LateBooks'
    BY <1>0, <1>1, <1>2, SetStatusFacts
  <1>5. TypeOK'
    BY <1>0, <1>3, <1>4 DEF TypeOK, server
  <1>6. ASSUME ~overlapped'
        PROVE  Alone'
    <2>1. Alone /\ at[t] \in ReadLabels
      BY <1>0, <1>6, LabelFacts DEF IInv
    <2>2. \A u \in Threads \ {t} : at[u] \notin ReadLabels /\ at'[u] \notin ReadLabels
      BY <1>3, <2>1 DEF Alone, OneInside
    <2>3. OneInside' /\ CopiesError'
      BY <1>3, <2>2, LabelFacts DEF OneInside, CopiesError
    <2>4. Reading /\ Reading'
      BY <1>0, <1>3 DEF Reading
    <2>5. Returned' /\ VerdictBooks'
      BY <1>0, <2>1, <2>4 DEF Returned, VerdictBooks, Alone
    <2>. QED
      BY <2>3, <2>5 DEF Alone
  <1>. QED
    BY <1>0, <1>4, <1>5, <1>6 DEF IInv, server

LEMMA ResultStep ==
  ASSUME IInv, NEW t \in Threads, Result(t)
  PROVE  IInv'
  <1>0. /\ TypeOK /\ LateBooks /\ reads <= sent /\ at[t] = "result"
        /\ UNCHANGED <<class, writing_closed_, init_md_received_, dropped>>
        /\ UNCHANGED <<status, had, server, late, writes>>
        /\ UNCHANGED <<reads, told_ok, overlapped, crashed>>
        /\ Go(t, "idle") /\ got' = IF status = OK THEN got + 1 ELSE got
    BY DEF IInv, Result, object
  <1>1. "idle" \in Labels \ StartLabels
    BY LabelFacts DEF StartLabels
  <1>2. /\ at' \in [Threads -> Labels] /\ at'[t] = "idle"
        /\ \A u \in Threads \ {t} : at'[u] = at[u]
    BY <1>0, <1>1, GoFacts
  <1>3. TypeOK'
    BY <1>0, <1>2 DEF TypeOK, server
  <1>4. LateBooks'
    BY <1>0, <1>1, <1>2, LateKeep
  <1>5. ASSUME ~overlapped'
        PROVE  Alone'
    <2>1. Alone /\ at[t] \in ReadLabels
      BY <1>0, <1>5, LabelFacts DEF IInv
    <2>2. \A u \in Threads : at'[u] \notin ReadLabels
      BY <1>2, <2>1, LabelFacts DEF Alone, OneInside
    <2>3. OneInside' /\ CopiesError'
      BY <2>2, LabelFacts DEF OneInside, CopiesError
    <2>4. Reading /\ ~Reading' /\ \A u \in Threads : at'[u] \notin {"read_start", "reading"}
      BY <1>0, <2>2, LabelFacts DEF Reading
    <2>5. Returned'
      BY <1>0, <2>1, <2>4 DEF Returned, Alone, TypeOK
    <2>6. VerdictBooks'
      BY <1>0, <2>1, <2>4 DEF VerdictBooks, Alone, server
    <2>. QED
      BY <2>3, <2>5, <2>6 DEF Alone
  <1>. QED
    BY <1>0, <1>3, <1>4, <1>5 DEF IInv, server

-----------------------------------------------------------------------------
LEMMA StartStatusStep ==
  ASSUME IInv, NEW t \in Threads, StartStatus(t)
  PROVE  IInv'
  <1>0. /\ TypeOK /\ LateBooks /\ at[t] = "status_start"
        /\ UNCHANGED <<class, writing_closed_, init_md_received_, dropped>>
        /\ UNCHANGED <<server, writes>>
        /\ UNCHANGED <<reads, got, told_ok, overlapped, crashed>>
    BY DEF IInv, StartStatus, object, history
  <1>1. /\ "status_wait" \in WaitLabels /\ "idle" \in Labels \ StartLabels
        /\ "status_start" \in StartLabels
    BY LabelFacts DEF StartLabels
  <1>2. CASE StartBatch(t, "status_wait")
    <2>1. /\ status' = status /\ had' \in SUBSET OnceOps
          /\ at' \in [Threads -> Labels] /\ at'[t] = "status_wait"
          /\ \A u \in Threads \ {t} : at'[u] = at[u]
          /\ late' \in [Threads -> Nat] /\ LateBooks'
      BY <1>0, <1>1, <1>2, StartFacts
    <2>2. TypeOK'
      BY <1>0, <2>1 DEF TypeOK, server
    <2>3. \A u \in Threads : Calm(u)
      BY <1>0, <2>1, LabelFacts DEF Calm
    <2>. QED
      BY <1>0, <2>1, <2>2, <2>3, Keep DEF server
  <1>3. CASE Go(t, "idle") /\ UNCHANGED <<status, had, late>>
    <2>1. at'[t] = "idle" => Calm(t)
      BY <1>0, LabelFacts DEF Calm
    <2>. QED
      BY <1>0, <1>1, <1>3, <2>1, GoKeep DEF TypeOK
  <1>. QED
    BY <1>2, <1>3 DEF StartStatus

\* A verdict: the error of the object, or the answer of grpc.
LEMMA VerdictStep ==
  ASSUME IInv, NEW t \in Threads, CopyStatus(t) \/ StatusReturns(t)
  PROVE  IInv'
  <1>0. /\ TypeOK /\ LateBooks /\ reads <= sent
        /\ at[t] \in {"status_copy", "status_wait"}
        /\ UNCHANGED <<class, writing_closed_, init_md_received_, dropped>>
        /\ UNCHANGED <<status, had, server, late, writes>>
        /\ UNCHANGED <<reads, got, overlapped, crashed>>
        /\ Go(t, "idle")
    BY DEF IInv, CopyStatus, StatusReturns, object
  <1>1. "idle" \in Labels \ StartLabels
    BY LabelFacts DEF StartLabels
  <1>2. /\ at' \in [Threads -> Labels] /\ at'[t] = "idle"
        /\ \A u \in Threads \ {t} : at'[u] = at[u]
    BY <1>0, <1>1, GoFacts
  <1>3. told_ok' \in BOOLEAN
    BY <1>0 DEF CopyStatus, StatusReturns, GetStatus, Returns, TypeOK
  <1>4. TypeOK'
    BY <1>0, <1>2, <1>3 DEF TypeOK, server
  <1>5. LateBooks'
    BY <1>0, <1>1, <1>2, LateKeep
  <1>6. ASSUME ~overlapped'
        PROVE  Alone'
    <2>1. Alone /\ at[t] \in ReadLabels
      BY <1>0, <1>6, LabelFacts DEF IInv
    <2>2. \A u \in Threads \ {t} : at[u] \notin ReadLabels
      BY <2>1 DEF Alone, OneInside
    <2>3. ~Reading /\ ~Reading'
      BY <1>0, <1>2, <2>2, LabelFacts DEF Reading
    <2>4. OneInside' /\ CopiesError'
      BY <1>2, <2>2, LabelFacts DEF OneInside, CopiesError
    <2>5. Returned'
      <3>1. \A u \in Threads : at'[u] \notin {"read_start", "reading"}
        BY <1>2, <2>2, LabelFacts
      <3>. QED
        BY <1>0, <2>1, <2>3, <3>1 DEF Returned, Alone
    <2>6. told_ok' => told_ok \/ (server_status = OK /\ reads = sent)
      <3>1. CASE CopyStatus(t)
        BY <2>1, <3>1 DEF CopyStatus, Returns, Alone, CopiesError
      <3>2. CASE StatusReturns(t)
        BY <3>2 DEF StatusReturns, GetStatus, Returns
      <3>. QED
        BY <3>1, <3>2
    <2>7. VerdictBooks'
      BY <1>0, <2>1, <2>3, <2>6 DEF VerdictBooks, Alone, server
    <2>. QED
      BY <2>4, <2>5, <2>7 DEF Alone
  <1>. QED
    BY <1>0, <1>4, <1>5, <1>6 DEF IInv, server

LEMMA SetErrorStatusStep ==
  ASSUME IInv, NEW t \in Threads, SetErrorStatus(t)
  PROVE  IInv'
  <1>0. /\ TypeOK /\ LateBooks
        /\ UNCHANGED <<class, writing_closed_, init_md_received_, dropped>>
        /\ UNCHANGED <<at, had, server, writes>>
        /\ UNCHANGED <<reads, got, told_ok, overlapped, crashed>>
    BY DEF IInv, SetErrorStatus, object, history
  <1>1. UserError \in Statuses /\ UserError # OK
    BY DEF Statuses, UserError, OK
  <1>2. status' = UserError /\ late' = late
    BY <1>1 DEF SetErrorStatus, SetStatus
  <1>3. TypeOK'
    BY <1>0, <1>1, <1>2 DEF TypeOK, server
  <1>4. LateBooks'
    BY <1>0, <1>1, <1>2 DEF LateBooks
  <1>5. \A u \in Threads : Calm(u)
    BY <1>0 DEF Calm
  <1>. QED
    BY <1>0, <1>1, <1>2, <1>3, <1>4, <1>5, Keep DEF server


\* The server and the network.
LEMMA ServerStep ==
  ASSUME IInv, ServerSends \/ ServerEnds \/ CallBreaks
  PROVE  IInv'
  <1>0. /\ TypeOK /\ LateBooks /\ reads <= sent
        /\ UNCHANGED <<class, writing_closed_, init_md_received_, dropped>>
        /\ UNCHANGED <<status, at, had, late, writes>>
        /\ UNCHANGED <<reads, got, told_ok, overlapped, crashed>>
    BY DEF IInv, ServerSends, ServerEnds, CallBreaks, object, history
  <1>1. LateBooks' /\ Reading' = Reading
    BY <1>0 DEF LateBooks, Reading
  <1>2. /\ sent' \in 0..MaxMsgs /\ reads' <= sent' /\ broken' \in BOOLEAN
        /\ server_status' \in {NoStatus, OK, ServerError}
        /\ server_status # NoStatus => UNCHANGED <<sent, server_status>>
    <2>0. /\ sent \in 0..MaxMsgs /\ reads \in 0..MaxMsgs /\ broken \in BOOLEAN
          /\ server_status \in {NoStatus, OK, ServerError}
      BY <1>0 DEF TypeOK
    <2>1. CASE ServerSends
      BY <1>0, <2>0, <2>1, ReaderWriterAssumption DEF ServerSends
    <2>2. CASE ServerEnds
      BY <1>0, <2>0, <2>2 DEF ServerEnds
    <2>3. CASE CallBreaks
      BY <1>0, <2>0, <2>3 DEF CallBreaks
    <2>. QED
      BY <2>1, <2>2, <2>3
  <1>3. TypeOK'
    BY <1>0, <1>2 DEF TypeOK
  <1>4. ASSUME ~overlapped'
        PROVE  Alone'
    <2>1. Alone
      BY <1>0, <1>4 DEF IInv
    <2>2. OneInside' /\ CopiesError' /\ Returned'
      BY <1>0, <1>1, <2>1 DEF Alone, OneInside, CopiesError, Returned
    <2>3. VerdictBooks'
      BY <1>0, <1>1, <1>2, <2>1 DEF VerdictBooks, Alone, OK, NoStatus
    <2>. QED
      BY <2>1, <2>2, <2>3 DEF Alone
  <1>. QED
    BY <1>1, <1>2, <1>3, <1>4 DEF IInv

LEMMA StutterStep == IInv /\ UNCHANGED vars => IInv'
  BY DEF IInv, TypeOK, LateBooks, Alone, OneInside, CopiesError, Returned, Reading,
         VerdictBooks, vars, object, server, history

LEMMA NextStep == IInv /\ [Next]_vars => IInv'
  <1> SUFFICES ASSUME IInv, [Next]_vars PROVE IInv'
    OBVIOUS
  <1>1. ASSUME NEW t \in Writers, Write(t)
        PROVE  IInv'
    BY <1>1, WriteStep DEF Threads
  <1>2. ASSUME NEW t \in Readers, ReadOne(t) \/ RecvStatus(t)
        PROVE  IInv'
    BY <1>2, EnterStep DEF Threads
  <1>3. ASSUME NEW t \in Threads, CloseWriting(t) \/ SetErrorStatus(t) \/ Destruct(t)
        PROVE  IInv'
    BY <1>3, CloseStep, SetErrorStatusStep, DestructStep
  <1>4. ASSUME NEW t \in Threads, Run(t)
        PROVE  IInv'
    BY <1>4, StartStep, CloseStep, ReadOnStep, AssignStatusStep, ResultStep,
       VerdictStep, StartStatusStep DEF Run
  <1>5. ASSUME NEW t \in Threads, Pluck(t)
        PROVE  IInv'
    BY <1>5, SendReturnsStep, ReadOnStep, ReadReturnsStep, VerdictStep DEF Pluck
  <1>. QED
    BY <1>1, <1>2, <1>3, <1>4, <1>5, ServerStep, StutterStep DEF Next

-----------------------------------------------------------------------------
\* The books of the messages, of the verdicts and of the late batches hold in
\* every state, in whichever order the unlocked steps of the threads come.
THEOREM Invariance == Spec => []IInv
  BY InitIInv, NextStep, PTL DEF Spec

\* RecvStatus() answers OK (client_sync_reader_helper.h and
\* client_sync_reader_writer_impl.h), when one thread at a time reads, only if
\* the server did, every message was read, and with no error since, ReadOne()
\* returned each of them.
THEOREM OkIsEarned == Spec => []OkMeansAllRead
  <1>1. IInv => OkMeansAllRead
    BY DEF IInv, OkMeansAllRead, Alone, VerdictBooks, Returned
  <1>. QED
    BY <1>1, Invariance, PTL

\* A thread starts at most one batch after the status became an error, the one
\* for which it had passed the test before: no call tests once and starts twice.
THEOREM ErrorsBreak == Spec => []ErrorBreaksCalls
  <1>1. IInv => ErrorBreaksCalls
    BY DEF IInv, LateBooks, ErrorBreaksCalls
  <1>. QED
    BY <1>1, Invariance, PTL
=============================================================================
