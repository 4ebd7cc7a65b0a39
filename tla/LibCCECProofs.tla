---------------------------- MODULE LibCCECProofs ----------------------------
(***************************************************************************)
(* For every set of threads, every queue capacity and every bound: the     *)
(* typing of the composed library, the agreement of library, bus and       *)
(* driver whenever no init() or term() is under way, what a term() cannot  *)
(* do to a send, and that the library implements CecLibrary.               *)
(***************************************************************************)
EXTENDS LibCCEC, SequenceTheorems, TLAPS

-----------------------------------------------------------------------------
(* Typing *)

\* Taking from and adding to a bounded queue keeps it a bounded queue.
LEMMA QueueTyped ==
  ASSUME NEW q \in Seq(Nat), NEW cap \in Nat, Len(q) <= cap
  PROVE  /\ \A e \in Nat : Enqueue(q, e, cap) \in Seq(Nat) /\ Len(Enqueue(q, e, cap)) <= cap
         /\ q # <<>> => Head(q) \in Nat /\ Tail(q) \in Seq(Nat) /\ Len(Tail(q)) <= cap
<1>1. ASSUME NEW e \in Nat
      PROVE  Enqueue(q, e, cap) \in Seq(Nat) /\ Len(Enqueue(q, e, cap)) <= cap
  <2>1. Append(q, e) \in Seq(Nat) /\ Len(Append(q, e)) = Len(q) + 1
    BY AppendProperties
  <2>2. Len(q) \in Nat
    BY LenProperties
  <2>3. QED
    BY <2>1, <2>2 DEF Enqueue
<1>2. ASSUME q # <<>>
      PROVE  Head(q) \in Nat /\ Tail(q) \in Seq(Nat) /\ Len(Tail(q)) <= cap
  <2>1. Head(q) \in Nat /\ Tail(q) \in Seq(Nat) /\ Len(Tail(q)) = Len(q) - 1
    BY <1>2, HeadTailProperties
  <2>2. Len(q) \in Nat
    BY LenProperties
  <2>3. QED
    BY <2>1, <2>2
<1>3. QED
  BY <1>1, <1>2

\* A thread that moves to a place of its own program keeps pc typed.
LEMMA PcMoves ==
  ASSUME PcOK, NEW t \in Threads, NEW to,
         t \in Callers => to \in CallerPc,
         t \in Readers => to \in ReaderPc,
         t \in Writers => to \in WriterPc,
         t = Hal => to \in HalPc,
         pc' = [pc EXCEPT ![t] = to]
  PROVE  PcOK'
  BY DEF PcOK, Threads

\* Locking and unlocking keep owner typed.
LEMMA OwnerMoves ==
  ASSUME OwnerOK, NEW t \in Threads
  PROVE  /\ \A m \in Mutexes : Lock(m, t) => OwnerOK'
         /\ \A ms \in SUBSET Mutexes : Unlock(t, ms) => OwnerOK'
         /\ UNCHANGED owner => OwnerOK'
  BY DEF OwnerOK, Lock, Unlock, Free

\* The initial state is typed.
LEMMA InitTyped == Init => TypeOK
<1> SUFFICES ASSUME Init PROVE TypeOK
  OBVIOUS
<1> USE ThreadAssumption DEF Init, DriverInit, BusInit
<1>1. PcOK
  <2>1. PICK r \in Readers, w \in Writers : \E created \in SUBSET {r, w} :
          pc = [t \in Threads |-> IF t \in created THEN "entry"
                                  ELSE IF t \in Readers \cup Writers THEN "none" ELSE "idle"]
    BY DEF BusInit
  <2>2. /\ {"idle"} \subseteq CallerPc /\ {"idle"} \subseteq HalPc
        /\ {"none", "entry"} \subseteq ReaderPc /\ {"none", "entry"} \subseteq WriterPc
    BY DEF CallerPc, ReaderPc, WriterPc, HalPc
  <2>3. PICK created \in SUBSET {r, w} :
          pc = [t \in Threads |-> IF t \in created THEN "entry"
                                  ELSE IF t \in Readers \cup Writers THEN "none" ELSE "idle"]
    BY <2>1
  <2>4. QED
    BY <2>2, <2>3 DEF PcOK, Threads
<1>2. OwnerOK
  BY DEF OwnerOK
<1>3. <<>> \in Seq(Nat) /\ Len(<<>>) = 0
  BY EmptySeq
<1>4. DriverOK
  <2>1. held \in [Readers \cup Writers \cup {Hal} -> Nat]
    BY DEF Null
  <2>2. rQueue \in Seq(Nat) /\ Len(rQueue) <= RCap
    BY <1>3, DriverAssumption
  <2>3. QED
    BY <2>1, <2>2 DEF DriverOK
<1>5. BusOK
  <2>1. retry \in [Callers -> Nat]
    OBVIOUS
  <2>2. wQueue \in Seq(Nat) /\ Len(wQueue) <= WCap
    BY <1>3, BusAssumption
  <2>3. delivered \in Seq(Nat) /\ written \in Seq(Nat)
    BY <1>3
  <2>4. QED
    BY <2>1, <2>2, <2>3 DEF BusOK, StopStates
<1>6. QED
  BY <1>1, <1>2, <1>4, <1>5 DEF TypeOK

\* Reading: the steps of Bus::Reader::run and of DriverImpl::read.
LEMMA ReaderTyped ==
  ASSUME TypeOK, NEW r \in Readers,
         \/ ReaderStep(r)
         \/ (ReadPollNothing(r) \/ FlushPollNothing(r)) /\ UNCHANGED busVars,
         UNCHANGED libVars
  PROVE  TypeOK'
<1> USE ThreadAssumption DEF TypeOK, libVars
<1>1. PcOK'
  <2>1. PICK to \in ReaderPc : pc' = [pc EXCEPT ![r] = to]
    BY DEF ReaderStep, Read, ReadPollNothing, ReaderEntry, ReaderLoop, ReaderNotify,
           ReaderExit, ReadCheck, ReadPoll, ReadBackToPoll, ReadEof, FlushTest, FlushPoll,
           FlushPollNothing, Step, ReaderPc
  <2>2. QED
    BY <2>1, PcMoves DEF Threads
<1>2. OwnerOK'
  <2>1. \/ UNCHANGED owner \/ Lock("drv", r) \/ Unlock(r, {"drv"})
    BY DEF ReaderStep, Read, ReadPollNothing, ReaderEntry, ReaderLoop, ReaderNotify,
           ReaderExit, ReadCheck, ReadPoll, ReadBackToPoll, ReadEof, FlushTest, FlushPoll,
           FlushPollNothing
  <2>2. QED
    BY <2>1, OwnerMoves DEF Threads, Mutexes
<1>3. DriverOK'
  <2>1. rQueue # <<>> => /\ Head(rQueue) \in Nat /\ Tail(rQueue) \in Seq(Nat)
                         /\ Len(Tail(rQueue)) <= RCap
    BY QueueTyped, DriverAssumption DEF DriverOK
  <2>2. \/ UNCHANGED driverVars
        \/ rQueue # <<>> /\ rQueue' = Tail(rQueue) /\ UNCHANGED <<status, nextRx>>
           /\ held' \in {held, [held EXCEPT ![r] = Head(rQueue)]}
           /\ crashed' \in BOOLEAN
        \/ UNCHANGED <<status, rQueue, nextRx>>
           /\ held' \in {held, [held EXCEPT ![r] = Null]}
           /\ crashed' \in BOOLEAN
    BY DEF ReaderStep, Read, ReadPollNothing, ReaderEntry, ReaderLoop, ReaderNotify,
           ReaderExit, ReadCheck, ReadPoll, ReadBackToPoll, ReadEof, FlushTest, FlushPoll,
           FlushPollNothing, DriverOK, driverVars
  <2>3. /\ [held EXCEPT ![r] = Null] \in [Readers \cup Writers \cup {Hal} -> Nat]
        /\ rQueue # <<>> =>
             [held EXCEPT ![r] = Head(rQueue)] \in [Readers \cup Writers \cup {Hal} -> Nat]
    BY <2>1 DEF DriverOK, Null
  <2>4. QED
    BY <2>1, <2>2, <2>3 DEF DriverOK, driverVars
<1>4. BusOK'
  <2>1. \/ UNCHANGED busVars
        \/ /\ rState' \in {rState, RunStarted(rState), "STOPPED"}
           /\ delivered' \in {delivered, Append(delivered, held[r])}
           /\ UNCHANGED <<started, wState, wQueue, nextTx, retry, written, overlapped>>
    BY DEF ReaderStep, ReaderEntry, ReaderLoop, ReaderNotify, ReaderExit
  <2>2. Append(delivered, held[r]) \in Seq(Nat)
    BY AppendProperties DEF BusOK, DriverOK
  <2>3. QED
    BY <2>1, <2>2 DEF BusOK, busVars, StopStates, RunStarted
<1>5. QED
  BY <1>1, <1>2, <1>3, <1>4

\* Writing: the steps of Bus::Writer::run.
LEMMA WriterTyped ==
  ASSUME TypeOK, NEW w \in Writers, WriterStep(w) \/ WriterPollNothing(w) \/ WriterDrainNothing(w),
         UNCHANGED libVars
  PROVE  TypeOK'
<1> USE ThreadAssumption DEF TypeOK, libVars
<1>1. PcOK'
  <2>1. PICK to \in WriterPc : pc' = [pc EXCEPT ![w] = to]
    BY DEF WriterStep, WriterPollNothing, WriterDrainNothing, WriterEntry, WriterPoll, WriterWrite, WriterTest,
           WriterTestAgain, WriterDrainTest, WriterDrain, WriterExit, Step, WriterPc
  <2>2. QED
    BY <2>1, PcMoves DEF Threads
<1>2. OwnerOK'
  BY DEF WriterStep, WriterPollNothing, WriterDrainNothing, WriterEntry, WriterPoll, WriterWrite, WriterTest,
         WriterTestAgain, WriterDrainTest, WriterDrain, WriterExit, OwnerOK
<1>3. wQueue # <<>> => /\ Head(wQueue) \in Nat /\ Tail(wQueue) \in Seq(Nat)
                       /\ Len(Tail(wQueue)) <= WCap
  BY QueueTyped, BusAssumption DEF BusOK
<1>4. DriverOK'
  <2>1. UNCHANGED <<status, rQueue, nextRx, crashed>>
    BY DEF WriterStep, WriterPollNothing, WriterDrainNothing, WriterEntry, WriterPoll, WriterWrite, WriterTest,
           WriterTestAgain, WriterDrainTest, WriterDrain, WriterExit, driverVars
  <2>2. \/ held' = held
        \/ held' = [held EXCEPT ![w] = Null]
        \/ wQueue # <<>> /\ held' = [held EXCEPT ![w] = Head(wQueue)]
    BY DEF WriterStep, WriterPollNothing, WriterDrainNothing, WriterEntry, WriterPoll, WriterWrite, WriterTest,
           WriterTestAgain, WriterDrainTest, WriterDrain, WriterExit, driverVars
  <2>3. held' \in [Readers \cup Writers \cup {Hal} -> Nat]
    <3>1. held \in [Readers \cup Writers \cup {Hal} -> Nat] /\ Null \in Nat
      BY DEF DriverOK, Null
    <3>2. QED
      BY <1>3, <2>2, <3>1
  <2>4. QED
    BY <2>1, <2>3 DEF DriverOK
<1>5. BusOK'
  <2>1. /\ wState' \in {wState, RunStarted(wState), "STOPPED"}
        /\ \/ wQueue' = wQueue
           \/ wQueue # <<>> /\ wQueue' = Tail(wQueue)
        /\ written' \in {written, Append(written, held[w])}
        /\ UNCHANGED <<started, rState, nextTx, retry, delivered, overlapped>>
    BY DEF WriterStep, WriterPollNothing, WriterDrainNothing, WriterEntry, WriterPoll, WriterWrite, WriterTest,
           WriterTestAgain, WriterDrainTest, WriterDrain, WriterExit, busVars
  <2>2. Append(written, held[w]) \in Seq(Nat)
    BY AppendProperties DEF BusOK, DriverOK
  <2>3. QED
    BY <1>3, <2>1, <2>2 DEF BusOK, StopStates, RunStarted
<1>6. QED
  BY <1>1, <1>2, <1>4, <1>5

\* Receiving: the HAL's thread.
LEMMA HalTyped ==
  ASSUME TypeOK, ReceiveCheck \/ ReceiveOffer, UNCHANGED <<busVars, libVars>>
  PROVE  TypeOK'
<1> USE ThreadAssumption DEF TypeOK, libVars, ReceiveCheck, ReceiveOffer
<1>1. PcOK'
  <2>1. PICK to \in HalPc : pc' = [pc EXCEPT ![Hal] = to]
    BY DEF Step, HalPc
  <2>2. QED
    BY <2>1, PcMoves DEF Threads
<1>2. OwnerOK'
  BY DEF OwnerOK
<1>3. DriverOK'
  <2>1. held[Hal] \in Nat
    BY DEF DriverOK
  <2>2. /\ Enqueue(rQueue, held[Hal], RCap) \in Seq(Nat)
        /\ Len(Enqueue(rQueue, held[Hal], RCap)) <= RCap
    BY <2>1, QueueTyped, DriverAssumption DEF DriverOK
  <2>3. held' \in [Readers \cup Writers \cup {Hal} -> Nat]
    BY DEF DriverOK, Null
  <2>4. QED
    BY <2>2, <2>3 DEF DriverOK
<1>4. BusOK'
  BY DEF BusOK, busVars
<1>5. QED
  BY <1>1, <1>2, <1>3, <1>4

\* Sending, synchronously or not.
LEMMA SendTyped ==
  ASSUME TypeOK, NEW c \in Callers, SendAsync(c) \/ SendLockRead(c) \/ ContinueSend(c),
         UNCHANGED libVars
  PROVE  TypeOK'
<1> USE ThreadAssumption DEF TypeOK, libVars, ContinueSend
<1>1. PcOK'
  <2>1. CASE UNCHANGED pc
    BY <2>1 DEF PcOK
  <2>2. CASE pc' # pc
    <3>1. PICK to \in CallerPc : pc' = [pc EXCEPT ![c] = to]
      BY <2>2 DEF SendAsync, SendLockRead, SendLockWrite, SendSucceeds, SendFails, SendRetries,
             Step, Throw, CallerPc
    <3>2. QED
      BY <3>1, PcMoves DEF Threads
  <2>3. QED
    BY <2>1, <2>2
<1>2. OwnerOK'
  <2>1. \/ UNCHANGED owner
        \/ \E m \in Mutexes : Lock(m, c)
        \/ \E ms \in SUBSET Mutexes : Unlock(c, ms)
    BY DEF SendAsync, SendLockRead, SendLockWrite, SendSucceeds, SendFails, SendRetries,
           Throw, Mutexes
  <2>2. QED
    BY <2>1, OwnerMoves DEF Threads
<1>3. DriverOK'
  BY DEF SendAsync, SendLockRead, SendLockWrite, SendSucceeds, SendFails, SendRetries,
         DriverOK, driverVars
<1>4. BusOK'
  <2>1. nextTx \in Nat
    BY DEF BusOK
  <2>2. /\ Enqueue(wQueue, nextTx, WCap) \in Seq(Nat)
        /\ Len(Enqueue(wQueue, nextTx, WCap)) <= WCap
    BY <2>1, QueueTyped, BusAssumption DEF BusOK
  <2>3. /\ UNCHANGED <<started, rState, wState, delivered, written, overlapped>>
        /\ wQueue' \in {wQueue, Enqueue(wQueue, nextTx, WCap)}
        /\ nextTx' \in {nextTx, nextTx + 1}
    BY DEF SendAsync, SendLockRead, SendLockWrite, SendSucceeds, SendFails, SendRetries,
           busVars
  <2>4. retry' \in [Callers -> Nat]
    BY BusAssumption
       DEF SendAsync, SendLockRead, SendLockWrite, SendSucceeds, SendFails, SendRetries,
           busVars, BusOK
  <2>5. QED
    BY <2>2, <2>3, <2>4 DEF BusOK
<1>5. QED
  BY <1>1, <1>2, <1>3, <1>4

\* Bus::start: the caller moves on and may have created a thread.
LEMMA StartTyped ==
  ASSUME TypeOK, NEW c \in Callers, BusStart(c), UNCHANGED libVars
  PROVE  TypeOK'
<1> USE ThreadAssumption DEF TypeOK, libVars, BusStart
<1>1. PcOK'
  <2>1. \E to \in CallerPc :
          \/ pc' = [pc EXCEPT ![c] = to]
          \/ \E n \in Readers \cup Writers : pc' = [pc EXCEPT ![c] = to, ![n] = "entry"]
    BY DEF StartLockRead, StartReader, StartWriter, StartOpen, StartDone, OpenDriver,
           StartThread, Spawn, Step, CallerPc
  <2>2. PICK to \in CallerPc :
          \/ pc' = [pc EXCEPT ![c] = to]
          \/ \E n \in Readers \cup Writers : pc' = [pc EXCEPT ![c] = to, ![n] = "entry"]
    BY <2>1
  <2>3. CASE pc' = [pc EXCEPT ![c] = to]
    BY <2>3, PcMoves DEF Threads
  <2>4. ASSUME NEW n \in Readers \cup Writers, pc' = [pc EXCEPT ![c] = to, ![n] = "entry"]
        PROVE  PcOK'
    BY <2>4 DEF PcOK, Threads, ReaderPc, WriterPc
  <2>5. QED
    BY <2>2, <2>3, <2>4
<1>2. OwnerOK'
  <2>1. \/ UNCHANGED owner
        \/ \E m \in Mutexes : Lock(m, c)
        \/ \E ms \in SUBSET Mutexes : Unlock(c, ms)
    BY DEF StartLockRead, StartReader, StartWriter, StartOpen, StartDone, Mutexes
  <2>2. QED
    BY <2>1, OwnerMoves DEF Threads
<1>3. DriverOK'
  BY DEF StartLockRead, StartReader, StartWriter, StartOpen, StartDone, OpenDriver,
         DriverOK, driverVars
<1>4. BusOK'
  <2>1. /\ started' \in BOOLEAN
        /\ UNCHANGED <<rState, wState, wQueue, nextTx, retry, delivered, written>>
    BY DEF StartLockRead, StartReader, StartWriter, StartOpen, StartDone, busVars, BusOK
  <2>2. overlapped' \subseteq Readers \cup Writers
    BY DEF StartLockRead, StartReader, StartWriter, StartOpen, StartDone, StartThread,
           busVars, BusOK
  <2>3. QED
    BY <2>1, <2>2 DEF BusOK
<1>5. QED
  BY <1>1, <1>2, <1>3, <1>4

\* Bus::stop, but for the calls of Driver::close.
LEMMA StopTyped ==
  ASSUME TypeOK, NEW c \in Callers, BusStop(c), UNCHANGED libVars
  PROVE  TypeOK'
<1> USE ThreadAssumption DEF TypeOK, libVars, BusStop
<1>1. PcOK'
  <2>1. PICK to \in CallerPc : pc' = [pc EXCEPT ![c] = to]
    BY DEF StopLockRead, StopReader, ReaderStopped, StopWriter, StopWriterOffer,
           WriterStopped, StopDone, Step, CallerPc
  <2>2. QED
    BY <2>1, PcMoves DEF Threads
<1>2. OwnerOK'
  <2>1. \/ UNCHANGED owner
        \/ \E m \in Mutexes : Lock(m, c)
        \/ \E ms \in SUBSET Mutexes : Unlock(c, ms)
    BY DEF StopLockRead, StopReader, ReaderStopped, StopWriter, StopWriterOffer,
           WriterStopped, StopDone, Mutexes
  <2>2. QED
    BY <2>1, OwnerMoves DEF Threads
<1>3. DriverOK'
  BY DEF StopLockRead, StopReader, ReaderStopped, StopWriter, StopWriterOffer,
         WriterStopped, StopDone, DriverOK, driverVars
<1>4. BusOK'
  <2>1. /\ Enqueue(wQueue, Null, WCap) \in Seq(Nat)
        /\ Len(Enqueue(wQueue, Null, WCap)) <= WCap
    BY QueueTyped, BusAssumption DEF BusOK, Null
  <2>2. /\ started' \in BOOLEAN
        /\ rState' \in {rState, StopStarted(rState)}
        /\ wState' \in {wState, StopStarted(wState)}
        /\ wQueue' \in {wQueue, Enqueue(wQueue, Null, WCap)}
        /\ UNCHANGED <<nextTx, retry, delivered, written, overlapped>>
    BY DEF StopLockRead, StopReader, ReaderStopped, StopWriter, StopWriterOffer,
           WriterStopped, StopDone, busVars, BusOK
  <2>3. QED
    BY <2>1, <2>2 DEF BusOK, StopStates, StopStarted
<1>5. QED
  BY <1>1, <1>2, <1>3, <1>4

\* init() and term() themselves, and the calls of Driver::close.
LEMMA LibTyped ==
  ASSUME TypeOK, NEW c \in Callers,
         \/ InitBegin(c) \/ InitOpen(c) \/ InitOpenFails(c) \/ InitDone(c)
         \/ TermBegin(c) \/ Close(c) \/ TermDone(c)
  PROVE  TypeOK'
<1> USE ThreadAssumption DEF TypeOK, libVars, Close
<1>1. PcOK'
  <2>1. CASE UNCHANGED pc
    BY <2>1 DEF PcOK
  <2>2. CASE pc' # pc
    <3>1. PICK to \in CallerPc : pc' = [pc EXCEPT ![c] = to]
      BY <2>2 DEF InitBegin, InitOpen, InitOpenFails, InitDone, TermBegin, TermDone,
             OpenDriver, OpenDriverFails, CloseNotOpen, CloseBegin, CloseEnd, CloseFails,
             CloseReturns, CloseSites, Step, Throw, CallerPc
    <3>2. QED
      BY <3>1, PcMoves DEF Threads
  <2>3. QED
    BY <2>1, <2>2
<1>2. OwnerOK'
  <2>1. \/ UNCHANGED owner
        \/ \E m \in Mutexes : Lock(m, c)
        \/ \E ms \in SUBSET Mutexes : Unlock(c, ms)
    BY DEF InitBegin, InitOpen, InitOpenFails, InitDone, TermBegin, TermDone,
           OpenDriverFails, CloseNotOpen, CloseBegin, CloseEnd, CloseFails, Throw, Mutexes
  <2>2. QED
    BY <2>1, OwnerMoves DEF Threads
<1>3. DriverOK'
  <2>1. /\ Enqueue(rQueue, Null, RCap) \in Seq(Nat)
        /\ Len(Enqueue(rQueue, Null, RCap)) <= RCap
    BY QueueTyped, DriverAssumption DEF DriverOK, Null
  <2>2. /\ status' \in {status, "OPENED", "CLOSING", "CLOSED"}
        /\ rQueue' \in {rQueue, Enqueue(rQueue, Null, RCap)}
        /\ UNCHANGED <<held, nextRx, crashed>>
    BY DEF InitBegin, InitOpen, InitOpenFails, InitDone, TermBegin, TermDone, OpenDriver,
           OpenDriverFails, CloseNotOpen, CloseBegin, CloseEnd, CloseFails, driverVars
  <2>3. QED
    BY <2>1, <2>2 DEF DriverOK
<1>4. BusOK'
  <2>1. UNCHANGED busVars
    BY DEF InitBegin, InitOpen, InitOpenFails, InitDone, TermBegin, TermDone
  <2>2. QED
    BY <2>1 DEF BusOK, busVars
<1>5. initialized' \in BOOLEAN /\ inits' \in Nat
  <2>1. UNCHANGED initialized \/ initialized' = TRUE \/ initialized' = FALSE
    BY DEF InitBegin, InitOpen, InitOpenFails, InitDone, TermBegin, TermDone
  <2>2. UNCHANGED inits \/ inits' = inits + 1
    BY DEF InitBegin, InitOpen, InitOpenFails, InitDone, TermBegin, TermDone
  <2>3. initialized' \in BOOLEAN
    BY <2>1, Zenon
  <2>4. inits' \in Nat
    BY <2>2
  <2>5. QED
    BY <2>3, <2>4
<1>6. QED
  BY <1>1, <1>2, <1>3, <1>4, <1>5

\* Every step keeps the variables typed.
LEMMA StepTyped == TypeOK /\ [Next]_vars => TypeOK'
<1> SUFFICES ASSUME TypeOK, [Next]_vars PROVE TypeOK'
  OBVIOUS
<1>1. ASSUME NEW c \in Callers, CallerBegins(c) PROVE TypeOK'
  BY <1>1, LibTyped, SendTyped DEF CallerBegins, BeginSend
<1>2. ASSUME NEW c \in Callers, CallerContinues(c) PROVE TypeOK'
  BY <1>2, LibTyped, StartTyped, StopTyped, SendTyped DEF CallerContinues
<1>3. ASSUME NEW r \in Readers,
             \/ ReaderStep(r) /\ UNCHANGED libVars
             \/ (ReadPollNothing(r) \/ FlushPollNothing(r)) /\ UNCHANGED busVars /\ UNCHANGED libVars
      PROVE  TypeOK'
  BY <1>3, ReaderTyped
<1>4. ASSUME NEW w \in Writers,
             (WriterStep(w) \/ WriterPollNothing(w) \/ WriterDrainNothing(w)) /\ UNCHANGED libVars
      PROVE  TypeOK'
  BY <1>4, WriterTyped
<1>5. ASSUME (ReceiveCheck \/ ReceiveOffer) /\ UNCHANGED <<busVars, libVars>>
      PROVE  TypeOK'
  BY <1>5, HalTyped
<1>6. CASE UNCHANGED vars
  BY <1>6 DEF vars, driverVars, busVars, libVars, TypeOK, PcOK, OwnerOK, DriverOK, BusOK
<1>7. QED
  BY <1>1, <1>2, <1>3, <1>4, <1>5, <1>6 DEF Next, Spontaneous, Progress, HalStep

\* Every variable keeps its type, whatever the threads do, and neither queue
\* ever holds more than its capacity.
THEOREM TypeCorrect == Spec => []TypeOK
  BY InitTyped, StepTyped, PTL DEF Spec

-----------------------------------------------------------------------------
(* Library, bus and driver agree.                                          *)
(*                                                                         *)
(* init() and term() are not atomic: between their steps the three states  *)
(* disagree, and senders and threads run.  What makes them agree again is  *)
(* that the thread inside a call owns the library's mutex (LibHeld), what  *)
(* it has done so far (Phase), that the driver's mutex keeps a close in    *)
(* one piece (Closing), and that a start, a stop or a send owns rMutex     *)
(* (ReadHeld).                                                             *)

Starting == {"start_r", "start_w", "start_writer", "start_open", "start_done"}
Stopping == {"rstop_wait", "wstop", "wstop_offer", "wstop_wait", "stop_close", "stop_done",
             "stopped", "term_done"}
InLib == {"init_open", "started", "stop_r", "stop_w", "rstop_close"}
         \cup Starting \cup Stopping
InBus == {"start_w", "start_writer", "start_open", "start_done", "stop_w", "rstop_close",
          "rstop_wait", "wstop", "wstop_offer", "wstop_wait", "stop_close", "stop_done",
          "send_w", "send_try"}

LibHeld == /\ \A c \in Callers : pc[c] \in InLib <=> owner["lib"] = c
           /\ owner["lib"] \in Callers \cup {NoThread}

ReadHeld == \A c \in Callers : pc[c] \in InBus => owner["read"] = c

Closing == \A c \in Callers :
             owner["drv"] = c => pc[c] = "rstop_close" /\ status = "CLOSING"

Phase == \A c \in Callers :
  /\ pc[c] = "init_open" => ~initialized /\ ~started /\ status # "OPENED"
  /\ pc[c] \in Starting => ~initialized /\ ~started /\ status # "CLOSED"
  /\ pc[c] = "started" => ~initialized /\ started /\ status # "CLOSED"
  /\ pc[c] \in {"stop_r", "stop_w"} =>
       initialized /\ (status = "CLOSING" \/ (started /\ status = "OPENED"))
  /\ pc[c] = "rstop_close" => initialized /\ ~started /\ status # "CLOSED"
  /\ pc[c] \in Stopping => initialized /\ ~started /\ status # "OPENED"

IInv == TypeOK /\ LibHeld /\ ReadHeld /\ Closing /\ Phase /\ LifecycleAgrees

\* The initial state: nobody is inside a call and everything is down.
LEMMA InitAgrees == Init => IInv
<1> SUFFICES ASSUME Init PROVE IInv
  OBVIOUS
<1>1. \A c \in Callers : pc[c] = "idle"
  BY ThreadAssumption DEF Init, BusInit, Threads
<1>2. \A m \in Mutexes : owner[m] = NoThread
  BY DEF Init, BusInit
<1>3. QED
  BY <1>1, <1>2, InitTyped, ThreadAssumption
     DEF IInv, Init, BusInit, DriverInit, LibHeld, ReadHeld, Closing, Phase, LifecycleAgrees,
         InLib, InBus, Starting, Stopping, Mutexes, Threads

\* A step in which no caller moves, the driver is neither opened nor closed
\* and the mutexes keep their owners as far as callers are concerned.
LEMMA QuietStep ==
  ASSUME IInv, TypeOK',
         \A c \in Callers : pc'[c] = pc[c],
         owner'["lib"] = owner["lib"], owner'["read"] = owner["read"],
         \A c \in Callers : owner'["drv"] = c => owner["drv"] = c,
         UNCHANGED <<status, started, initialized>>
  PROVE  IInv'
  BY DEF IInv, LibHeld, ReadHeld, Closing, Phase, LifecycleAgrees, Free

\* The reader, the writer, the HAL and sendAsync are such steps.
LEMMA ReaderQuiet ==
  ASSUME IInv, TypeOK', NEW r \in Readers,
         \/ ReaderStep(r)
         \/ (ReadPollNothing(r) \/ FlushPollNothing(r)) /\ UNCHANGED busVars,
         UNCHANGED libVars
  PROVE  IInv'
<1> USE ThreadAssumption DEF Threads, Mutexes
<1>1. \E to : pc' = [pc EXCEPT ![r] = to]
  BY DEF ReaderStep, Read, ReadPollNothing, ReaderEntry, ReaderLoop, ReaderNotify,
         ReaderExit, ReadCheck, ReadPoll, ReadBackToPoll, ReadEof, FlushTest, FlushPoll,
         FlushPollNothing, Step
<1>2. UNCHANGED owner \/ Lock("drv", r) \/ Unlock(r, {"drv"})
  BY DEF ReaderStep, Read, ReadPollNothing, ReaderEntry, ReaderLoop, ReaderNotify,
         ReaderExit, ReadCheck, ReadPoll, ReadBackToPoll, ReadEof, FlushTest, FlushPoll,
         FlushPollNothing
<1>3. UNCHANGED <<status, started, initialized>>
  BY DEF ReaderStep, Read, ReadPollNothing, ReaderEntry, ReaderLoop, ReaderNotify,
         ReaderExit, ReadCheck, ReadPoll, ReadBackToPoll, ReadEof, FlushTest, FlushPoll,
         FlushPollNothing, driverVars, busVars, libVars
<1>4. \A c \in Callers : pc'[c] = pc[c]
  BY <1>1 DEF IInv, TypeOK, PcOK
<1>5. /\ owner'["lib"] = owner["lib"] /\ owner'["read"] = owner["read"]
      /\ \A c \in Callers : owner'["drv"] = c => owner["drv"] = c
  BY <1>2 DEF IInv, TypeOK, OwnerOK, Lock, Unlock, Free
<1>6. QED
  BY <1>3, <1>4, <1>5, QuietStep

LEMMA WriterQuiet ==
  ASSUME IInv, TypeOK', NEW w \in Writers, WriterStep(w) \/ WriterPollNothing(w) \/ WriterDrainNothing(w),
         UNCHANGED libVars
  PROVE  IInv'
<1>1. \E to : pc' = [pc EXCEPT ![w] = to]
  BY DEF WriterStep, WriterPollNothing, WriterDrainNothing, WriterEntry, WriterPoll, WriterWrite, WriterTest,
         WriterTestAgain, WriterDrainTest, WriterDrain, WriterExit, Step
<1>2. UNCHANGED <<owner, status, started, initialized>>
  BY DEF WriterStep, WriterPollNothing, WriterDrainNothing, WriterEntry, WriterPoll, WriterWrite, WriterTest,
         WriterTestAgain, WriterDrainTest, WriterDrain, WriterExit, driverVars, busVars, libVars
<1>3. \A c \in Callers : pc'[c] = pc[c]
  BY <1>1, ThreadAssumption DEF IInv, TypeOK, PcOK, Threads
<1>4. QED
  BY <1>2, <1>3, QuietStep

LEMMA HalQuiet ==
  ASSUME IInv, TypeOK', ReceiveCheck \/ ReceiveOffer, UNCHANGED <<busVars, libVars>>
  PROVE  IInv'
<1>1. \A c \in Callers : pc'[c] = pc[c]
  BY ThreadAssumption DEF ReceiveCheck, ReceiveOffer, Step, IInv, TypeOK, PcOK, Threads
<1>2. UNCHANGED <<owner, status, started, initialized>>
  BY DEF ReceiveCheck, ReceiveOffer, busVars, libVars
<1>3. QED
  BY <1>1, <1>2, QuietStep

\* A send takes and gives back rMutex and moves only between places outside
\* init() and term().
LEMMA SendKeeps ==
  ASSUME IInv, TypeOK', NEW c \in Callers,
         SendAsync(c) \/ SendLockRead(c) \/ ContinueSend(c), UNCHANGED libVars
  PROVE  IInv'
<1> USE ThreadAssumption DEF Threads, Mutexes
<1>1. CASE SendAsync(c) \/ SendRetries(c)
  BY <1>1, QuietStep DEF SendAsync, SendRetries, driverVars, libVars
<1>2. CASE SendLockRead(c) \/ SendLockWrite(c)
  <2>1. /\ pc[c] \in {"idle", "send_w"}
        /\ pc' = [pc EXCEPT ![c] = IF pc[c] = "idle" THEN "send_w" ELSE "send_try"]
        /\ Lock(IF pc[c] = "idle" THEN "read" ELSE "write", c)
        /\ UNCHANGED <<status, started, initialized>>
    BY <1>2 DEF SendLockRead, SendLockWrite, Step, driverVars, busVars, libVars
  <2>2. QED
    BY <2>1 DEF IInv, TypeOK, PcOK, OwnerOK, LibHeld, ReadHeld, Closing, Phase,
                LifecycleAgrees, InLib, InBus, Starting, Stopping, Lock, Free
<1>3. CASE SendSucceeds(c) \/ SendFails(c)
  <2>1. /\ pc[c] = "send_try" /\ pc' = [pc EXCEPT ![c] = "idle"]
        /\ Unlock(c, {"read", "write"}) \/ Unlock(c, Mutexes)
        /\ UNCHANGED <<status, started, initialized>>
    BY <1>3 DEF SendSucceeds, SendFails, AttemptFails, Throw, Step, driverVars, busVars, libVars
  <2>2. QED
    BY <2>1 DEF IInv, TypeOK, PcOK, OwnerOK, LibHeld, ReadHeld, Closing, Phase,
                LifecycleAgrees, InLib, InBus, Starting, Stopping, Unlock, Free
<1>4. QED
  BY <1>1, <1>2, <1>3 DEF ContinueSend

\* A step of the thread that owns the library's mutex: what it has to show is
\* about its own place, for no other caller is inside init() or term().
LEMMA HolderStep ==
  ASSUME IInv, TypeOK', NEW c \in Callers, pc[c] \in InLib,
         NEW to \in InLib, pc'[c] = to,
         \A d \in Callers \ {c} : pc'[d] = pc[d],
         owner'["lib"] = owner["lib"],
         to \in InBus => owner'["read"] = c,
         \A d \in Callers \ {c} : owner["read"] = d => owner'["read"] = d,
         owner'["drv"] = c => to = "rstop_close" /\ status' = "CLOSING",
         \A d \in Callers \ {c} : owner'["drv"] # d,
         to = "init_open" => ~initialized' /\ ~started' /\ status' # "OPENED",
         to \in Starting => ~initialized' /\ ~started' /\ status' # "CLOSED",
         to = "started" => ~initialized' /\ started' /\ status' # "CLOSED",
         to \in {"stop_r", "stop_w"} =>
           initialized' /\ (status' = "CLOSING" \/ (started' /\ status' = "OPENED")),
         to = "rstop_close" => initialized' /\ ~started' /\ status' # "CLOSED",
         to \in Stopping => initialized' /\ ~started' /\ status' # "OPENED"
  PROVE  IInv'
<1>1. owner["lib"] = c /\ \A d \in Callers \ {c} : pc[d] \notin InLib
  BY DEF IInv, LibHeld
<1>2. LibHeld'
  BY <1>1 DEF IInv, LibHeld
<1>3. ReadHeld'
  BY DEF IInv, ReadHeld
<1>4. Closing'
  BY DEF IInv, Closing
<1>5. Phase'
  <2>1. \A d \in Callers \ {c} : pc'[d] \notin InLib
    BY <1>1
  <2>2. QED
    BY <2>1 DEF Phase, InLib
<1>6. LifecycleAgrees'
  BY <1>1, ThreadAssumption DEF LifecycleAgrees, Free, Threads
<1>7. QED
  BY <1>2, <1>3, <1>4, <1>5, <1>6 DEF IInv

\* Bus::start: the thread it may create is not a caller.
LEMMA StartKeeps ==
  ASSUME IInv, TypeOK', NEW c \in Callers, BusStart(c), UNCHANGED libVars
  PROVE  IInv'
<1> USE ThreadAssumption DEF Threads, Mutexes, libVars
<1>1. PICK to \in Starting \cup {"started"} :
        \/ pc' = [pc EXCEPT ![c] = to]
        \/ \E n \in Readers \cup Writers : pc' = [pc EXCEPT ![c] = to, ![n] = "entry"]
  BY DEF BusStart, StartLockRead, StartReader, StartWriter, StartOpen, StartDone, OpenDriver,
         StartThread, Spawn, Step, Starting
<1>2. /\ pc[c] \in Starting /\ pc'[c] = to
      /\ \A d \in Callers \ {c} : pc'[d] = pc[d]
  <2>1. pc[c] \in Starting
    BY DEF BusStart, StartLockRead, StartReader, StartWriter, StartOpen, StartDone, OpenDriver,
           StartThread, Spawn, Step, Starting
  <2>2. QED
    BY <1>1, <2>1 DEF IInv, TypeOK, PcOK
<1>3. ~initialized /\ ~started /\ status # "CLOSED" /\ owner["lib"] = c
  BY <1>2 DEF IInv, Phase, LibHeld, InLib
<1>4. /\ status' = status /\ UNCHANGED initialized
      /\ to = "started" => started' = TRUE
      /\ to # "started" => UNCHANGED started
      /\ \/ to = "start_w" /\ Lock("read", c)
         \/ to = "start_writer" /\ Lock("write", c) /\ owner["read"] = c
         \/ to \in {"start_open", "start_done"} /\ UNCHANGED owner /\ owner["read"] = c
         \/ to = "started" /\ Unlock(c, {"read", "write"})
  <2>0. \A x : [pc EXCEPT ![c] = x][c] = x
    BY DEF IInv, TypeOK, PcOK
  <2> USE <2>0, <1>1, <1>2, <1>3 DEF driverVars, busVars, Step
  <2>1. pc[c] # "start_r" => owner["read"] = c
    BY DEF IInv, ReadHeld, InBus, Starting
  <2>2. CASE StartLockRead(c)
    BY <2>2 DEF StartLockRead
  <2>3. CASE StartReader(c)
    <3>1. pc[c] = "start_w" /\ pc'[c] = "start_writer"
      BY <2>3 DEF StartReader, StartThread, Spawn, IInv, TypeOK, PcOK
    <3>2. QED
      BY <2>1, <2>3, <3>1 DEF StartReader
  <2>4. CASE StartWriter(c)
    <3>1. pc[c] = "start_writer" /\ pc'[c] = "start_open"
      BY <2>4 DEF StartWriter, StartThread, Spawn, IInv, TypeOK, PcOK
    <3>2. QED
      BY <2>1, <2>4, <3>1 DEF StartWriter
  <2>5. CASE StartOpen(c)
    BY <2>1, <2>5 DEF StartOpen, OpenDriver
  <2>6. CASE StartDone(c)
    BY <2>6 DEF StartDone
  <2>7. QED
    BY <2>2, <2>3, <2>4, <2>5, <2>6 DEF BusStart
<1>5. to = "started" \/ ~started'
  BY <1>3, <1>4
<1>6. /\ owner'["lib"] = owner["lib"] /\ owner'["drv"] = owner["drv"]
      /\ to \in InBus => owner'["read"] = c
      /\ \A d \in Callers \ {c} : owner["read"] = d => owner'["read"] = d
  BY <1>4 DEF Lock, Unlock, Free, IInv, TypeOK, OwnerOK, InBus
<1>7. \A d \in Callers : owner'["drv"] # d
  BY <1>2, <1>3, <1>6 DEF IInv, Closing, LibHeld, InLib, Starting
<1>8. QED
  BY <1>1, <1>2, <1>3, <1>4, <1>5, <1>6, <1>7, HolderStep DEF InLib, Starting, Stopping

\* Bus::stop, but for the calls of Driver::close.
LEMMA StopKeeps ==
  ASSUME IInv, TypeOK', NEW c \in Callers, BusStop(c), UNCHANGED libVars
  PROVE  IInv'
<1> USE ThreadAssumption DEF Threads, Mutexes, libVars
<1>1. PICK from, to : pc[c] = from /\ pc' = [pc EXCEPT ![c] = to]
  BY DEF BusStop, StopLockRead, StopReader, ReaderStopped, StopWriter, StopWriterOffer,
         WriterStopped, StopDone, Step
<1>2. pc'[c] = to /\ \A d \in Callers \ {c} : pc'[d] = pc[d]
  BY <1>1 DEF IInv, TypeOK, PcOK
<1>3. \/ /\ from = "stop_r" /\ to = "stop_w" /\ Lock("read", c) /\ UNCHANGED started
      \/ /\ from = "stop_w" /\ to = "rstop_close" /\ Lock("write", c) /\ ~started'
      \/ /\ from \in Stopping /\ to \in Stopping \ {"stopped", "term_done"}
         /\ from \in InBus /\ UNCHANGED <<owner, started>>
      \/ /\ from \in Stopping /\ to = "stopped" /\ Unlock(c, {"read", "write"})
         /\ UNCHANGED started
  <2>0. \A x : [pc EXCEPT ![c] = x][c] = x
    BY DEF IInv, TypeOK, PcOK
  <2> USE <2>0, <1>1, <1>2 DEF Step, Stopping, InBus, busVars
  <2>1. CASE StopLockRead(c)
    BY <2>1 DEF StopLockRead
  <2>2. CASE StopReader(c)
    BY <2>2 DEF StopReader
  <2>3. CASE ReaderStopped(c)
    BY <2>3 DEF ReaderStopped
  <2>4. CASE StopWriter(c)
    <3>1. from = "wstop" /\ to \in {"wstop_offer", "wstop_wait"}
      BY <2>4 DEF StopWriter
    <3>2. QED
      BY <2>4, <3>1 DEF StopWriter
  <2>5. CASE StopWriterOffer(c)
    BY <2>5 DEF StopWriterOffer
  <2>6. CASE WriterStopped(c)
    BY <2>6 DEF WriterStopped
  <2>7. CASE StopDone(c)
    BY <2>7 DEF StopDone
  <2>8. QED
    BY <2>1, <2>2, <2>3, <2>4, <2>5, <2>6, <2>7 DEF BusStop
<1>4. UNCHANGED <<status, initialized>>
  BY DEF BusStop, StopLockRead, StopReader, ReaderStopped, StopWriter, StopWriterOffer,
         WriterStopped, StopDone, driverVars
<1>5. pc[c] \in InLib /\ to \in InLib /\ owner["lib"] = c
  BY <1>1, <1>3 DEF InLib, Stopping, IInv, LibHeld
<1>6. /\ owner'["lib"] = owner["lib"] /\ owner'["drv"] = owner["drv"]
      /\ to \in InBus => owner'["read"] = c
      /\ \A d \in Callers \ {c} : owner["read"] = d => owner'["read"] = d
  BY <1>1, <1>3 DEF Lock, Unlock, Free, IInv, TypeOK, OwnerOK, ReadHeld, InBus, Stopping
<1>7. \A d \in Callers : owner'["drv"] # d
  BY <1>1, <1>3, <1>5, <1>6 DEF IInv, Closing, LibHeld, InLib, Stopping
<1>8. /\ to = "stop_w" => initialized /\ (status = "CLOSING" \/ (started' /\ status = "OPENED"))
      /\ to = "rstop_close" => initialized /\ ~started' /\ status # "CLOSED"
      /\ to \in Stopping => initialized /\ ~started' /\ status # "OPENED"
      /\ to \in {"stop_w", "rstop_close"} \cup Stopping
  BY <1>1, <1>3 DEF IInv, Phase, Stopping
<1>9. QED
  BY <1>2, <1>4, <1>5, <1>6, <1>7, <1>8, HolderStep DEF InLib, Starting, Stopping

\* A thread that enters init() or term(): nobody else is inside one.
LEMMA EnterKeeps ==
  ASSUME IInv, TypeOK', NEW c \in Callers, InitBegin(c) \/ TermBegin(c)
  PROVE  IInv'
<1> USE ThreadAssumption DEF Threads, Mutexes
<1>1. PICK to \in {"init_open", "stop_r"} :
        /\ pc[c] = "idle" /\ pc' = [pc EXCEPT ![c] = to] /\ Lock("lib", c)
        /\ to = "init_open" => ~initialized
        /\ to = "stop_r" => initialized
        /\ UNCHANGED <<status, started, initialized>>
  BY DEF InitBegin, TermBegin, Step, driverVars, busVars, libVars
<1>2. pc'[c] = to /\ \A d \in Callers \ {c} : pc'[d] = pc[d]
  BY <1>1 DEF IInv, TypeOK, PcOK
<1>3. /\ owner["lib"] = NoThread /\ owner'["lib"] = c
      /\ owner'["read"] = owner["read"] /\ owner'["drv"] = owner["drv"]
  BY <1>1 DEF Lock, Free, IInv, TypeOK, OwnerOK
<1>4. \A d \in Callers : pc[d] \notin InLib
  BY <1>3 DEF IInv, LibHeld
<1>5. LibHeld'
  BY <1>2, <1>3, <1>4 DEF LibHeld, InLib
<1>6. ReadHeld' /\ Closing'
  BY <1>1, <1>2, <1>3, <1>4 DEF IInv, ReadHeld, Closing, InBus, InLib
<1>7. \A d \in Callers \ {c} : pc'[d] \notin InLib
  BY <1>2, <1>4
<1>8. /\ to = "init_open" => ~initialized' /\ ~started' /\ status' # "OPENED"
      /\ to = "stop_r" =>
           initialized' /\ (status' = "CLOSING" \/ (started' /\ status' = "OPENED"))
  BY <1>1, <1>3 DEF IInv, LifecycleAgrees, Free
<1>9. Phase'
  BY <1>2, <1>7, <1>8 DEF Phase, InLib, Starting, Stopping
<1>10. LifecycleAgrees'
  BY <1>3 DEF LifecycleAgrees, Free
<1>11. QED
  BY <1>5, <1>6, <1>9, <1>10 DEF IInv

\* A thread that leaves init() or term(), returning or by an exception, with
\* the three states in agreement.
LEMMA LeaveStep ==
  ASSUME IInv, TypeOK', NEW c \in Callers, pc[c] \in InLib,
         pc' = [pc EXCEPT ![c] = "idle"],
         Unlock(c, {"lib"}) \/ Unlock(c, Mutexes),
         \/ initialized' /\ started' /\ status' = "OPENED"
         \/ ~initialized' /\ ~started' /\ status' = "CLOSED"
         \/ (started' => initialized') /\ status' = "CLOSING",
         owner["drv"] = c => owner'["drv"] = NoThread
  PROVE  IInv'
<1> USE ThreadAssumption DEF Threads, Mutexes
<1>1. pc'[c] = "idle" /\ \A d \in Callers \ {c} : pc'[d] = pc[d]
  BY DEF IInv, TypeOK, PcOK
<1>2. owner["lib"] = c /\ \A d \in Callers \ {c} : pc[d] \notin InLib
  BY DEF IInv, LibHeld
<1>3. /\ owner'["lib"] = NoThread
      /\ \A d \in Callers \ {c} : owner["read"] = d => owner'["read"] = d
      /\ \A d \in Callers \ {c} : owner'["drv"] = d => owner["drv"] = d
      /\ owner'["drv"] # c
  BY <1>2 DEF Unlock, IInv, TypeOK, OwnerOK
<1>4. LibHeld'
  BY <1>1, <1>2, <1>3 DEF LibHeld, InLib, Starting, Stopping
<1>5. ReadHeld'
  BY <1>1, <1>3 DEF IInv, ReadHeld, InBus
<1>6. Closing'
  BY <1>1, <1>2, <1>3 DEF IInv, Closing, InLib
<1>7. Phase'
  <2>1. \A d \in Callers : pc'[d] \notin InLib
    BY <1>1, <1>2 DEF InLib, Starting, Stopping
  <2>2. QED
    BY <2>1 DEF Phase, InLib
<1>8. LifecycleAgrees'
  BY DEF LifecycleAgrees
<1>9. QED
  BY <1>4, <1>5, <1>6, <1>7, <1>8 DEF IInv

\* The rest of init() and term().
LEMMA LibKeeps ==
  ASSUME IInv, TypeOK', NEW c \in Callers,
         InitOpen(c) \/ InitOpenFails(c) \/ InitDone(c) \/ Close(c) \/ TermDone(c)
  PROVE  IInv'
<1> USE ThreadAssumption DEF Threads, Mutexes
<1>1. CASE InitOpen(c)
  <2>1. /\ pc[c] = "init_open" /\ pc' = [pc EXCEPT ![c] = "start_r"]
        /\ UNCHANGED <<owner, started, initialized>> /\ Free("drv")
        /\ status' = IF status = "CLOSED" THEN "OPENED" ELSE status
    BY <1>1 DEF InitOpen, OpenDriver, Step, busVars, libVars
  <2>2. pc'[c] = "start_r" /\ \A d \in Callers \ {c} : pc'[d] = pc[d]
    BY <2>1 DEF IInv, TypeOK, PcOK
  <2>3. ~initialized' /\ ~started' /\ status' # "CLOSED"
    BY <2>1 DEF IInv, Phase
  <2>4. \A d \in Callers : owner'["drv"] # d
    BY <2>1 DEF Free
  <2>5. QED
    BY <2>1, <2>2, <2>3, <2>4, HolderStep DEF InLib, InBus, Starting, Stopping
<1>2. CASE InitOpenFails(c)
  <2>1. /\ pc[c] \in {"init_open", "start_open"} /\ pc' = [pc EXCEPT ![c] = "idle"]
        /\ Unlock(c, Mutexes) /\ Free("drv")
        /\ UNCHANGED <<status, started, initialized>>
    BY <1>2 DEF InitOpenFails, OpenDriverFails, Throw, driverVars, busVars, libVars
  <2>2. ~initialized' /\ ~started' /\ status' = "CLOSED"
    BY <1>2, <2>1 DEF InitOpenFails, OpenDriverFails, IInv, Phase, Starting
  <2>3. QED
    BY <2>1, <2>2, LeaveStep DEF Free, InLib, Starting
<1>3. CASE InitDone(c)
  <2>1. /\ pc[c] = "started" /\ pc' = [pc EXCEPT ![c] = "idle"] /\ Unlock(c, {"lib"})
        /\ UNCHANGED <<status, started>> /\ initialized' = TRUE
    BY <1>3 DEF InitDone, Step, driverVars, busVars
  <2>2. started' /\ status' \in {"OPENED", "CLOSING"} /\ owner["drv"] # c
    BY <2>1 DEF IInv, Phase, Closing, TypeOK, DriverOK
  <2>3. QED
    BY <2>1, <2>2, LeaveStep DEF InLib
<1>4. CASE TermDone(c)
  <2>1. /\ pc[c] = "term_done" /\ pc' = [pc EXCEPT ![c] = "idle"] /\ Unlock(c, {"lib"})
        /\ UNCHANGED <<status, started>> /\ initialized' = FALSE
    BY <1>4 DEF TermDone, Step, driverVars, busVars
  <2>2. ~started' /\ status' \in {"CLOSED", "CLOSING"} /\ owner["drv"] # c
    BY <2>1 DEF IInv, Phase, Stopping, Closing, TypeOK, DriverOK
  <2>3. QED
    BY <2>1, <2>2, LeaveStep DEF InLib, Stopping
<1>5. CASE CloseNotOpen(c, CloseSites) /\ UNCHANGED <<busVars, libVars>>
  <2>1. PICK to \in {"rstop_wait", "stop_done", "term_done"} :
          /\ pc[c] \in {"rstop_close", "stop_close", "stopped"}
          /\ pc' = [pc EXCEPT ![c] = to]
          /\ to = "stop_done" => pc[c] = "stop_close"
          /\ to = "rstop_wait" => pc[c] = "rstop_close"
    <3>1. pc[c] \in DOMAIN CloseSites /\ pc' = [pc EXCEPT ![c] = CloseSites[pc[c]]]
      BY <1>5 DEF CloseNotOpen, CloseReturns
    <3>2. pc[c] \in {"rstop_close", "stop_close", "stopped"}
      BY <3>1 DEF CloseSites
    <3>3. /\ CloseSites["rstop_close"] = "rstop_wait"
          /\ CloseSites["stop_close"] = "stop_done"
          /\ CloseSites["stopped"] = "term_done"
      BY DEF CloseSites
    <3>4. QED
      BY <3>1, <3>2, <3>3
  <2>2. /\ status # "OPENED" /\ Free("drv")
        /\ UNCHANGED <<owner, status, started, initialized>>
    BY <1>5 DEF CloseNotOpen, driverVars, busVars, libVars
  <2>3. pc'[c] = to /\ \A d \in Callers \ {c} : pc'[d] = pc[d]
    BY <2>1 DEF IInv, TypeOK, PcOK
  <2>4. initialized /\ ~started
    BY <2>1 DEF IInv, Phase, Stopping
  <2>5. /\ \A d \in Callers : owner'["drv"] # d
        /\ to \in InBus => owner'["read"] = c
    BY <2>1, <2>2 DEF Free, IInv, ReadHeld, InBus
  <2>6. QED
    BY <2>1, <2>2, <2>3, <2>4, <2>5, HolderStep DEF InLib, Starting, Stopping
<1>6. CASE CloseBegin(c, CloseSites) /\ UNCHANGED <<busVars, libVars>>
  <2>1. /\ pc[c] \in {"rstop_close", "stop_close", "stopped"} /\ UNCHANGED pc
        /\ Lock("drv", c) /\ status = "OPENED" /\ status' = "CLOSING"
        /\ UNCHANGED <<started, initialized>>
    BY <1>6 DEF CloseBegin, CloseSites, busVars, libVars
  <2>2. pc[c] = "rstop_close" /\ initialized /\ ~started
    BY <2>1 DEF IInv, Phase, Stopping
  <2>3. /\ owner'["lib"] = owner["lib"] /\ owner'["read"] = owner["read"]
        /\ owner'["drv"] = c
    BY <2>1 DEF Lock, Free, IInv, TypeOK, OwnerOK
  <2>4. owner["read"] = c
    BY <2>2 DEF IInv, ReadHeld, InBus
  <2>5. QED
    BY <2>1, <2>2, <2>3, <2>4, HolderStep DEF InLib, Starting, Stopping
<1>7. CASE CloseEnd(c, CloseSites) /\ UNCHANGED <<busVars, libVars>>
  <2>1. owner["drv"] = c /\ pc[c] = "rstop_close"
    BY <1>7 DEF CloseEnd, IInv, Closing
  <2>2. /\ pc' = [pc EXCEPT ![c] = "rstop_wait"] /\ Unlock(c, {"drv"}) /\ status' = "CLOSED"
        /\ UNCHANGED <<started, initialized>>
    BY <1>7, <2>1 DEF CloseEnd, CloseReturns, CloseSites, busVars, libVars
  <2>3. initialized /\ ~started /\ owner["read"] = c
    BY <2>1 DEF IInv, Phase, ReadHeld, InBus
  <2>4. /\ owner'["lib"] = owner["lib"] /\ owner'["read"] = owner["read"]
        /\ \A d \in Callers : owner'["drv"] # d
    BY <2>1, <2>2 DEF Unlock, IInv, TypeOK, OwnerOK
  <2>5. pc'[c] = "rstop_wait" /\ \A d \in Callers \ {c} : pc'[d] = pc[d]
    BY <2>2 DEF IInv, TypeOK, PcOK
  <2>6. QED
    BY <2>1, <2>2, <2>3, <2>4, <2>5, HolderStep DEF InLib, Starting, Stopping
<1>8. CASE CloseFails(c, CloseSites) /\ UNCHANGED <<busVars, libVars>>
  <2>1. /\ owner["drv"] = c /\ pc' = [pc EXCEPT ![c] = "idle"] /\ Unlock(c, Mutexes)
        /\ UNCHANGED <<status, started, initialized>>
    BY <1>8 DEF CloseFails, Throw, driverVars, busVars, libVars
  <2>2. pc[c] = "rstop_close" /\ status = "CLOSING" /\ ~started
    BY <2>1 DEF IInv, Closing, Phase
  <2>3. owner'["drv"] = NoThread
    BY <2>1 DEF Unlock
  <2>4. QED
    BY <2>1, <2>2, <2>3, LeaveStep DEF InLib
<1>9. QED
  BY <1>1, <1>2, <1>3, <1>4, <1>5, <1>6, <1>7, <1>8 DEF Close

\* Every step preserves the inductive invariant.
LEMMA StepAgrees == IInv /\ [Next]_vars => IInv'
<1> SUFFICES ASSUME IInv, [Next]_vars PROVE IInv'
  OBVIOUS
<1>1. TypeOK'
  BY StepTyped DEF IInv
<1>2. ASSUME NEW c \in Callers, CallerBegins(c) PROVE IInv'
  BY <1>1, <1>2, EnterKeeps, SendKeeps DEF CallerBegins, BeginSend
<1>3. ASSUME NEW c \in Callers, CallerContinues(c) PROVE IInv'
  BY <1>1, <1>3, LibKeeps, StartKeeps, StopKeeps, SendKeeps DEF CallerContinues
<1>4. ASSUME NEW r \in Readers,
             \/ ReaderStep(r) /\ UNCHANGED libVars
             \/ (ReadPollNothing(r) \/ FlushPollNothing(r)) /\ UNCHANGED busVars /\ UNCHANGED libVars
      PROVE  IInv'
  BY <1>1, <1>4, ReaderQuiet
<1>5. ASSUME NEW w \in Writers,
             (WriterStep(w) \/ WriterPollNothing(w) \/ WriterDrainNothing(w)) /\ UNCHANGED libVars
      PROVE  IInv'
  BY <1>1, <1>5, WriterQuiet
<1>6. ASSUME (ReceiveCheck \/ ReceiveOffer) /\ UNCHANGED <<busVars, libVars>>
      PROVE  IInv'
  BY <1>1, <1>6, HalQuiet
<1>7. CASE UNCHANGED vars
  BY <1>1, <1>7, QuietStep DEF vars, driverVars, busVars, libVars
<1>8. QED
  BY <1>2, <1>3, <1>4, <1>5, <1>6, <1>7 DEF Next, Spontaneous, Progress, HalStep

\* The inductive invariant holds in every reachable state.
LEMMA Invariance == Spec => []IInv
  BY InitAgrees, StepAgrees, PTL DEF Spec

\* Whenever no init() or term() is under way the library, the bus and the
\* driver are all up or all down, or a failed HdmiCecClose has left the
\* driver CLOSING: LibCCEC::initialized, Bus::started and DriverImpl::status
\* never drift apart.
THEOREM Lifecycle == Spec => []LifecycleAgrees
  BY Invariance, PTL DEF IInv

-----------------------------------------------------------------------------
(* A synchronous send and term() on another thread. *)

\* The steps that change started or close the driver are those of a thread
\* that owns rMutex and is not sending.
LEMMA WhoDisturbs ==
  ASSUME IInv, Next, ~(UNCHANGED started /\ (status = "OPENED" => status' = "OPENED"))
  PROVE  \E d \in Callers : owner["read"] = d /\ pc[d] # "send_try"
<1>1. ASSUME NEW d \in Callers,
             SendAsync(d) \/ SendLockRead(d) \/ ContinueSend(d) \/ InitBegin(d)
             \/ TermBegin(d) \/ InitOpen(d) \/ InitOpenFails(d) \/ InitDone(d) \/ TermDone(d)
      PROVE  FALSE
  BY <1>1 DEF SendAsync, SendLockRead, ContinueSend, SendLockWrite, SendSucceeds, SendFails,
              SendRetries, InitBegin, TermBegin, InitOpen, OpenDriver, InitOpenFails,
              OpenDriverFails, InitDone, TermDone, driverVars, busVars
<1>2. ASSUME NEW d \in Callers, BusStart(d)
      PROVE  owner["read"] = d /\ pc[d] # "send_try"
  <2>1. StartDone(d)
    BY <1>2 DEF BusStart, StartLockRead, StartReader, StartWriter, StartOpen, OpenDriver,
                driverVars, busVars
  <2>2. QED
    BY <2>1 DEF StartDone, Step, IInv, ReadHeld, InBus
<1>3. ASSUME NEW d \in Callers, BusStop(d)
      PROVE  owner["read"] = d /\ pc[d] # "send_try"
  <2>1. StopReader(d)
    BY <1>3 DEF BusStop, StopLockRead, ReaderStopped, StopWriter, StopWriterOffer,
                WriterStopped, StopDone, driverVars, busVars
  <2>2. QED
    BY <2>1 DEF StopReader, Step, IInv, ReadHeld, InBus
<1>4. ASSUME NEW d \in Callers, Close(d)
      PROVE  owner["read"] = d /\ pc[d] # "send_try"
  <2>1. status = "OPENED" /\ status' # "OPENED"
    BY <1>4 DEF Close, busVars
  <2>2. owner["drv"] # d
    BY <2>1 DEF IInv, Closing
  <2>3. CloseBegin(d, CloseSites)
    BY <1>4, <2>1, <2>2 DEF Close, CloseNotOpen, CloseEnd, CloseFails
  <2>4. pc[d] \in {"rstop_close", "stop_close", "stopped"}
    BY <2>3 DEF CloseBegin, CloseSites
  <2>5. pc[d] = "rstop_close"
    BY <2>1, <2>4 DEF IInv, Phase, Stopping
  <2>6. QED
    BY <2>5 DEF IInv, ReadHeld, InBus
<1>5. ASSUME NEW r \in Readers, ReaderStep(r) \/ ((ReadPollNothing(r) \/ FlushPollNothing(r)) /\ UNCHANGED busVars)
      PROVE  FALSE
  BY <1>5 DEF ReaderStep, Read, ReadPollNothing, ReaderEntry, ReaderLoop, ReaderNotify,
              ReaderExit, ReadCheck, ReadPoll, ReadBackToPoll, ReadEof, FlushTest, FlushPoll,
              FlushPollNothing, driverVars, busVars
<1>6. ASSUME NEW w \in Writers, WriterStep(w) \/ WriterPollNothing(w) \/ WriterDrainNothing(w)
      PROVE  FALSE
  BY <1>6 DEF WriterStep, WriterPollNothing, WriterDrainNothing, WriterEntry, WriterPoll, WriterWrite, WriterTest,
              WriterTestAgain, WriterDrainTest, WriterDrain, WriterExit, driverVars, busVars
<1>7. ASSUME ReceiveCheck \/ ReceiveOffer, UNCHANGED busVars
      PROVE  FALSE
  BY <1>7 DEF ReceiveCheck, ReceiveOffer, busVars
<1>8. QED
  BY <1>1, <1>2, <1>3, <1>4, <1>5, <1>6, <1>7
     DEF Next, Spontaneous, Progress, HalStep, CallerBegins, CallerContinues, BeginSend

\* While a synchronous send is in its retry loop no other thread stops or
\* starts the bus or closes the driver: both wait for rMutex.
THEOREM SendUndisturbed == Spec => SendKeepsBus
<1> DEFINE Kept == \A c \in Callers : pc[c] = "send_try" =>
                     /\ started' = started
                     /\ status = "OPENED" => status' = "OPENED"
<1>1. IInv /\ [Next]_vars => [Kept]_vars
  <2> SUFFICES ASSUME IInv, Next, NEW c \in Callers, pc[c] = "send_try"
               PROVE  UNCHANGED started /\ (status = "OPENED" => status' = "OPENED")
    OBVIOUS
  <2>1. owner["read"] = c
    BY DEF IInv, ReadHeld, InBus
  <2>2. QED
    BY <2>1, WhoDisturbs
<1>2. QED
  BY <1>1, Invariance, PTL DEF Spec, SendKeepsBus

-----------------------------------------------------------------------------
(* LibCCEC implements CecLibrary.                                          *)

\* A step that changes neither initialized nor status, and after which a
\* caller holds the driver's mutex if and only if one held it before, is
\* invisible from outside.
LEMMA Unseen ==
  ASSUME UNCHANGED <<status, initialized>>,
         owner'["drv"] \in Callers <=> owner["drv"] \in Callers
  PROVE  UNCHANGED <<initialized, DriverSeen>>
  BY DEF DriverSeen

\* The threads and the HAL take steps that are invisible.
LEMMA ThreadsUnseen ==
  ASSUME IInv,
         \/ \E r \in Readers : ReaderStep(r) \/ ReadPollNothing(r) \/ FlushPollNothing(r)
         \/ \E w \in Writers : WriterStep(w) \/ WriterPollNothing(w) \/ WriterDrainNothing(w)
         \/ ReceiveCheck \/ ReceiveOffer,
         UNCHANGED libVars
  PROVE  UNCHANGED <<initialized, DriverSeen>>
<1> USE ThreadAssumption DEF Threads, Mutexes
<1>1. UNCHANGED <<status, initialized>>
  BY DEF ReaderStep, Read, ReadPollNothing, ReaderEntry, ReaderLoop, ReaderNotify,
         ReaderExit, ReadCheck, ReadPoll, ReadBackToPoll, ReadEof, FlushTest, FlushPoll,
         FlushPollNothing, WriterStep, WriterPollNothing, WriterDrainNothing, WriterEntry, WriterPoll,
         WriterWrite, WriterTest, WriterTestAgain, WriterDrainTest, WriterDrain, WriterExit,
         ReceiveCheck, ReceiveOffer, driverVars, libVars
<1>2. \/ UNCHANGED owner
      \/ \E r \in Readers : Lock("drv", r) \/ Unlock(r, {"drv"})
  BY DEF ReaderStep, Read, ReadPollNothing, ReaderEntry, ReaderLoop, ReaderNotify,
         ReaderExit, ReadCheck, ReadPoll, ReadBackToPoll, ReadEof, FlushTest, FlushPoll,
         FlushPollNothing, WriterStep, WriterPollNothing, WriterDrainNothing, WriterEntry, WriterPoll,
         WriterWrite, WriterTest, WriterTestAgain, WriterDrainTest, WriterDrain, WriterExit,
         ReceiveCheck, ReceiveOffer
<1>3. owner'["drv"] \in Callers <=> owner["drv"] \in Callers
  BY <1>2 DEF IInv, TypeOK, OwnerOK, Lock, Unlock, Free
<1>4. QED
  BY <1>1, <1>3, Unseen

\* A caller that is not in the middle of a close does not hold the mutex of
\* the driver.
LEMMA OnlyCloserHolds ==
  ASSUME IInv, NEW c \in Callers, pc[c] # "rstop_close"
  PROVE  owner["drv"] # c
  BY DEF IInv, Closing

\* The sends, Bus::start, Bus::stop, and the first steps of init() and term()
\* are invisible; so is an init() that fails.
LEMMA CallsUnseen ==
  ASSUME IInv, NEW c \in Callers,
         \/ SendAsync(c) \/ SendLockRead(c) \/ ContinueSend(c) \/ BusStart(c) \/ BusStop(c)
         \/ InitBegin(c) \/ TermBegin(c) \/ InitOpenFails(c),
         UNCHANGED initialized
  PROVE  UNCHANGED <<initialized, DriverSeen>>
<1> USE ThreadAssumption DEF Threads, Mutexes
<1>1. status' = status
  <2>1. CASE StartOpen(c)
    BY <2>1 DEF StartOpen, OpenDriver, Step, IInv, Phase, Starting
  <2>2. CASE ~StartOpen(c)
    BY <2>2 DEF SendAsync, SendLockRead, ContinueSend, SendLockWrite, SendSucceeds, SendFails,
           SendRetries, BusStart, StartLockRead, StartReader, StartWriter, StartDone, BusStop,
           StopLockRead, StopReader, ReaderStopped, StopWriter, StopWriterOffer, WriterStopped,
           StopDone, InitBegin, TermBegin, InitOpenFails, OpenDriverFails, driverVars
  <2>3. QED
    BY <2>1, <2>2
<1>2. \/ UNCHANGED owner
      \/ \E m \in {"read", "write", "lib"} : Lock(m, c)
      \/ Unlock(c, {"read", "write"})
      \/ Unlock(c, Mutexes) /\ pc[c] # "rstop_close"
  BY DEF SendAsync, SendLockRead, ContinueSend, SendLockWrite, SendSucceeds, SendFails,
         AttemptFails, SendRetries, BusStart, StartLockRead, StartReader, StartWriter, StartOpen,
         OpenDriver, StartDone, BusStop, StopLockRead, StopReader, ReaderStopped, StopWriter,
         StopWriterOffer, WriterStopped, StopDone, InitBegin, TermBegin, InitOpenFails,
         OpenDriverFails, Throw, Step
<1>3. owner'["drv"] = owner["drv"]
  <2>1. CASE Unlock(c, Mutexes) /\ pc[c] # "rstop_close"
    BY <2>1, OnlyCloserHolds DEF Unlock, IInv, TypeOK, OwnerOK
  <2>2. CASE ~(Unlock(c, Mutexes) /\ pc[c] # "rstop_close")
    BY <1>2, <2>2 DEF Lock, Unlock, Free, IInv, TypeOK, OwnerOK
  <2>3. QED
    BY <2>1, <2>2
<1>4. QED
  BY <1>1, <1>3, Unseen

\* The steps that are visible: the driver opens, init() is done, the driver
\* closes or is lost, term() is done.
LEMMA LibSeen ==
  ASSUME IInv, NEW c \in Callers,
         InitOpen(c) \/ InitDone(c) \/ Close(c) \/ TermDone(c)
  PROVE  Library!Next \/ UNCHANGED <<initialized, DriverSeen>>
<1> USE ThreadAssumption DEF Threads, Mutexes
<1> USE DEF Library!Next
<1>0. status \in {"CLOSED", "CLOSING", "OPENED"}
  BY DEF IInv, TypeOK, DriverOK
<1>1. CASE InitOpen(c)
  <2>1. ~initialized /\ owner["drv"] \notin Callers /\ UNCHANGED <<owner, initialized>>
    BY <1>1 DEF InitOpen, OpenDriver, Step, Free, libVars, IInv, Phase
  <2>2. status # "OPENED" /\ status' = IF status = "CLOSED" THEN "OPENED" ELSE status
    BY <1>1 DEF InitOpen, OpenDriver, Step, IInv, Phase
  <2>3. CASE status = "CLOSED"
    BY <2>1, <2>2, <2>3 DEF Library!Open, DriverSeen
  <2>4. CASE status # "CLOSED"
    BY <2>1, <2>2, <2>4, Unseen
  <2>5. QED
    BY <2>3, <2>4
<1>2. CASE InitDone(c)
  <2>1. pc[c] = "started" /\ initialized' = TRUE /\ Unlock(c, {"lib"}) /\ status' = status
    BY <1>2 DEF InitDone, Step, driverVars
  <2>2. ~initialized /\ status # "CLOSED"
    BY <2>1 DEF IInv, Phase
  <2>3. owner'["drv"] = owner["drv"]
    BY <2>1 DEF Unlock, IInv, TypeOK, OwnerOK
  <2>4. QED
    BY <2>1, <2>2, <2>3 DEF Library!InitDone, DriverSeen
<1>3. CASE TermDone(c)
  <2>1. pc[c] = "term_done" /\ initialized' = FALSE /\ Unlock(c, {"lib"}) /\ status' = status
    BY <1>3 DEF TermDone, Step, driverVars
  <2>2. initialized /\ status # "OPENED"
    BY <2>1 DEF IInv, Phase, Stopping
  <2>3. owner["drv"] \notin Callers
    BY <2>1 DEF IInv, Closing, LibHeld, InLib, Stopping
  <2>4. owner'["drv"] = owner["drv"]
    BY <2>1 DEF Unlock, IInv, TypeOK, OwnerOK
  <2>5. QED
    BY <2>1, <2>2, <2>3, <2>4 DEF Library!TermDone, DriverSeen
<1>4. CASE CloseNotOpen(c, CloseSites) /\ UNCHANGED libVars
  BY <1>4, Unseen DEF CloseNotOpen, driverVars, libVars
<1>5. CASE CloseBegin(c, CloseSites) /\ UNCHANGED libVars
  <2>1. status = "OPENED" /\ status' = "CLOSING" /\ UNCHANGED initialized
    BY <1>5 DEF CloseBegin, libVars
  <2>2. owner'["drv"] = c
    BY <1>5 DEF CloseBegin, Lock, IInv, TypeOK, OwnerOK
  <2>3. QED
    BY <2>1, <2>2 DEF DriverSeen
<1>6. CASE (CloseEnd(c, CloseSites) \/ CloseFails(c, CloseSites)) /\ UNCHANGED libVars
  <2>1. owner["drv"] = c /\ UNCHANGED initialized
    BY <1>6 DEF CloseEnd, CloseFails, libVars
  <2>2. status = "CLOSING" /\ initialized
    BY <2>1 DEF IInv, Closing, Phase
  <2>3. CASE CloseEnd(c, CloseSites)
    BY <2>1, <2>2, <2>3 DEF CloseEnd, Library!Close, DriverSeen
  <2>4. CASE CloseFails(c, CloseSites)
    <3>1. status' = status /\ Unlock(c, Mutexes)
      BY <2>4 DEF CloseFails, Throw, driverVars
    <3>2. owner'["drv"] = NoThread
      BY <2>1, <3>1 DEF Unlock, IInv, TypeOK, OwnerOK
    <3>3. QED
      BY <2>1, <2>2, <3>1, <3>2 DEF Library!CloseFails, DriverSeen
  <2>5. QED
    BY <1>6, <2>3, <2>4
<1>7. QED
  BY <1>1, <1>2, <1>3, <1>4, <1>5, <1>6 DEF Close

\* The library, with its threads, its locks and the failures of the HAL, is a
\* CecLibrary: seen from outside, a driver that init() opens stays open until
\* term() closes it, and is lost only by a failed HdmiCecClose.
THEOREM Refinement == Spec => ImplementsLibrary
<1>1. Init => Library!Init
  <2> SUFFICES ASSUME Init PROVE Library!Init
    OBVIOUS
  <2>1. initialized = FALSE /\ status = "CLOSED"
    BY DEF Init, DriverInit
  <2>2. QED
    BY <2>1 DEF Library!Init, DriverSeen
<1>2. IInv /\ [Next]_vars => [Library!Next]_<<initialized, DriverSeen>>
  <2> SUFFICES ASSUME IInv, [Next]_vars
               PROVE  Library!Next \/ UNCHANGED <<initialized, DriverSeen>>
    OBVIOUS
  <2>1. ASSUME NEW c \in Callers, CallerBegins(c)
        PROVE  UNCHANGED <<initialized, DriverSeen>>
    BY <2>1, CallsUnseen DEF CallerBegins, BeginSend, InitBegin, TermBegin, libVars
  <2>2. ASSUME NEW c \in Callers, CallerContinues(c)
        PROVE  Library!Next \/ UNCHANGED <<initialized, DriverSeen>>
    BY <2>2, CallsUnseen, LibSeen DEF CallerContinues, InitOpenFails, libVars
  <2>3. ASSUME \/ \E r \in Readers : ReaderStep(r) \/ ReadPollNothing(r) \/ FlushPollNothing(r)
               \/ \E w \in Writers : WriterStep(w) \/ WriterPollNothing(w) \/ WriterDrainNothing(w)
               \/ ReceiveCheck \/ ReceiveOffer,
               UNCHANGED libVars
        PROVE  UNCHANGED <<initialized, DriverSeen>>
    BY <2>3, ThreadsUnseen
  <2>4. CASE UNCHANGED vars
    BY <2>4, Unseen DEF vars, driverVars, libVars
  <2>5. QED
    BY <2>1, <2>2, <2>3, <2>4 DEF Next, Spontaneous, Progress, HalStep
<1>3. QED
  BY <1>1, <1>2, Invariance, PTL DEF Spec, ImplementsLibrary, Library!Spec
=============================================================================
