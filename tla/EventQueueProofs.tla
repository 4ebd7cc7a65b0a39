-------------------------- MODULE EventQueueProofs --------------------------
(***************************************************************************)
(* For every set of threads and elements and every capacity: the typing of *)
(* EventQueue, its flag discipline, the absence of lost wake-ups, and that *)
(* it implements BoundedFifo.                                              *)
(***************************************************************************)
EXTENDS EventQueue, SequenceTheorems, TLAPS

\* The thread inside a critical section is the one that owns the mutex.
MutexInv == \A t \in Threads : pc[t] \in {"set", "notify", "popped"} <=> mutex = t

\* What a critical section has made of the flag so far.
FlagInv == /\ \A p \in Producers : pc[p] = "set" => events # <<>>
           /\ \A p \in Producers : pc[p] = "notify" => condSet /\ events # <<>>
           /\ \A c \in Consumers : pc[c] = "popped" => condSet

Broadcasting == \E p \in Producers : pc[p] \in {"set", "notify"}

\* While the flag is set only an offer that has still to broadcast can leave
\* a consumer asleep.
SleepInv == condSet /\ ~Broadcasting => \A c \in Consumers : pc[c] # "asleep"

IInv == TypeOK /\ MutexInv /\ FlagInv /\ FlagTracksEvents /\ SleepInv

-----------------------------------------------------------------------------

\* Taking the front of a non-empty sequence leaves a shorter sequence.
LEMMA PopTyped ==
  ASSUME NEW S, NEW q \in Seq(S), q # <<>>
  PROVE  Head(q) \in S /\ Tail(q) \in Seq(S) /\ Len(Tail(q)) = Len(q) - 1
  BY HeadTailProperties

\* The initial state satisfies the inductive invariant.
LEMMA InitEstablishes == Init => IInv
<1> SUFFICES ASSUME Init PROVE IInv
  OBVIOUS
<1> USE ThreadAssumption, CapAssumption DEF Init, Threads
<1>1. TypeOK
  <2>1. events \in Seq(Elements) /\ Len(events) <= Cap
    BY EmptySeq
  <2>2. QED
    BY <2>1 DEF TypeOK, ConsumerPc, ProducerPc
<1>2. MutexInv
  BY DEF MutexInv
<1>3. FlagInv /\ FlagTracksEvents
  BY DEF FlagInv, FlagTracksEvents
<1>4. SleepInv
  BY DEF SleepInv
<1>5. QED
  BY <1>1, <1>2, <1>3, <1>4 DEF IInv

\* Every step of the queue preserves the inductive invariant.
LEMMA StepPreserves == IInv /\ [Next]_vars => IInv'
<1> SUFFICES ASSUME IInv, [Next]_vars PROVE IInv'
  OBVIOUS
<1> USE ThreadAssumption, CapAssumption DEF Threads
<1>1. ASSUME NEW p \in Producers, OfferFull(p) PROVE IInv'
  <2>1. TypeOK'
    BY <1>1 DEF IInv, TypeOK, OfferFull
  <2>2. QED
    BY <1>1, <2>1 DEF IInv, OfferFull, MutexInv, FlagInv, FlagTracksEvents, SleepInv, Broadcasting
<1>2. ASSUME NEW p \in Producers, NEW e \in Elements, OfferPush(p, e) PROVE IInv'
  <2> USE <1>2 DEF OfferPush, Goto, Acquire
  <2>1. events' \in Seq(Elements) /\ Len(events') = Len(events) + 1 /\ events' # <<>>
    BY AppendProperties DEF IInv, TypeOK
  <2>2. TypeOK'
    <3>1. Len(events') <= Cap
      BY <2>1, LenProperties DEF IInv, TypeOK
    <3>2. QED
      BY <2>1, <3>1 DEF IInv, TypeOK, ConsumerPc, ProducerPc
  <2>3. MutexInv'
    BY DEF IInv, TypeOK, MutexInv
  <2>4. FlagInv' /\ FlagTracksEvents'
    BY <2>1 DEF IInv, TypeOK, MutexInv, FlagInv, FlagTracksEvents
  <2>5. SleepInv'
    BY DEF IInv, TypeOK, SleepInv, Broadcasting
  <2>6. QED
    BY <2>2, <2>3, <2>4, <2>5 DEF IInv
<1>3. ASSUME NEW p \in Producers, OfferSet(p) PROVE IInv'
  <2> USE <1>3 DEF OfferSet, Goto
  <2>1. TypeOK'
    BY DEF IInv, TypeOK, ConsumerPc, ProducerPc
  <2>2. MutexInv'
    BY DEF IInv, TypeOK, MutexInv
  <2>3. FlagInv' /\ FlagTracksEvents'
    BY DEF IInv, TypeOK, MutexInv, FlagInv, FlagTracksEvents
  <2>4. SleepInv'
    BY DEF IInv, TypeOK, SleepInv, Broadcasting
  <2>5. QED
    BY <2>1, <2>2, <2>3, <2>4 DEF IInv
<1>4. ASSUME NEW p \in Producers, OfferNotify(p) PROVE IInv'
  <2> USE <1>4 DEF OfferNotify, WakeAll, Release
  <2>1. TypeOK'
    BY DEF IInv, TypeOK, ConsumerPc, ProducerPc
  <2>2. MutexInv'
    BY DEF IInv, TypeOK, MutexInv, ConsumerPc, ProducerPc
  <2>3. FlagInv' /\ FlagTracksEvents'
    BY DEF IInv, TypeOK, MutexInv, FlagInv, FlagTracksEvents
  <2>4. SleepInv'
    BY DEF IInv, TypeOK, SleepInv
  <2>5. QED
    BY <2>1, <2>2, <2>3, <2>4 DEF IInv
<1>5. ASSUME NEW c \in Consumers, WaitAtOnce(c) PROVE IInv'
  <2> USE <1>5 DEF WaitAtOnce, Goto
  <2>1. TypeOK'
    BY DEF IInv, TypeOK, ConsumerPc
  <2>2. MutexInv' /\ FlagInv' /\ FlagTracksEvents'
    BY DEF IInv, TypeOK, MutexInv, FlagInv, FlagTracksEvents
  <2>3. SleepInv'
    BY DEF IInv, TypeOK, SleepInv, Broadcasting
  <2>4. QED
    BY <2>1, <2>2, <2>3 DEF IInv
<1>6. ASSUME NEW c \in Consumers, WaitSleep(c) PROVE IInv'
  <2> USE <1>6 DEF WaitSleep, Goto
  <2>1. TypeOK'
    BY DEF IInv, TypeOK, ConsumerPc
  <2>2. MutexInv' /\ FlagInv' /\ FlagTracksEvents'
    BY DEF IInv, TypeOK, MutexInv, FlagInv, FlagTracksEvents
  <2>3. SleepInv'
    BY DEF SleepInv
  <2>4. QED
    BY <2>1, <2>2, <2>3 DEF IInv
<1>7. ASSUME NEW c \in Consumers, SpuriousWake(c) PROVE IInv'
  <2> USE <1>7 DEF SpuriousWake, Goto
  <2>1. TypeOK'
    BY DEF IInv, TypeOK, ConsumerPc
  <2>2. MutexInv' /\ FlagInv' /\ FlagTracksEvents'
    BY DEF IInv, TypeOK, MutexInv, FlagInv, FlagTracksEvents
  <2>3. SleepInv'
    BY DEF IInv, TypeOK, SleepInv, Broadcasting
  <2>4. QED
    BY <2>1, <2>2, <2>3 DEF IInv
<1>8. ASSUME NEW c \in Consumers, PollDefault(c) PROVE IInv'
  <2> USE <1>8 DEF PollDefault, Goto
  <2>1. TypeOK'
    BY DEF IInv, TypeOK, ConsumerPc
  <2>2. MutexInv' /\ FlagInv' /\ FlagTracksEvents'
    BY DEF IInv, TypeOK, MutexInv, FlagInv, FlagTracksEvents
  <2>3. SleepInv'
    BY DEF IInv, TypeOK, SleepInv, Broadcasting
  <2>4. QED
    BY <2>1, <2>2, <2>3 DEF IInv
<1>9. ASSUME NEW c \in Consumers, PollPop(c) PROVE IInv'
  <2> USE <1>9 DEF PollPop, Goto, Acquire
  <2>1. /\ Head(events) \in Elements
        /\ events' \in Seq(Elements)
        /\ Len(events') = Len(events) - 1
    BY PopTyped DEF IInv, TypeOK
  <2>2. TypeOK'
    <3>1. Len(events') <= Cap
      BY <2>1, LenProperties DEF IInv, TypeOK
    <3>2. QED
      BY <2>1, <3>1 DEF IInv, TypeOK, ConsumerPc, ProducerPc
  <2>3. MutexInv'
    BY DEF IInv, TypeOK, MutexInv
  <2>4. FlagInv' /\ FlagTracksEvents'
    BY DEF IInv, TypeOK, MutexInv, FlagInv, FlagTracksEvents
  <2>5. SleepInv'
    BY DEF IInv, TypeOK, SleepInv, Broadcasting
  <2>6. QED
    BY <2>2, <2>3, <2>4, <2>5 DEF IInv
<1>10. ASSUME NEW c \in Consumers, PollReset(c) PROVE IInv'
  <2> USE <1>10 DEF PollReset, Goto, Release
  <2>1. TypeOK'
    BY DEF IInv, TypeOK, ConsumerPc
  <2>2. MutexInv'
    BY DEF IInv, TypeOK, MutexInv
  <2>3. FlagInv' /\ FlagTracksEvents'
    <3>1. condSet' <=> events' # <<>>
      BY DEF IInv, FlagInv
    <3>2. \A t \in Threads \ {c} : pc'[t] \notin {"set", "notify", "popped"}
      BY DEF IInv, TypeOK, MutexInv
    <3>3. pc'[c] = "idle"
      BY DEF IInv, TypeOK
    <3>4. FlagInv'
      BY <3>2, <3>3 DEF FlagInv
    <3>5. QED
      BY <3>1, <3>4 DEF FlagTracksEvents
  <2>4. SleepInv'
    BY DEF IInv, TypeOK, SleepInv, Broadcasting
  <2>5. QED
    BY <2>1, <2>2, <2>3, <2>4 DEF IInv
<1>11. CASE UNCHANGED vars
  BY <1>11 DEF vars, IInv, TypeOK, MutexInv, FlagInv, FlagTracksEvents, SleepInv, Broadcasting
<1>12. QED
  BY <1>1, <1>2, <1>3, <1>4, <1>5, <1>6, <1>7, <1>8, <1>9, <1>10, <1>11
     DEF Next, OfferStep, PollStep

\* The inductive invariant holds in every reachable state.
LEMMA Invariance == Spec => []IInv
  BY InitEstablishes, StepPreserves, PTL DEF Spec

-----------------------------------------------------------------------------

\* Every variable keeps its type and the deque never outgrows its capacity.
THEOREM TypeCorrect == Spec => []TypeOK
  BY Invariance, PTL DEF IInv

\* Whenever the queue mutex is free the flag says whether the queue is empty.
THEOREM FlagCorrect == Spec => []FlagTracksEvents
  BY Invariance, PTL DEF IInv

\* No consumer sleeps through an element that is waiting.
THEOREM NoLostWakeupTheorem == Spec => []NoLostWakeup
<1>1. IInv => NoLostWakeup
  BY ThreadAssumption
     DEF IInv, MutexInv, FlagTracksEvents, SleepInv, Broadcasting, NoLostWakeup, Threads
<1>2. QED
  BY <1>1, Invariance, PTL

\* The queue with its locks is a bounded FIFO: what polls return, and when
\* they return the default value, is what BoundedFifo allows.
THEOREM Refinement == Spec => ImplementsFifo
<1>1. Init => Fifo!FifoInit
  BY DEF Init, Fifo!FifoInit
<1>2. IInv /\ [Next]_vars => [Fifo!FifoNext]_(Fifo!fifoVars)
  <2> SUFFICES ASSUME IInv, [Next]_vars PROVE [Fifo!FifoNext]_(Fifo!fifoVars)
    OBVIOUS
  <2> USE DEF Fifo!FifoNext, Fifo!fifoVars
  <2>1. ASSUME NEW p \in Producers, NEW e \in Elements, OfferPush(p, e)
        PROVE  Fifo!Offer(e)
    BY <2>1 DEF OfferPush, Fifo!Offer, Fifo!Enqueue
  <2>2. ASSUME NEW c \in Consumers, PollPop(c) PROVE Fifo!Take(c)
    BY <2>2 DEF PollPop, Fifo!Take
  <2>3. ASSUME NEW c \in Consumers, PollDefault(c) PROVE Fifo!TakeNothing(c)
    BY <2>3 DEF PollDefault, Fifo!TakeNothing, IInv, FlagTracksEvents
  <2>4. ASSUME NEW p \in Producers, OfferFull(p) \/ OfferSet(p) \/ OfferNotify(p)
        PROVE  UNCHANGED <<events, taken>>
    BY <2>4 DEF OfferFull, OfferSet, OfferNotify
  <2>5. ASSUME NEW c \in Consumers,
               WaitAtOnce(c) \/ WaitSleep(c) \/ SpuriousWake(c) \/ PollReset(c)
        PROVE  UNCHANGED <<events, taken>>
    BY <2>5 DEF WaitAtOnce, WaitSleep, SpuriousWake, PollReset
  <2>6. CASE UNCHANGED vars
    BY <2>6 DEF vars
  <2>7. QED
    BY <2>1, <2>2, <2>3, <2>4, <2>5, <2>6 DEF Next, OfferStep, PollStep
<1>3. QED
  BY <1>1, <1>2, Invariance, PTL DEF Spec, ImplementsFifo, Fifo!FifoSpec
=============================================================================
