--------------------------- MODULE LibOrderProofs ---------------------------
(***************************************************************************)
(* For every set of threads, every queue capacity and every bound: frames  *)
(* keep their order on the way from the HAL to the listeners, and from     *)
(* sendAsync to the HAL.                                                   *)
(*                                                                         *)
(* A received frame goes from the HAL's thread through rQueue and the      *)
(* hands of a reader to the listeners, an asynchronous one from its caller *)
(* through wQueue and the hands of a writer to the HAL.  On both ways      *)
(* every frame behind is greater than every frame ahead (Ordered), as long *)
(* as no two threads of the pool are alive: a frame in the hands of the    *)
(* one could be overtaken by one in the hands of the other.                *)
(***************************************************************************)
EXTENDS LibCCECProofs

-----------------------------------------------------------------------------
(* One way of a frame: out of it, in hands, in the queue, still to come *)

Elements(s) == {s[i] : i \in 1 .. Len(s)}
Before(A, B) == \A a \in A, b \in B : a < b

\* What is in a queue besides its sentinels, in order.
Frames(q) == Elements(q) \ {Null}
QueueOrdered(q) == \A i, j \in 1 .. Len(q) :
                     i < j /\ q[i] # Null /\ q[j] # Null => q[i] < q[j]

Ordered(out, hands, q, next) ==
  /\ Increasing(out) /\ QueueOrdered(q)
  /\ Before(Elements(out), hands \cup Frames(q) \cup {next})
  /\ Before(hands, Frames(q) \cup {next})
  /\ Before(Frames(q), {next})

\* What a sequence holds after an element was added.
LEMMA ElementsAppend ==
  ASSUME NEW s \in Seq(Nat), NEW e \in Nat
  PROVE  /\ Elements(Append(s, e)) = Elements(s) \cup {e}
         /\ Elements(s) \subseteq Nat
<1>1. /\ Append(s, e) \in Seq(Nat) /\ Len(Append(s, e)) = Len(s) + 1
      /\ \A i \in 1 .. Len(s) : Append(s, e)[i] = s[i]
      /\ Append(s, e)[Len(s) + 1] = e
  BY AppendProperties
<1>2. Len(s) \in Nat /\ \A i \in 1 .. Len(s) : s[i] \in Nat
  BY LenProperties, ElementOfSeq
<1>3. 1 .. Len(Append(s, e)) = (1 .. Len(s)) \cup {Len(s) + 1}
  BY <1>1, <1>2
<1>4. QED
  BY <1>1, <1>2, <1>3 DEF Elements

\* What the head and the tail of a queue are made of.
LEMMA ElementsTail ==
  ASSUME NEW q \in Seq(Nat), q # <<>>
  PROVE  /\ Len(q) \in Nat \ {0} /\ Len(Tail(q)) = Len(q) - 1
         /\ Tail(q) \in Seq(Nat) /\ Head(q) = q[1]
         /\ \A i \in 1 .. Len(Tail(q)) : i + 1 \in 1 .. Len(q) /\ Tail(q)[i] = q[i + 1]
         /\ Head(q) \in Elements(q) /\ Elements(Tail(q)) \subseteq Elements(q)
<1>1. Len(q) \in Nat \ {0} /\ Len(Tail(q)) = Len(q) - 1
      /\ Tail(q) \in Seq(Nat) /\ Head(q) = q[1]
  BY HeadTailProperties, EmptySeq, LenProperties
<1>2. \A i \in 1 .. Len(Tail(q)) : i + 1 \in 1 .. Len(q) /\ Tail(q)[i] = q[i + 1]
  BY <1>1, HeadTailProperties
<1>3. 1 \in 1 .. Len(q)
  BY <1>1
<1>4. QED
  BY <1>1, <1>2, <1>3 DEF Elements

\* Offering the next frame, or a sentinel, while later ones are still to come.
LEMMA OfferKeeps ==
  ASSUME NEW out \in Seq(Nat), NEW hands \in SUBSET Nat, NEW q \in Seq(Nat),
         NEW n \in Nat, NEW m \in Nat, NEW e \in Nat, NEW cap,
         Ordered(out, hands, q, n),
         (e = n /\ n < m) \/ (e = Null /\ n <= m)
  PROVE  Ordered(out, hands, Enqueue(q, e, cap), m)
<1>1. /\ Elements(out) \subseteq Nat /\ Elements(q) \subseteq Nat
      /\ Elements(Append(q, e)) = Elements(q) \cup {e}
  BY ElementsAppend
<1>2. Ordered(out, hands, q, m)
  <2>1. \A x \in Nat : x < n => x < m
    OBVIOUS
  <2>2. Elements(out) \cup hands \cup Frames(q) \subseteq Nat
    BY <1>1 DEF Frames
  <2>3. QED
    BY <2>1, <2>2 DEF Ordered, Before
<1>3. Ordered(out, hands, Append(q, e), m)
  <2>1. QueueOrdered(Append(q, e))
    <3>1. /\ Len(Append(q, e)) = Len(q) + 1 /\ Append(q, e)[Len(q) + 1] = e
          /\ \A i \in 1 .. Len(q) : Append(q, e)[i] = q[i] /\ q[i] \in Elements(q)
      BY AppendProperties DEF Elements
    <3>2. Len(q) \in Nat
      BY LenProperties
    <3> SUFFICES ASSUME NEW i \in 1 .. Len(q) + 1, NEW j \in 1 .. Len(q) + 1, i < j,
                        Append(q, e)[i] # Null, Append(q, e)[j] # Null
                 PROVE  Append(q, e)[i] < Append(q, e)[j]
      BY <3>1 DEF QueueOrdered
    <3>3. CASE j = Len(q) + 1
      <4>1. i \in 1 .. Len(q) /\ q[i] \in Frames(q) /\ e = n
        BY <3>1, <3>2, <3>3 DEF Frames
      <4>2. q[i] < n
        BY <4>1 DEF Ordered, Before
      <4>3. QED
        BY <3>1, <3>3, <4>1, <4>2
    <3>4. CASE j \in 1 .. Len(q)
      <4>1. i \in 1 .. Len(q) /\ q[i] # Null /\ q[j] # Null
        BY <3>1, <3>2, <3>4
      <4>2. q[i] < q[j]
        BY <3>4, <4>1 DEF Ordered, QueueOrdered
      <4>3. QED
        BY <3>1, <3>4, <4>1, <4>2
    <3>5. \A k \in Nat : \A x \in 1 .. k + 1 : x = k + 1 \/ x \in 1 .. k
      OBVIOUS
    <3>6. j = Len(q) + 1 \/ j \in 1 .. Len(q)
      BY <3>2, <3>5
    <3>7. QED
      BY <3>3, <3>4, <3>6
  <2>2. Frames(Append(q, e)) \subseteq Frames(q) \cup (IF e = Null THEN {} ELSE {n})
    BY <1>1 DEF Frames
  <2>3. QED
    BY <1>1, <1>2, <2>1, <2>2 DEF Ordered, Before, Frames
<1>4. QED
  BY <1>2, <1>3 DEF Enqueue

\* Taking the head out of the queue, into empty hands or to throw it away.
LEMMA TakeKeeps ==
  ASSUME NEW out, NEW hands, NEW q \in Seq(Nat), NEW n \in Nat, q # <<>>,
         Ordered(out, hands, q, n)
  PROVE  /\ Ordered(out, hands, Tail(q), n)
         /\ hands = {} /\ Head(q) # Null => Ordered(out, {Head(q)}, Tail(q), n)
<1>1. QueueOrdered(Tail(q))
  <2> SUFFICES ASSUME NEW i \in 1 .. Len(Tail(q)), NEW j \in 1 .. Len(Tail(q)), i < j,
                      Tail(q)[i] # Null, Tail(q)[j] # Null
               PROVE  Tail(q)[i] < Tail(q)[j]
    BY DEF QueueOrdered
  <2>1. i + 1 < j + 1
    BY ElementsTail
  <2>2. QED
    BY <2>1, ElementsTail DEF Ordered, QueueOrdered
<1>2. Frames(Tail(q)) \subseteq Frames(q) /\ Head(q) \in Elements(q)
  BY ElementsTail DEF Frames
<1>3. Head(q) # Null => Before({Head(q)}, Frames(Tail(q)))
  <2> SUFFICES ASSUME Head(q) # Null, NEW b \in Frames(Tail(q)) PROVE Head(q) < b
    BY DEF Before
  <2>1. PICK i \in 1 .. Len(Tail(q)) : b = Tail(q)[i]
    BY DEF Frames, Elements
  <2>2. b = q[i + 1] /\ 1 < i + 1 /\ i + 1 \in 1 .. Len(q) /\ 1 \in 1 .. Len(q)
    BY <2>1, ElementsTail
  <2>3. QED
    BY <2>2, ElementsTail DEF Ordered, QueueOrdered, Frames
<1>4. QED
  BY <1>1, <1>2, <1>3 DEF Ordered, Before, Frames

\* What was in the hands goes out, or is thrown away.
LEMMA GiveKeeps ==
  ASSUME NEW out \in Seq(Nat), NEW x \in Nat, NEW q, NEW n,
         Ordered(out, {x}, q, n)
  PROVE  Ordered(Append(out, x), {}, q, n) /\ Ordered(out, {}, q, n)
<1>1. Increasing(Append(out, x))
  <2>1. /\ Len(Append(out, x)) = Len(out) + 1 /\ Append(out, x)[Len(out) + 1] = x
        /\ \A i \in 1 .. Len(out) : Append(out, x)[i] = out[i] /\ out[i] \in Elements(out)
    BY AppendProperties DEF Elements
  <2>2. Len(out) \in Nat
    BY LenProperties
  <2> SUFFICES ASSUME NEW i \in 1 .. Len(out) + 1, NEW j \in 1 .. Len(out) + 1, i < j
               PROVE  Append(out, x)[i] < Append(out, x)[j]
    BY <2>1 DEF Increasing
  <2>3. CASE j = Len(out) + 1
    BY <2>1, <2>2, <2>3 DEF Ordered, Before
  <2>4. CASE j \in 1 .. Len(out)
    BY <2>1, <2>2, <2>4 DEF Ordered, Increasing
  <2>5. QED
    BY <2>2, <2>3, <2>4
<1>2. Elements(Append(out, x)) = Elements(out) \cup {x}
  BY ElementsAppend
<1>3. QED
  BY <1>1, <1>2 DEF Ordered, Before

-----------------------------------------------------------------------------
(* The threads of a pool and what they hold *)

\* The frames in the hands of the threads that are at a place, and whether the
\* pool has at most one thread that has not ended.
Hands(pool, place) == {held[t] : t \in {u \in pool : pc[u] = place}}
OneAlive(pool) == \A s, t \in pool : pc[s] # "none" /\ pc[t] # "none" => s = t

\* A pool whose threads do nothing keeps what they hold.
LEMMA SameHands ==
  ASSUME NEW pool, NEW place, \A t \in pool : pc'[t] = pc[t] /\ held'[t] = held[t]
  PROVE  /\ Hands(pool, place)' = Hands(pool, place)
         /\ OneAlive(pool) => OneAlive(pool)'
  BY DEF Hands, OneAlive

\* The one live thread of a pool takes a step: what is in its hands is all that
\* is in the hands of the pool, before and after.
LEMMA OnlyHands ==
  ASSUME NEW pool \in SUBSET (Readers \cup Writers), NEW t \in pool, NEW place, place # "none",
         NEW to, TypeOK, OneAlive(pool), pc[t] # "none", pc' = [pc EXCEPT ![t] = to]
  PROVE  /\ Hands(pool, place) = IF pc[t] = place THEN {held[t]} ELSE {}
         /\ Hands(pool, place)' = IF to = place THEN {held'[t]} ELSE {}
         /\ OneAlive(pool)'
<1>1. \A u \in pool \ {t} : pc[u] = "none"
  BY DEF OneAlive
<1>2. pc'[t] = to /\ \A u \in pool \ {t} : pc'[u] = "none"
  BY <1>1 DEF TypeOK, PcOK, Threads
<1>3. QED
  BY <1>1, <1>2 DEF Hands, OneAlive

\* The first thread of a pool begins: it is alone and has nothing in hands.
LEMMA FirstHands ==
  ASSUME NEW pool \in SUBSET (Readers \cup Writers), NEW n \in pool, NEW place,
         place \notin {"none", "entry"}, NEW c \in Callers, NEW to, TypeOK, Live(pool) = {},
         pc' = [pc EXCEPT ![c] = to, ![n] = "entry"]
  PROVE  Hands(pool, place) = {} /\ Hands(pool, place)' = {} /\ OneAlive(pool)'
<1>1. \A u \in pool : pc[u] = "none"
  BY DEF Live
<1>2. pc'[n] = "entry" /\ \A u \in pool \ {n} : pc'[u] = "none"
  BY <1>1, ThreadAssumption DEF TypeOK, PcOK, Threads
<1>3. QED
  BY <1>1, <1>2 DEF Hands, OneAlive

-----------------------------------------------------------------------------
(* From the HAL's thread to the listeners *)

\* The next frame to be offered to rQueue.
NextIn == IF pc[Hal] = "offer" THEN held[Hal] ELSE nextRx

ReceiveOrder ==
  /\ pc[Hal] = "offer" => held[Hal] < nextRx
  /\ overlapped \cap Readers = {} =>
       OneAlive(Readers) /\ Ordered(delivered, Hands(Readers, "got"), rQueue, NextIn)

\* What the order of received frames is about is made of numbers.
LEMMA ReceiveTyped ==
  TypeOK => /\ delivered \in Seq(Nat) /\ rQueue \in Seq(Nat) /\ nextRx \in Nat
            /\ NextIn \in Nat /\ Hands(Readers, "got") \in SUBSET Nat
            /\ \A t \in Readers \cup Writers \cup {Hal} : held[t] \in Nat
  BY DEF TypeOK, DriverOK, BusOK, NextIn, Hands

\* A step of somebody else, which may offer a sentinel.
LEMMA ReceiveQuiet ==
  ASSUME TypeOK, ReceiveOrder,
         \A t \in Readers \cup {Hal} : pc'[t] = pc[t] /\ held'[t] = held[t],
         rQueue' \in {rQueue, Enqueue(rQueue, Null, RCap)},
         UNCHANGED <<nextRx, delivered>>,
         overlapped \cap Readers \subseteq overlapped'
  PROVE  ReceiveOrder'
<1>1. NextIn' = NextIn /\ Hands(Readers, "got")' = Hands(Readers, "got")
      /\ (OneAlive(Readers) => OneAlive(Readers)')
  BY SameHands DEF NextIn
<1>2. pc'[Hal] = "offer" => held'[Hal] < nextRx'
  BY DEF ReceiveOrder
<1>3. ASSUME overlapped' \cap Readers = {}
      PROVE  OneAlive(Readers)' /\ Ordered(delivered, Hands(Readers, "got"), rQueue, NextIn)'
  <2>1. OneAlive(Readers) /\ Ordered(delivered, Hands(Readers, "got"), rQueue, NextIn)
    BY <1>3 DEF ReceiveOrder
  <2>2. Ordered(delivered, Hands(Readers, "got"), Enqueue(rQueue, Null, RCap), NextIn)
    <3>1. Null \in Nat /\ NextIn <= NextIn
      BY ReceiveTyped DEF Null
    <3>2. QED
      BY <2>1, <3>1, OfferKeeps, ReceiveTyped
  <2>3. Ordered(delivered, Hands(Readers, "got"), rQueue', NextIn)
    BY <2>1, <2>2
  <2>4. QED
    BY <1>1, <2>1, <2>3
<1>4. QED
  BY <1>2, <1>3 DEF ReceiveOrder

\* The HAL's thread: the frame it has received is the next, and then goes in.
LEMMA ReceiveByHal ==
  ASSUME TypeOK, ReceiveOrder, ReceiveCheck \/ ReceiveOffer, UNCHANGED busVars
  PROVE  ReceiveOrder'
<1> USE ThreadAssumption DEF busVars
<1>1. \A t \in Readers : pc'[t] = pc[t] /\ held'[t] = held[t]
  BY DEF ReceiveCheck, ReceiveOffer, Step, TypeOK, PcOK, DriverOK, Threads
<1>2. Hands(Readers, "got")' = Hands(Readers, "got") /\ (OneAlive(Readers) => OneAlive(Readers)')
  BY <1>1, SameHands
<1>3. CASE ReceiveCheck
  <2>1. NextIn = nextRx /\ NextIn' = nextRx /\ held'[Hal] = nextRx /\ nextRx' = nextRx + 1
    BY <1>3 DEF ReceiveCheck, Step, NextIn, TypeOK, PcOK, DriverOK, Threads
  <2>2. UNCHANGED <<rQueue, delivered, overlapped>>
    BY <1>3 DEF ReceiveCheck
  <2>3. QED
    BY <1>2, <2>1, <2>2, ReceiveTyped DEF ReceiveOrder
<1>4. CASE ReceiveOffer
  <2>1. /\ NextIn = held[Hal] /\ NextIn' = nextRx /\ held[Hal] < nextRx /\ pc'[Hal] # "offer"
        /\ rQueue' = Enqueue(rQueue, NextIn, RCap)
    BY <1>4 DEF ReceiveOffer, Step, NextIn, TypeOK, PcOK, DriverOK, Threads, ReceiveOrder
  <2>2. UNCHANGED <<delivered, overlapped, nextRx>>
    BY <1>4 DEF ReceiveOffer
  <2>3. Ordered(delivered, Hands(Readers, "got"), rQueue, NextIn)
          => Ordered(delivered, Hands(Readers, "got"), rQueue', nextRx)
    BY <2>1, OfferKeeps, ReceiveTyped
  <2>4. QED
    BY <1>2, <2>1, <2>2, <2>3 DEF ReceiveOrder
<1>5. QED
  BY <1>3, <1>4

\* A reader, alone in its pool: it takes the head of the queue, hands it over
\* or flushes it.
LEMMA ReceiveByReader ==
  ASSUME TypeOK, ReceiveOrder, NEW r \in Readers,
         \/ ReaderStep(r)
         \/ (ReadPollNothing(r) \/ FlushPollNothing(r)) /\ UNCHANGED busVars
  PROVE  ReceiveOrder'
<1> USE ThreadAssumption DEF busVars, driverVars
<1> DEFINE Moves(from, to) == pc[r] = from /\ pc' = [pc EXCEPT ![r] = to]
           Quietly == UNCHANGED <<rQueue, held, delivered>>
<1>1. \/ Moves("got", "loop") /\ delivered' = Append(delivered, held[r])
         /\ UNCHANGED rQueue /\ held' = [held EXCEPT ![r] = Null]
      \/ /\ rQueue # <<>> /\ rQueue' = Tail(rQueue) /\ UNCHANGED delivered
         /\ \/ Moves("poll", IF Head(rQueue) = Null THEN "eof" ELSE "got")
               /\ held' = [held EXCEPT ![r] = Head(rQueue)]
            \/ Moves("flushPoll", "flush") /\ UNCHANGED held
      \/ Quietly /\ \E from, to \in ReaderPc \ {"got"} : from # "none" /\ Moves(from, to)
  BY DEF ReaderStep, Read, ReadPollNothing, ReaderEntry, ReaderLoop, ReaderNotify, ReaderExit,
         ReadCheck, ReadPoll, ReadBackToPoll, ReadEof, FlushTest, FlushPoll, FlushPollNothing,
         Step, ReaderPc
<1>2. PICK from, to : from # "none" /\ Moves(from, to)
  BY <1>1
<1>3. UNCHANGED <<nextRx, overlapped>>
  BY DEF ReaderStep, Read, ReadPollNothing, ReaderEntry, ReaderLoop, ReaderNotify, ReaderExit,
         ReadCheck, ReadPoll, ReadBackToPoll, ReadEof, FlushTest, FlushPoll, FlushPollNothing
<1>4. pc'[Hal] = pc[Hal] /\ held'[Hal] = held[Hal] /\ NextIn' = NextIn
  BY <1>1, <1>2, <1>3 DEF TypeOK, PcOK, DriverOK, Threads, NextIn
<1> SUFFICES ASSUME overlapped \cap Readers = {}
             PROVE  OneAlive(Readers)'
                    /\ Ordered(delivered', Hands(Readers, "got")', rQueue', NextIn)
  BY <1>3, <1>4 DEF ReceiveOrder
<1>5. OneAlive(Readers) /\ Ordered(delivered, Hands(Readers, "got"), rQueue, NextIn)
  BY DEF ReceiveOrder
<1> HIDE DEF Moves
<1>6. ASSUME NEW f, NEW p, f # "none", Moves(f, p)
      PROVE  /\ OneAlive(Readers)'
             /\ Hands(Readers, "got") = IF f = "got" THEN {held[r]} ELSE {}
             /\ Hands(Readers, "got")' = IF p = "got" THEN {held'[r]} ELSE {}
  <2>1. Readers \in SUBSET (Readers \cup Writers) /\ OneAlive(Readers)
    BY <1>5
  <2>2. pc[r] # "none" /\ pc' = [pc EXCEPT ![r] = p] /\ "got" # "none"
    BY <1>6 DEF Moves
  <2>3. /\ Hands(Readers, "got") = IF pc[r] = "got" THEN {held[r]} ELSE {}
        /\ Hands(Readers, "got")' = IF p = "got" THEN {held'[r]} ELSE {}
        /\ OneAlive(Readers)'
    BY <2>1, <2>2, OnlyHands
  <2>4. QED
    BY <1>6, <2>3 DEF Moves
<1>7. CASE /\ Moves("got", "loop") /\ delivered' = Append(delivered, held[r])
           /\ UNCHANGED rQueue
  <2>1. OneAlive(Readers)' /\ Hands(Readers, "got") = {held[r]} /\ Hands(Readers, "got")' = {}
    BY <1>6, <1>7
  <2>2. Ordered(Append(delivered, held[r]), {}, rQueue, NextIn)
    BY <1>5, <2>1, GiveKeeps, ReceiveTyped
  <2>3. QED
    BY <1>7, <2>1, <2>2
<1>8. CASE /\ rQueue # <<>> /\ rQueue' = Tail(rQueue) /\ UNCHANGED delivered
           /\ Moves("poll", IF Head(rQueue) = Null THEN "eof" ELSE "got")
           /\ held' = [held EXCEPT ![r] = Head(rQueue)]
  <2>1. /\ OneAlive(Readers)' /\ Hands(Readers, "got") = {}
        /\ Hands(Readers, "got")' = IF Head(rQueue) = Null THEN {} ELSE {held'[r]}
    BY <1>6, <1>8
  <2>2. held'[r] = Head(rQueue)
    BY <1>8 DEF TypeOK, DriverOK
  <2>3. QED
    BY <1>5, <1>8, <2>1, <2>2, TakeKeeps, ReceiveTyped
<1>9. CASE /\ rQueue # <<>> /\ rQueue' = Tail(rQueue) /\ UNCHANGED delivered
           /\ Moves("flushPoll", "flush") /\ UNCHANGED held
  <2>1. OneAlive(Readers)' /\ Hands(Readers, "got") = {} /\ Hands(Readers, "got")' = {}
    BY <1>6, <1>9
  <2>2. QED
    BY <1>5, <1>9, <2>1, TakeKeeps, ReceiveTyped
<1>10. CASE Quietly /\ \E f, p \in ReaderPc \ {"got"} : f # "none" /\ Moves(f, p)
  <2>1. OneAlive(Readers)' /\ Hands(Readers, "got") = {} /\ Hands(Readers, "got")' = {}
    BY <1>6, <1>10
  <2>2. QED
    BY <1>5, <1>10, <2>1
<1>11. QED
  BY <1>1, <1>7, <1>8, <1>9, <1>10

\* A writer: it touches nothing on this way.
LEMMA ReceiveByWriter ==
  ASSUME TypeOK, ReceiveOrder, NEW w \in Writers, WriterStep(w) \/ WriterPollNothing(w) \/ WriterDrainNothing(w)
  PROVE  ReceiveOrder'
<1>1. PICK to, h : /\ pc' = [pc EXCEPT ![w] = to]
                   /\ held' = held \/ held' = [held EXCEPT ![w] = h]
  BY DEF WriterStep, WriterPollNothing, WriterDrainNothing, WriterEntry, WriterPoll, WriterWrite, WriterTest,
         WriterTestAgain, WriterDrainTest, WriterDrain, WriterExit, Step, driverVars
<1>2. UNCHANGED <<rQueue, nextRx, delivered, overlapped>>
  BY DEF WriterStep, WriterPollNothing, WriterDrainNothing, WriterEntry, WriterPoll, WriterWrite, WriterTest,
         WriterTestAgain, WriterDrainTest, WriterDrain, WriterExit, driverVars, busVars
<1>3. \A t \in Readers \cup {Hal} : pc'[t] = pc[t] /\ held'[t] = held[t]
  BY <1>1, ThreadAssumption DEF TypeOK, PcOK, DriverOK, Threads
<1>4. QED
  BY <1>2, <1>3, ReceiveQuiet

\* A caller: a close may put a sentinel behind the frames, and a start may
\* create the only reader.
LEMMA ReceiveByCaller ==
  ASSUME TypeOK, ReceiveOrder, NEW c \in Callers, CallerBegins(c) \/ CallerContinues(c)
  PROVE  ReceiveOrder'
<1> USE ThreadAssumption DEF libVars, CallerBegins, CallerContinues
<1>1. /\ UNCHANGED <<held, nextRx, delivered>>
      /\ rQueue' \in {rQueue, Enqueue(rQueue, Null, RCap)}
  BY DEF InitBegin, InitOpen, InitOpenFails, InitDone, TermBegin, TermDone, Close, OpenDriver,
         OpenDriverFails, CloseNotOpen, CloseBegin, CloseEnd, CloseFails, BusStart,
         StartLockRead, StartReader, StartWriter, StartOpen, StartDone, BusStop, StopLockRead,
         StopReader, ReaderStopped, StopWriter, StopWriterOffer, WriterStopped, StopDone,
         BeginSend, ContinueSend, SendAsync, SendLockRead, SendLockWrite, SendSucceeds,
         SendFails, SendRetries, driverVars, busVars
<1>2. CASE /\ Spawn(Readers, c, "start_w", "start_writer") /\ UNCHANGED rQueue
           /\ overlapped' = IF Live(Readers) = {} THEN overlapped ELSE overlapped \cup Readers
  <2>1. PICK n \in Readers : pc' = [pc EXCEPT ![c] = "start_writer", ![n] = "entry"]
    BY <1>2 DEF Spawn
  <2>2. pc'[Hal] = pc[Hal] /\ NextIn' = NextIn
    BY <1>1, <2>1 DEF TypeOK, PcOK, Threads, NextIn
  <2>3. ASSUME overlapped' \cap Readers = {}
        PROVE  OneAlive(Readers)' /\ Ordered(delivered, Hands(Readers, "got"), rQueue, NextIn)'
    <3>1. Live(Readers) = {} /\ overlapped' = overlapped
      <4>1. overlapped' = overlapped \cup Readers => n \in overlapped' \cap Readers
        OBVIOUS
      <4>2. QED
        BY <1>2, <2>3, <4>1
    <3>2. Hands(Readers, "got") = {} /\ Hands(Readers, "got")' = {} /\ OneAlive(Readers)'
      <4>1. Readers \in SUBSET (Readers \cup Writers) /\ "got" \notin {"none", "entry"}
        OBVIOUS
      <4>2. QED
        BY <2>1, <3>1, <4>1, FirstHands
    <3>3. QED
      BY <1>1, <1>2, <2>2, <2>3, <3>1, <3>2 DEF ReceiveOrder
  <2>4. QED
    BY <1>1, <2>2, <2>3 DEF ReceiveOrder
<1>3. CASE /\ \/ UNCHANGED pc
              \/ \E to : pc' = [pc EXCEPT ![c] = to]
              \/ \E to \in CallerPc, n \in Writers : pc' = [pc EXCEPT ![c] = to, ![n] = "entry"]
           /\ overlapped' \in {overlapped, overlapped \cup Readers, overlapped \cup Writers}
  <2>1. \A t \in Readers \cup {Hal} : pc'[t] = pc[t] /\ held'[t] = held[t]
    BY <1>1, <1>3 DEF TypeOK, PcOK, Threads
  <2>2. QED
    BY <1>1, <1>3, <2>1, ReceiveQuiet
<1>4. QED
  <2>1. CASE StartReader(c)
    BY <1>2, <1>3, <2>1 DEF StartReader, StartThread, Step, driverVars
  <2>2. CASE StartWriter(c)
    <3>1. overlapped' \in {overlapped, overlapped \cup Writers}
      BY <2>2 DEF StartWriter, StartThread
    <3>2. \/ pc' = [pc EXCEPT ![c] = "start_open"]
          \/ \E n \in Writers : pc' = [pc EXCEPT ![c] = "start_open", ![n] = "entry"]
      BY <2>2 DEF StartWriter, StartThread, Step, Spawn
    <3>3. QED
      BY <1>3, <3>1, <3>2 DEF CallerPc
  <2>3. CASE ~StartReader(c) /\ ~StartWriter(c)
    <3>1. UNCHANGED overlapped /\ (UNCHANGED pc \/ \E to : pc' = [pc EXCEPT ![c] = to])
      BY <2>3
      DEF InitBegin, InitOpen, InitOpenFails, InitDone, TermBegin, TermDone, Close, OpenDriver,
          OpenDriverFails, CloseNotOpen, CloseBegin, CloseEnd, CloseFails, CloseReturns,
          BusStart, StartLockRead, StartOpen, StartDone, BusStop, StopLockRead,
          StopReader, ReaderStopped, StopWriter, StopWriterOffer, WriterStopped, StopDone,
          BeginSend, ContinueSend, SendAsync, SendLockRead, SendLockWrite, SendSucceeds,
          SendFails, SendRetries, Step, Throw, driverVars, busVars
    <3>2. QED
      BY <1>3, <3>1
  <2>4. QED
    BY <2>1, <2>2, <2>3

\* Frames keep their order between the HAL's thread and the listeners in every
\* step.
LEMMA StepReceives == TypeOK /\ ReceiveOrder /\ [Next]_vars => ReceiveOrder'
<1> SUFFICES ASSUME TypeOK, ReceiveOrder, [Next]_vars PROVE ReceiveOrder'
  OBVIOUS
<1>1. CASE UNCHANGED vars
  <2>1. /\ \A t \in Readers \cup {Hal} : pc'[t] = pc[t] /\ held'[t] = held[t]
        /\ UNCHANGED <<rQueue, nextRx, delivered, overlapped>>
    BY <1>1 DEF vars, driverVars, busVars
  <2>2. QED
    BY <2>1, ReceiveQuiet
<1>2. CASE Next
  BY <1>2, ReceiveByHal, ReceiveByReader, ReceiveByWriter, ReceiveByCaller
     DEF Next, Spontaneous, Progress, HalStep
<1>3. QED
  BY <1>1, <1>2

\* At first the only reader has nothing in hands and nothing is in the queue.
LEMMA InitReceives == Init => ReceiveOrder
<1> SUFFICES ASSUME Init PROVE ReceiveOrder
  OBVIOUS
<1>1. PICK r \in Readers, w \in Writers : \E created \in SUBSET {r, w} :
        pc = [t \in Threads |-> IF t \in created THEN "entry"
                                ELSE IF t \in Readers \cup Writers THEN "none" ELSE "idle"]
  <2>1. BusInit
    BY DEF Init
  <2>2. QED
    BY <2>1 DEF BusInit
<1>2. /\ pc[Hal] = "idle"
      /\ \A t \in Readers : pc[t] \in {"none", "entry"} /\ (pc[t] = "none" \/ t = r)
  BY <1>1, ThreadAssumption DEF Threads
<1>3. OneAlive(Readers) /\ Hands(Readers, "got") = {}
  BY <1>2 DEF OneAlive, Hands
<1>4. delivered = <<>> /\ rQueue = <<>> /\ Len(<<>>) = 0 /\ Elements(<<>>) = {}
  BY EmptySeq DEF Init, BusInit, DriverInit, Elements
<1>5. QED
  BY <1>2, <1>3, <1>4 DEF ReceiveOrder, Ordered, Before, Frames, Increasing, QueueOrdered

\* The listeners get frames in the order they were received and none twice, as
\* long as start() has never put a second reader beside a live one.
THEOREM ReceivedInOrder == Spec => []DeliveredInOrder
<1>1. ReceiveOrder => DeliveredInOrder
  BY DEF ReceiveOrder, DeliveredInOrder, Ordered
<1>2. QED
  BY <1>1, InitReceives, StepReceives, TypeCorrect, PTL DEF Spec

-----------------------------------------------------------------------------
(* From sendAsync to the HAL *)

SendOrder ==
  overlapped \cap Writers = {} =>
    OneAlive(Writers) /\ Ordered(written, Hands(Writers, "write"), wQueue, nextTx)

\* What the order of asynchronous frames is about is made of numbers.
LEMMA SendOrderTyped ==
  TypeOK => /\ written \in Seq(Nat) /\ wQueue \in Seq(Nat) /\ nextTx \in Nat
            /\ Hands(Writers, "write") \in SUBSET Nat
            /\ \A t \in Readers \cup Writers \cup {Hal} : held[t] \in Nat
  BY DEF TypeOK, DriverOK, BusOK, Hands

\* A step of somebody else, which may offer a sentinel or the next frame.
LEMMA SendQuiet ==
  ASSUME TypeOK, SendOrder,
         \A t \in Writers : pc'[t] = pc[t] /\ held'[t] = held[t],
         \/ wQueue' \in {wQueue, Enqueue(wQueue, Null, WCap)} /\ UNCHANGED nextTx
         \/ wQueue' = Enqueue(wQueue, nextTx, WCap) /\ nextTx' = nextTx + 1,
         UNCHANGED written,
         overlapped \cap Writers \subseteq overlapped'
  PROVE  SendOrder'
<1>1. Hands(Writers, "write")' = Hands(Writers, "write")
      /\ (OneAlive(Writers) => OneAlive(Writers)')
  BY SameHands
<1> SUFFICES ASSUME overlapped' \cap Writers = {}
             PROVE  OneAlive(Writers)'
                    /\ Ordered(written, Hands(Writers, "write")', wQueue', nextTx')
  BY DEF SendOrder
<1>2. OneAlive(Writers) /\ Ordered(written, Hands(Writers, "write"), wQueue, nextTx)
  BY DEF SendOrder
<1>3. Ordered(written, Hands(Writers, "write"), wQueue', nextTx')
  <2>1. Null \in Nat /\ nextTx <= nextTx /\ nextTx < nextTx + 1 /\ nextTx + 1 \in Nat
    BY SendOrderTyped DEF Null
  <2>2. Ordered(written, Hands(Writers, "write"), Enqueue(wQueue, Null, WCap), nextTx)
    BY <1>2, <2>1, OfferKeeps, SendOrderTyped
  <2>3. Ordered(written, Hands(Writers, "write"), Enqueue(wQueue, nextTx, WCap), nextTx + 1)
    BY <1>2, <2>1, OfferKeeps, SendOrderTyped
  <2>4. QED
    BY <1>2, <2>2, <2>3
<1>4. QED
  BY <1>1, <1>2, <1>3

\* A writer, alone in its pool: it takes the head of the queue, gives it to the
\* HAL or gives it up, and drains the queue when it stops.
LEMMA SendByWriter ==
  ASSUME TypeOK, SendOrder, NEW w \in Writers, WriterStep(w) \/ WriterPollNothing(w) \/ WriterDrainNothing(w)
  PROVE  SendOrder'
<1> USE ThreadAssumption DEF busVars, driverVars
<1> DEFINE Moves(from, to) == pc[w] = from /\ pc' = [pc EXCEPT ![w] = to]
<1>1. \/ Moves("write", "test") /\ UNCHANGED wQueue
         /\ written' \in {written, Append(written, held[w])}
      \/ /\ wQueue # <<>> /\ wQueue' = Tail(wQueue) /\ UNCHANGED written
         /\ \/ Moves("poll", IF Head(wQueue) = Null THEN "test" ELSE "write")
               /\ held' = [held EXCEPT ![w] = Head(wQueue)]
            \/ Moves("drainPoll", "drain")
      \/ /\ UNCHANGED <<wQueue, written>>
         /\ \E from, to \in WriterPc \ {"write"} : from # "none" /\ Moves(from, to)
  BY DEF WriterStep, WriterPollNothing, WriterDrainNothing, WriterEntry, WriterPoll, WriterWrite, WriterTest,
         WriterTestAgain, WriterDrainTest, WriterDrain, WriterExit, Step, WriterPc
<1>2. UNCHANGED <<nextTx, overlapped>>
  BY DEF WriterStep, WriterPollNothing, WriterDrainNothing, WriterEntry, WriterPoll, WriterWrite, WriterTest,
         WriterTestAgain, WriterDrainTest, WriterDrain, WriterExit
<1> SUFFICES ASSUME overlapped \cap Writers = {}
             PROVE  OneAlive(Writers)'
                    /\ Ordered(written', Hands(Writers, "write")', wQueue', nextTx)
  BY <1>2 DEF SendOrder
<1>3. OneAlive(Writers) /\ Ordered(written, Hands(Writers, "write"), wQueue, nextTx)
  BY DEF SendOrder
<1> HIDE DEF Moves
<1>4. ASSUME NEW f, NEW p, f # "none", Moves(f, p)
      PROVE  /\ OneAlive(Writers)'
             /\ Hands(Writers, "write") = IF f = "write" THEN {held[w]} ELSE {}
             /\ Hands(Writers, "write")' = IF p = "write" THEN {held'[w]} ELSE {}
  <2>1. Writers \in SUBSET (Readers \cup Writers) /\ OneAlive(Writers)
    BY <1>3
  <2>2. pc[w] # "none" /\ pc' = [pc EXCEPT ![w] = p] /\ "write" # "none"
    BY <1>4 DEF Moves
  <2>3. /\ Hands(Writers, "write") = IF pc[w] = "write" THEN {held[w]} ELSE {}
        /\ Hands(Writers, "write")' = IF p = "write" THEN {held'[w]} ELSE {}
        /\ OneAlive(Writers)'
    BY <2>1, <2>2, OnlyHands
  <2>4. QED
    BY <1>4, <2>3 DEF Moves
<1>5. CASE Moves("write", "test") /\ UNCHANGED wQueue
           /\ written' \in {written, Append(written, held[w])}
  <2>1. OneAlive(Writers)' /\ Hands(Writers, "write") = {held[w]}
        /\ Hands(Writers, "write")' = {}
    BY <1>4, <1>5
  <2>2. /\ Ordered(Append(written, held[w]), {}, wQueue, nextTx)
        /\ Ordered(written, {}, wQueue, nextTx)
    BY <1>3, <2>1, GiveKeeps, SendOrderTyped
  <2>3. QED
    BY <1>5, <2>1, <2>2
<1>6. CASE /\ wQueue # <<>> /\ wQueue' = Tail(wQueue) /\ UNCHANGED written
           /\ Moves("poll", IF Head(wQueue) = Null THEN "test" ELSE "write")
           /\ held' = [held EXCEPT ![w] = Head(wQueue)]
  <2>1. /\ OneAlive(Writers)' /\ Hands(Writers, "write") = {}
        /\ Hands(Writers, "write")' = IF Head(wQueue) = Null THEN {} ELSE {held'[w]}
    BY <1>4, <1>6
  <2>2. held'[w] = Head(wQueue)
    BY <1>6 DEF TypeOK, DriverOK
  <2>3. QED
    BY <1>3, <1>6, <2>1, <2>2, TakeKeeps, SendOrderTyped
<1>7. CASE /\ wQueue # <<>> /\ wQueue' = Tail(wQueue) /\ UNCHANGED written
           /\ Moves("drainPoll", "drain")
  <2>1. OneAlive(Writers)' /\ Hands(Writers, "write") = {} /\ Hands(Writers, "write")' = {}
    BY <1>4, <1>7
  <2>2. QED
    BY <1>3, <1>7, <2>1, TakeKeeps, SendOrderTyped
<1>8. CASE /\ UNCHANGED <<wQueue, written>>
           /\ \E f, p \in WriterPc \ {"write"} : f # "none" /\ Moves(f, p)
  <2>1. OneAlive(Writers)' /\ Hands(Writers, "write") = {} /\ Hands(Writers, "write")' = {}
    BY <1>4, <1>8
  <2>2. QED
    BY <1>3, <1>8, <2>1
<1>9. QED
  BY <1>1, <1>5, <1>6, <1>7, <1>8

\* A reader or the HAL's thread: it touches nothing on this way.
LEMMA SendByOthers ==
  ASSUME TypeOK, SendOrder, NEW r \in Readers \cup {Hal},
         \/ r \in Readers /\ ReaderStep(r)
         \/ r \in Readers /\ (ReadPollNothing(r) \/ FlushPollNothing(r)) /\ UNCHANGED busVars
         \/ r = Hal /\ (ReceiveCheck \/ ReceiveOffer) /\ UNCHANGED busVars
  PROVE  SendOrder'
<1>1. PICK to, h : /\ pc' = [pc EXCEPT ![r] = to]
                   /\ held' = held \/ held' = [held EXCEPT ![r] = h]
  BY DEF ReaderStep, Read, ReadPollNothing, ReaderEntry, ReaderLoop, ReaderNotify, ReaderExit,
         ReadCheck, ReadPoll, ReadBackToPoll, ReadEof, FlushTest, FlushPoll, FlushPollNothing,
         ReceiveCheck, ReceiveOffer, Step, driverVars
<1>2. UNCHANGED <<wQueue, nextTx, written, overlapped>>
  BY DEF ReaderStep, ReaderEntry, ReaderLoop, ReaderNotify, ReaderExit, busVars
<1>3. \A t \in Writers : pc'[t] = pc[t] /\ held'[t] = held[t]
  BY <1>1, ThreadAssumption DEF TypeOK, PcOK, DriverOK, Threads
<1>4. QED
  BY <1>2, <1>3, SendQuiet

\* A caller: it may queue the next frame or a sentinel, and a start may create
\* the only writer.
LEMMA SendByCaller ==
  ASSUME TypeOK, SendOrder, NEW c \in Callers, CallerBegins(c) \/ CallerContinues(c)
  PROVE  SendOrder'
<1> USE ThreadAssumption DEF libVars, CallerBegins, CallerContinues
<1>1. /\ UNCHANGED <<held, written>>
      /\ \/ wQueue' \in {wQueue, Enqueue(wQueue, Null, WCap)} /\ UNCHANGED nextTx
         \/ wQueue' = Enqueue(wQueue, nextTx, WCap) /\ nextTx' = nextTx + 1
  BY DEF InitBegin, InitOpen, InitOpenFails, InitDone, TermBegin, TermDone, Close, OpenDriver,
         OpenDriverFails, CloseNotOpen, CloseBegin, CloseEnd, CloseFails, BusStart,
         StartLockRead, StartReader, StartWriter, StartOpen, StartDone, BusStop, StopLockRead,
         StopReader, ReaderStopped, StopWriter, StopWriterOffer, WriterStopped, StopDone,
         BeginSend, ContinueSend, SendAsync, SendLockRead, SendLockWrite, SendSucceeds,
         SendFails, SendRetries, driverVars, busVars
<1>2. CASE /\ Spawn(Writers, c, "start_writer", "start_open") /\ UNCHANGED <<wQueue, nextTx>>
           /\ overlapped' = IF Live(Writers) = {} THEN overlapped ELSE overlapped \cup Writers
  <2>1. PICK n \in Writers : pc' = [pc EXCEPT ![c] = "start_open", ![n] = "entry"]
    BY <1>2 DEF Spawn
  <2>2. ASSUME overlapped' \cap Writers = {}
        PROVE  OneAlive(Writers)' /\ Ordered(written, Hands(Writers, "write"), wQueue, nextTx)'
    <3>1. Live(Writers) = {} /\ overlapped' = overlapped
      <4>1. overlapped' = overlapped \cup Writers => n \in overlapped' \cap Writers
        OBVIOUS
      <4>2. QED
        BY <1>2, <2>2, <4>1
    <3>2. Hands(Writers, "write") = {} /\ Hands(Writers, "write")' = {} /\ OneAlive(Writers)'
      <4>1. Writers \in SUBSET (Readers \cup Writers) /\ "write" \notin {"none", "entry"}
        OBVIOUS
      <4>2. QED
        BY <2>1, <3>1, <4>1, FirstHands
    <3>3. QED
      BY <1>1, <1>2, <2>2, <3>1, <3>2 DEF SendOrder
  <2>3. QED
    BY <2>2 DEF SendOrder
<1>3. CASE /\ \/ UNCHANGED pc
              \/ \E to : pc' = [pc EXCEPT ![c] = to]
              \/ \E to \in CallerPc, n \in Readers : pc' = [pc EXCEPT ![c] = to, ![n] = "entry"]
           /\ overlapped' \in {overlapped, overlapped \cup Readers, overlapped \cup Writers}
  <2>1. \A t \in Writers : pc'[t] = pc[t] /\ held'[t] = held[t]
    BY <1>1, <1>3 DEF TypeOK, PcOK, Threads
  <2>2. QED
    BY <1>1, <1>3, <2>1, SendQuiet
<1>4. QED
  <2>1. CASE StartWriter(c)
    BY <1>2, <1>3, <2>1 DEF StartWriter, StartThread, Step
  <2>2. CASE StartReader(c)
    <3>1. overlapped' \in {overlapped, overlapped \cup Readers}
      BY <2>2 DEF StartReader, StartThread
    <3>2. \/ pc' = [pc EXCEPT ![c] = "start_writer"]
          \/ \E n \in Readers : pc' = [pc EXCEPT ![c] = "start_writer", ![n] = "entry"]
      BY <2>2 DEF StartReader, StartThread, Step, Spawn
    <3>3. QED
      BY <1>3, <3>1, <3>2 DEF CallerPc
  <2>3. CASE ~StartReader(c) /\ ~StartWriter(c)
    <3>1. UNCHANGED overlapped /\ (UNCHANGED pc \/ \E to : pc' = [pc EXCEPT ![c] = to])
      BY <2>3
      DEF InitBegin, InitOpen, InitOpenFails, InitDone, TermBegin, TermDone, Close, OpenDriver,
          OpenDriverFails, CloseNotOpen, CloseBegin, CloseEnd, CloseFails, CloseReturns,
          BusStart, StartLockRead, StartOpen, StartDone, BusStop, StopLockRead,
          StopReader, ReaderStopped, StopWriter, StopWriterOffer, WriterStopped, StopDone,
          BeginSend, ContinueSend, SendAsync, SendLockRead, SendLockWrite, SendSucceeds,
          SendFails, SendRetries, Step, Throw, driverVars, busVars
    <3>2. QED
      BY <1>3, <3>1
  <2>4. QED
    BY <2>1, <2>2, <2>3

\* Frames keep their order between sendAsync and the HAL in every step.
LEMMA StepSends == TypeOK /\ SendOrder /\ [Next]_vars => SendOrder'
<1> SUFFICES ASSUME TypeOK, SendOrder, [Next]_vars PROVE SendOrder'
  OBVIOUS
<1>1. CASE UNCHANGED vars
  <2>1. /\ \A t \in Writers : pc'[t] = pc[t] /\ held'[t] = held[t]
        /\ UNCHANGED <<wQueue, nextTx, written, overlapped>>
    BY <1>1 DEF vars, driverVars, busVars
  <2>2. QED
    BY <2>1, SendQuiet
<1>2. CASE Next
  BY <1>2, SendByOthers, SendByWriter, SendByCaller
     DEF Next, Spontaneous, Progress, HalStep
<1>3. QED
  BY <1>1, <1>2

\* At first the only writer has nothing in hands and nothing is in the queue.
LEMMA InitSends == Init => SendOrder
<1> SUFFICES ASSUME Init PROVE SendOrder
  OBVIOUS
<1>1. PICK r \in Readers, w \in Writers : \E created \in SUBSET {r, w} :
        pc = [t \in Threads |-> IF t \in created THEN "entry"
                                ELSE IF t \in Readers \cup Writers THEN "none" ELSE "idle"]
  <2>1. BusInit
    BY DEF Init
  <2>2. QED
    BY <2>1 DEF BusInit
<1>2. \A t \in Writers : pc[t] \in {"none", "entry"} /\ (pc[t] = "none" \/ t = w)
  BY <1>1, ThreadAssumption DEF Threads
<1>3. OneAlive(Writers) /\ Hands(Writers, "write") = {}
  BY <1>2 DEF OneAlive, Hands
<1>4. written = <<>> /\ wQueue = <<>> /\ Len(<<>>) = 0 /\ Elements(<<>>) = {}
  BY EmptySeq DEF Init, BusInit, DriverInit, Elements
<1>5. QED
  BY <1>3, <1>4 DEF SendOrder, Ordered, Before, Frames, Increasing, QueueOrdered

\* The HAL is given asynchronous frames in the order of the sendAsync calls and
\* none twice, as long as start() has never put a second writer beside a live one.
THEOREM SentInOrder == Spec => []WrittenInOrder
<1>1. SendOrder => WrittenInOrder
  BY DEF SendOrder, WrittenInOrder, Ordered
<1>2. QED
  BY <1>1, InitSends, StepSends, TypeCorrect, PTL DEF Spec
=============================================================================
