--------------------------------- MODULE Bus ---------------------------------
(***************************************************************************)
(* ccec/src/Bus.cpp: the reader and writer threads, start() and stop(),    *)
(* and the synchronous and asynchronous sends.                             *)
(*                                                                         *)
(* Bus::stop keeps rMutex and wMutex while it waits for both threads; the  *)
(* reader takes rMutex for each frame it hands to the listeners.  What a   *)
(* listener does with a frame is not part of this module: a notification   *)
(* is the entry of the frame in delivered.  Outgoing frames are positive   *)
(* integers in the order of the sendAsync calls.                           *)
(***************************************************************************)
EXTENDS DriverImpl

CONSTANTS WCap,       \* capacity of wQueue (32 in the code)
          MaxTx,      \* bound: frames given to sendAsync
          MaxRetry,   \* bound: timeout / 250 of a synchronous send
          SpawnFails  \* may pthread_create fail?

ASSUME BusAssumption == /\ WCap \in Nat \ {0} /\ MaxTx \in Nat /\ MaxRetry \in Nat
                        /\ SpawnFails \in BOOLEAN

VARIABLES started,    \* Bus::started
          rState,     \* Stoppable state of the reader
          wState,     \* Stoppable state of the writer
          wQueue,     \* Bus::wQueue, an EventQueue
          nextTx,     \* the next frame given to sendAsync
          retry,      \* what is left of retry in each caller's send
          delivered,  \* history: frames handed to the listeners
          written,    \* history: asynchronous frames the HAL was given
          overlapped  \* history: a thread was started beside a live one

busVars == <<started, rState, wState, wQueue, nextTx, retry, delivered, written, overlapped>>

\* Bus::Bus() has started both threads, which have not begun to run; the
\* driver is closed and nobody has called Bus::start.  A thread that could not
\* be created is missing, and its Stoppable says RUNNING all the same.
BusInit == /\ started = FALSE
           /\ rState = "RUNNING" /\ wState = "RUNNING"
           /\ wQueue = <<>>
           /\ nextTx = 1
           /\ retry = [c \in Callers |-> 0]
           /\ delivered = <<>> /\ written = <<>>
           /\ overlapped = {}
           /\ owner = [m \in Mutexes |-> NoThread]
           /\ \E r \in Readers, w \in Writers : \E created \in SUBSET {r, w} :
                /\ SpawnFails \/ created = {r, w}
                /\ pc = [t \in Threads |-> IF t \in created THEN "entry"
                                          ELSE IF t \in Readers \cup Writers
                                               THEN "none" ELSE "idle"]

Live(pool) == {t \in pool : pc[t] # "none"}

-----------------------------------------------------------------------------
(* Bus::Reader::run *)

ReaderEntry(r) == /\ Step(r, "entry", "loop")
                  /\ rState' = RunStarted(rState)
                  /\ UNCHANGED <<owner, driverVars, started, wState, wQueue, nextTx,
                                 retry, delivered, written, overlapped>>

ReaderLoop(r) == /\ Step(r, "loop", IF rState = "RUNNING" THEN "read" ELSE "exit")
                 /\ UNCHANGED <<owner, driverVars, busVars>>

ReaderNotify(r) == /\ Step(r, "got", "loop")
                   /\ Free("read")
                   /\ delivered' = Append(delivered, held[r])
                   /\ held' = [held EXCEPT ![r] = Null]
                   /\ UNCHANGED <<owner, status, rQueue, nextRx, crashed, started, rState,
                                  wState, wQueue, nextTx, retry, written, overlapped>>

ReaderExit(r) == /\ Step(r, "exit", "none")
                 /\ rState' = "STOPPED"
                 /\ UNCHANGED <<owner, driverVars, started, wState, wQueue, nextTx,
                                retry, delivered, written, overlapped>>

Read(r) == \/ ReadCheck(r) \/ ReadPoll(r)
           \/ ReadBackToPoll(r) \/ ReadEof(r)
           \/ FlushTest(r) \/ FlushPoll(r)

ReaderStep(r) == \/ ReaderEntry(r) \/ ReaderLoop(r) \/ ReaderNotify(r) \/ ReaderExit(r)
                 \/ Read(r) /\ UNCHANGED busVars

-----------------------------------------------------------------------------
(* Bus::Writer::run *)

WriterEntry(w) == /\ Step(w, "entry", "poll")
                  /\ wState' = RunStarted(wState)
                  /\ UNCHANGED <<owner, driverVars, started, rState, wQueue, nextTx,
                                 retry, delivered, written, overlapped>>

\* Variant: the front is written but stays in the queue.
WriterPollCopies(w) == /\ wQueue # <<>>
                       /\ Step(w, "poll", IF Head(wQueue) = Null THEN "test" ELSE "write")
                       /\ held' = [held EXCEPT ![w] = Head(wQueue)]
                       /\ UNCHANGED <<owner, status, rQueue, nextRx, crashed, busVars>>

\* A NULL makes the body throw, and the catch leads to the loop's test.
WriterPoll(w) == /\ wQueue # <<>>
                 /\ Step(w, "poll", IF Head(wQueue) = Null THEN "test" ELSE "write")
                 /\ wQueue' = Tail(wQueue)
                 /\ held' = [held EXCEPT ![w] = Head(wQueue)]
                 /\ UNCHANGED <<owner, status, rQueue, nextRx, crashed, started, rState,
                                wState, nextTx, retry, delivered, written, overlapped>>

WriterPollNothing(w) == /\ Step(w, "poll", "test")
                        /\ wQueue = <<>>
                        /\ UNCHANGED <<owner, driverVars, busVars>>

\* Whatever the HAL answers, the frame is deleted and the loop goes on.
WriterWrite(w) == /\ Step(w, "write", "test")
                  /\ \/ MayTransmit /\ written' = Append(written, held[w])
                     \/ MayNotTransmit /\ UNCHANGED written
                  /\ held' = [held EXCEPT ![w] = Null]
                  /\ UNCHANGED <<owner, status, rQueue, nextRx, crashed, started, rState,
                                 wState, wQueue, nextTx, retry, delivered, overlapped>>

WriterTest(w) == /\ Step(w, "test", IF wState = "RUNNING" THEN "poll" ELSE "testAgain")
                 /\ UNCHANGED <<owner, driverVars, busVars>>

\* Variant: the queue is not drained when the writer stops.
WriterTestAgainSkips(w) == /\ Step(w, "testAgain", "exit")
                           /\ UNCHANGED <<owner, driverVars, busVars>>

\* if (!isRunning()) { while (wQueue.size() > 0) ... }
WriterTestAgain(w) == /\ Step(w, "testAgain", IF wState = "RUNNING" THEN "exit" ELSE "drain")
                      /\ UNCHANGED <<owner, driverVars, busVars>>

WriterDrainTest(w) == /\ Step(w, "drain", IF wQueue = <<>> THEN "exit" ELSE "drainPoll")
                      /\ UNCHANGED <<owner, driverVars, busVars>>

WriterDrain(w) == /\ Step(w, "drainPoll", "drain")
                  /\ wQueue # <<>>
                  /\ wQueue' = Tail(wQueue)
                  /\ UNCHANGED <<owner, driverVars, started, rState, wState, nextTx,
                                 retry, delivered, written, overlapped>>

WriterDrainNothing(w) == /\ Step(w, "drainPoll", "drain")
                         /\ wQueue = <<>>
                         /\ UNCHANGED <<owner, driverVars, busVars>>

WriterExit(w) == /\ Step(w, "exit", "none")
                 /\ wState' = "STOPPED"
                 /\ UNCHANGED <<owner, driverVars, started, rState, wQueue, nextTx,
                                retry, delivered, written, overlapped>>

WriterStep(w) == \/ WriterEntry(w) \/ WriterPoll(w) \/ WriterWrite(w)
                 \/ WriterTest(w) \/ WriterTestAgain(w)
                 \/ WriterDrainTest(w) \/ WriterDrain(w) \/ WriterExit(w)

-----------------------------------------------------------------------------
(* Bus::start, from "start_r" to "started" *)

\* The thread is started only if the Stoppable says STOPPED, which it still
\* does while a thread of an earlier start has not yet run.
StartThread(c, state, pool, from, to) ==
  IF state = "STOPPED"
  THEN \/ /\ Spawn(pool, c, from, to)
          /\ overlapped' = IF Live(pool) = {} THEN overlapped ELSE overlapped \cup pool
       \/ /\ SpawnFails
          /\ Step(c, from, to)
          /\ UNCHANGED overlapped
  ELSE Step(c, from, to) /\ UNCHANGED overlapped

StartLockRead(c) == /\ Step(c, "start_r", "start_w")
                    /\ Lock("read", c)
                    /\ UNCHANGED <<driverVars, busVars>>

StartReader(c) == /\ StartThread(c, rState, Readers, "start_w", "start_writer")
                  /\ Lock("write", c)
                  /\ UNCHANGED <<driverVars, started, rState, wState, wQueue, nextTx,
                                 retry, delivered, written>>

StartWriter(c) == /\ StartThread(c, wState, Writers, "start_writer", "start_open")
                  /\ UNCHANGED <<owner, driverVars, started, rState, wState, wQueue,
                                 nextTx, retry, delivered, written>>

StartOpen(c) == /\ OpenDriver(c, "start_open", "start_done")
                /\ UNCHANGED <<owner, busVars>>

StartDone(c) == /\ Step(c, "start_done", "started")
                /\ started' = TRUE
                /\ Unlock(c, {"read", "write"})
                /\ UNCHANGED <<driverVars, rState, wState, wQueue, nextTx, retry,
                               delivered, written, overlapped>>

BusStart(c) == \/ StartLockRead(c) \/ StartReader(c) \/ StartWriter(c)
               \/ StartOpen(c) \/ StartDone(c)

-----------------------------------------------------------------------------
(* Bus::stop, from "stop_r" to "stopped" *)

StopLockRead(c) == /\ Step(c, "stop_r", "stop_w")
                   /\ Lock("read", c)
                   /\ UNCHANGED <<driverVars, busVars>>

\* Variant: started is left as it was.
StopReaderStarted(c) == /\ Step(c, "stop_w", "rstop_close")
                        /\ Lock("write", c)
                        /\ rState' = StopStarted(rState)
                        /\ UNCHANGED <<driverVars, started, wState, wQueue, nextTx, retry,
                                       delivered, written, overlapped>>

\* started = false, and stopStarted() of the reader.
StopReader(c) == /\ Step(c, "stop_w", "rstop_close")
                 /\ Lock("write", c)
                 /\ started' = FALSE
                 /\ rState' = StopStarted(rState)
                 /\ UNCHANGED <<driverVars, wState, wQueue, nextTx, retry,
                                delivered, written, overlapped>>

\* while (!isStopped()) usleep(...)
ReaderStopped(c) == /\ Step(c, "rstop_wait", "wstop")
                    /\ rState = "STOPPED"
                    /\ UNCHANGED <<owner, driverVars, busVars>>

StopWriter(c) == /\ Step(c, "wstop", IF wState = "RUNNING" THEN "wstop_offer" ELSE "wstop_wait")
                 /\ wState' = StopStarted(wState)
                 /\ UNCHANGED <<owner, driverVars, started, rState, wQueue, nextTx, retry,
                                delivered, written, overlapped>>

StopWriterOffer(c) == /\ Step(c, "wstop_offer", "wstop_wait")
                      /\ wQueue' = Enqueue(wQueue, Null, WCap)
                      /\ UNCHANGED <<owner, driverVars, started, rState, wState, nextTx,
                                     retry, delivered, written, overlapped>>

WriterStopped(c) == /\ Step(c, "wstop_wait", "stop_close")
                    /\ wState = "STOPPED"
                    /\ UNCHANGED <<owner, driverVars, busVars>>

StopDone(c) == /\ Step(c, "stop_done", "stopped")
               /\ Unlock(c, {"read", "write"})
               /\ UNCHANGED <<driverVars, busVars>>

BusStop(c) == \/ StopLockRead(c) \/ StopReader(c) \/ ReaderStopped(c)
              \/ StopWriter(c) \/ StopWriterOffer(c) \/ WriterStopped(c)
              \/ StopDone(c)

-----------------------------------------------------------------------------
(* Sending *)

\* A full wQueue drops the copy and the caller is not told.
SendAsync(c) == /\ pc[c] = "idle"
                /\ nextTx <= MaxTx
                /\ Free("write") /\ started
                /\ wQueue' = Enqueue(wQueue, nextTx, WCap)
                /\ nextTx' = nextTx + 1
                /\ UNCHANGED <<pc, owner, driverVars, started, rState, wState, retry,
                               delivered, written, overlapped>>

\* Bus::send, and Bus::poll and Bus::ping, which are sends of a header with
\* no retry.  n is timeout / 250; a timeout of zero or less has n = 0 too.
\* The block of Bus::send that is not for this timeout takes both mutexes and
\* gives them back, which changes nothing.
SendLockRead(c) == /\ Step(c, "idle", "send_w")
                   /\ Lock("read", c)
                   /\ \E n \in 0 .. MaxRetry : retry' = [retry EXCEPT ![c] = n]
                   /\ UNCHANGED <<driverVars, started, rState, wState, wQueue, nextTx,
                                  delivered, written, overlapped>>

SendLockWrite(c) == /\ Step(c, "send_w", "send_try")
                    /\ Lock("write", c)
                    /\ UNCHANGED <<driverVars, busVars>>

\* The HAL took the frame: the loop ends whatever was left of retry.
SendSucceeds(c) == /\ Step(c, "send_try", "idle")
                   /\ started /\ MayTransmit
                   /\ Unlock(c, {"read", "write"})
                   /\ retry' = [retry EXCEPT ![c] = 0]
                   /\ UNCHANGED <<driverVars, started, rState, wState, wQueue, nextTx,
                                  delivered, written, overlapped>>

\* Bus not started, driver not open, or a HAL error or missing ACK; the wait
\* for the next attempt keeps both mutexes.
AttemptFails(c) == pc[c] = "send_try" /\ (started => Free("drv"))

SendFails(c) == /\ AttemptFails(c) /\ retry[c] = 0
                /\ Throw(c)
                /\ UNCHANGED <<driverVars, busVars>>

\* Variant: the mutexes are given back for the wait and not taken again.
SendRetriesUnlocked(c) == /\ AttemptFails(c) /\ retry[c] > 0
                          /\ retry' = [retry EXCEPT ![c] = @ - 1]
                          /\ Unlock(c, {"read", "write"})
                          /\ UNCHANGED <<pc, driverVars, started, rState, wState, wQueue,
                                         nextTx, delivered, written, overlapped>>

SendRetries(c) == /\ AttemptFails(c) /\ retry[c] > 0
                  /\ retry' = [retry EXCEPT ![c] = @ - 1]
                  /\ UNCHANGED <<pc, owner, driverVars, started, rState, wState, wQueue,
                                 nextTx, delivered, written, overlapped>>

BeginSend(c) == SendLockRead(c)

ContinueSend(c) == SendLockWrite(c) \/ SendSucceeds(c) \/ SendFails(c) \/ SendRetries(c)
=============================================================================
