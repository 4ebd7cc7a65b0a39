----------------------------- MODULE DriverImpl -----------------------------
(***************************************************************************)
(* ccec/src/DriverImpl.cpp: opening and closing the HAL, the receive       *)
(* callback on the HAL's thread, read() and write().                       *)
(*                                                                         *)
(* close() holds the driver mutex over its call of the HAL, but two        *)
(* parties do not take that mutex: the receive callback, which tests       *)
(* status and later offers to rQueue, and the reader, which polls rQueue.  *)
(* Frames are the positive integers in the order the HAL received them;    *)
(* zero is the NULL pointer used as sentinel.                              *)
(***************************************************************************)
EXTENDS Osal, Queues

CONSTANTS RCap,          \* capacity of rQueue (32 in the code)
          MaxRx,         \* bound: frames the HAL receives
          HalCloseFails, \* may HdmiCecClose report an error?
          HalOpenFails   \* may HdmiCecOpen report an error?

ASSUME DriverAssumption == /\ RCap \in Nat \ {0} /\ MaxRx \in Nat
                           /\ HalCloseFails \in BOOLEAN /\ HalOpenFails \in BOOLEAN

Null == 0

VARIABLES status,   \* DriverImpl::status
          rQueue,   \* DriverImpl::rQueue, an EventQueue
          held,     \* the frame a thread has in a local variable
          nextRx,   \* the next frame the HAL receives
          crashed   \* a NULL pointer was dereferenced

driverVars == <<status, rQueue, held, nextRx, crashed>>

DriverInit == /\ status = "CLOSED"
              /\ rQueue = <<>>
              /\ held = [t \in Readers \cup Writers \cup {Hal} |-> Null]
              /\ nextRx = 1
              /\ crashed = FALSE

-----------------------------------------------------------------------------
(* open() and close(), called from the places in OpenSites and CloseSites *)

\* Variant: open() does not look at status.
OpenDriverAnyStatus(t, from, to) ==
  /\ Step(t, from, to)
  /\ Free("drv")
  /\ status' = "OPENED"
  /\ UNCHANGED <<rQueue, held, nextRx, crashed>>

\* A status other than CLOSED makes open() return as if it had succeeded.
OpenDriver(t, from, to) ==
  /\ Step(t, from, to)
  /\ Free("drv")
  /\ status' = IF status = "CLOSED" THEN "OPENED" ELSE status
  /\ UNCHANGED <<rQueue, held, nextRx, crashed>>

\* HdmiCecOpen fails: IOException.
OpenDriverFails(t, sites) ==
  /\ pc[t] \in sites
  /\ HalOpenFails /\ Free("drv") /\ status = "CLOSED"
  /\ Throw(t)
  /\ UNCHANGED driverVars

CloseReturns(t, next) == pc' = [pc EXCEPT ![t] = next[pc[t]]]

CloseNotOpen(t, next) ==
  /\ pc[t] \in DOMAIN next
  /\ Free("drv") /\ status # "OPENED"
  /\ CloseReturns(t, next)
  /\ UNCHANGED <<owner, driverVars>>

\* Variant: the sentinel is forgotten.
CloseBeginSilent(t, next) ==
  /\ pc[t] \in DOMAIN next
  /\ status = "OPENED"
  /\ Lock("drv", t)
  /\ status' = "CLOSING"
  /\ UNCHANGED <<pc, rQueue, held, nextRx, crashed>>

\* The sentinel is queued and the mutex is kept over HdmiCecClose.
CloseBegin(t, next) ==
  /\ pc[t] \in DOMAIN next
  /\ status = "OPENED"
  /\ Lock("drv", t)
  /\ status' = "CLOSING"
  /\ rQueue' = Enqueue(rQueue, Null, RCap)
  /\ UNCHANGED <<pc, held, nextRx, crashed>>

CloseEnd(t, next) ==
  /\ pc[t] \in DOMAIN next
  /\ owner["drv"] = t
  /\ status' = "CLOSED"
  /\ Unlock(t, {"drv"})
  /\ CloseReturns(t, next)
  /\ UNCHANGED <<rQueue, held, nextRx, crashed>>

\* HdmiCecClose fails: IOException, and status stays CLOSING.
CloseFails(t, next) ==
  /\ pc[t] \in DOMAIN next
  /\ HalCloseFails /\ owner["drv"] = t
  /\ Throw(t)
  /\ UNCHANGED driverVars

-----------------------------------------------------------------------------
(* DriverReceiveCallback, on the HAL's thread *)

\* getIncomingQueue() tests status without the mutex.  A frame that arrives
\* in any other status is discarded and changes nothing.
ReceiveCheck == /\ Step(Hal, "idle", "offer")
                /\ nextRx <= MaxRx
                /\ status = "OPENED"
                /\ held' = [held EXCEPT ![Hal] = nextRx]
                /\ nextRx' = nextRx + 1
                /\ UNCHANGED <<owner, status, rQueue, crashed>>

ReceiveOffer == /\ Step(Hal, "offer", "idle")
                /\ rQueue' = Enqueue(rQueue, held[Hal], RCap)
                /\ held' = [held EXCEPT ![Hal] = Null]
                /\ UNCHANGED <<owner, status, nextRx, crashed>>

-----------------------------------------------------------------------------
(* read(), called by a reader thread at "read"; it returns a frame by      *)
(* going to "got" and throws InvalidStateException by going to "loop".     *)

ReadCheck(r) == /\ Step(r, "read", IF status = "OPENED" THEN "poll" ELSE "loop")
                /\ Free("drv")
                /\ UNCHANGED <<owner, driverVars>>

ReadPoll(r) == /\ rQueue # <<>>
               /\ Step(r, "poll", IF Head(rQueue) = Null THEN "eof" ELSE "got")
               /\ rQueue' = Tail(rQueue)
               /\ held' = [held EXCEPT ![r] = Head(rQueue)]
               /\ UNCHANGED <<owner, status, nextRx, crashed>>

\* A poll that was woken and found nothing returns NULL.
ReadPollNothing(r) == /\ Step(r, "poll", "eof")
                      /\ rQueue = <<>>
                      /\ UNCHANGED <<owner, driverVars>>

ReadBackToPoll(r) == /\ Step(r, "eof", "poll")
                     /\ Free("drv") /\ status = "OPENED"
                     /\ UNCHANGED <<owner, driverVars>>

ReadEof(r) == /\ Step(r, "eof", "flush")
              /\ status # "OPENED"
              /\ Lock("drv", r)
              /\ UNCHANGED driverVars

\* while (rQueue.size() > 0) ...
FlushTest(r) == /\ Step(r, "flush", IF rQueue = <<>> THEN "loop" ELSE "flushPoll")
                /\ IF rQueue = <<>> THEN Unlock(r, {"drv"}) ELSE UNCHANGED owner
                /\ UNCHANGED driverVars

\* ... { inFrame = rQueue.poll(); frame = *inFrame; delete inFrame; }
FlushPoll(r) == /\ rQueue # <<>>
                /\ Step(r, "flushPoll", "flush")
                /\ crashed' = (Head(rQueue) = Null)
                /\ rQueue' = Tail(rQueue)
                /\ UNCHANGED <<owner, status, held, nextRx>>

\* Another reader emptied the queue after the test, and poll() is woken with
\* nothing to take: it returns NULL.
FlushPollNothing(r) == /\ Step(r, "flushPoll", "flush")
                       /\ rQueue = <<>>
                       /\ crashed' = TRUE
                       /\ UNCHANGED <<owner, status, rQueue, held, nextRx>>

-----------------------------------------------------------------------------
(* write(): a frame reaches the HAL only while the driver is open. *)

MayTransmit == Free("drv") /\ status = "OPENED"
MayNotTransmit == Free("drv") /\ status # "OPENED"
=============================================================================
