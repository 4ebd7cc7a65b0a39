------------------------------- MODULE LibCCEC -------------------------------
(***************************************************************************)
(* ccec/src/LibCCEC.cpp: init() and term() over the driver and the bus,    *)
(* and the whole of the library's threads as one specification.            *)
(***************************************************************************)
EXTENDS Bus

CONSTANT MaxInit   \* bound: calls of init() that pass its first test

ASSUME LibAssumption == MaxInit \in Nat

VARIABLES initialized,  \* LibCCEC::initialized
          inits         \* how often init() was begun

libVars == <<initialized, inits>>
vars == <<pc, owner, driverVars, busVars, libVars>>

Init == /\ DriverInit
        /\ BusInit
        /\ initialized = FALSE
        /\ inits = 0

-----------------------------------------------------------------------------
(* init().  A call that finds the library initialized throws at once and   *)
(* changes nothing; so does term() when it is not.                         *)

InitBegin(c) == /\ Step(c, "idle", "init_open")
                /\ Lock("lib", c)
                /\ ~initialized
                /\ inits < MaxInit
                /\ inits' = inits + 1
                /\ UNCHANGED <<driverVars, busVars, initialized>>

InitOpen(c) == /\ OpenDriver(c, "init_open", "start_r")
               /\ UNCHANGED <<owner, busVars, libVars>>

InitOpenFails(c) == /\ OpenDriverFails(c, {"init_open", "start_open"})
                    /\ UNCHANGED <<busVars, libVars>>

InitDone(c) == /\ Step(c, "started", "idle")
               /\ initialized' = TRUE
               /\ Unlock(c, {"lib"})
               /\ UNCHANGED <<driverVars, busVars, inits>>

-----------------------------------------------------------------------------
(* term(): Bus::stop, then Driver::close once more. *)

TermBegin(c) == /\ Step(c, "idle", "stop_r")
                /\ Lock("lib", c)
                /\ initialized
                /\ UNCHANGED <<driverVars, busVars, libVars>>

\* The three calls of Driver::close on the way, and where each returns to.
CloseSites == [rstop_close |-> "rstop_wait",
               stop_close  |-> "stop_done",
               stopped     |-> "term_done"]

Close(c) == /\ \/ CloseNotOpen(c, CloseSites)
               \/ CloseBegin(c, CloseSites)
               \/ CloseEnd(c, CloseSites)
               \/ CloseFails(c, CloseSites)
            /\ UNCHANGED <<busVars, libVars>>

TermDone(c) == /\ Step(c, "term_done", "idle")
               /\ initialized' = FALSE
               /\ Unlock(c, {"lib"})
               /\ UNCHANGED <<driverVars, busVars, inits>>

-----------------------------------------------------------------------------

\* What a caller does of its own accord ...
CallerBegins(c) == \/ InitBegin(c) \/ TermBegin(c)
                   \/ (SendAsync(c) \/ BeginSend(c)) /\ UNCHANGED libVars

\* ... and what it must go on to do inside a call.
CallerContinues(c) ==
  \/ InitOpen(c) \/ InitOpenFails(c) \/ InitDone(c)
  \/ Close(c) \/ TermDone(c)
  \/ (BusStart(c) \/ BusStop(c) \/ ContinueSend(c)) /\ UNCHANGED libVars

HalStep == ReceiveOffer /\ UNCHANGED <<busVars, libVars>>

Progress(t) == \/ t \in Callers /\ CallerContinues(t)
               \/ t \in Readers /\ ReaderStep(t) /\ UNCHANGED libVars
               \/ t \in Writers /\ WriterStep(t) /\ UNCHANGED libVars
               \/ t = Hal /\ HalStep

\* Steps that nothing obliges anybody to take.
Spontaneous ==
  \/ \E c \in Callers : CallerBegins(c)
  \/ ReceiveCheck /\ UNCHANGED <<busVars, libVars>>
  \/ \E r \in Readers : /\ ReadPollNothing(r) \/ FlushPollNothing(r)
                        /\ UNCHANGED <<busVars, libVars>>
  \/ \E w \in Writers : /\ WriterPollNothing(w) \/ WriterDrainNothing(w)
                        /\ UNCHANGED libVars

\* A NULL dereference ends the process.
Next == ~crashed /\ (Spontaneous \/ \E t \in Threads : Progress(t))

Spec == Init /\ [][Next]_vars

\* Every thread that has something to do, and is not kept from it by a mutex
\* or an empty queue, goes on to do it.
FairSpec == Spec /\ \A t \in Threads : WF_vars(~crashed /\ Progress(t))

-----------------------------------------------------------------------------
(* Properties *)

CallerPc == {"idle", "init_open", "start_r", "start_w", "start_writer", "start_open",
             "start_done", "started", "stop_r", "stop_w", "rstop_close", "rstop_wait",
             "wstop", "wstop_offer", "wstop_wait", "stop_close", "stop_done", "stopped",
             "term_done", "send_w", "send_try"}
ReaderPc == {"none", "entry", "loop", "read", "poll", "eof", "flush", "flushPoll",
             "got", "exit"}
WriterPc == {"none", "entry", "poll", "write", "test", "testAgain", "drain",
             "drainPoll", "exit"}
HalPc == {"idle", "offer"}

PcOK == /\ pc \in [Threads -> CallerPc \cup ReaderPc \cup WriterPc \cup HalPc]
        /\ \A c \in Callers : pc[c] \in CallerPc
        /\ \A r \in Readers : pc[r] \in ReaderPc
        /\ \A w \in Writers : pc[w] \in WriterPc
        /\ pc[Hal] \in HalPc

OwnerOK == owner \in [Mutexes -> Threads \cup {NoThread}]

DriverOK == /\ status \in {"CLOSED", "CLOSING", "OPENED"}
            /\ rQueue \in Seq(Nat) /\ Len(rQueue) <= RCap
            /\ held \in [Readers \cup Writers \cup {Hal} -> Nat]
            /\ nextRx \in Nat /\ crashed \in BOOLEAN

BusOK == /\ started \in BOOLEAN
         /\ rState \in StopStates /\ wState \in StopStates
         /\ wQueue \in Seq(Nat) /\ Len(wQueue) <= WCap
         /\ nextTx \in Nat /\ retry \in [Callers -> Nat]
         /\ delivered \in Seq(Nat) /\ written \in Seq(Nat)
         /\ overlapped \subseteq Readers \cup Writers

\* Every variable stays in its type, and both queues within their capacity.
TypeOK == /\ PcOK /\ OwnerOK /\ DriverOK /\ BusOK
          /\ initialized \in BOOLEAN /\ inits \in Nat

\* Library, bus and driver agree whenever no init() or term() is under way:
\* all up or all down, through every interleaving with senders and with the
\* threads, unless an HdmiCecClose that failed left the driver CLOSING.
LifecycleAgrees ==
  Free("lib") => \/ initialized /\ started /\ status = "OPENED"
                 \/ ~initialized /\ ~started /\ status = "CLOSED"
                 \/ (started => initialized) /\ status = "CLOSING"

\* A synchronous send that is in its retry loop never has the driver closed,
\* nor the bus stopped, under it, whatever term() another thread calls.
SendKeepsBus ==
  [][\A c \in Callers : pc[c] = "send_try" =>
       /\ started' = started
       /\ status = "OPENED" => status' = "OPENED"]_vars

Increasing(s) == \A i, j \in 1 .. Len(s) : i < j => s[i] < s[j]

\* The listeners get frames in the order they were received and none twice,
\* across stops, restarts and lost sentinels, as long as start() has never
\* put a second reader beside a live one.
DeliveredInOrder == overlapped \cap Readers = {} => Increasing(delivered)

\* The HAL is given asynchronous frames in the order of the sendAsync calls
\* and none twice, under the same condition on writers.
WrittenInOrder == overlapped \cap Writers = {} => Increasing(written)

\* A stop() that waits for a thread ends unless the thread never was, since
\* pthread_create failed in Bus::Bus() (Bus.cpp:73 and :74), where the state is
\* RUNNING all the same; or, for the reader, it has taken a frame and wants
\* rMutex, which stop() holds; or, for either, it was created before the stop,
\* began to run only now and set the state back to RUNNING.  In particular no
\* sentinel is lost that a blocked poll() needs.
StopHangsOnlyByRace ==
  \A c \in Callers :
    /\ pc[c] = "rstop_wait" /\ (rState = "STOPPED" \/ Live(Readers) # {})
         ~> \/ pc[c] # "rstop_wait" \/ crashed
            \/ rState = "RUNNING" \/ \E r \in Readers : pc[r] = "got"
    /\ pc[c] = "wstop_wait" /\ (wState = "STOPPED" \/ Live(Writers) # {})
         ~> \/ pc[c] # "wstop_wait" \/ crashed
            \/ wState = "RUNNING"

\* A frame that sendAsync has queued leaves the queue, to be transmitted or
\* discarded, even while a stop() hangs: the writer never blocks behind it and
\* does not go before it.  A bus whose writer could not be created keeps it
\* until there is one.
AsyncLeavesQueue ==
  \A f \in 1 .. MaxTx :
    (Live(Writers) # {} /\ \E i \in 1 .. Len(wQueue) : wQueue[i] = f) ~>
      (crashed \/ \A i \in 1 .. Len(wQueue) : wQueue[i] # f)

-----------------------------------------------------------------------------
(* The library as its users see it *)

\* A driver is lost when HdmiCecClose failed; while the close is under way it
\* still counts as open.
DriverSeen == CASE status = "CLOSED" -> "closed"
                [] \/ status = "OPENED"
                   \/ status = "CLOSING" /\ owner["drv"] \in Callers -> "open"
                [] OTHER -> "lost"

Library == INSTANCE CecLibrary WITH driver <- DriverSeen

\* Over all interleavings of init(), term(), the receiving thread, the reader
\* and the writer, with calls of the HAL and of pthread_create that fail, the
\* library is seen as nothing but CecLibrary: no driver is opened twice or
\* closed behind an init(), and term() leaves none open.
ImplementsLibrary == Library!Spec

-----------------------------------------------------------------------------
(* What comments of the code say and the code does not do *)

\* Bus.cpp:101, "This function stops the reader & writer threads": a stop()
\* that waits for a thread comes to an end.
StopCompletes ==
  \A c \in Callers : pc[c] \in {"rstop_wait", "wstop_wait"} ~> (pc[c] = "idle" \/ crashed)

\* DriverImpl.cpp:134 and :169: the NULL in the queue is a sentinel and the
\* flush deletes frames; the flush never takes a sentinel for a frame.
FlushTakesOnlyFrames == ~crashed
=============================================================================
