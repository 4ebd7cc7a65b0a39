-------------------------------- MODULE Osal --------------------------------
(***************************************************************************)
(* The operating-system layer under the CEC library: threads, the          *)
(* recursive mutexes they hold across steps, and the Stoppable states.     *)
(*                                                                         *)
(* A thread is where its pc says.  A mutex has an owner; the code re-locks *)
(* a mutex it already owns only inside the section that owns it            *)
(* (Reader::stop and Writer::stop under Bus::stop, Bus::send under itself) *)
(* so such a lock and its unlock change nothing and have no step.          *)
(***************************************************************************)
EXTENDS Naturals, Sequences

CONSTANTS Callers,   \* application threads that call the library
          Readers,   \* threads that may run Bus::Reader::run
          Writers,   \* threads that may run Bus::Writer::run
          Hal,       \* the driver's thread that delivers received frames
          NoThread   \* owner of a free mutex

Threads == Callers \cup Readers \cup Writers \cup {Hal}

ASSUME ThreadAssumption ==
  /\ Callers \cap Readers = {} /\ Callers \cap Writers = {}
  /\ Readers \cap Writers = {} /\ Hal \notin Callers \cup Readers \cup Writers
  /\ NoThread \notin Threads

\* LibCCEC::mutex, Bus::rMutex, Bus::wMutex, DriverImpl::mutex
Mutexes == {"lib", "read", "write", "drv"}

StopStates == {"RUNNING", "STOPPING", "STOPPED"}

VARIABLES pc,      \* where each thread is
          owner    \* which thread holds each mutex

Step(t, from, to) == pc[t] = from /\ pc' = [pc EXCEPT ![t] = to]

Free(m) == owner[m] = NoThread

Lock(m, t) == Free(m) /\ owner' = [owner EXCEPT ![m] = t]

\* Leaving the scope of AutoLocks, normally or by an exception.
Unlock(t, ms) ==
  owner' = [m \in Mutexes |-> IF m \in ms /\ owner[m] = t THEN NoThread ELSE owner[m]]

\* An exception that no frame of the call catches: every AutoLock on the way
\* is destroyed and the caller is back in its own code.
Throw(t) == /\ pc' = [pc EXCEPT ![t] = "idle"]
            /\ Unlock(t, Mutexes)

\* Thread::start(): a detached thread begins to run the Runnable.  A thread
\* whose run() returned is gone and its identifier can be used again.
Spawn(pool, t, from, to) ==
  /\ pc[t] = from
  /\ \E n \in pool : /\ pc[n] = "none"
                     /\ pc' = [pc EXCEPT ![t] = to, ![n] = "entry"]

\* Stoppable
RunStarted(s) == IF s = "STOPPED" THEN "RUNNING" ELSE s
StopStarted(s) == IF s = "RUNNING" THEN "STOPPING" ELSE s
=============================================================================
