----------------------------- MODULE EventQueue -----------------------------
(***************************************************************************)
(* osal/include/osal/EventQueue.hpp with the ConditionVariable it waits on *)
(* (osal/src/ConditionVariable.cpp).                                       *)
(*                                                                         *)
(* The queue mutex and the condition variable's own mutex are different    *)
(* mutexes, and poll() waits on the second without holding the first.  So  *)
(* the waiter sees the condition flag at every intermediate state of a     *)
(* critical section of the queue: each of the calls that one makes on the  *)
(* condition variable is an action.  The condition variable's operations   *)
(* are atomic (its mutex is held throughout and nothing else is taken).    *)
(***************************************************************************)
EXTENDS Naturals, Sequences

CONSTANTS Elements,   \* what producers offer (the NULL sentinel included)
          Producers, Consumers,
          Default,    \* ET(), the value of a poll that finds nothing
          Cap,        \* capacity of the queue
          NoThread    \* the queue mutex is free

ASSUME CapAssumption == Cap \in Nat \ {0}
ASSUME ThreadAssumption == /\ Producers \cap Consumers = {}
                           /\ NoThread \notin Producers \cup Consumers

VARIABLES events,     \* std::deque<E> *events
          taken,      \* what each consumer's last poll returned
          condSet,    \* the Condition flag of cond
          mutex,      \* owner of the queue mutex
          pc          \* where each thread is

vars == <<events, taken, condSet, mutex, pc>>

Threads == Producers \cup Consumers

Init == /\ events = <<>>
        /\ taken = [c \in Consumers |-> Default]
        /\ condSet = FALSE
        /\ mutex = NoThread
        /\ pc = [t \in Threads |-> "idle"]

Goto(t, from, to) == pc[t] = from /\ pc' = [pc EXCEPT ![t] = to]

Acquire(t) == mutex = NoThread /\ mutex' = t
Release == mutex' = NoThread

\* Broadcast: every thread inside pthread_cond_wait is released and will
\* go on to take the queue mutex.
WakeAll(p, to) ==
  [t \in Threads |-> IF t = p THEN to
                     ELSE IF pc[t] = "asleep" THEN "woken" ELSE pc[t]]

-----------------------------------------------------------------------------
(* offer(element) *)

\* The queue is full: the TODO at EventQueue.hpp:171 does nothing and
\* offer() returns as if it had succeeded.
OfferFull(p) == /\ pc[p] = "idle"
                /\ mutex = NoThread
                /\ Len(events) = Cap
                /\ UNCHANGED <<events, taken, condSet, mutex, pc>>

\* Variant: the capacity test is left out.
OfferPushUnbounded(p, e) == /\ Goto(p, "idle", "set")
                            /\ Acquire(p)
                            /\ events' = Append(events, e)
                            /\ UNCHANGED <<taken, condSet>>

OfferPush(p, e) == /\ Goto(p, "idle", "set")
                   /\ Acquire(p)
                   /\ Len(events) # Cap
                   /\ events' = Append(events, e)
                   /\ UNCHANGED <<taken, condSet>>

OfferSet(p) == /\ Goto(p, "set", "notify")
               /\ condSet' = TRUE
               /\ UNCHANGED <<events, taken, mutex>>

\* Variant: the flag is set and nobody is woken.
OfferNotifyNobody(p) == /\ Goto(p, "notify", "idle")
                        /\ condSet' = TRUE
                        /\ Release
                        /\ UNCHANGED <<events, taken>>

\* notifyAll() sets the flag again and broadcasts; then the lock goes.
OfferNotify(p) == /\ pc[p] = "notify"
                  /\ condSet' = TRUE
                  /\ pc' = WakeAll(p, "idle")
                  /\ Release
                  /\ UNCHANGED <<events, taken>>

-----------------------------------------------------------------------------
(* poll() *)

\* cond.wait(): one test of the flag and at most one pthread_cond_wait.
WaitAtOnce(c) == /\ Goto(c, "idle", "woken")
                 /\ condSet
                 /\ UNCHANGED <<events, taken, condSet, mutex>>

WaitSleep(c) == /\ Goto(c, "idle", "asleep")
                /\ ~condSet
                /\ UNCHANGED <<events, taken, condSet, mutex>>

\* POSIX lets pthread_cond_wait return with nobody having signalled, and
\* ConditionVariable::wait does not test the flag again.
SpuriousWake(c) == /\ Goto(c, "asleep", "woken")
                   /\ UNCHANGED <<events, taken, condSet, mutex>>

\* Woken, but another consumer was faster (or nobody had signalled).
PollDefault(c) == /\ Goto(c, "woken", "idle")
                  /\ mutex = NoThread
                  /\ ~condSet \/ events = <<>>
                  /\ taken' = [taken EXCEPT ![c] = Default]
                  /\ UNCHANGED <<events, condSet, mutex>>

PollPop(c) == /\ Goto(c, "woken", "popped")
              /\ Acquire(c)
              /\ condSet /\ events # <<>>
              /\ taken' = [taken EXCEPT ![c] = Head(events)]
              /\ events' = Tail(events)
              /\ UNCHANGED condSet

\* Variants: the flag is never reset, or after every pop.
PollResetNever(c) == /\ Goto(c, "popped", "idle")
                     /\ Release
                     /\ UNCHANGED <<events, taken, condSet>>

PollResetAlways(c) == /\ Goto(c, "popped", "idle")
                      /\ condSet' = FALSE
                      /\ Release
                      /\ UNCHANGED <<events, taken>>

\* The flag is reset when the last element went; the lock goes.
PollReset(c) == /\ Goto(c, "popped", "idle")
                /\ condSet' = (condSet /\ events # <<>>)
                /\ Release
                /\ UNCHANGED <<events, taken>>

-----------------------------------------------------------------------------

OfferStep(p) == \/ OfferFull(p)
                \/ \E e \in Elements : OfferPush(p, e)
                \/ OfferSet(p)
                \/ OfferNotify(p)

PollStep(c) == \/ WaitAtOnce(c)
               \/ WaitSleep(c)
               \/ PollDefault(c)
               \/ PollPop(c)
               \/ PollReset(c)

Next == \/ \E p \in Producers : OfferStep(p)
        \/ \E c \in Consumers : PollStep(c) \/ SpuriousWake(c)

Spec == Init /\ [][Next]_vars

\* The readers and writers that poll do so in a loop, so a consumer keeps
\* taking steps, and a producer that holds the mutex goes on to release it.
\* Nothing makes a producer offer, or a wake-up happen without a signal.
FairSpec == /\ Spec
            /\ \A p \in Producers : WF_vars(OfferSet(p) \/ OfferNotify(p))
            /\ \A c \in Consumers : WF_vars(PollStep(c))

-----------------------------------------------------------------------------
(* Properties *)

ConsumerPc == {"idle", "asleep", "woken", "popped"}
ProducerPc == {"idle", "set", "notify"}

\* Every variable stays in its type and the queue within its capacity.
TypeOK == /\ events \in Seq(Elements) /\ Len(events) <= Cap
          /\ taken \in [Consumers -> Elements \cup {Default}]
          /\ condSet \in BOOLEAN
          /\ mutex \in Threads \cup {NoThread}
          /\ pc \in [Threads -> ConsumerPc \cup ProducerPc]
          /\ \A p \in Producers : pc[p] \in ProducerPc
          /\ \A c \in Consumers : pc[c] \in ConsumerPc

\* Outside the critical sections the flag is set exactly when there is
\* something to take (EventQueue.hpp:114 tests both and relies on it): a flag
\* left set would make an idle reader spin, one left clear would strand it.
FlagTracksEvents == mutex = NoThread => (condSet <=> events # <<>>)

\* No lost wake-up: nobody sleeps in poll() while an element waits and no
\* offer is on its way to the broadcast.
NoLostWakeup ==
  (mutex = NoThread /\ events # <<>>) => \A c \in Consumers : pc[c] # "asleep"

\* The documented interface (EventQueue.hpp:95-104): seen through events and
\* what polls return, the locked queue is a bounded FIFO, and a poll returns
\* the default value only at a moment when the queue is empty.
Fifo == INSTANCE BoundedFifo
ImplementsFifo == Fifo!FifoSpec

\* Whatever waits in the queue is taken: among consumers that keep polling
\* one is always woken, gets the mutex and pops, though they race each other
\* and the producers.
TakenEventually == events # <<>> ~> \E c \in Consumers : pc[c] = "popped"
=============================================================================
