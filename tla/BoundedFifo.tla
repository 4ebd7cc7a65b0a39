---------------------------- MODULE BoundedFifo ----------------------------
(***************************************************************************)
(* What an EventQueue promises its callers, with no locks in it: a first-  *)
(* in first-out queue of at most Cap elements.  An offer to a full queue   *)
(* leaves it as it is (EventQueue.hpp:170-172), a poll takes the front,    *)
(* and a consumer that is woken with nothing to take gets Default.         *)
(*                                                                         *)
(* The models of the driver and the bus use Enqueue for their queues;      *)
(* EventQueue.tla shows that the locked implementation is this one.        *)
(***************************************************************************)
EXTENDS Queues

CONSTANTS Elements,   \* what may be offered; the sentinel is one of them
          Consumers,  \* threads that poll
          Default,    \* E(): what a poll with nothing to take returns
          Cap         \* capacity given to the constructor (32 by default)

VARIABLES events,     \* the std::deque
          taken       \* what each consumer's last poll returned

fifoVars == <<events, taken>>

FifoInit == /\ events = <<>>
            /\ taken = [c \in Consumers |-> Default]

Offer(e) == /\ events' = Enqueue(events, e, Cap)
            /\ UNCHANGED taken

Take(c) == /\ events # <<>>
           /\ taken' = [taken EXCEPT ![c] = Head(events)]
           /\ events' = Tail(events)

TakeNothing(c) == /\ events = <<>>
                  /\ taken' = [taken EXCEPT ![c] = Default]
                  /\ UNCHANGED events

FifoNext == \/ \E e \in Elements : Offer(e)
            \/ \E c \in Consumers : Take(c) \/ TakeNothing(c)

FifoSpec == FifoInit /\ [][FifoNext]_fifoVars
=============================================================================
