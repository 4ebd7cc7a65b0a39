----------------------------- MODULE Connection -----------------------------
(***************************************************************************)
(* ccec/src/Connection.cpp with the listener list of the bus: how a frame  *)
(* the reader thread has taken gets to the listeners, while other threads, *)
(* and the listeners themselves, open and close connections and add and    *)
(* remove listeners.                                                       *)
(*                                                                         *)
(* The reader holds rMutex from the first to the last connection, and a    *)
(* connection's mutex while it calls that connection's listeners; all      *)
(* other sections are one step.  So rMutex is taken exactly when there is  *)
(* a frame, and the mutex of c exactly when the reader is inside c.  The   *)
(* mutexes are recursive: a listener, called on the reader's thread, is    *)
(* never kept out.                                                         *)
(*                                                                         *)
(* A std::list iterator follows its element when others are removed, and   *)
(* is invalid once its own element is: what the loop then does is          *)
(* undefined, and the model stops there.                                   *)
(*                                                                         *)
(* A frame is its destination address.  A listener that throws             *)
(* InvalidStateException ends the dispatch of the frame (Bus.cpp:165).     *)
(***************************************************************************)
EXTENDS Naturals, SequencesExt

CONSTANTS Apps,        \* application threads
          Reader,      \* the thread of Bus::Reader
          Conns, Listeners,
          Addresses,   \* logical addresses; Broadcast (15) is UNREGISTERED too
          Broadcast,
          Source,      \* the address each connection was constructed with
          Moves,       \* bound: the setSource calls that are made
          MaxList,     \* bound: length of a listener list
          NoFrame, NoConn, NoListener, Idle

ASSUME ConnectionAssumption ==
  /\ Reader \notin Apps /\ MaxList \in Nat \ {0}
  /\ Broadcast \in Addresses /\ Source \in [Conns -> Addresses]
  /\ Moves \subseteq Conns \X Addresses
  /\ NoFrame \notin Addresses /\ NoConn \notin Conns
  /\ NoListener \notin Listeners /\ Idle \notin Conns

Threads == Apps \cup {Reader}

VARIABLES started,         \* Bus::started
          busListeners,    \* Bus::listeners, by connection
          frameListeners,  \* Connection::frameListeners
          source,          \* Connection::source
          alive,           \* connections that have not been destroyed
          pc,              \* the connection a thread is half-way through closing
          frame,           \* the frame the reader is dispatching
          busAt, inside,   \* its place in the bus's list
          listAt, calling, \* its place in that connection's list
          broken,          \* an iterator in use was invalidated
          closed,          \* history: connections whose close() returned normally
          moved,           \* history: connections whose source was changed
          due, heard       \* history: who should get the frame, and who did

dispatchVars == <<frame, busAt, inside, listAt, calling>>
history == <<closed, moved, due, heard>>
vars == <<started, busListeners, frameListeners, source, alive, pc, dispatchVars,
          broken, history>>

Init == /\ started = FALSE
        /\ busListeners = <<>>
        /\ frameListeners = [c \in Conns |-> <<>>]
        /\ source = Source
        /\ alive = Conns
        /\ pc = [t \in Threads |-> Idle]
        /\ frame = NoFrame /\ busAt = 0 /\ inside = NoConn
        /\ listAt = 0 /\ calling = NoListener
        /\ broken = FALSE
        /\ closed = {} /\ moved = {} /\ due = {} /\ heard = {}

\* std::list::remove: the k-th element of what is left is the k-th that is not e.
Without(s, e) ==
  [k \in 1 .. Cardinality({j \in 1 .. Len(s) : s[j] # e}) |->
     s[CHOOSE i \in 1 .. Len(s) : s[i] # e /\ Cardinality({j \in 1 .. i : s[j] # e}) = k]]

\* Variant: the loops count instead of holding an iterator.
ShiftedNever(i, s, e) == i

\* Where an iterator at i is after every e of s was removed.
Shifted(i, s, e) == i - Cardinality({j \in 1 .. i - 1 : s[j] = e})

\* A thread at rest: an application, or the listener the reader is calling.
Acts(t) == pc[t] = Idle /\ (t = Reader => calling # NoListener)

MayLockBus(t) == t = Reader \/ frame = NoFrame
MayLockConn(t, c) == t = Reader \/ inside # c

-----------------------------------------------------------------------------
(* The bus is started and stopped under rMutex. *)

BusStarts == /\ frame = NoFrame /\ ~started
             /\ started' = TRUE
             /\ UNCHANGED <<busListeners, frameListeners, source, alive, pc,
                            dispatchVars, broken, history>>

BusStops == /\ frame = NoFrame /\ started
            /\ started' = FALSE
            /\ UNCHANGED <<busListeners, frameListeners, source, alive, pc,
                           dispatchVars, broken, history>>

-----------------------------------------------------------------------------
(* What applications and listeners do *)

\* open() of a connection that is open registers it a second time.
Open(t, c) == /\ Acts(t) /\ c \in alive
              /\ MayLockBus(t) /\ started
              /\ Len(busListeners) < MaxList
              /\ busListeners' = Append(busListeners, c)
              /\ closed' = closed \ {c}
              /\ UNCHANGED <<started, frameListeners, source, alive, pc,
                             dispatchVars, broken, moved, due, heard>>

\* The two halves of close(): each takes its mutex and gives it back.
CloseClear(t, c) ==
  /\ Acts(t) /\ c \in alive
  /\ MayLockConn(t, c)
  /\ frameListeners' = [frameListeners EXCEPT ![c] = <<>>]
  /\ broken' = (inside = c)
  /\ pc' = [pc EXCEPT ![t] = c]
  /\ due' = {p \in due : p[1] # c}
  /\ UNCHANGED <<started, busListeners, source, alive, dispatchVars, closed,
                 moved, heard>>

\* Variant: only the first registration goes.
CloseRemoveFirst(t) ==
  /\ pc[t] \in Conns
  /\ MayLockBus(t) /\ started
  /\ LET c == pc[t]
         first == SelectInSeq(busListeners, LAMBDA x : x = c)
     IN /\ busListeners' = IF first = 0 THEN busListeners
                           ELSE RemoveAt(busListeners, first)
        /\ busAt' = IF first # 0 /\ first < busAt THEN busAt - 1 ELSE busAt
        /\ closed' = closed \cup {c}
  /\ pc' = [pc EXCEPT ![t] = Idle]
  /\ UNCHANGED <<started, frameListeners, source, alive, frame, inside, listAt,
                 calling, broken, moved, due, heard>>

CloseRemove(t) ==
  /\ pc[t] \in Conns
  /\ MayLockBus(t) /\ started
  /\ busListeners' = Without(busListeners, pc[t])
  /\ busAt' = Shifted(busAt, busListeners, pc[t])
  /\ closed' = closed \cup {pc[t]}
  /\ pc' = [pc EXCEPT ![t] = Idle]
  /\ UNCHANGED <<started, frameListeners, source, alive, frame, inside, listAt,
                 calling, broken, moved, due, heard>>

\* The bus is stopped: InvalidStateException, and the connection stays
\* registered with no listener of its own.
CloseThrows(t) ==
  /\ pc[t] \in Conns
  /\ MayLockBus(t) /\ ~started
  /\ pc' = [pc EXCEPT ![t] = Idle]
  /\ UNCHANGED <<started, busListeners, frameListeners, source, alive,
                 dispatchVars, broken, history>>

AddFrameListener(t, c, l) ==
  /\ Acts(t) /\ c \in alive
  /\ MayLockConn(t, c)
  /\ Len(frameListeners[c]) < MaxList
  /\ frameListeners' = [frameListeners EXCEPT ![c] = Append(@, l)]
  /\ UNCHANGED <<started, busListeners, source, alive, pc, dispatchVars, broken,
                 history>>

\* Variant: the connection's mutex is not taken.
RemoveFrameListenerUnlocked(t, c, l) ==
  /\ Acts(t) /\ c \in alive
  /\ frameListeners' = [frameListeners EXCEPT ![c] = Without(@, l)]
  /\ listAt' = IF inside = c THEN Shifted(listAt, frameListeners[c], l) ELSE listAt
  /\ broken' = (t = Reader /\ inside = c /\ calling = l)
  /\ due' = due \ {<<c, l>>}
  /\ UNCHANGED <<started, busListeners, source, alive, pc, frame, busAt, inside,
                 calling, closed, moved, heard>>

\* A listener that removes itself takes the element under the iterator away.
RemoveFrameListener(t, c, l) ==
  /\ Acts(t) /\ c \in alive
  /\ MayLockConn(t, c)
  /\ frameListeners' = [frameListeners EXCEPT ![c] = Without(@, l)]
  /\ listAt' = IF inside = c THEN Shifted(listAt, frameListeners[c], l) ELSE listAt
  /\ broken' = (inside = c /\ calling = l)
  /\ due' = due \ {<<c, l>>}
  /\ UNCHANGED <<started, busListeners, source, alive, pc, frame, busAt, inside,
                 calling, closed, moved, heard>>

\* setSource() takes no mutex and does not reach the filter.
SetSource(t, c, a) ==
  /\ Acts(t) /\ c \in alive
  /\ source' = [source EXCEPT ![c] = a]
  /\ moved' = moved \cup {c}
  /\ UNCHANGED <<started, busListeners, frameListeners, alive, pc, dispatchVars,
                 broken, closed, due, heard>>

\* ~Connection does nothing; its users destroy a connection that close() has
\* returned from and that nobody is using (CecIARMBusMgr.cpp:347-357).
Destroy(t, c) ==
  /\ t \in Apps /\ Acts(t)
  /\ c \in alive \cap closed
  /\ \A u \in Threads : pc[u] # c
  /\ alive' = alive \ {c}
  /\ UNCHANGED <<started, busListeners, frameListeners, source, pc, dispatchVars,
                 broken, history>>

-----------------------------------------------------------------------------
(* The loops of Bus::Reader::run and DefaultFrameListener::notify *)

Addressed(address, f) == address = Broadcast \/ f \in {address, Broadcast}

\* The filter compares with its own copy of the constructor's address.
\* Variant: a broadcast is taken for somebody else's frame.
IsFilteredDirectOnly(c, f) == Source[c] # Broadcast /\ f # Source[c]
IsFiltered(c, f) == ~Addressed(Source[c], f)

DispatchBegins(f) ==
  /\ frame = NoFrame
  /\ frame' = f /\ busAt' = 1
  /\ heard' = {}
  /\ due' = {p \in Conns \X Listeners :
               /\ p[1] \in Range(busListeners)
               /\ p[2] \in Range(frameListeners[p[1]])
               /\ Addressed(source[p[1]], f)}
  /\ UNCHANGED <<started, busListeners, frameListeners, source, alive, pc, inside,
                 listAt, calling, broken, closed, moved>>

\* The listener of the bus locks its connection and asks the filter.
EntersConnection ==
  /\ frame # NoFrame /\ inside = NoConn /\ busAt <= Len(busListeners)
  /\ inside' = busListeners[busAt]
  /\ listAt' = IF IsFiltered(inside', frame)
               THEN Len(frameListeners[inside']) + 1 ELSE 1
  /\ UNCHANGED <<started, busListeners, frameListeners, source, alive, pc, frame,
                 busAt, calling, broken, history>>

CallsListener ==
  /\ inside # NoConn /\ calling = NoListener
  /\ listAt <= Len(frameListeners[inside])
  /\ calling' = frameListeners[inside][listAt]
  /\ heard' = heard \cup {<<inside, calling'>>}
  /\ UNCHANGED <<started, busListeners, frameListeners, source, alive, pc, frame,
                 busAt, inside, listAt, broken, closed, moved, due>>

ListenerReturns ==
  /\ calling # NoListener /\ pc[Reader] = Idle
  /\ calling' = NoListener
  /\ listAt' = listAt + 1
  /\ UNCHANGED <<started, busListeners, frameListeners, source, alive, pc, frame,
                 busAt, inside, broken, history>>

\* Both locks are released and the frame is done with.
ListenerThrows ==
  /\ calling # NoListener /\ pc[Reader] = Idle
  /\ frame' = NoFrame /\ busAt' = 0 /\ inside' = NoConn
  /\ listAt' = 0 /\ calling' = NoListener
  /\ due' = {} /\ heard' = {}
  /\ UNCHANGED <<started, busListeners, frameListeners, source, alive, pc, broken,
                 closed, moved>>

LeavesConnection ==
  /\ inside # NoConn /\ calling = NoListener
  /\ listAt > Len(frameListeners[inside])
  /\ inside' = NoConn /\ listAt' = 0
  /\ busAt' = busAt + 1
  /\ UNCHANGED <<started, busListeners, frameListeners, source, alive, pc, frame,
                 calling, broken, history>>

DispatchOver == frame # NoFrame /\ inside = NoConn /\ busAt > Len(busListeners)

DispatchEnds ==
  /\ DispatchOver
  /\ frame' = NoFrame /\ busAt' = 0
  /\ due' = {} /\ heard' = {}
  /\ UNCHANGED <<started, busListeners, frameListeners, source, alive, pc, inside,
                 listAt, calling, broken, closed, moved>>

-----------------------------------------------------------------------------

ThreadStep(t) ==
  \/ \E c \in Conns : Open(t, c) \/ CloseClear(t, c) \/ Destroy(t, c)
  \/ CloseRemove(t) \/ CloseThrows(t)
  \/ \E c \in Conns, l \in Listeners :
       AddFrameListener(t, c, l) \/ RemoveFrameListener(t, c, l)
  \/ \E m \in Moves : SetSource(t, m[1], m[2])

Dispatch == \/ \E f \in Addresses : DispatchBegins(f)
            \/ EntersConnection \/ CallsListener
            \/ ListenerReturns \/ ListenerThrows
            \/ LeavesConnection \/ DispatchEnds

Next == ~broken /\ (BusStarts \/ BusStops \/ Dispatch \/ \E t \in Threads : ThreadStep(t))

Spec == Init /\ [][Next]_vars

-----------------------------------------------------------------------------
(* Properties *)

\* Every variable stays in its type, the lists within the bound, and an
\* iterator within the list it walks.
TypeOK ==
  /\ started \in BOOLEAN /\ broken \in BOOLEAN
  /\ busListeners \in Seq(Conns) /\ Len(busListeners) <= MaxList
  /\ frameListeners \in [Conns -> Seq(Listeners)]
  /\ \A c \in Conns : Len(frameListeners[c]) <= MaxList
  /\ source \in [Conns -> Addresses]
  /\ alive \subseteq Conns /\ closed \subseteq Conns /\ moved \subseteq Conns
  /\ pc \in [Threads -> Conns \cup {Idle}]
  /\ frame \in Addresses \cup {NoFrame} /\ inside \in Conns \cup {NoConn}
  /\ calling \in Listeners \cup {NoListener}
  /\ busAt \in 0 .. Len(busListeners) + 1
  /\ listAt \in Nat
  /\ ~broken /\ inside # NoConn => listAt \in 1 .. Len(frameListeners[inside]) + 1
  /\ due \subseteq Conns \X Listeners /\ heard \subseteq Conns \X Listeners

\* While a listener runs it is registered with its connection and the
\* connection with the bus: removeFrameListener() and close() do not return
\* in another thread while the call is under way, and what they removed can
\* be deleted (CecIARMBusMgr.cpp:347-357 does).
CalledIsRegistered ==
  ~broken /\ calling # NoListener =>
    calling \in Range(frameListeners[inside]) /\ inside \in Range(busListeners)

\* The bus never holds, and so never calls, a connection that was destroyed
\* after its close() returned: not after a second open(), nor a restart of
\* the bus, nor a close() that another thread was in the middle of.
DestroyedIsUnregistered == Range(busListeners) \cup ({inside} \ {NoConn}) \subseteq alive

\* At the end of a dispatch every listener that was registered throughout,
\* with a connection the frame is addressed to, has been called, whatever
\* was added and removed around it meanwhile.
HeardByAll == ~broken /\ DispatchOver => \A p \in due : p[1] \in moved \/ p \in heard
=============================================================================
