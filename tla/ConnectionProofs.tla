-------------------------- MODULE ConnectionProofs --------------------------
(***************************************************************************)
(* For every set of threads, connections, listeners and addresses: while a *)
(* frame is dispatched, no removal by another thread returns under a call, *)
(* no destroyed connection is reached, and no listener is passed over.     *)
(***************************************************************************)
EXTENDS Connection, SequenceTheorems, FiniteSetTheorems, WellFoundedInduction, TLAPS

-----------------------------------------------------------------------------
(* What std::list::remove leaves, and where iterators are in it *)

\* A set of natural numbers that is not empty has a least one.
LEMMA LeastNumber ==
  ASSUME NEW T \in SUBSET Nat, T # {}
  PROVE  \E x \in T : \A y \in T : x <= y
<1> DEFINE R == OpToRel(<, Nat)
<1>1. IsWellFoundedOn(R, Nat)
  BY NatLessThanWellFounded
<1>2. PICK x \in T : \A y \in T : ~(<<y, x>> \in R)
  <2> HIDE DEF R
  <2> QED
    BY <1>1, WFMin
<1>3. \A y \in T : ~(y < x)
  BY <1>2 DEF OpToRel
<1>4. QED
  BY <1>3

\* How many of the first i elements are not e.
Kept(s, e, i) == Cardinality({j \in 1 .. i : s[j] # e})

\* The count starts at zero, grows by one at an element that stays, and an
\* iterator is behind those that stay before it.
LEMMA KeptCounts ==
  ASSUME NEW s, NEW e, NEW n \in Nat
  PROVE  /\ Kept(s, e, n) \in Nat /\ Kept(s, e, 0) = 0
         /\ Kept(s, e, n + 1) = IF s[n + 1] = e THEN Kept(s, e, n) ELSE Kept(s, e, n) + 1
         /\ \A m \in 0 .. n : Kept(s, e, m) <= Kept(s, e, n)
         /\ Shifted(n + 1, s, e) = Kept(s, e, n) + 1
<1> DEFINE K(i) == {j \in 1 .. i : s[j] # e}
           D == {j \in 1 .. n : s[j] = e}
<1>1. \A m \in Nat : IsFiniteSet(1 .. m) /\ Cardinality(1 .. m) = m
  BY FS_Interval
<1>2. \A m \in Nat : IsFiniteSet(K(m)) /\ Cardinality(K(m)) \in Nat
  BY <1>1, FS_Subset, FS_CardinalityType
<1>3. IsFiniteSet(D) /\ Cardinality(D) \in Nat
  BY <1>1, FS_Subset, FS_CardinalityType
<1>4. K(0) = {} /\ Cardinality(K(0)) = 0
  BY FS_EmptySet
<1>5. Cardinality(K(n + 1)) = IF s[n + 1] = e THEN Cardinality(K(n)) ELSE Cardinality(K(n)) + 1
  <2>1. K(n + 1) = IF s[n + 1] = e THEN K(n) ELSE K(n) \cup {n + 1}
    OBVIOUS
  <2>2. n + 1 \notin K(n)
    OBVIOUS
  <2>3. Cardinality(K(n) \cup {n + 1}) = Cardinality(K(n)) + 1
    BY <1>2, <2>2, FS_AddElement
  <2>4. QED
    BY <2>1, <2>3
<1>6. \A m \in 0 .. n : Cardinality(K(m)) <= Cardinality(K(n))
  <2> TAKE m \in 0 .. n
  <2>1. K(m) \subseteq K(n)
    OBVIOUS
  <2>2. QED
    BY <1>2, <2>1, FS_Subset
<1>7. Cardinality(K(n)) + Cardinality(D) = n
  <2>1. K(n) \cup D = 1 .. n /\ K(n) \cap D = {}
    OBVIOUS
  <2>2. Cardinality(K(n) \cup D) = Cardinality(K(n)) + Cardinality(D) - Cardinality(K(n) \cap D)
    BY <1>2, <1>3, FS_Union
  <2>3. Cardinality(1 .. n) = n /\ Cardinality({}) = 0
    BY <1>1, FS_EmptySet
  <2>4. Cardinality(K(n) \cup D) = n /\ Cardinality(K(n) \cap D) = 0
    BY <2>1, <2>3
  <2> HIDE DEF K, D
  <2>5. QED
    BY <1>2, <1>3, <2>2, <2>4
<1>8. Shifted(n + 1, s, e) = n + 1 - Cardinality(D)
  <2>1. {j \in 1 .. (n + 1) - 1 : s[j] = e} = D
    OBVIOUS
  <2>2. Shifted(n + 1, s, e) = (n + 1) - Cardinality({j \in 1 .. (n + 1) - 1 : s[j] = e})
    BY DEF Shifted
  <2>3. Cardinality({j \in 1 .. (n + 1) - 1 : s[j] = e}) = Cardinality(D)
    BY <2>1
  <2> HIDE DEF D
  <2>4. QED
    BY <1>3, <2>2, <2>3
<1>9. \A m \in Nat : Kept(s, e, m) = Cardinality(K(m))
  BY DEF Kept
<1> HIDE DEF K, D
<1>10. QED
  BY <1>2, <1>3, <1>4, <1>5, <1>6, <1>7, <1>8, <1>9

\* The k-th element that stays exists and is one.
LEMMA KthKept ==
  ASSUME NEW s, NEW e, NEW n \in Nat, NEW k \in 1 .. Kept(s, e, n)
  PROVE  /\ \E i \in 1 .. n : s[i] # e /\ Kept(s, e, i) = k
         /\ \A i, j \in 1 .. n : s[i] # e /\ s[j] # e /\ Kept(s, e, i) = Kept(s, e, j) => i = j
<1>1. \A m \in Nat : Kept(s, e, m) \in Nat
  BY KeptCounts
<1>2. \A m \in 1 .. n : Kept(s, e, m) = IF s[m] = e THEN Kept(s, e, m - 1)
                                                   ELSE Kept(s, e, m - 1) + 1
  <2> TAKE m \in 1 .. n
  <2>1. m - 1 \in Nat /\ m - 1 + 1 = m
    OBVIOUS
  <2>2. QED
    BY <2>1, KeptCounts
<1>3. \E i \in 1 .. n : s[i] # e /\ Kept(s, e, i) = k
  <2> DEFINE T == {i \in 1 .. n : Kept(s, e, i) >= k}
  <2>1. n \in T
    <3>1. n # 0
      BY KeptCounts
    <3>2. QED
      BY <1>1, <3>1
  <2>2. PICK x \in T : \A y \in T : x <= y
    <3>1. T \in SUBSET Nat /\ T # {}
      BY <2>1
    <3> HIDE DEF T
    <3>2. QED
      BY <3>1, LeastNumber
  <2>3. Kept(s, e, x - 1) < k
    <3>1. CASE x = 1
      BY <3>1, KeptCounts
    <3>2. CASE x # 1
      BY <1>1, <2>2, <3>2
    <3>3. QED
      BY <3>1, <3>2
  <2>4. QED
    BY <1>1, <1>2, <2>2, <2>3
<1>4. ASSUME NEW i \in 1 .. n, NEW j \in 1 .. n, s[j] # e, i < j
      PROVE  Kept(s, e, i) < Kept(s, e, j)
  <2>1. i \in 0 .. j - 1 /\ j - 1 \in Nat
    BY <1>4
  <2>2. Kept(s, e, i) <= Kept(s, e, j - 1)
    BY <2>1, KeptCounts
  <2>3. QED
    BY <1>1, <1>2, <1>4, <2>1, <2>2
<1>5. QED
  <2> SUFFICES ASSUME NEW i \in 1 .. n, NEW j \in 1 .. n, s[i] # e, s[j] # e,
                      Kept(s, e, i) = Kept(s, e, j)
               PROVE  i = j
    BY <1>3
  <2>1. ~(i < j) /\ ~(j < i)
    BY <1>1, <1>4
  <2>2. QED
    BY <2>1

\* Where an iterator is after a removal: before or behind the same elements.
LEMMA ShiftedMoves ==
  ASSUME NEW s, NEW e, NEW n \in Nat
  PROVE  /\ Shifted(0, s, e) = 0
         /\ \A i \in 1 .. n + 1 : Shifted(i, s, e) \in 1 .. Kept(s, e, n) + 1
         /\ \A i \in 1 .. n : s[i] # e => Shifted(i, s, e) = Kept(s, e, i)
         /\ \A i, j \in 1 .. n + 1 : i < j /\ s[i] # e => Shifted(i, s, e) < Shifted(j, s, e)
<1>1. \A m \in Nat : Kept(s, e, m) \in Nat
  BY KeptCounts
<1>2. \A i \in 1 .. n + 1 : i - 1 \in 0 .. n /\ Shifted(i, s, e) = Kept(s, e, i - 1) + 1
  <2> TAKE i \in 1 .. n + 1
  <2>1. i - 1 \in Nat /\ i - 1 \in 0 .. n /\ (i - 1) + 1 = i
    OBVIOUS
  <2>2. Shifted((i - 1) + 1, s, e) = Kept(s, e, i - 1) + 1
    BY <2>1, KeptCounts
  <2>3. QED
    BY <2>1, <2>2
<1>3. \A i \in 1 .. n : s[i] # e => Kept(s, e, i) = Kept(s, e, i - 1) + 1
  <2> TAKE i \in 1 .. n
  <2>1. i - 1 \in Nat /\ (i - 1) + 1 = i
    OBVIOUS
  <2>2. Kept(s, e, (i - 1) + 1)
          = IF s[(i - 1) + 1] = e THEN Kept(s, e, i - 1) ELSE Kept(s, e, i - 1) + 1
    BY <2>1, KeptCounts
  <2>3. QED
    BY <2>1, <2>2
<1>4. \A j \in 0 .. n : \A i \in 0 .. j : Kept(s, e, i) <= Kept(s, e, j)
  BY KeptCounts
<1>5. Shifted(0, s, e) = 0
  <2>1. {j \in 1 .. 0 - 1 : s[j] = e} = {}
    OBVIOUS
  <2>2. Shifted(0, s, e) = 0 - Cardinality({j \in 1 .. 0 - 1 : s[j] = e})
    BY DEF Shifted
  <2>3. Cardinality({j \in 1 .. 0 - 1 : s[j] = e}) = 0
    BY <2>1, FS_EmptySet
  <2>4. QED
    BY <2>2, <2>3
<1>6. \A i \in 1 .. n + 1 : Shifted(i, s, e) \in 1 .. Kept(s, e, n) + 1
  <2> TAKE i \in 1 .. n + 1
  <2>1. Kept(s, e, i - 1) <= Kept(s, e, n)
    BY <1>2, <1>4
  <2>2. QED
    BY <1>1, <1>2, <2>1
<1>7. \A i \in 1 .. n : s[i] # e => Shifted(i, s, e) = Kept(s, e, i)
  BY <1>2, <1>3
<1>8. \A i, j \in 1 .. n + 1 : i < j /\ s[i] # e => Shifted(i, s, e) < Shifted(j, s, e)
  <2> TAKE i, j \in 1 .. n + 1
  <2> HAVE i < j /\ s[i] # e
  <2>1. i \in 1 .. n /\ i \in 0 .. j - 1 /\ j - 1 \in 0 .. n
    OBVIOUS
  <2>2. Kept(s, e, i) <= Kept(s, e, j - 1)
    BY <1>4, <2>1
  <2>3. QED
    BY <1>1, <1>2, <1>7, <2>1, <2>2
<1>9. QED
  BY <1>5, <1>6, <1>7, <1>8

\* What is in a list is at some place of it.
LEMMA InRange ==
  ASSUME NEW S, NEW s \in Seq(S), NEW e \in Range(s)
  PROVE  \E i \in 1 .. Len(s) : s[i] = e
  BY RangeEquality

\* The list w has the elements of s but e, each where its iterator is.
Leaves(w, S, s, e) ==
  /\ w \in Seq(S \ {e}) /\ Len(w) <= Len(s)
  /\ \A k \in 1 .. Len(w) : \E i \in 1 .. Len(s) : w[k] = s[i]
  /\ \A i \in 1 .. Len(s) : s[i] # e =>
       Shifted(i, s, e) \in 1 .. Len(w) /\ w[Shifted(i, s, e)] = s[i]
  /\ \A i \in 0 .. Len(s) + 1 :
       Shifted(i, s, e) \in 0 .. Len(w) + 1 /\ (i # 0 => Shifted(i, s, e) # 0)

\* The list without e leaves the other elements.
LEMMA WithoutLeaves ==
  ASSUME NEW S, NEW s \in Seq(S), NEW e
  PROVE  Leaves(Without(s, e), S, s, e)
<1> DEFINE n == Len(s)
           At(k) == CHOOSE i \in 1 .. n : s[i] # e /\ Kept(s, e, i) = k
<1>1. n \in Nat /\ \A i \in 1 .. n : s[i] \in S
  BY LenProperties, ElementOfSeq
<1>2. Kept(s, e, n) \in 0 .. n
  <2>1. \A m \in Nat : IsFiniteSet(1 .. m) /\ Cardinality(1 .. m) = m
    BY FS_Interval
  <2>2. {j \in 1 .. n : s[j] # e} \subseteq 1 .. n
    OBVIOUS
  <2>3. Kept(s, e, n) <= n
    BY <1>1, <2>1, <2>2, FS_Subset DEF Kept
  <2>4. QED
    BY <1>1, <2>3, KeptCounts
<1>3. Without(s, e) = [k \in 1 .. Kept(s, e, n) |-> s[At(k)]]
  BY DEF Without, Kept
<1> HIDE DEF n, At
<1>4. \A k \in 1 .. Kept(s, e, n) :
        At(k) \in 1 .. n /\ s[At(k)] # e /\ Kept(s, e, At(k)) = k
  BY <1>1, KthKept DEF At
<1>5. Without(s, e) \in Seq(S \ {e}) /\ Len(Without(s, e)) = Kept(s, e, n)
  <2>1. \A k \in 1 .. Kept(s, e, n) : s[At(k)] \in S \ {e}
    BY <1>1, <1>4
  <2>2. QED
    BY <1>2, <1>3, <2>1
<1>6. \A i \in 1 .. n : s[i] # e =>
        /\ Shifted(i, s, e) \in 1 .. Kept(s, e, n)
        /\ Without(s, e)[Shifted(i, s, e)] = s[i]
  <2> TAKE i \in 1 .. n
  <2> HAVE s[i] # e
  <2>1. Shifted(i, s, e) = Kept(s, e, i) /\ Shifted(i, s, e) \in 1 .. Kept(s, e, n) + 1
    BY <1>1, ShiftedMoves
  <2>2. Kept(s, e, i) <= Kept(s, e, n)
    BY <1>1, KeptCounts
  <2>3. Kept(s, e, i) \in 1 .. Kept(s, e, n)
    BY <1>2, <2>1, <2>2
  <2>4. At(Kept(s, e, i)) = i
    BY <1>1, <1>4, <2>3, KthKept
  <2>5. QED
    BY <1>3, <2>1, <2>3, <2>4
<1>7. \A i \in 0 .. n + 1 : /\ Shifted(i, s, e) \in 0 .. Kept(s, e, n) + 1
                            /\ i # 0 => Shifted(i, s, e) # 0
  <2> TAKE i \in 0 .. n + 1
  <2>1. CASE i = 0
    BY <1>1, <1>2, <2>1, ShiftedMoves
  <2>2. CASE i \in 1 .. n + 1
    <3>1. Shifted(i, s, e) \in 1 .. Kept(s, e, n) + 1
      BY <1>1, <2>2, ShiftedMoves
    <3>2. QED
      BY <1>2, <3>1
  <2>3. QED
    BY <1>1, <2>1, <2>2
<1>8. \A k \in 1 .. Kept(s, e, n) : \E i \in 1 .. n : Without(s, e)[k] = s[i]
  BY <1>3, <1>4
<1>9. Len(Without(s, e)) <= n
  BY <1>1, <1>2, <1>5
<1>10. QED
  BY <1>5, <1>6, <1>7, <1>8, <1>9 DEF Leaves, n
-----------------------------------------------------------------------------
(* The dispatch, its iterators and the lists they walk *)

\* A frame is there while the reader is inside a connection, a listener is
\* called only inside one, and only a listener closes on the reader's thread.
Nested ==
  /\ frame = NoFrame => inside = NoConn /\ due = {}
  /\ frame # NoFrame => busAt # 0
  /\ inside = NoConn => calling = NoListener
  /\ calling = NoListener => pc[Reader] = Idle

\* The iterators point at what the reader is in the middle of.
AtConnection == inside # NoConn =>
                  busAt \in 1 .. Len(busListeners) /\ busListeners[busAt] = inside

AtListener == ~broken /\ calling # NoListener =>
                /\ listAt \in 1 .. Len(frameListeners[inside])
                /\ frameListeners[inside][listAt] = calling

\* A listener that closes its own connection has broken the loop, and what it
\* closes is due nothing any more.
ClosesOther ==
  pc[Reader] \in Conns =>
    /\ ~broken => pc[Reader] # inside
    /\ \A p \in due : p[1] # pc[Reader]

\* Only connections that may be used are registered, and closed ones are not.
Registered == \A i \in 1 .. Len(busListeners) :
                busListeners[i] \in alive /\ busListeners[i] \notin closed

FilterKnows == \A c \in Conns \ moved : source[c] = Source[c]

\* Where the loops go on after what they are doing now.
NextConn == IF inside = NoConn THEN busAt ELSE busAt + 1
NextListener == IF calling = NoListener THEN listAt ELSE listAt + 1

\* A listener that is due a frame is still ahead of the iterators: in a
\* connection they have not come to, or further on in the one they are in.
Ahead(p) ==
  LET listeners == frameListeners[p[1]] IN
  /\ ~IsFiltered(p[1], frame)
  /\ \/ /\ \E k \in 1 .. Len(busListeners) : k >= NextConn /\ busListeners[k] = p[1]
        /\ \E m \in 1 .. Len(listeners) : listeners[m] = p[2]
     \/ /\ inside = p[1]
        /\ \E m \in 1 .. Len(listeners) : m >= NextListener /\ listeners[m] = p[2]

DueAhead == ~broken => \A p \in due : p[1] \in moved \/ p \in heard \/ Ahead(p)

IInv == /\ TypeOK /\ Nested /\ AtConnection /\ AtListener /\ ClosesOther
        /\ Registered /\ FilterKnows /\ DueAhead

\* The initial state: nothing is registered and nothing is dispatched.
LEMMA InitGood == Init => IInv
<1> SUFFICES ASSUME Init PROVE IInv
  OBVIOUS
<1> USE ConnectionAssumption DEF Init
<1>1. <<>> \in Seq(Conns) /\ <<>> \in Seq(Listeners) /\ Len(<<>>) = 0
  BY EmptySeq
<1>2. TypeOK
  <2>1. frameListeners \in [Conns -> Seq(Listeners)] /\ \A c \in Conns : Len(frameListeners[c]) = 0
    BY <1>1
  <2>2. busAt \in 0 .. Len(busListeners) + 1 /\ Len(busListeners) <= MaxList
    BY <1>1
  <2>3. \A c \in Conns : Len(frameListeners[c]) <= MaxList
    BY <2>1
  <2>4. started \in BOOLEAN /\ broken \in BOOLEAN
    OBVIOUS
  <2>5. pc \in [Threads -> Conns \cup {Idle}] /\ inside = NoConn /\ listAt \in Nat
    OBVIOUS
  <2>6. /\ source \in [Conns -> Addresses] /\ frame \in Addresses \cup {NoFrame}
        /\ alive \subseteq Conns /\ closed \subseteq Conns /\ moved \subseteq Conns
        /\ due \subseteq Conns \X Listeners /\ heard \subseteq Conns \X Listeners
    OBVIOUS
  <2>7. busListeners \in Seq(Conns) /\ calling \in Listeners \cup {NoListener}
    BY <1>1
  <2>8. QED
    BY <2>1, <2>2, <2>3, <2>4, <2>5, <2>6, <2>7 DEF TypeOK
<1>3. Nested /\ AtConnection /\ AtListener /\ ClosesOther
  BY DEF Nested, AtConnection, AtListener, ClosesOther, Threads
<1>4. Registered /\ FilterKnows /\ DueAhead
  BY <1>1 DEF Registered, FilterKnows, DueAhead
<1>5. QED
  BY <1>2, <1>3, <1>4 DEF IInv

\* Adding at the end of a list leaves everything where it is.
LEMMA AppendLeaves ==
  ASSUME NEW S, NEW s \in Seq(S), NEW e \in S
  PROVE  /\ Append(s, e) \in Seq(S) /\ Len(Append(s, e)) = Len(s) + 1 /\ Len(s) \in Nat
         /\ \A i \in 1 .. Len(s) : i \in 1 .. Len(Append(s, e)) /\ Append(s, e)[i] = s[i]
         /\ Append(s, e)[Len(s) + 1] = e
<1>1. /\ Append(s, e) \in Seq(S) /\ Len(Append(s, e)) = Len(s) + 1
      /\ \A i \in 1 .. Len(s) : Append(s, e)[i] = s[i]
      /\ Append(s, e)[Len(s) + 1] = e
  BY AppendProperties
<1>2. Len(s) \in Nat
  BY LenProperties
<1>3. QED
  BY <1>1, <1>2

\* open(): what is due is as far ahead as before.
LEMMA OpenKeeps ==
  ASSUME IInv, ~broken, NEW t \in Threads, NEW c \in Conns, Open(t, c)
  PROVE  IInv'
<1> USE ConnectionAssumption DEF IInv, Open, dispatchVars
<1>1. /\ busListeners' \in Seq(Conns) /\ Len(busListeners') = Len(busListeners) + 1
      /\ Len(busListeners) \in Nat /\ busListeners'[Len(busListeners) + 1] = c
      /\ \A i \in 1 .. Len(busListeners) :
           i \in 1 .. Len(busListeners') /\ busListeners'[i] = busListeners[i]
  BY AppendLeaves DEF TypeOK
<1>2. TypeOK'
  BY <1>1 DEF TypeOK
<1>3. Nested' /\ AtConnection' /\ AtListener' /\ ClosesOther' /\ FilterKnows'
  BY <1>1 DEF Nested, AtConnection, AtListener, ClosesOther, FilterKnows
<1>4. Registered'
  <2> SUFFICES ASSUME NEW i \in 1 .. Len(busListeners')
               PROVE  busListeners'[i] \in alive' /\ busListeners'[i] \notin closed'
    BY DEF Registered
  <2>1. CASE i = Len(busListeners) + 1
    BY <1>1, <2>1
  <2>2. CASE i \in 1 .. Len(busListeners)
    BY <1>1, <2>2 DEF Registered
  <2>3. QED
    BY <1>1, <2>1, <2>2
<1>5. DueAhead'
  BY <1>1 DEF DueAhead, Ahead, NextConn, NextListener
<1>6. QED
  BY <1>2, <1>3, <1>4, <1>5

\* addFrameListener(): the new listener comes behind the iterator.
LEMMA AddKeeps ==
  ASSUME IInv, ~broken, NEW t \in Threads, NEW c \in Conns, NEW l \in Listeners,
         AddFrameListener(t, c, l)
  PROVE  IInv'
<1> USE ConnectionAssumption DEF IInv, AddFrameListener, dispatchVars, history
<1>1. frameListeners' = [frameListeners EXCEPT ![c] = Append(frameListeners[c], l)]
  OBVIOUS
<1>2. \A d \in Conns :
        /\ frameListeners'[d] \in Seq(Listeners) /\ Len(frameListeners'[d]) <= MaxList
        /\ Len(frameListeners[d]) \in Nat /\ Len(frameListeners'[d]) >= Len(frameListeners[d])
        /\ \A i \in 1 .. Len(frameListeners[d]) :
             i \in 1 .. Len(frameListeners'[d]) /\ frameListeners'[d][i] = frameListeners[d][i]
  <2> TAKE d \in Conns
  <2>1. frameListeners[d] \in Seq(Listeners) /\ Len(frameListeners[d]) <= MaxList
    BY DEF TypeOK
  <2>2. Len(frameListeners[d]) \in Nat
    BY <2>1, LenProperties
  <2>3. CASE d = c
    <3>1. frameListeners'[d] = Append(frameListeners[d], l)
      BY <1>1, <2>3 DEF TypeOK
    <3>2. QED
      BY <2>1, <2>2, <2>3, <3>1, AppendLeaves
  <2>4. CASE d # c
    BY <1>1, <2>1, <2>2, <2>4 DEF TypeOK
  <2>5. QED
    BY <2>3, <2>4
<1>3. TypeOK'
  <2>1. frameListeners' \in [Conns -> Seq(Listeners)]
    BY <1>1, <1>2 DEF TypeOK
  <2>2. inside # NoConn /\ listAt \in 1 .. Len(frameListeners[inside]) + 1
          => listAt \in 1 .. Len(frameListeners'[inside]) + 1
    BY <1>2 DEF TypeOK
  <2>3. QED
    BY <1>2, <2>1, <2>2 DEF TypeOK
<1>4. Nested' /\ AtConnection' /\ ClosesOther' /\ FilterKnows' /\ Registered'
  BY DEF Nested, AtConnection, ClosesOther, FilterKnows, Registered
<1>5. AtListener'
  BY <1>2 DEF AtListener, TypeOK, Nested
<1>6. DueAhead'
  <2> SUFFICES ASSUME NEW p \in due, Ahead(p) PROVE Ahead(p)'
    BY DEF DueAhead
  <2>1. p[1] \in Conns
    BY DEF TypeOK
  <2>2. QED
    BY <1>2, <2>1 DEF Ahead, NextConn, NextListener
<1>7. QED
  BY <1>3, <1>4, <1>5, <1>6

\* The first half of close(): the listeners it drops are due nothing any more.
LEMMA ClearKeeps ==
  ASSUME IInv, ~broken, NEW t \in Threads, NEW c \in Conns, CloseClear(t, c)
  PROVE  IInv'
<1> USE ConnectionAssumption DEF IInv, CloseClear, dispatchVars
<1>1. <<>> \in Seq(Listeners) /\ Len(<<>>) = 0
  BY EmptySeq
<1>2. /\ frameListeners' \in [Conns -> Seq(Listeners)] /\ frameListeners'[c] = <<>>
      /\ \A d \in Conns \ {c} : frameListeners'[d] = frameListeners[d]
  BY <1>1 DEF TypeOK
<1>3. pc' \in [Threads -> Conns \cup {Idle}] /\ pc'[t] = c
      /\ \A u \in Threads \ {t} : pc'[u] = pc[u]
  BY DEF TypeOK
<1>4. due' \subseteq due /\ \A p \in due' : p[1] # c
  OBVIOUS
<1>5. TypeOK'
  <2>1. \A d \in Conns : Len(frameListeners'[d]) <= MaxList
    BY <1>1, <1>2 DEF TypeOK
  <2>2. ~broken' /\ inside # NoConn => listAt \in 1 .. Len(frameListeners'[inside]) + 1
    BY <1>2 DEF TypeOK
  <2>3. due' \subseteq Conns \X Listeners
    BY <1>4 DEF TypeOK
  <2>4. broken' \in BOOLEAN
    OBVIOUS
  <2>5. QED
    BY <1>2, <1>3, <2>1, <2>2, <2>3, <2>4 DEF TypeOK
<1>6. Nested'
  BY <1>3, <1>4 DEF Nested, Acts
<1>7. AtConnection' /\ FilterKnows' /\ Registered'
  BY DEF AtConnection, FilterKnows, Registered
<1>8. AtListener'
  BY <1>2 DEF AtListener, TypeOK, Nested
<1>9. ClosesOther'
  <2>1. CASE t = Reader
    BY <1>3, <1>4, <2>1 DEF ClosesOther
  <2>2. CASE t # Reader
    BY <1>3, <1>4, <2>2 DEF ClosesOther, Threads
  <2>3. QED
    BY <2>1, <2>2
<1>10. DueAhead'
  <2> SUFFICES ASSUME NEW p \in due', Ahead(p) PROVE Ahead(p)'
    BY <1>4 DEF DueAhead
  <2>1. p[1] \in Conns \ {c}
    BY <1>4 DEF TypeOK
  <2>2. QED
    BY <1>2, <2>1 DEF Ahead, NextConn, NextListener
<1>11. QED
  BY <1>5, <1>6, <1>7, <1>8, <1>9, <1>10

\* The second half of close(): it waits for the dispatch, or is a part of it
\* and takes away another connection than the one the reader is inside.
LEMMA RemoveKeeps ==
  ASSUME IInv, ~broken, NEW t \in Threads, CloseRemove(t)
  PROVE  IInv'
<1> USE ConnectionAssumption DEF IInv, CloseRemove
<1> DEFINE e == pc[t]
           n == Len(busListeners)
           At(i) == Shifted(i, busListeners, e)
<1>1. /\ busListeners \in Seq(Conns) /\ n \in Nat /\ n <= MaxList /\ busAt \in 0 .. n + 1
      /\ \A i \in 1 .. n : busListeners[i] \in Conns
  BY LenProperties, ElementOfSeq DEF TypeOK
<1>2. /\ busListeners' \in Seq(Conns \ {e}) /\ Len(busListeners') <= n
      /\ \A k \in 1 .. Len(busListeners') : \E i \in 1 .. n : busListeners'[k] = busListeners[i]
      /\ \A i \in 1 .. n : busListeners[i] # e =>
           At(i) \in 1 .. Len(busListeners') /\ busListeners'[At(i)] = busListeners[i]
      /\ \A i \in 0 .. n + 1 : At(i) \in 0 .. Len(busListeners') + 1 /\ (i # 0 => At(i) # 0)
  <2> HIDE DEF e
  <2>1. busListeners' = Without(busListeners, e)
    BY DEF e
  <2>2. Leaves(busListeners', Conns, busListeners, e)
    BY <1>1, <2>1, WithoutLeaves
  <2>3. QED
    BY <2>2 DEF Leaves
<1>3. \A i, j \in 1 .. n + 1 : i < j /\ busListeners[i] # e => At(i) < At(j)
  BY <1>1, ShiftedMoves
<1>4. busAt' = At(busAt)
  OBVIOUS
<1>5. \/ t = Reader /\ inside # NoConn /\ inside # e /\ calling # NoListener
      \/ t # Reader /\ frame = NoFrame /\ inside = NoConn /\ due = {}
  BY DEF Nested, ClosesOther, MayLockBus
<1>6. \A p \in due : p[1] # e
  BY <1>5 DEF ClosesOther
<1>7. pc' \in [Threads -> Conns \cup {Idle}] /\ pc'[t] = Idle
      /\ \A u \in Threads \ {t} : pc'[u] = pc[u]
  BY DEF TypeOK
<1> HIDE DEF e, n, At
<1>8. TypeOK'
  <2>1. busListeners' \in Seq(Conns) /\ Len(busListeners') <= MaxList
    BY <1>1, <1>2, LenProperties DEF TypeOK
  <2>2. busAt' \in 0 .. Len(busListeners') + 1
    BY <1>1, <1>2, <1>4
  <2>3. closed' \subseteq Conns
    BY DEF TypeOK
  <2>4. QED
    BY <1>7, <2>1, <2>2, <2>3 DEF TypeOK
<1>9. Nested'
  BY <1>1, <1>2, <1>4, <1>5, <1>7 DEF Nested, Threads
<1>10. AtConnection'
  BY <1>2, <1>4, <1>5 DEF AtConnection, n
<1>11. AtListener' /\ FilterKnows'
  BY DEF AtListener, FilterKnows
<1>12. ClosesOther'
  BY <1>7 DEF ClosesOther, Threads
<1>13. Registered'
  <2> SUFFICES ASSUME NEW k \in 1 .. Len(busListeners')
               PROVE  busListeners'[k] \in alive' /\ busListeners'[k] \notin closed'
    BY DEF Registered
  <2>1. busListeners'[k] # e
    BY <1>2, ElementOfSeq
  <2>2. PICK i \in 1 .. n : busListeners'[k] = busListeners[i]
    BY <1>2
  <2>3. QED
    BY <2>1, <2>2 DEF Registered, e, n
<1>14. DueAhead'
  <2> SUFFICES ASSUME NEW p \in due, Ahead(p) PROVE Ahead(p)'
    BY DEF DueAhead
  <2>1. inside # NoConn /\ inside # e /\ p[1] # e
    BY <1>5, <1>6
  <2>2. ASSUME NEW k \in 1 .. n, k >= NextConn, busListeners[k] = p[1]
        PROVE  \E j \in 1 .. Len(busListeners') : j >= NextConn' /\ busListeners'[j] = p[1]
    <3>1. busAt \in 1 .. n + 1 /\ k \in 1 .. n + 1 /\ busAt < k /\ busListeners[busAt] = inside
      BY <1>1, <2>1, <2>2 DEF NextConn, AtConnection, n
    <3>2. At(busAt) < At(k) /\ At(k) \in 1 .. Len(busListeners') /\ busListeners'[At(k)] = p[1]
      BY <1>2, <1>3, <2>1, <2>2, <3>1
    <3>3. At(k) >= NextConn'
      BY <1>1, <1>2, <1>4, <2>1, <3>1, <3>2 DEF NextConn
    <3>4. QED
      BY <3>2, <3>3
  <2>3. QED
    BY <2>2 DEF Ahead, NextListener, n
<1>15. QED
  BY <1>8, <1>9, <1>10, <1>11, <1>12, <1>13, <1>14

\* removeFrameListener(): it waits for the connection's dispatch, or is a part
\* of it and, unless it takes the running listener away, moves the iterator.
LEMMA UnlistenKeeps ==
  ASSUME IInv, ~broken, NEW t \in Threads, NEW c \in Conns, NEW l \in Listeners,
         RemoveFrameListener(t, c, l)
  PROVE  IInv'
<1> DEFINE s == frameListeners[c]
           w == Without(s, l)
           At(i) == Shifted(i, s, l)
<1>1. s \in Seq(Listeners) /\ Len(s) \in Nat /\ Len(s) <= MaxList
  BY LenProperties DEF TypeOK, IInv
<1>2. /\ w \in Seq(Listeners \ {l}) /\ Len(w) <= Len(s)
      /\ \A i \in 1 .. Len(s) : s[i] # l => At(i) \in 1 .. Len(w) /\ w[At(i)] = s[i]
      /\ \A i \in 0 .. Len(s) + 1 : At(i) \in 0 .. Len(w) + 1 /\ (i # 0 => At(i) # 0)
  <2> HIDE DEF s
  <2>1. Leaves(w, Listeners, s, l)
    BY <1>1, WithoutLeaves
  <2>2. QED
    BY <2>1 DEF Leaves
<1>3. \A i, j \in 1 .. Len(s) + 1 : i < j /\ s[i] # l => At(i) < At(j)
  BY <1>1, ShiftedMoves
<1> USE ConnectionAssumption DEF IInv, RemoveFrameListener
<1>4. /\ frameListeners' = [frameListeners EXCEPT ![c] = w]
      /\ listAt' = IF inside = c THEN At(listAt) ELSE listAt
      /\ broken' = (inside = c /\ calling = l)
      /\ due' \subseteq due /\ \A p \in due' : p # <<c, l>>
  OBVIOUS
<1>5. inside = c => calling # NoListener
  BY DEF Acts, MayLockConn
<1>6. inside = c => listAt \in 1 .. Len(s) /\ s[listAt] = calling
  BY <1>5 DEF AtListener
<1> HIDE DEF s, w, At
<1>7. w \in Seq(Listeners) /\ Len(w) \in Nat
  BY <1>2, LenProperties
<1>8. /\ frameListeners' \in [Conns -> Seq(Listeners)] /\ frameListeners'[c] = w
      /\ \A d \in Conns \ {c} : frameListeners'[d] = frameListeners[d]
  BY <1>4, <1>7 DEF TypeOK
<1>9. TypeOK'
  <2>1. \A d \in Conns : Len(frameListeners'[d]) <= MaxList
    BY <1>1, <1>2, <1>7, <1>8 DEF TypeOK
  <2>2. listAt' \in Nat
    BY <1>1, <1>2, <1>4, <1>6, <1>7 DEF TypeOK
  <2>3. inside # NoConn => listAt' \in 1 .. Len(frameListeners'[inside]) + 1
    <3>1. CASE inside = c
      BY <1>1, <1>2, <1>4, <1>6, <1>7, <1>8, <3>1
    <3>2. CASE inside # c
      BY <1>4, <1>8, <3>2 DEF TypeOK
    <3>3. QED
      BY <3>1, <3>2
  <2>4. due' \subseteq Conns \X Listeners /\ broken' \in BOOLEAN
    BY <1>4 DEF TypeOK
  <2>5. QED
    BY <1>8, <2>1, <2>2, <2>3, <2>4 DEF TypeOK
<1>10. Nested' /\ AtConnection' /\ FilterKnows' /\ Registered'
  BY <1>4 DEF Nested, AtConnection, FilterKnows, Registered
<1>11. AtListener'
  <2> SUFFICES ASSUME ~broken', calling # NoListener
               PROVE  /\ listAt' \in 1 .. Len(frameListeners'[inside])
                      /\ frameListeners'[inside][listAt'] = calling
    BY DEF AtListener
  <2>1. CASE inside = c
    BY <1>2, <1>4, <1>6, <1>8, <2>1
  <2>2. CASE inside # c
    BY <1>4, <1>8, <2>2 DEF AtListener, TypeOK, Nested
  <2>3. QED
    BY <2>1, <2>2
<1>12. ClosesOther'
  BY <1>4 DEF ClosesOther
<1>13. DueAhead'
  <2> SUFFICES ASSUME ~broken', NEW p \in due', Ahead(p) PROVE Ahead(p)'
    BY <1>4 DEF DueAhead
  <2>1. p[1] \in Conns /\ (p[1] = c => p[2] # l)
    BY <1>4 DEF TypeOK
  <2>2. UNCHANGED NextConn
    BY DEF NextConn
  <2>3. CASE p[1] # c
    BY <1>4, <1>8, <2>1, <2>2, <2>3 DEF Ahead, NextListener
  <2>4. CASE p[1] = c
    <3>1. ASSUME NEW m \in 1 .. Len(s), s[m] = p[2]
          PROVE  /\ At(m) \in 1 .. Len(w) /\ w[At(m)] = p[2]
                 /\ inside = c /\ m >= NextListener => At(m) >= NextListener'
      <4>1. At(m) \in 1 .. Len(w) /\ w[At(m)] = p[2]
        BY <1>2, <2>1, <2>4, <3>1
      <4>2. ASSUME inside = c, m >= NextListener
            PROVE  At(m) >= NextListener'
        <5>1. listAt < m /\ s[listAt] # l /\ listAt \in 1 .. Len(s)
          <6>1. calling # l
            BY <1>4, <4>2
          <6>2. m >= listAt + 1 /\ m \in Nat /\ listAt \in Nat
            BY <1>1, <1>5, <1>6, <4>2 DEF NextListener
          <6>3. QED
            BY <1>6, <4>2, <6>1, <6>2
        <5>2. At(listAt) < At(m) /\ At(listAt) \in Nat /\ At(m) \in Nat
          BY <1>1, <1>2, <1>3, <1>7, <5>1
        <5>3. NextListener' = At(listAt) + 1
          BY <1>4, <1>5, <4>2 DEF NextListener
        <5>4. QED
          BY <5>2, <5>3
      <4>3. QED
        BY <4>1, <4>2
    <3>2. QED
      BY <1>8, <2>2, <2>4, <3>1 DEF Ahead, s
  <2>5. QED
    BY <2>3, <2>4
<1>14. QED
  BY <1>9, <1>10, <1>11, <1>12, <1>13

\* What touches no list and no iterator: a close() that throws, setSource(),
\* the end of a connection, and the bus going up and down.
LEMMA AsideKeeps ==
  ASSUME IInv, ~broken,
         \/ BusStarts \/ BusStops
         \/ \E t \in Threads : \/ CloseThrows(t)
                               \/ \E c \in Conns : Destroy(t, c)
                               \/ \E m \in Moves : SetSource(t, m[1], m[2])
  PROVE  IInv'
<1> USE ConnectionAssumption DEF IInv
<1>1. UNCHANGED <<busListeners, frameListeners, dispatchVars, broken, closed, due, heard>>
  BY DEF BusStarts, BusStops, CloseThrows, Destroy, SetSource, history
<1>2. moved \subseteq moved' /\ \A c \in Conns \ moved' : source'[c] = source[c]
  BY DEF BusStarts, BusStops, CloseThrows, Destroy, SetSource, history, TypeOK
<1>3. /\ pc' \in [Threads -> Conns \cup {Idle}]
      /\ \A u \in Threads : pc'[u] # pc[u] => pc'[u] = Idle
  BY DEF BusStarts, BusStops, CloseThrows, Destroy, SetSource, TypeOK
<1>4. TypeOK'
  <2>1. started' \in BOOLEAN
    BY DEF BusStarts, BusStops, CloseThrows, Destroy, SetSource, TypeOK
  <2>2. source' \in [Conns -> Addresses] /\ moved' \subseteq Conns
    BY DEF BusStarts, BusStops, CloseThrows, Destroy, SetSource, history, TypeOK
  <2>3. alive' \subseteq Conns
    BY DEF BusStarts, BusStops, CloseThrows, Destroy, SetSource, TypeOK
  <2>4. QED
    BY <1>1, <1>3, <2>1, <2>2, <2>3 DEF TypeOK, dispatchVars
<1>5. Nested' /\ AtConnection' /\ AtListener' /\ ClosesOther'
  BY <1>1, <1>3 DEF Nested, AtConnection, AtListener, ClosesOther, dispatchVars, Threads
<1>6. Registered'
  <2>1. alive' = alive \/ \E c \in closed : alive' = alive \ {c}
    BY DEF BusStarts, BusStops, CloseThrows, Destroy, SetSource
  <2>2. QED
    BY <1>1, <2>1 DEF Registered
<1>7. FilterKnows'
  BY <1>2 DEF FilterKnows
<1>8. DueAhead'
  BY <1>1, <1>2 DEF DueAhead, Ahead, NextConn, NextListener, dispatchVars
<1>9. QED
  BY <1>4, <1>5, <1>6, <1>7, <1>8

\* What a step of the loops leaves alone.
LEMMA DispatchLeaves ==
  Dispatch => UNCHANGED <<started, busListeners, frameListeners, source, alive, pc, broken,
                          closed, moved>>
  BY DEF Dispatch, DispatchBegins, EntersConnection, CallsListener, ListenerReturns,
         ListenerThrows, LeavesConnection, DispatchEnds, history

\* The frame begins, or is done with: every listener that is due it is ahead,
\* or none is due it any more.
LEMMA FrameKeeps ==
  ASSUME IInv, ~broken,
         \/ \E f \in Addresses : DispatchBegins(f)
         \/ ListenerThrows \/ DispatchEnds
  PROVE  IInv'
<1> USE ConnectionAssumption DEF IInv
<1>1. UNCHANGED <<started, busListeners, frameListeners, source, alive, pc, broken, closed, moved>>
  BY DispatchLeaves DEF Dispatch
<1>2. Registered' /\ FilterKnows'
  BY <1>1 DEF Registered, FilterKnows
<1>3. Len(busListeners) \in Nat
  BY LenProperties DEF TypeOK
<1>4. /\ inside' = NoConn /\ calling' = NoListener /\ pc[Reader] = Idle
      /\ listAt' \in Nat /\ heard' = {}
  BY DEF Nested, DispatchBegins, ListenerThrows, DispatchEnds, DispatchOver, TypeOK
<1>5. \/ frame' = NoFrame /\ busAt' = 0 /\ due' = {}
      \/ /\ frame' \in Addresses /\ busAt' = 1
         /\ due' = {p \in Conns \X Listeners :
                      /\ p[1] \in Range(busListeners)
                      /\ p[2] \in Range(frameListeners[p[1]])
                      /\ Addressed(source[p[1]], frame')}
  BY DEF DispatchBegins, ListenerThrows, DispatchEnds
<1>6. TypeOK'
  <2>1. busAt' \in 0 .. Len(busListeners) + 1
    BY <1>3, <1>5
  <2>2. due' \subseteq Conns \X Listeners /\ frame' \in Addresses \cup {NoFrame}
    BY <1>5
  <2>3. QED
    BY <1>1, <1>4, <2>1, <2>2 DEF TypeOK
<1>7. Nested' /\ AtConnection' /\ AtListener' /\ ClosesOther'
  BY <1>1, <1>4, <1>5 DEF Nested, AtConnection, AtListener, ClosesOther
<1>8. DueAhead'
  <2> SUFFICES ASSUME NEW p \in due', p[1] \notin moved PROVE Ahead(p)'
    BY <1>1 DEF DueAhead
  <2>1. /\ p \in Conns \X Listeners /\ frame' \in Addresses /\ busAt' = 1
        /\ p[1] \in Range(busListeners) /\ p[2] \in Range(frameListeners[p[1]])
        /\ Addressed(source[p[1]], frame')
    BY <1>5
  <2>2. ~IsFiltered(p[1], frame')
    BY <2>1 DEF IsFiltered, FilterKnows
  <2>3. \E k \in 1 .. Len(busListeners) : k >= 1 /\ busListeners[k] = p[1]
    <3>1. \E k \in 1 .. Len(busListeners) : busListeners[k] = p[1]
      BY <2>1, InRange DEF TypeOK
    <3>2. QED
      BY <1>3, <3>1
  <2>4. \E m \in 1 .. Len(frameListeners[p[1]]) : frameListeners[p[1]][m] = p[2]
    <3>1. frameListeners[p[1]] \in Seq(Listeners)
      BY <2>1 DEF TypeOK
    <3>2. QED
      BY <2>1, <3>1, InRange
  <2>5. NextConn' = 1
    BY <1>4, <2>1 DEF NextConn
  <2>6. QED
    BY <1>1, <2>2, <2>3, <2>4, <2>5 DEF Ahead
<1>9. QED
  BY <1>2, <1>6, <1>7, <1>8

\* Into a connection, and out of it behind its last listener.
LEMMA ConnectionKeeps ==
  ASSUME IInv, ~broken, EntersConnection \/ LeavesConnection
  PROVE  IInv'
<1> USE ConnectionAssumption DEF IInv
<1>1. /\ UNCHANGED <<started, busListeners, frameListeners, source, alive, pc, broken, closed, moved>>
      /\ UNCHANGED <<frame, calling, due, heard>> /\ calling = NoListener
  BY DEF EntersConnection, LeavesConnection, history, Nested
<1>2. Registered' /\ FilterKnows'
  BY <1>1 DEF Registered, FilterKnows
<1>3. /\ Len(busListeners) \in Nat /\ busAt \in 0 .. Len(busListeners) + 1
      /\ \A i \in 1 .. Len(busListeners) : busListeners[i] \in Conns
      /\ \A c \in Conns : frameListeners[c] \in Seq(Listeners) /\ Len(frameListeners[c]) \in Nat
  BY LenProperties, ElementOfSeq DEF TypeOK
<1>4. CASE EntersConnection
  <2>1. /\ inside = NoConn /\ busAt' = busAt /\ busAt \in 1 .. Len(busListeners)
        /\ inside' = busListeners[busAt] /\ inside' \in Conns /\ frame # NoFrame
        /\ listAt' \in {1, Len(frameListeners[inside']) + 1}
        /\ ~IsFiltered(inside', frame) => listAt' = 1
    BY <1>3, <1>4 DEF EntersConnection, Nested
  <2>2. TypeOK'
    <3>1. listAt' \in 1 .. Len(frameListeners[inside']) + 1
      BY <1>3, <2>1
    <3>2. QED
      BY <1>1, <2>1, <3>1 DEF TypeOK
  <2>3. Nested' /\ AtConnection' /\ AtListener' /\ ClosesOther'
    BY <1>1, <2>1 DEF Nested, AtConnection, AtListener, ClosesOther
  <2>4. DueAhead'
    <3> SUFFICES ASSUME NEW p \in due, Ahead(p) PROVE Ahead(p)'
      BY <1>1 DEF DueAhead
    <3>1. PICK k \in 1 .. Len(busListeners) : k >= busAt /\ busListeners[k] = p[1]
      BY <2>1 DEF Ahead, NextConn, TypeOK
    <3>2. PICK m \in 1 .. Len(frameListeners[p[1]]) : frameListeners[p[1]][m] = p[2]
      BY <2>1 DEF Ahead, TypeOK
    <3>3. CASE k = busAt
      <4>1. inside' = p[1] /\ listAt' = 1 /\ m >= 1
        BY <2>1, <3>1, <3>3 DEF Ahead
      <4>2. QED
        BY <1>1, <3>2, <4>1 DEF Ahead, NextListener
    <3>4. CASE k # busAt
      <4>1. k >= busAt + 1 /\ NextConn' = busAt + 1
        BY <1>3, <2>1, <3>1, <3>4 DEF NextConn
      <4>2. QED
        BY <1>1, <3>1, <3>2, <4>1 DEF Ahead
    <3>5. QED
      BY <3>3, <3>4
  <2>5. QED
    BY <1>2, <2>2, <2>3, <2>4
<1>5. CASE LeavesConnection
  <2>1. /\ inside # NoConn /\ inside' = NoConn /\ listAt' = 0 /\ busAt' = busAt + 1
        /\ busAt \in 1 .. Len(busListeners) /\ listAt > Len(frameListeners[inside])
        /\ frame # NoFrame
    BY <1>5 DEF LeavesConnection, AtConnection, Nested
  <2>2. TypeOK'
    <3>1. busAt' \in 0 .. Len(busListeners) + 1
      BY <1>3, <2>1
    <3>2. QED
      BY <1>1, <2>1, <3>1 DEF TypeOK
  <2>3. Nested' /\ AtConnection' /\ AtListener' /\ ClosesOther'
    BY <1>1, <1>3, <2>1 DEF Nested, AtConnection, AtListener, ClosesOther
  <2>4. DueAhead'
    <3> SUFFICES ASSUME NEW p \in due, Ahead(p) PROVE Ahead(p)'
      BY <1>1 DEF DueAhead
    <3>1. NextConn = busAt + 1 /\ NextConn' = busAt + 1 /\ NextListener = listAt
      BY <1>1, <2>1 DEF NextConn, NextListener
    <3>2. inside \in Conns /\ listAt \in Nat
      BY <2>1 DEF TypeOK
    <3>3. ~\E m \in 1 .. Len(frameListeners[inside]) : m >= listAt
      BY <1>3, <2>1, <3>2
    <3>4. QED
      BY <1>1, <3>1, <3>3 DEF Ahead
  <2>5. QED
    BY <1>2, <2>2, <2>3, <2>4
<1>6. QED
  BY <1>4, <1>5

\* A listener is called, and returns.
LEMMA ListenerKeeps ==
  ASSUME IInv, ~broken, CallsListener \/ ListenerReturns
  PROVE  IInv'
<1> USE ConnectionAssumption DEF IInv
<1>1. /\ UNCHANGED <<started, busListeners, frameListeners, source, alive, pc, broken, closed, moved>>
      /\ UNCHANGED <<frame, busAt, inside, due>>
  BY DEF CallsListener, ListenerReturns, history
<1>2. Registered' /\ FilterKnows' /\ AtConnection' /\ ClosesOther'
  BY <1>1 DEF Registered, FilterKnows, AtConnection, ClosesOther
<1>3. inside \in Conns /\ inside # NoConn /\ Len(frameListeners[inside]) \in Nat
      /\ \A i \in 1 .. Len(frameListeners[inside]) : frameListeners[inside][i] \in Listeners
  <2>1. inside \in Conns /\ inside # NoConn
    BY DEF CallsListener, ListenerReturns, Nested, TypeOK
  <2>2. frameListeners[inside] \in Seq(Listeners)
    BY <2>1 DEF TypeOK
  <2>3. QED
    BY <2>1, <2>2, LenProperties, ElementOfSeq
<1>4. CASE CallsListener
  <2>1. /\ calling = NoListener /\ listAt' = listAt /\ listAt \in 1 .. Len(frameListeners[inside])
        /\ calling' = frameListeners[inside][listAt] /\ calling' \in Listeners
        /\ heard' = heard \cup {<<inside, calling'>>}
    BY <1>3, <1>4 DEF CallsListener, TypeOK
  <2>2. TypeOK'
    <3>1. heard' \subseteq Conns \X Listeners
      BY <1>3, <2>1 DEF TypeOK
    <3>2. QED
      BY <1>1, <2>1, <3>1 DEF TypeOK
  <2>3. Nested' /\ AtListener'
    BY <1>1, <1>3, <2>1 DEF Nested, AtListener
  <2>4. DueAhead'
    <3> SUFFICES ASSUME NEW p \in due, Ahead(p) PROVE p \in heard' \/ Ahead(p)'
      BY <1>1, <2>1 DEF DueAhead
    <3>1. NextListener = listAt /\ NextListener' = listAt + 1 /\ UNCHANGED NextConn
      BY <1>1, <2>1 DEF NextListener, NextConn
    <3>2. CASE /\ inside = p[1]
               /\ \E m \in 1 .. Len(frameListeners[p[1]]) : m >= listAt /\ frameListeners[p[1]][m] = p[2]
      <4>1. PICK m \in 1 .. Len(frameListeners[inside]) :
              m >= listAt /\ frameListeners[inside][m] = p[2]
        BY <3>2
      <4>2. CASE m = listAt
        <5>1. p = <<inside, calling'>>
          BY <2>1, <3>2, <4>1, <4>2 DEF TypeOK
        <5>2. QED
          BY <2>1, <5>1
      <4>3. CASE m # listAt
        <5>1. m >= listAt + 1
          BY <1>3, <2>1, <4>1, <4>3
        <5>2. QED
          BY <1>1, <3>1, <3>2, <4>1, <5>1 DEF Ahead
      <4>4. QED
        BY <4>2, <4>3
    <3>3. QED
      BY <1>1, <3>1, <3>2 DEF Ahead
  <2>5. QED
    BY <1>2, <2>2, <2>3, <2>4
<1>5. CASE ListenerReturns
  <2>1. /\ calling # NoListener /\ calling' = NoListener /\ listAt' = listAt + 1
        /\ listAt \in 1 .. Len(frameListeners[inside]) /\ heard' = heard /\ pc[Reader] = Idle
    BY <1>5 DEF ListenerReturns, AtListener, history
  <2>2. TypeOK'
    <3>1. listAt' \in 1 .. Len(frameListeners[inside]) + 1
      BY <1>3, <2>1
    <3>2. QED
      BY <1>1, <2>1, <3>1 DEF TypeOK
  <2>3. Nested' /\ AtListener'
    BY <1>1, <1>3, <2>1 DEF Nested, AtListener
  <2>4. DueAhead'
    <3>1. NextListener = listAt + 1 /\ NextListener' = listAt + 1 /\ UNCHANGED NextConn
      BY <1>1, <2>1 DEF NextListener, NextConn
    <3>2. QED
      BY <1>1, <2>1, <3>1 DEF DueAhead, Ahead
  <2>5. QED
    BY <1>2, <2>2, <2>3, <2>4
<1>6. QED
  BY <1>4, <1>5

\* Every step keeps the iterators and the lists together.
LEMMA StepKeeps == IInv /\ [Next]_vars => IInv'
<1> SUFFICES ASSUME IInv, [Next]_vars PROVE IInv'
  OBVIOUS
<1>1. CASE UNCHANGED vars
  BY <1>1 DEF vars, dispatchVars, history, IInv, TypeOK, Nested, AtConnection, AtListener,
              ClosesOther, Registered, FilterKnows, DueAhead, Ahead, NextConn, NextListener
<1>2. ASSUME ~broken, NEW t \in Threads, ThreadStep(t) PROVE IInv'
  BY <1>2, OpenKeeps, ClearKeeps, RemoveKeeps, AddKeeps, UnlistenKeeps, AsideKeeps DEF ThreadStep
<1>3. ASSUME ~broken, Dispatch PROVE IInv'
  BY <1>3, FrameKeeps, ConnectionKeeps, ListenerKeeps DEF Dispatch
<1>4. QED
  BY <1>1, <1>2, <1>3, AsideKeeps DEF Next

\* What the iterators point at and what is ahead of them, always.
LEMMA Invariance == Spec => []IInv
  BY InitGood, StepKeeps, PTL DEF Spec

-----------------------------------------------------------------------------
(* What is promised *)

\* Every variable keeps its type, the lists their bound, and an iterator stays
\* within the list it walks, whatever is removed meanwhile.
THEOREM TypeCorrect == Spec => []TypeOK
<1>1. IInv => TypeOK
  BY DEF IInv
<1>2. QED
  BY <1>1, Invariance, PTL

\* While a listener runs it is registered with its connection and the
\* connection with the bus: no removal by another thread returns under a call.
THEOREM RegisteredWhileCalled == Spec => []CalledIsRegistered
<1>1. IInv => CalledIsRegistered
  <2> SUFFICES ASSUME IInv, ~broken, calling # NoListener
               PROVE  calling \in Range(frameListeners[inside]) /\ inside \in Range(busListeners)
    BY DEF CalledIsRegistered
  <2>1. inside # NoConn /\ inside \in Conns
    BY DEF IInv, Nested, TypeOK
  <2>2. busListeners \in Seq(Conns) /\ frameListeners[inside] \in Seq(Listeners)
    BY <2>1 DEF IInv, TypeOK
  <2>3. QED
    BY <2>1, <2>2, RangeEquality DEF IInv, AtConnection, AtListener
<1>2. QED
  BY <1>1, Invariance, PTL

\* The bus neither holds nor calls a connection that was destroyed.
THEOREM NeverDestroyed == Spec => []DestroyedIsUnregistered
<1>1. IInv => DestroyedIsUnregistered
  <2> SUFFICES ASSUME IInv PROVE DestroyedIsUnregistered
    OBVIOUS
  <2>1. Range(busListeners) = {busListeners[i] : i \in 1 .. Len(busListeners)}
    BY RangeEquality DEF IInv, TypeOK
  <2>2. QED
    BY <2>1 DEF IInv, Registered, AtConnection, DestroyedIsUnregistered
<1>2. QED
  BY <1>1, Invariance, PTL

\* At the end of a dispatch every listener that was registered throughout, with
\* a connection the frame is addressed to, has been called.
THEOREM EverybodyHeard == Spec => []HeardByAll
<1>1. IInv => HeardByAll
  <2> SUFFICES ASSUME IInv, ~broken, DispatchOver, NEW p \in due, Ahead(p)
               PROVE  FALSE
    BY DEF IInv, DueAhead, HeardByAll
  <2>1. inside = NoConn /\ NextConn = busAt /\ busAt > Len(busListeners) /\ p[1] # NoConn
    BY ConnectionAssumption DEF DispatchOver, NextConn, IInv, TypeOK
  <2>2. Len(busListeners) \in Nat /\ busAt \in Nat
    BY LenProperties DEF IInv, TypeOK
  <2>3. QED
    BY <2>1, <2>2 DEF Ahead
<1>2. QED
  BY <1>1, Invariance, PTL
=============================================================================
