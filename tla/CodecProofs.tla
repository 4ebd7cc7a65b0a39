---------------------------- MODULE CodecProofs ------------------------------
(***************************************************************************)
(* For any addresses, arguments and frames: what an encoder writes a       *)
(* decoder reads, and no frame whatever makes the decoder shift, overrun   *)
(* or let an exception out of an operand.                                  *)
(*                                                                         *)
(* FlattenSeq is a recursive function; what it returns follows from the    *)
(* function it computes on the way, by taking the least index at which a   *)
(* claim about that function would fail.                                   *)
(***************************************************************************)
EXTENDS Codec, SequenceTheorems, WellFoundedInduction, TLAPS

-----------------------------------------------------------------------------
(* Sequences joined *)

\* A set of natural numbers that is not empty has a least element: what an
\* induction below takes for its smallest counterexample.
LEMMA LeastNumber ==
  ASSUME NEW T, T \subseteq Nat, T # {}
  PROVE \E x \in T : \A y \in T : x <= y
<1> DEFINE R == OpToRel(<, Nat)
<1>1. IsWellFoundedOn(R, Nat)
  BY NatLessThanWellFounded
<1>2. \A a, b \in Nat : a < b => <<a, b>> \in R
  BY DEF OpToRel
<1> HIDE DEF R
<1>3. PICK x \in T : \A y \in T : ~ (<<y, x>> \in R)
  BY <1>1, WFMin
<1>4. \A y \in T : ~(y < x)
  BY <1>2, <1>3
<1>5. \A a, b \in Nat : ~(b < a) => a <= b
  OBVIOUS
<1>6. QED
  BY <1>4, <1>5

\* f is what FlattenSeq computes on the way: f[i] joins the first i elements.
Joins(f, s, n) == f = [i \in 1..n |-> IF i = 1 THEN s[i] ELSE f[i-1] \o s[i]]

\* There is such a function, by induction on n.
LEMMA JoinExists ==
  ASSUME NEW s, NEW n \in Nat
  PROVE  \E f : Joins(f, s, n)
<1> DEFINE T == {m \in Nat : ~ \E f : Joins(f, s, m)}
<1>1. SUFFICES ASSUME T # {} PROVE FALSE
  OBVIOUS
<1>2. PICK m \in T : \A y \in T : m <= y
  BY <1>1, LeastNumber
<1>3. m # 0
  <2>1. Joins(<<>>, s, 0)
    BY DEF Joins
  <2>2. QED
    BY <2>1
<1>4. m - 1 \in Nat /\ m - 1 \notin T
  BY <1>2, <1>3
<1>5. PICK f : Joins(f, s, m - 1)
  BY <1>4
<1> DEFINE g == [i \in 1..m |-> IF i = m THEN (IF i = 1 THEN s[i] ELSE f[i-1] \o s[i]) ELSE f[i]]
<1>6. Joins(g, s, m)
  <2>1. \A i \in 1..m : g[i] = IF i = 1 THEN s[i] ELSE g[i-1] \o s[i]
    <3> TAKE i \in 1..m
    <3>1. CASE i = m
      BY <3>1
    <3>2. CASE i # m
      <4>1. i \in 1..(m-1)
        BY <3>2
      <4>2. f[i] = IF i = 1 THEN s[i] ELSE f[i-1] \o s[i]
        BY <4>1, <1>5 DEF Joins
      <4>3. i # 1 => i - 1 \in 1..m /\ i - 1 # m
        BY <4>1
      <4>4. QED
        BY <4>2, <4>3, <3>2
    <3>3. QED
      BY <3>1, <3>2
  <2>2. QED
    BY <2>1 DEF Joins
<1>7. QED
  BY <1>6, <1>2

\* So FlattenSeq, which chooses one, returns its last value.
LEMMA FlattenJoins ==
  ASSUME NEW s, Len(s) \in Nat \ {0}
  PROVE  \E f : Joins(f, s, Len(s)) /\ FlattenSeq(s) = f[Len(s)]
<1> DEFINE n == Len(s)
   F == CHOOSE f : Joins(f, s, n)
<1>1. Joins(F, s, n)
  BY JoinExists
<1>2. FlattenSeq(s) = F[n]
  BY DEF FlattenSeq, Joins
<1>3. QED
  BY <1>1, <1>2

\* c is a followed by b.
Adjacent(c, a, b) ==
  /\ Len(c) = Len(a) + Len(b)
  /\ \A k \in 1..Len(a) : k \in 1..Len(c) /\ c[k] = a[k]
  /\ \A k \in 1..Len(b) : Len(a) + k \in 1..Len(c) /\ c[Len(a) + k] = b[k]
  /\ \A j \in 1..Len(c) : j \in 1..Len(a) \/ \E k \in 1..Len(b) : j = Len(a) + k

\* Concatenation puts one sequence behind the other.
LEMMA ConcatPlaces ==
  ASSUME NEW S, NEW a \in Seq(S), NEW b \in Seq(S)
  PROVE  a \o b \in Seq(S) /\ Adjacent(a \o b, a, b)
<1>1. Len(a) \in Nat /\ Len(b) \in Nat
  BY LenProperties
<1>2. /\ a \o b \in Seq(S) /\ Len(a \o b) = Len(a) + Len(b)
      /\ \A i \in 1 .. Len(a) + Len(b) : (a \o b)[i] = IF i <= Len(a) THEN a[i] ELSE b[i - Len(a)]
  BY ConcatProperties
<1>3. \A j \in 1..Len(a) + Len(b) :
        j \in 1..Len(a) \/ (j - Len(a) \in 1..Len(b) /\ j = Len(a) + (j - Len(a)))
  BY <1>1
<1>4. QED
  BY <1>1, <1>2, <1>3 DEF Adjacent

\* In c the i-th of the first m elements of s lies behind at[i], and nothing else
\* is in c.
Placed(c, s, at, m) ==
  /\ \A i \in 1..m : \A k \in 1..Len(s[i]) : at[i] + k \in 1..Len(c) /\ c[at[i] + k] = s[i][k]
  /\ \A j \in 1..Len(c) : \E i \in 1..m : \E k \in 1..Len(s[i]) : j = at[i] + k

\* With at[i] the length of the elements before i, each step of FlattenSeq has
\* them there: by induction on m.
LEMMA JoinedPlaces ==
  ASSUME NEW S, NEW s \in Seq(Seq(S)), NEW n \in Nat, NEW f, Joins(f, s, n),
         NEW at \in [1..n + 1 -> Nat], at[1] = 0,
         \A i \in 1..n : at[i + 1] = at[i] + Len(s[i]), n = Len(s),
         NEW m \in 1..n
  PROVE  f[m] \in Seq(S) /\ Len(f[m]) = at[m + 1] /\ Placed(f[m], s, at, m)
<1> DEFINE P(x) == f[x] \in Seq(S) /\ Len(f[x]) = at[x + 1] /\ Placed(f[x], s, at, x)
            T == {x \in 1..n : ~P(x)}
<1>1. \A i \in 1..n : s[i] \in Seq(S) /\ Len(s[i]) \in Nat /\ at[i] \in Nat
  <2>1. \A i \in 1..n : s[i] \in Seq(S)
    BY ElementOfSeq
  <2>2. \A i \in 1..n : i \in 1..n + 1
    OBVIOUS
  <2>3. QED
    BY <2>1, <2>2, LenProperties
<1>2. f[1] = s[1] /\ \A i \in 2..n : f[i] = f[i - 1] \o s[i]
  <2>1. \A i \in 1..n : f[i] = IF i = 1 THEN s[i] ELSE f[i - 1] \o s[i]
    BY DEF Joins
  <2>2. 1 \in 1..n /\ \A i \in 2..n : i \in 1..n /\ i # 1
    OBVIOUS
  <2>3. QED
    BY <2>1, <2>2
<1>3. P(1)
  <2>1. f[1] = s[1] /\ 1 \in 1..n /\ at[2] = at[1] + Len(s[1])
    BY <1>2
  <2>2. \A i \in 1..1 : i = 1
    OBVIOUS
  <2>3. QED
    BY <1>1, <2>1, <2>2 DEF Placed
<1>4. ASSUME NEW x \in 2..n, P(x - 1) PROVE P(x)
  <2>1. x \in 1..n /\ x - 1 \in 1..n /\ (x - 1) + 1 = x
    OBVIOUS
  <2>2. /\ f[x - 1] \in Seq(S) /\ Len(f[x - 1]) = at[x]
        /\ Placed(f[x - 1], s, at, x - 1)
    BY <1>4, <2>1
  <2>3. s[x] \in Seq(S) /\ f[x] = f[x - 1] \o s[x] /\ at[x + 1] = at[x] + Len(s[x])
    BY <1>1, <1>2, <2>1
  <2>4. /\ f[x] \in Seq(S) /\ Len(f[x]) = at[x] + Len(s[x])
        /\ \A k \in 1..Len(f[x - 1]) : k \in 1..Len(f[x]) /\ f[x][k] = f[x - 1][k]
        /\ \A k \in 1..Len(s[x]) : at[x] + k \in 1..Len(f[x]) /\ f[x][at[x] + k] = s[x][k]
        /\ \A j \in 1..Len(f[x]) :
             j \in 1..Len(f[x - 1]) \/ \E k \in 1..Len(s[x]) : j = at[x] + k
    <3> DEFINE a == f[x - 1]
                b == s[x]
    <3>1. a \in Seq(S) /\ b \in Seq(S) /\ f[x] = a \o b /\ Len(a) = at[x]
      BY <2>2, <2>3
    <3> HIDE DEF a, b
    <3>2. f[x] \in Seq(S) /\ Adjacent(f[x], a, b)
      BY <3>1, ConcatPlaces
    <3> DEFINE c == f[x]
               place == at[x]
    <3> HIDE DEF c, place
    <3>3. c \in Seq(S) /\ Adjacent(c, a, b) /\ Len(a) = place
      BY <3>1, <3>2 DEF c, place
    <3>4. /\ c \in Seq(S) /\ Len(c) = place + Len(b)
          /\ \A k \in 1..Len(a) : k \in 1..Len(c) /\ c[k] = a[k]
          /\ \A k \in 1..Len(b) : place + k \in 1..Len(c) /\ c[place + k] = b[k]
          /\ \A j \in 1..Len(c) : j \in 1..Len(a) \/ \E k \in 1..Len(b) : j = place + k
      BY <3>3 DEF Adjacent
    <3>5. QED
      BY <3>4 DEF a, b, c, place
  <2>5. ASSUME NEW i \in 1..x, NEW k \in 1..Len(s[i])
        PROVE  at[i] + k \in 1..Len(f[x]) /\ f[x][at[i] + k] = s[i][k]
    <3>1. CASE i = x
      BY <2>4, <3>1
    <3>2. CASE i # x
      <4>1. i \in 1..x - 1
        BY <3>2
      <4>2. at[i] + k \in 1..Len(f[x - 1]) /\ f[x - 1][at[i] + k] = s[i][k]
        BY <2>2, <4>1 DEF Placed
      <4>3. QED
        BY <2>4, <4>2
    <3>3. QED
      BY <3>1, <3>2
  <2>6. ASSUME NEW j \in 1..Len(f[x])
        PROVE  \E i \in 1..x : \E k \in 1..Len(s[i]) : j = at[i] + k
    <3>1. CASE j \in 1..Len(f[x - 1])
      <4>1. PICK i \in 1..x - 1 : \E k \in 1..Len(s[i]) : j = at[i] + k
        BY <2>2, <3>1 DEF Placed
      <4>2. i \in 1..x
        OBVIOUS
      <4>3. QED
        BY <4>1, <4>2
    <3>2. CASE \E k \in 1..Len(s[x]) : j = at[x] + k
      <4>1. x \in 1..x
        OBVIOUS
      <4>2. QED
        BY <3>2, <4>1
    <3>3. QED
      BY <2>4, <3>1, <3>2
  <2>7. QED
    BY <2>3, <2>4, <2>5, <2>6 DEF Placed
<1> HIDE DEF P
<1>5. P(m)
  <2>1. SUFFICES ASSUME m \in T PROVE FALSE
    OBVIOUS
  <2>2. T \subseteq Nat
    OBVIOUS
  <2>3. PICK x \in T : \A y \in T : x <= y
    <3> HIDE DEF T
    <3>1. QED
      BY <2>1, <2>2, LeastNumber
  <2>4. x \in 2..n /\ x - 1 \in 1..n
    BY <1>3, <2>3
  <2>5. x - 1 \notin T
    BY <2>3, <2>4
  <2>6. P(x - 1)
    BY <2>4, <2>5
  <2>7. P(x)
    BY <1>4, <2>4, <2>6
  <2>8. QED
    BY <2>3, <2>7
<1>6. QED
  BY <1>5 DEF P

\* What FlattenSeq returns has each element at its place.
LEMMA FlattenPlaces ==
  ASSUME NEW S, NEW s \in Seq(Seq(S)), s # <<>>,
         NEW at \in [1..Len(s) + 1 -> Nat], at[1] = 0,
         \A i \in 1..Len(s) : at[i + 1] = at[i] + Len(s[i])
  PROVE  /\ FlattenSeq(s) \in Seq(S) /\ Len(FlattenSeq(s)) = at[Len(s) + 1]
         /\ Placed(FlattenSeq(s), s, at, Len(s))
<1>1. Len(s) \in Nat \ {0} /\ Len(s) \in 1..Len(s)
  BY EmptySeq, LenProperties
<1>2. PICK f : Joins(f, s, Len(s)) /\ FlattenSeq(s) = f[Len(s)]
  BY <1>1, FlattenJoins
<1>3. /\ f[Len(s)] \in Seq(S) /\ Len(f[Len(s)]) = at[Len(s) + 1]
      /\ Placed(f[Len(s)], s, at, Len(s))
  BY <1>1, <1>2, JoinedPlaces
<1>4. QED
  BY <1>2, <1>3

-----------------------------------------------------------------------------
(* Classes and layouts *)

IsText(class, max) == class.max = max /\ class.reads = 0 /\ class.names = 0

\* A class of one byte whose table, if it is read at all, is long enough.
IsByte(class) ==
  /\ class.max = 1 /\ class.reads = 1
  /\ \A b \in Byte : class.entry[b] \in {Unknown} \cup 0..(class.names - 1)

Texts == [OSDString |-> 13, OSDName |-> 14, Language |-> 3, VendorID |-> 3, UICommand |-> 1,
          OpCode |-> 1]

Bytes == {"AbortReason", "DeviceType", "Version", "PowerStatus", "SystemAudioStatus", "AudioStatus",
          "RequestAudioFormat"}

\* The classes are texts, single bytes, and two others.
LEMMA ClassKinds ==
  /\ DOMAIN Class = DOMAIN Texts \cup Bytes \cup {"PhysicalAddress", "ShortAudioDescriptor"}
  /\ \A c \in DOMAIN Texts : IsText(Class[c], Texts[c])
  /\ \A c \in Bytes : IsByte(Class[c])
  /\ LET class == Class["PhysicalAddress"]
     IN class.max = 2 /\ class.reads = 2 /\ class.names = 0
  /\ LET class == Class["ShortAudioDescriptor"]
     IN /\ class.max = 3 /\ class.reads = 3 /\ class.names = 16
        /\ \A b \in Byte : class.entry[b] \in 0..15
<1>1. DOMAIN Class = DOMAIN Texts \cup Bytes \cup {"PhysicalAddress", "ShortAudioDescriptor"}
  BY DEF Class, Texts, Bytes
<1>2. /\ IsText(OSDString, 13) /\ IsText(OSDName, 14) /\ IsText(Language, 3)
      /\ IsText(VendorID, 3) /\ IsText(UICommand, 1) /\ IsText(OpCode, 1)
  BY DEF IsText, OSDString, OSDName, Language, VendorID, UICommand, OpCode, Text
<1>3. \A c \in DOMAIN Texts : IsText(Class[c], Texts[c])
  BY <1>2 DEF Class, Texts
<1>4. /\ IsByte(AbortReason) /\ IsByte(DeviceType) /\ IsByte(Version)
      /\ IsByte(PowerStatus) /\ IsByte(SystemAudioStatus)
  BY DEF IsByte, AbortReason, DeviceType, Version, PowerStatus, SystemAudioStatus, Coded, Byte, Unknown
<1>5. IsByte(AudioStatus) /\ IsByte(RequestAudioFormat)
  BY DEF IsByte, AudioStatus, RequestAudioFormat, Coded, Byte, Unknown
<1>6. \A c \in Bytes : IsByte(Class[c])
  BY <1>4, <1>5 DEF Class, Bytes
<1>7. PhysicalAddress.max = 2 /\ PhysicalAddress.reads = 2 /\ PhysicalAddress.names = 0
  BY DEF PhysicalAddress, Text
<1>8. /\ ShortAudioDescriptor.max = 3 /\ ShortAudioDescriptor.reads = 3
      /\ ShortAudioDescriptor.names = 16
      /\ \A b \in Byte : ShortAudioDescriptor.entry[b] \in 0..15
  BY DEF ShortAudioDescriptor, Byte
<1>9. /\ Class["PhysicalAddress"] = PhysicalAddress
      /\ Class["ShortAudioDescriptor"] = ShortAudioDescriptor
  BY DEF Class
<1>10. QED
  BY <1>1, <1>3, <1>6, <1>7, <1>8, <1>9

Width(class) == Class[class].max

\* No operand is of no bytes.
LEMMA ClassWidths ==
  /\ \A class \in DOMAIN Class : Width(class) \in Nat \ {0}
  /\ \A class \in Bytes : Width(class) = 1
  /\ Width("OpCode") = 1 /\ Width("PhysicalAddress") = 2 /\ Width("ShortAudioDescriptor") = 3
<1>1. \A class \in DOMAIN Texts : Width(class) = Texts[class] /\ Texts[class] \in Nat \ {0}
  BY ClassKinds DEF Texts, IsText, Width
<1>2. "OpCode" \in DOMAIN Texts /\ Texts["OpCode"] = 1
  BY DEF Texts
<1>3. QED
  BY <1>1, <1>2, ClassKinds DEF IsByte, Width

\* At most two operands, and the first of two has a fixed number of bytes.
Pairs == {<<"PhysicalAddress", "DeviceType">>, <<"PhysicalAddress", "PhysicalAddress">>,
          <<"OpCode", "AbortReason">>}

Shape(fields) ==
  \/ fields \in {<<>>} \cup Pairs
  \/ \E class \in DOMAIN Class \ {"ShortAudioDescriptor", "RequestAudioFormat"} : fields = <<class>>

\* The layouts, seven groups of them.
LEMMA LayoutShapes ==
  /\ DOMAIN Layout = DOMAIN Code \ {RequestDescriptor, ReportDescriptor}
  /\ \A name \in DOMAIN Layout : Shape(Layout[name])
<1> DEFINE Of(group) == \A name \in DOMAIN group : Shape(group[name])
<1> USE ClassKinds DEF Shape, Pairs, Texts, Bytes
<1>1. Of(SourceMessages)
  BY DEF SourceMessages
<1>2. Of(VersionMessages)
  BY DEF VersionMessages
<1>3. Of(NameMessages)
  BY DEF NameMessages
<1>4. Of(DeviceMessages)
  BY DEF DeviceMessages
<1>5. Of(RoutingMessages)
  BY DEF RoutingMessages
<1>6. Of(AudioMessages)
  BY DEF AudioMessages
<1>7. Of(ControlMessages)
  BY DEF ControlMessages
<1>8. DOMAIN Code \ {RequestDescriptor, ReportDescriptor}
        = DOMAIN SourceMessages \cup DOMAIN VersionMessages \cup DOMAIN NameMessages
            \cup DOMAIN DeviceMessages \cup DOMAIN RoutingMessages \cup DOMAIN AudioMessages
            \cup DOMAIN ControlMessages
  BY DEF Code, SourceMessages, VersionMessages, NameMessages, DeviceMessages, RoutingMessages,
         AudioMessages, ControlMessages, RequestDescriptor, ReportDescriptor
<1> HIDE ClassKinds DEF Shape, Pairs, Texts, Bytes
<1>9. QED
  BY <1>1, <1>2, <1>3, <1>4, <1>5, <1>6, <1>7, <1>8 DEF Layout

\* The codes of the messages that are decoded are one byte and tell them apart.
LEMMA CodesDiffer ==
  /\ \A m, n \in Decodable : Code[m] = Code[n] => m = n
  /\ \A m \in Decodable : m \in DOMAIN Code /\ Code[m] \in Byte
  /\ \A m \in DOMAIN Code : Code[m] \in Nat
<1>1. \A m, n \in Decodable : Code[m] = Code[n] => m = n
  BY DEF Code, Decodable, SourceMessages, VersionMessages, NameMessages, DeviceMessages,
         RoutingMessages, RequestDescriptor, ReportDescriptor
<1>2. \A m \in Decodable : m \in DOMAIN Code /\ Code[m] \in Byte
  BY DEF Code, Decodable, SourceMessages, VersionMessages, NameMessages, DeviceMessages,
         RoutingMessages, RequestDescriptor, ReportDescriptor, Byte
<1>3. \A m \in DOMAIN Code : Code[m] \in Nat
  BY DEF Code
<1>4. QED
  BY <1>1, <1>2, <1>3

-----------------------------------------------------------------------------
(* Where operands start *)

\* All operands but the last are as wide as the first.
Uniform(fields) ==
  /\ fields \in Seq(DOMAIN Class)
  /\ \A i \in 1..(Len(fields) - 1) : Width(fields[i]) = Width(fields[1])

\* Copies of one class are uniform.
LEMMA CopiesUniform ==
  ASSUME NEW n \in Nat, NEW class \in DOMAIN Class
  PROVE  /\ Uniform([i \in 1..n |-> class]) /\ Len([i \in 1..n |-> class]) = n
<1> DEFINE fields == [i \in 1..n |-> class]
<1>1. fields \in Seq(DOMAIN Class) /\ Len(fields) = n /\ \A i \in 1..n : fields[i] = class
  OBVIOUS
<1>2. \A i \in 1..(Len(fields) - 1) : i \in 1..n /\ 1 \in 1..n
  BY <1>1
<1> HIDE DEF fields
<1>3. Uniform(fields) /\ Len(fields) = n
  BY <1>1, <1>2 DEF Uniform
<1>4. QED
  BY <1>3 DEF fields

\* The operands of every message are.
LEMMA LayoutUniform ==
  ASSUME NEW name \in DOMAIN Layout
  PROVE  Uniform(Layout[name])
<1>1. CASE Layout[name] = <<>>
  BY <1>1 DEF Uniform
<1>2. CASE Layout[name] \in Pairs
  <2>1. Layout[name] \in Seq(DOMAIN Class) /\ Len(Layout[name]) = 2
    <3>1. {"PhysicalAddress", "DeviceType", "OpCode", "AbortReason"} \subseteq DOMAIN Class
      BY ClassKinds DEF Texts, Bytes
    <3>2. \A a, c \in DOMAIN Class : <<a, c>> \in Seq(DOMAIN Class) /\ Len(<<a, c>>) = 2
      OBVIOUS
    <3>3. \E a, c \in DOMAIN Class : Layout[name] = <<a, c>>
      BY <1>2, <3>1 DEF Pairs
    <3>4. QED
      BY <3>2, <3>3
  <2>2. \A i \in 1..(2 - 1) : i = 1
    OBVIOUS
  <2>3. QED
    BY <2>1, <2>2 DEF Uniform
<1>3. ASSUME NEW class \in DOMAIN Class, Layout[name] = <<class>>
      PROVE  Uniform(Layout[name])
  BY <1>3 DEF Uniform
<1>4. QED
  BY <1>1, <1>2, <1>3, LayoutShapes DEF Shape

\* Those a frame is read into as well.
LEMMA FieldsUniform ==
  ASSUME NEW name \in DOMAIN Code, NEW bytes \in Seq(Byte)
  PROVE  Uniform(Fields(name, bytes))
<1>1. /\ Len(bytes) \in Nat /\ Len(bytes) \div 3 \in Nat
      /\ (IF Len(bytes) > MaxDescriptors THEN MaxDescriptors ELSE Len(bytes)) \in Nat
  BY LenProperties DEF MaxDescriptors
<1>2. {"RequestAudioFormat", "ShortAudioDescriptor"} \subseteq DOMAIN Class
  BY ClassKinds DEF Bytes
<1>3. CASE name = RequestDescriptor
  BY <1>1, <1>2, <1>3, CopiesUniform DEF Fields
<1>4. CASE name = ReportDescriptor
  BY <1>1, <1>2, <1>4, CopiesUniform DEF Fields, RequestDescriptor, ReportDescriptor
<1>5. CASE name \notin {RequestDescriptor, ReportDescriptor}
  BY <1>5, LayoutShapes, LayoutUniform DEF Fields
<1>6. QED
  BY <1>3, <1>4, <1>5

\* The offsets go up by the width of the first operand.
LEMMA StartSteps ==
  ASSUME NEW fields, Width(fields[1]) \in Nat
  PROVE  /\ Start(fields, 1) = 0
         /\ \A i \in Nat \ {0} : /\ Start(fields, i) \in Nat
                                 /\ Start(fields, i + 1) = Start(fields, i) + Width(fields[1])
<1> DEFINE d == Width(fields[1])
<1>1. \A i : Start(fields, i) = (i - 1) * d
  BY DEF Start, Width
<1>2. d \in Nat
  OBVIOUS
<1> HIDE DEF d
<1>3. \A i \in Nat \ {0} : (i - 1) * d \in Nat /\ ((i + 1) - 1) * d = (i - 1) * d + d
  BY <1>2
<1>4. (1 - 1) * d = 0
  BY <1>2
<1>5. QED
  BY <1>1, <1>3, <1>4 DEF d

-----------------------------------------------------------------------------
(* The operands read from a frame *)

\* An operand of what there is of its bytes, none when there is none.
Cut(str, bytes, start, max) ==
  /\ str \in Seq(Byte) /\ Len(str) <= max
  /\ str # Thrown <=> start < Len(bytes)
  /\ start < Len(bytes) =>
       Len(str) = IF start + max > Len(bytes) THEN Len(bytes) - start ELSE max
  /\ \A k \in 1..Len(str) : start + k \in 1..Len(bytes) /\ str[k] = bytes[start + k]

\* That is what the constructor of an operand makes.
LEMMA OperandCut ==
  ASSUME NEW bytes \in Seq(Byte), NEW start \in Nat, NEW max \in Nat \ {0}
  PROVE  Cut(CECBytes(bytes, start, max), bytes, start, max)
<1> DEFINE str == CECBytes(bytes, start, max)
           end == IF start + max > Len(bytes) THEN Len(bytes) ELSE start + max
<1>1. Len(bytes) \in Nat
  BY LenProperties
<1>2. CASE start > Len(bytes)
  <2>1. str = <<>>
    BY <1>2 DEF CECBytes, Thrown
  <2>2. QED
    BY <1>1, <1>2, <2>1 DEF Thrown, Cut
<1>3. CASE start <= Len(bytes)
  <2>1. str = SubSeq(bytes, start + 1, end)
    BY <1>1, <1>3 DEF CECBytes
  <2>2. end \in Nat /\ end <= Len(bytes) /\ start <= end /\ end <= start + max
    BY <1>1, <1>3
  <2>3. start < Len(bytes) <=> start < end
    BY <1>1, <1>3
  <2>4. start < Len(bytes) =>
          end - start = IF start + max > Len(bytes) THEN Len(bytes) - start ELSE max
    BY <1>1
  <2> HIDE DEF end, str
  <2>5. /\ str \in Seq(Byte) /\ Len(str) = end - start
        /\ \A k \in 1..(end - start) : str[k] = bytes[start + k]
    <3>1. \A k \in (start + 1)..end : bytes[k] \in Byte
      BY <1>1, <2>2, ElementOfSeq
    <3>2. /\ str \in Seq(Byte)
          /\ Len(str) = IF start + 1 <= end THEN end - (start + 1) + 1 ELSE 0
          /\ \A k \in 1..(end - (start + 1) + 1) : str[k] = bytes[(start + 1) + k - 1]
      BY <2>1, <2>2, <3>1, SubSeqProperties
    <3>3. QED
      BY <2>2, <3>2
  <2>6. str # Thrown <=> Len(str) > 0
    BY <2>2, <2>5, EmptySeq DEF Thrown
  <2>7. QED
    BY <1>1, <2>2, <2>3, <2>4, <2>5, <2>6 DEF Cut, str
<1>4. QED
  BY <1>1, <1>2, <1>3

\* Operands that lie in the bytes one behind the other, only the last one short.
Accepted(fields, bytes, operands) ==
  /\ operands \in Seq(Seq(Byte)) /\ Len(operands) = Len(fields)
  /\ \A i \in 1..Len(fields) :
       /\ Len(operands[i]) \in 1..Width(fields[i])
       /\ Start(fields, i) + Len(operands[i]) <= Len(bytes)
       /\ \A k \in 1..Len(operands[i]) : operands[i][k] = bytes[Start(fields, i) + k]
  /\ \A i \in 1..(Len(fields) - 1) : Len(operands[i]) = Width(fields[i])

\* Where the operands of a uniform message start.
LEMMA StartsUp ==
  ASSUME NEW fields, Uniform(fields), Len(fields) > 0
  PROVE  /\ Len(fields) \in Nat \ {0} /\ Start(fields, 1) = 0
         /\ \A i \in 1..Len(fields) : Start(fields, i) \in Nat /\ Width(fields[i]) \in Nat \ {0}
         /\ \A i \in 1..(Len(fields) - 1) : Start(fields, i + 1) = Start(fields, i) + Width(fields[i])
<1>1. Len(fields) \in Nat \ {0} /\ \A i \in 1..Len(fields) : fields[i] \in DOMAIN Class
  BY LenProperties, ElementOfSeq DEF Uniform
<1>2. \A i \in 1..Len(fields) : Width(fields[i]) \in Nat \ {0}
  BY <1>1, ClassWidths
<1>3. Width(fields[1]) \in Nat
  BY <1>1, <1>2
<1>4. /\ Start(fields, 1) = 0
      /\ \A i \in Nat \ {0} : /\ Start(fields, i) \in Nat
                              /\ Start(fields, i + 1) = Start(fields, i) + Width(fields[1])
  BY <1>3, StartSteps
<1>5. \A i \in 1..(Len(fields) - 1) : Width(fields[i]) = Width(fields[1])
  BY DEF Uniform
<1>6. \A i \in 1..Len(fields) : i \in Nat \ {0}
  OBVIOUS
<1>7. \A i \in 1..(Len(fields) - 1) : i \in Nat \ {0}
  OBVIOUS
<1>8. QED
  BY <1>1, <1>2, <1>4, <1>5, <1>6, <1>7

\* What is not refused is accepted: an operand has bytes only if the one before
\* it has all of its own.
LEMMA NotRefusedAccepted ==
  ASSUME NEW fields, Uniform(fields), NEW bytes \in Seq(Byte), NEW operands,
         operands = [i \in DOMAIN fields |-> CECBytes(bytes, Start(fields, i), Class[fields[i]].max)],
         \A i \in DOMAIN operands : operands[i] # Thrown
  PROVE  Accepted(fields, bytes, operands)
<1>1. Len(fields) \in Nat /\ Len(bytes) \in Nat /\ DOMAIN fields = 1..Len(fields)
  BY LenProperties DEF Uniform
<1>2. CASE Len(fields) = 0
  <2>1. operands = <<>>
    BY <1>1, <1>2
  <2>2. QED
    BY <1>1, <1>2, <2>1 DEF Accepted
<1>3. CASE Len(fields) > 0
  <2>1. /\ \A i \in 1..Len(fields) : Start(fields, i) \in Nat /\ Width(fields[i]) \in Nat \ {0}
        /\ \A i \in 1..(Len(fields) - 1) :
             Start(fields, i + 1) = Start(fields, i) + Width(fields[i])
    BY <1>3, StartsUp
  <2>2. ASSUME NEW i \in 1..Len(fields)
        PROVE  LET str == operands[i]
                   start == Start(fields, i)
                   max == Width(fields[i])
               IN /\ str \in Seq(Byte) /\ Len(str) <= max /\ start < Len(bytes)
                  /\ Len(str) = IF start + max > Len(bytes) THEN Len(bytes) - start ELSE max
                  /\ \A k \in 1..Len(str) : str[k] = bytes[start + k]
    <3> DEFINE str == operands[i]
               start == Start(fields, i)
               max == Width(fields[i])
    <3>1. str = CECBytes(bytes, start, max) /\ str # Thrown
      BY <1>1 DEF Width
    <3>2. start \in Nat /\ max \in Nat \ {0}
      BY <2>1
    <3> HIDE DEF str, start, max
    <3>3. Cut(str, bytes, start, max)
      BY <3>1, <3>2, OperandCut
    <3>4. QED
      BY <3>1, <3>3 DEF Cut, str, start, max
  <2>3. operands \in Seq(Seq(Byte)) /\ Len(operands) = Len(fields)
    BY <1>1, <2>2
  <2>4. ASSUME NEW i \in 1..Len(fields)
        PROVE  /\ Len(operands[i]) \in 1..Width(fields[i])
               /\ Start(fields, i) + Len(operands[i]) <= Len(bytes)
    BY <1>1, <2>1, <2>2
  <2>5. ASSUME NEW i \in 1..(Len(fields) - 1)
        PROVE  Len(operands[i]) = Width(fields[i])
    <3>1. i \in 1..Len(fields) /\ i + 1 \in 1..Len(fields)
      BY <1>1
    <3>2. Start(fields, i) + Width(fields[i]) < Len(bytes)
      BY <2>1, <2>2, <3>1
    <3>3. QED
      BY <1>1, <2>1, <2>2, <3>1, <3>2
  <2>6. QED
    BY <2>2, <2>3, <2>4, <2>5 DEF Accepted
<1>4. QED
  BY <1>1, <1>2, <1>3

Starts(fields) == [i \in 1..Len(fields) |-> Start(fields, i)]

\* Operands that are as wide as their classes, the last one excepted, are
\* joined to bytes in which each lies where it is looked for.
LEMMA JoinedOperands ==
  ASSUME NEW fields, Uniform(fields), NEW operands \in Seq(Seq(Byte)),
         Len(operands) = Len(fields), Len(fields) > 0,
         \A i \in 1..(Len(fields) - 1) : Len(operands[i]) = Width(fields[i])
  PROVE  LET n == Len(fields)
             bytes == FlattenSeq(operands)
         IN /\ bytes \in Seq(Byte) /\ Len(bytes) = Start(fields, n) + Len(operands[n])
            /\ Placed(bytes, operands, Starts(fields), n)
<1> DEFINE n == Len(fields)
           bytes == FlattenSeq(operands)
           at == [i \in 1..n + 1 |-> IF i = n + 1 THEN Start(fields, n) + Len(operands[n])
                                     ELSE Start(fields, i)]
<1>1. /\ n \in Nat \ {0} /\ Start(fields, 1) = 0
      /\ \A i \in 1..n : Start(fields, i) \in Nat
      /\ \A i \in 1..(n - 1) : Start(fields, i + 1) = Start(fields, i) + Width(fields[i])
  BY StartsUp
<1>2. \A i \in 1..n : Len(operands[i]) \in Nat
  <2>1. \A i \in 1..n : operands[i] \in Seq(Byte)
    BY ElementOfSeq
  <2>2. QED
    BY <2>1, LenProperties
<1> HIDE DEF n
<1>3. n = Len(operands) /\ n = Len(fields) /\ operands # <<>>
  BY <1>1, EmptySeq DEF n
<1>4. /\ at \in [1..n + 1 -> Nat] /\ at[1] = 0
      /\ at[n + 1] = Start(fields, n) + Len(operands[n])
      /\ \A i \in 1..n : at[i] = Start(fields, i)
  <2>1. n \in 1..n /\ 1 \in 1..n + 1 /\ 1 # n + 1 /\ \A i \in 1..n : i \in 1..n + 1 /\ i # n + 1
    BY <1>1
  <2>2. \A i \in 1..n + 1 : i = n + 1 \/ i \in 1..n
    BY <1>1
  <2>3. Start(fields, n) + Len(operands[n]) \in Nat
    BY <1>1, <1>2, <2>1
  <2>4. /\ at[n + 1] = Start(fields, n) + Len(operands[n])
        /\ \A i \in 1..n : at[i] = Start(fields, i)
    BY <1>1, <2>1
  <2>5. \A i \in 1..n + 1 : at[i] \in Nat
    BY <1>1, <2>2, <2>3, <2>4
  <2>6. at[1] = 0
    BY <1>1, <2>1, <2>4
  <2>7. at \in [1..n + 1 -> Nat]
    BY <2>5
  <2>8. QED
    BY <2>4, <2>6, <2>7
<1>5. \A i \in 1..n : at[i + 1] = at[i] + Len(operands[i])
  <2> TAKE i \in 1..n
  <2>1. CASE i = n
    BY <1>4, <2>1
  <2>2. CASE i # n
    <3>1. i \in 1..(n - 1) /\ i + 1 \in 1..n
      BY <1>1, <2>2
    <3>2. Len(operands[i]) = Width(fields[i])
      BY <1>3, <3>1
    <3>3. QED
      BY <1>1, <1>4, <3>1, <3>2
  <2>3. QED
    BY <2>1, <2>2
<1> HIDE DEF at, bytes
<1>6. bytes \in Seq(Byte) /\ Len(bytes) = at[n + 1] /\ Placed(bytes, operands, at, n)
  BY <1>3, <1>4, <1>5, FlattenPlaces DEF bytes
<1>7. \A i \in 1..n : Starts(fields)[i] = at[i]
  BY <1>3, <1>4 DEF Starts
<1>8. Placed(bytes, operands, Starts(fields), n)
  <2>1. /\ \A i \in 1..n : \A k \in 1..Len(operands[i]) :
             at[i] + k \in 1..Len(bytes) /\ bytes[at[i] + k] = operands[i][k]
        /\ \A j \in 1..Len(bytes) :
             \E i \in 1..n : at[i] = Starts(fields)[i] /\ \E k \in 1..Len(operands[i]) : j = at[i] + k
    BY <1>6, <1>7 DEF Placed
  <2>2. \A j \in 1..Len(bytes) :
          \E i \in 1..n : \E k \in 1..Len(operands[i]) : j = Starts(fields)[i] + k
    <3> TAKE j \in 1..Len(bytes)
    <3>1. PICK i \in 1..n : at[i] = Starts(fields)[i] /\ \E k \in 1..Len(operands[i]) : j = at[i] + k
      BY <2>1
    <3>2. PICK k \in 1..Len(operands[i]) : j = Starts(fields)[i] + k
      BY <3>1
    <3>3. QED
      BY <3>2
  <2>3. \A i \in 1..n : \A k \in 1..Len(operands[i]) :
          /\ Starts(fields)[i] + k \in 1..Len(bytes)
          /\ bytes[Starts(fields)[i] + k] = operands[i][k]
    BY <1>7, <2>1
  <2>4. QED
    BY <2>2, <2>3 DEF Placed
<1>9. QED
  BY <1>4, <1>6, <1>8 DEF n, bytes

\* A sequence that agrees with another one as far as it goes is its prefix.
LEMMA AgreesIsPrefix ==
  ASSUME NEW s \in Seq(Byte), NEW t \in Seq(Byte), Len(s) <= Len(t),
         \A j \in 1..Len(s) : s[j] = t[j]
  PROVE  IsPrefix(s, t)
<1>1. Len(s) \in Nat /\ Len(t) \in Nat
  BY LenProperties
<1>2. SubSeq(s, 1, Len(s)) = s
  BY SubSeqFull
<1>3. /\ SubSeq(t, 1, Len(s)) \in Seq(Byte) /\ Len(SubSeq(t, 1, Len(s))) = Len(s)
      /\ \A j \in 1..Len(s) : SubSeq(t, 1, Len(s))[j] = t[j]
  <2>1. \A j \in 1..Len(s) : t[j] \in Byte
    BY <1>1, ElementOfSeq
  <2>2. /\ SubSeq(t, 1, Len(s)) \in Seq(Byte)
        /\ Len(SubSeq(t, 1, Len(s))) = IF 1 <= Len(s) THEN Len(s) - 1 + 1 ELSE 0
        /\ \A j \in 1..(Len(s) - 1 + 1) : SubSeq(t, 1, Len(s))[j] = t[1 + j - 1]
    BY <1>1, <2>1, SubSeqProperties
  <2>3. QED
    BY <1>1, <2>2
<1>4. s = SubSeq(t, 1, Len(s))
  BY <1>3, SeqEqual
<1>5. QED
  BY <1>2, <1>4 DEF IsPrefix

\* The accepted operands, joined, are a prefix of the frame.
LEMMA AcceptedJoined ==
  ASSUME NEW fields, Uniform(fields), NEW bytes \in Seq(Byte), NEW operands,
         Accepted(fields, bytes, operands)
  PROVE  IsPrefix(FlattenSeq(operands), bytes)
<1>1. /\ Len(fields) \in Nat /\ Len(bytes) \in Nat /\ operands \in Seq(Seq(Byte))
      /\ Len(operands) = Len(fields)
  BY LenProperties DEF Uniform, Accepted
<1>2. CASE Len(fields) = 0
  <2>1. operands = <<>> /\ FlattenSeq(operands) = <<>>
    BY <1>1, <1>2, EmptySeq DEF FlattenSeq
  <2>2. /\ <<>> \in Seq(Byte) /\ Len(<<>>) <= Len(bytes)
        /\ \A j \in 1..Len(<<>>) : <<>>[j] = bytes[j]
    BY <1>1
  <2>3. IsPrefix(<<>>, bytes)
    BY <2>2, AgreesIsPrefix
  <2>4. QED
    BY <2>1, <2>3
<1>3. CASE Len(fields) > 0
  <2> DEFINE n == Len(fields)
             joined == FlattenSeq(operands)
  <2>1. \A i \in 1..(n - 1) : Len(operands[i]) = Width(fields[i])
    BY DEF Accepted
  <2>2. /\ joined \in Seq(Byte) /\ Len(joined) = Start(fields, n) + Len(operands[n])
        /\ Placed(joined, operands, Starts(fields), n)
    BY <1>1, <1>3, <2>1, JoinedOperands
  <2> HIDE DEF joined
  <2>3. n \in 1..n
    BY <1>1, <1>3
  <2>4. Len(joined) <= Len(bytes)
    BY <2>2, <2>3 DEF Accepted
  <2>5. ASSUME NEW j \in 1..Len(joined)
        PROVE  joined[j] = bytes[j]
    <3>1. PICK i \in 1..n : \E k \in 1..Len(operands[i]) : j = Start(fields, i) + k
      BY <2>2 DEF Placed, Starts
    <3>2. PICK k \in 1..Len(operands[i]) : j = Start(fields, i) + k
      BY <3>1
    <3>3. joined[j] = operands[i][k]
      BY <2>2, <3>2 DEF Placed, Starts
    <3>4. operands[i][k] = bytes[j]
      BY <3>2 DEF Accepted
    <3>5. QED
      BY <3>3, <3>4
  <2>6. QED
    BY <2>2, <2>4, <2>5, AgreesIsPrefix DEF joined
<1>4. QED
  BY <1>1, <1>2, <1>3

-----------------------------------------------------------------------------
(* The operands an application constructs *)

\* FlattenSeq returns a sequence of what its elements are made of, by induction
\* on the elements it has joined.
LEMMA FlattenTyped ==
  ASSUME NEW S, NEW s \in Seq(Seq(S))
  PROVE  FlattenSeq(s) \in Seq(S)
<1>1. CASE s = <<>>
  BY <1>1 DEF FlattenSeq
<1>2. CASE s # <<>>
  <2>1. Len(s) \in Nat \ {0} /\ \A i \in 1..Len(s) : s[i] \in Seq(S)
    BY <1>2, EmptySeq, ElementOfSeq
  <2>2. PICK f : Joins(f, s, Len(s)) /\ FlattenSeq(s) = f[Len(s)]
    BY <2>1, FlattenJoins
  <2>3. \A i \in 1..Len(s) : f[i] = IF i = 1 THEN s[i] ELSE f[i - 1] \o s[i]
    BY <2>2 DEF Joins
  <2> DEFINE T == {x \in 1..Len(s) : f[x] \notin Seq(S)}
  <2>4. SUFFICES ASSUME Len(s) \in T PROVE FALSE
    BY <2>1, <2>2
  <2>5. T \subseteq Nat
    OBVIOUS
  <2>6. PICK x \in T : \A y \in T : x <= y
    <3> HIDE DEF T
    <3>1. QED
      BY <2>4, <2>5, LeastNumber
  <2>7. x \in 1..Len(s) /\ f[x] \notin Seq(S) /\ s[x] \in Seq(S)
    BY <2>1, <2>6
  <2>8. x # 1
    BY <2>3, <2>7
  <2>9. x - 1 \in 1..Len(s) /\ x - 1 \notin T
    BY <2>1, <2>6, <2>7, <2>8
  <2>10. f[x] = f[x - 1] \o s[x] /\ f[x - 1] \in Seq(S)
    BY <2>3, <2>7, <2>8, <2>9
  <2>11. QED
    BY <2>7, <2>10, ConcatProperties
<1>3. QED
  BY <1>1, <1>2

\* Arguments become bytes.
LEMMA BuildTyped ==
  ASSUME NEW class \in DOMAIN Class, NEW arg \in Given(class)
  PROVE  /\ Build(class, arg) \in Seq(Byte)
         /\ class \notin {"PhysicalAddress", "RequestAudioFormat", "ShortAudioDescriptor"} =>
              arg \in Seq(Byte) /\ Build(class, arg) = arg
<1>1. CASE class = "PhysicalAddress"
  <2>1. arg \in [1..4 -> 0..15]
    BY <1>1 DEF Given
  <2>2. \A a, b \in 0..15 : Packed(a, b) \in Byte
    BY DEF Packed, Byte
  <2>3. Packed(arg[1], arg[2]) \in Byte /\ Packed(arg[3], arg[4]) \in Byte
    BY <2>1, <2>2
  <2>4. Build(class, arg) = <<Packed(arg[1], arg[2]), Packed(arg[3], arg[4])>>
    BY <1>1 DEF Build, PackedAddress
  <2>5. \A p, q \in Byte : <<p, q>> \in Seq(Byte)
    OBVIOUS
  <2>6. Build(class, arg) \in Seq(Byte)
    BY <2>3, <2>4, <2>5
  <2>7. QED
    BY <1>1, <2>6
<1>2. CASE class = "RequestAudioFormat"
  <2>1. arg[1] \in 0..3 /\ arg[2] \in 0..63
    BY <1>2 DEF Given
  <2>2. (64 * arg[1] + (arg[2] % 64)) % 256 \in Byte
    BY <2>1 DEF Byte
  <2>3. QED
    BY <1>2, <2>2 DEF Build, PackedFormat
<1>3. CASE class = "ShortAudioDescriptor"
  <2>1. arg \in [1..3 -> Byte]
    BY <1>3 DEF Given
  <2>2. \A i \in 1..3 : arg[i] % 16 \in Byte
    BY <2>1 DEF Byte
  <2>3. [i \in 1..3 |-> arg[i] % 16] \in Seq(Byte)
    BY <2>2
  <2>4. QED
    BY <1>3, <2>3 DEF Build, PackedDescriptor
<1>4. CASE class \notin {"PhysicalAddress", "RequestAudioFormat", "ShortAudioDescriptor"}
  <2>1. \/ arg \in [1..1 -> Byte] \/ arg \in [1..3 -> Byte] \/ arg \in Seq(Byte)
    BY <1>4 DEF Given
  <2>2. arg \in Seq(Byte)
    <3>1. [1..1 -> Byte] \subseteq Seq(Byte) /\ [1..3 -> Byte] \subseteq Seq(Byte)
      BY SeqDef
    <3>2. QED
      BY <2>1, <3>1
  <2>3. \A i \in DOMAIN arg : arg[i] % 256 = arg[i]
    <3>1. \A i \in 1..Len(arg) : arg[i] \in Byte
      BY <2>2, ElementOfSeq
    <3>2. \A b \in Byte : b % 256 = b
      BY DEF Byte
    <3>3. QED
      BY <2>2, <3>1, <3>2, LenProperties
  <2>4. Build(class, arg) = arg
    <3>1. Build(class, arg) = [i \in DOMAIN arg |-> arg[i] % 256]
      BY <1>4 DEF Build
    <3>2. arg = [i \in DOMAIN arg |-> arg[i]]
      BY <2>2, LenProperties
    <3>3. QED
      BY <2>3, <3>1, <3>2
  <2>5. QED
    BY <2>2, <2>4
<1>5. QED
  BY <1>1, <1>2, <1>3, <1>4

\* A text is cut to the bytes its class has.
LEMMA FitCuts ==
  ASSUME NEW class \in DOMAIN Class, NEW str \in Seq(Byte)
  PROVE  /\ Fit(class, str) \in Seq(Byte)
         /\ Len(Fit(class, str)) = IF Len(str) > Width(class) THEN Width(class) ELSE Len(str)
         /\ \A k \in 1..Len(Fit(class, str)) : k \in 1..Len(str) /\ Fit(class, str)[k] = str[k]
         /\ Len(str) <= Width(class) => Fit(class, str) = str
         /\ str # <<>> => Fit(class, str) # <<>>
<1> DEFINE n == IF Len(str) > Width(class) THEN Width(class) ELSE Len(str)
<1>1. Len(str) \in Nat /\ Width(class) \in Nat \ {0} /\ n \in Nat /\ n <= Len(str)
  BY LenProperties, ClassWidths
<1>2. Fit(class, str) = SubSeq(str, 1, n)
  BY DEF Fit, Width
<1>3. Len(str) <= Width(class) => n = Len(str)
  BY <1>1
<1>4. str # <<>> => n > 0
  BY <1>1, EmptySeq
<1> HIDE DEF n
<1>5. \A k \in 1..n : str[k] \in Byte
  BY <1>1, ElementOfSeq
<1>6. /\ SubSeq(str, 1, n) \in Seq(Byte) /\ Len(SubSeq(str, 1, n)) = n
      /\ \A k \in 1..n : SubSeq(str, 1, n)[k] = str[k]
  <2>1. /\ SubSeq(str, 1, n) \in Seq(Byte)
        /\ Len(SubSeq(str, 1, n)) = IF 1 <= n THEN n - 1 + 1 ELSE 0
        /\ \A k \in 1..(n - 1 + 1) : SubSeq(str, 1, n)[k] = str[1 + k - 1]
    BY <1>1, <1>5, SubSeqProperties
  <2>2. QED
    BY <1>1, <2>1
<1>7. n = Len(str) => SubSeq(str, 1, n) = str
  BY SubSeqFull
<1>8. Len(<<>>) = 0
  OBVIOUS
<1>9. /\ Fit(class, str) \in Seq(Byte) /\ Len(Fit(class, str)) = n
      /\ \A k \in 1..n : k \in 1..Len(str) /\ Fit(class, str)[k] = str[k]
      /\ n = Len(str) => Fit(class, str) = str
  BY <1>1, <1>2, <1>6, <1>7
<1>10. QED
  BY <1>3, <1>4, <1>8, <1>9 DEF n

\* What a receiver should read of one argument.
Wanted(class, arg) ==
  IF class \in {"PhysicalAddress", "RequestAudioFormat"} THEN arg ELSE Fit(class, arg)

\* The accessors undo the constructors, for all classes but the descriptors.
LEMMA ReadBuilt ==
  ASSUME NEW class \in DOMAIN Class \ {"ShortAudioDescriptor"}, NEW arg \in Given(class)
  PROVE  /\ Read(class, Fit(class, Build(class, arg))) = Wanted(class, arg)
         /\ class \in {"PhysicalAddress", "OpCode", "RequestAudioFormat"} =>
              Len(Build(class, arg)) = Width(class)
         /\ arg # <<>> => Build(class, arg) # <<>>
<1>1. Build(class, arg) \in Seq(Byte)
  BY BuildTyped
<1>2. CASE class = "PhysicalAddress"
  <2>1. /\ arg \in [1..4 -> 0..15]
        /\ Build(class, arg) = <<Packed(arg[1], arg[2]), Packed(arg[3], arg[4])>>
    BY <1>2 DEF Given, Build, PackedAddress
  <2>2. Width(class) = 2 /\ Len(Build(class, arg)) = 2
    <3>1. \A p, q : Len(<<p, q>>) = 2
      OBVIOUS
    <3>2. QED
      BY <1>2, <2>1, <3>1, ClassWidths
  <2>3. Fit(class, Build(class, arg)) = Build(class, arg)
    BY <1>1, <2>2, FitCuts
  <2>4. \A a, b \in 0..15 : Packed(a, b) \div 16 = a /\ Packed(a, b) % 16 = b
    BY DEF Packed
  <2>5. ByteValues(Build(class, arg)) = <<arg[1], arg[2], arg[3], arg[4]>>
    BY <2>1, <2>4 DEF ByteValues
  <2>6. arg = <<arg[1], arg[2], arg[3], arg[4]>>
    BY <2>1
  <2>7. Read(class, Build(class, arg)) = arg
    BY <1>2, <2>5, <2>6 DEF Read
  <2>8. Read(class, Fit(class, Build(class, arg))) = Wanted(class, arg)
    BY <1>2, <2>3, <2>7 DEF Wanted
  <2>9. QED
    BY <2>2, <2>8, EmptySeq
<1>3. CASE class = "RequestAudioFormat"
  <2>1. /\ arg[1] \in 0..3 /\ arg[2] \in 0..63 /\ arg = <<arg[1], arg[2]>>
        /\ Build(class, arg) = <<(64 * arg[1] + (arg[2] % 64)) % 256>>
    BY <1>3 DEF Given, Build, PackedFormat
  <2>2. Width(class) = 1 /\ Len(Build(class, arg)) = 1
    <3>1. \A p : Len(<<p>>) = 1
      OBVIOUS
    <3>2. QED
      BY <1>3, <2>1, <3>1, ClassWidths DEF Bytes
  <2>3. Fit(class, Build(class, arg)) = Build(class, arg)
    BY <1>1, <2>2, FitCuts
  <2>4. \A a \in 0..3, b \in 0..63 :
          /\ ((64 * a + (b % 64)) % 256) \div 64 = a
          /\ ((64 * a + (b % 64)) % 256) % 64 = b
    OBVIOUS
  <2>5. FormatOf(Build(class, arg)) = <<arg[1], arg[2]>>
    BY <2>1, <2>4 DEF FormatOf
  <2>6. Read(class, Build(class, arg)) = arg
    BY <1>3, <2>1, <2>5 DEF Read
  <2>7. Read(class, Fit(class, Build(class, arg))) = Wanted(class, arg)
    BY <1>3, <2>3, <2>6 DEF Wanted
  <2>8. QED
    BY <2>2, <2>7, EmptySeq
<1>4. CASE class \notin {"PhysicalAddress", "RequestAudioFormat"}
  <2>1. Build(class, arg) = arg
    BY <1>4, BuildTyped
  <2>2. Read(class, Fit(class, arg)) = Fit(class, arg)
    BY <1>4 DEF Read
  <2>3. class = "OpCode" => Len(arg) = 1 /\ Width(class) = 1
    BY ClassWidths DEF Given
  <2>4. QED
    BY <1>4, <2>1, <2>2, <2>3 DEF Wanted
<1>5. QED
  BY <1>2, <1>3, <1>4

-----------------------------------------------------------------------------
(* From the arguments to the operands of a frame and back *)

Operands(name, args) == Message(name, args).operands

\* What a message is made of: operands as wide as the decoder expects them, as
\* far as their classes fix it.
Made(name, args) ==
  LET classes == Classes(name, args)
      operands == Operands(name, args)
  IN /\ Uniform(classes) /\ operands \in Seq(Seq(Byte)) /\ Len(operands) = Len(classes)
     /\ \A i \in 1..Len(classes) : /\ i \in DOMAIN args /\ args[i] \in Given(classes[i])
                                   /\ operands[i] = Build(classes[i], args[i])
     /\ name # ReportDescriptor =>
          /\ \A i \in 1..Len(classes) : classes[i] # "ShortAudioDescriptor"
          /\ \A i \in 1..(Len(classes) - 1) : Len(operands[i]) = Width(classes[i])

\* The classes of a message, and what the assumption says of its arguments.
LEMMA ClassesGiven ==
  ASSUME NEW name \in DOMAIN Arguments, NEW args \in Arguments[name]
  PROVE  LET classes == Classes(name, args)
         IN /\ Uniform(classes)
            /\ \A i \in 1..Len(classes) : i \in DOMAIN args /\ args[i] \in Given(classes[i])
            /\ name = RequestDescriptor =>
                 /\ Len(classes) <= MaxDescriptors
                 /\ \A i \in 1..Len(classes) : classes[i] = "RequestAudioFormat"
            /\ name \notin {RequestDescriptor, ReportDescriptor} =>
                 name \in DOMAIN Layout /\ classes = Layout[name]
<1>1. {"RequestAudioFormat", "ShortAudioDescriptor"} \subseteq DOMAIN Class
  BY ClassKinds DEF Bytes
<1>2. RequestDescriptor # ReportDescriptor
  BY DEF RequestDescriptor, ReportDescriptor
<1>3. CASE name \in {RequestDescriptor, ReportDescriptor}
  <2> DEFINE class == IF name = RequestDescriptor THEN "RequestAudioFormat" ELSE "ShortAudioDescriptor"
             n == IF Len(args) > MaxDescriptors THEN MaxDescriptors ELSE Len(args)
             classes == [i \in 1..n |-> class]
  <2>1. class \in DOMAIN Class
    BY <1>1
  <2>2. Classes(name, args) = classes
    BY <1>3 DEF Classes
  <2>3. args \in Seq(Given(class))
    BY <1>2, <1>3, CodecAssumption
  <2> HIDE DEF class
  <2>4. Len(args) \in Nat /\ DOMAIN args = 1..Len(args) /\ n \in Nat /\ n <= Len(args)
        /\ n <= MaxDescriptors
    BY <2>3, LenProperties DEF MaxDescriptors
  <2>5. \A i \in 1..Len(args) : args[i] \in Given(class)
    BY <2>3, ElementOfSeq
  <2> HIDE DEF n
  <2>6. Uniform(classes) /\ Len(classes) = n
    BY <2>1, <2>4, CopiesUniform
  <2>7. \A i \in 1..n : classes[i] = class /\ i \in 1..Len(args)
    BY <2>4
  <2>8. name = RequestDescriptor => class = "RequestAudioFormat"
    BY DEF class
  <2> HIDE DEF classes
  <2>9. QED
    BY <1>3, <2>2, <2>4, <2>5, <2>6, <2>7, <2>8
<1>4. CASE name \notin {RequestDescriptor, ReportDescriptor}
  <2>1. name \in DOMAIN Layout /\ Classes(name, args) = Layout[name]
    BY <1>4, CodecAssumption, LayoutShapes DEF Classes
  <2>2. /\ DOMAIN args = DOMAIN Layout[name]
        /\ \A i \in DOMAIN args : args[i] \in Given(Layout[name][i])
    BY <1>4, CodecAssumption
  <2>3. Uniform(Layout[name]) /\ DOMAIN Layout[name] = 1..Len(Layout[name])
    BY <2>1, LayoutUniform, LenProperties DEF Uniform
  <2>4. QED
    BY <1>4, <2>1, <2>2, <2>3
<1>5. QED
  BY <1>3, <1>4

\* So every message is made as Made says.
LEMMA MessageMade ==
  ASSUME NEW name \in DOMAIN Arguments, NEW args \in Arguments[name]
  PROVE  Made(name, args)
<1> DEFINE classes == Classes(name, args)
           operands == Operands(name, args)
<1>1. /\ Uniform(classes)
      /\ \A i \in 1..Len(classes) : i \in DOMAIN args /\ args[i] \in Given(classes[i])
      /\ name = RequestDescriptor => \A i \in 1..Len(classes) : classes[i] = "RequestAudioFormat"
      /\ name \notin {RequestDescriptor, ReportDescriptor} =>
           name \in DOMAIN Layout /\ classes = Layout[name]
  BY ClassesGiven
<1>2. operands = [i \in DOMAIN classes |-> Build(classes[i], args[i])]
  BY DEF Operands, Message
<1> HIDE DEF classes, operands
<1>3. /\ Len(classes) \in Nat /\ DOMAIN classes = 1..Len(classes)
      /\ \A i \in 1..Len(classes) : classes[i] \in DOMAIN Class
  BY <1>1, LenProperties, ElementOfSeq DEF Uniform
<1>4. \A i \in 1..Len(classes) : Build(classes[i], args[i]) \in Seq(Byte)
  BY <1>1, <1>3, BuildTyped
<1>5. /\ operands \in Seq(Seq(Byte)) /\ Len(operands) = Len(classes)
      /\ \A i \in 1..Len(classes) : operands[i] = Build(classes[i], args[i])
  BY <1>2, <1>3, <1>4
<1>6. ASSUME name # ReportDescriptor, NEW i \in 1..Len(classes)
      PROVE  /\ classes[i] # "ShortAudioDescriptor"
             /\ i < Len(classes) => classes[i] \in {"PhysicalAddress", "OpCode", "RequestAudioFormat"}
  <2>1. CASE name = RequestDescriptor
    BY <1>1, <2>1
  <2>2. CASE name # RequestDescriptor
    <3>1. name \in DOMAIN Layout /\ Shape(classes)
      BY <1>1, <1>6, <2>2, LayoutShapes
    <3>2. CASE classes = <<>>
      BY <3>2
    <3>3. CASE classes \in Pairs
      <4>1. \A a, c : /\ Len(<<a, c>>) = 2 /\ <<a, c>>[1] = a /\ <<a, c>>[2] = c
        OBVIOUS
      <4>2. /\ Len(classes) = 2 /\ classes[1] \in {"PhysicalAddress", "OpCode"}
            /\ classes[2] # "ShortAudioDescriptor"
        BY <3>3, <4>1 DEF Pairs
      <4>3. i = 1 \/ i = 2
        BY <4>2
      <4>4. QED
        BY <4>2, <4>3
    <3>4. CASE \E class \in DOMAIN Class \ {"ShortAudioDescriptor", "RequestAudioFormat"} :
                 classes = <<class>>
      BY <3>4
    <3>5. QED
      BY <3>1, <3>2, <3>3, <3>4 DEF Shape
  <2>3. QED
    BY <2>1, <2>2
<1>7. ASSUME name # ReportDescriptor, NEW i \in 1..(Len(classes) - 1)
      PROVE  Len(operands[i]) = Width(classes[i])
  <2>1. i \in 1..Len(classes) /\ i < Len(classes)
    BY <1>3
  <2>2. /\ classes[i] \in {"PhysicalAddress", "OpCode", "RequestAudioFormat"}
        /\ classes[i] \in DOMAIN Class \ {"ShortAudioDescriptor"}
    BY <1>3, <1>6, <1>7, <2>1
  <2>3. args[i] \in Given(classes[i])
    BY <1>1, <2>1
  <2>4. Len(Build(classes[i], args[i])) = Width(classes[i])
    BY <2>2, <2>3, ReadBuilt
  <2>5. QED
    BY <1>5, <2>1, <2>4
<1>8. QED
  BY <1>1, <1>5, <1>6, <1>7 DEF Made, classes, operands

\* Each of the operands, joined to a frame, is read back where it is looked for,
\* cut to what its class has room for.
LEMMA ReadBack ==
  ASSUME NEW fields, Uniform(fields), NEW operands \in Seq(Seq(Byte)),
         Len(operands) = Len(fields),
         \A i \in 1..(Len(fields) - 1) : Len(operands[i]) = Width(fields[i]),
         NEW i \in 1..Len(fields), operands[i] # <<>>
  PROVE  CECBytes(FlattenSeq(operands), Start(fields, i), Class[fields[i]].max)
           = Fit(fields[i], operands[i])
<1> DEFINE n == Len(fields)
           bytes == FlattenSeq(operands)
           start == Start(fields, i)
           class == fields[i]
           str == operands[i]
           got1 == CECBytes(bytes, start, Width(class))
           fit == Fit(class, str)
<1>1. n \in Nat \ {0} /\ start \in Nat /\ class \in DOMAIN Class /\ str \in Seq(Byte)
  <2>1. n \in Nat
    BY LenProperties DEF Uniform
  <2>2. n > 0
    BY <2>1
  <2>3. start \in Nat
    BY <2>2, StartsUp
  <2>4. class \in DOMAIN Class /\ str \in Seq(Byte)
    BY ElementOfSeq DEF Uniform
  <2>5. QED
    BY <2>1, <2>2, <2>3, <2>4
<1>2. Width(class) \in Nat \ {0} /\ Len(str) \in Nat \ {0}
  BY <1>1, ClassWidths, EmptySeq
<1>3. /\ bytes \in Seq(Byte) /\ Len(bytes) = Start(fields, n) + Len(operands[n])
      /\ Placed(bytes, operands, Starts(fields), n)
  <2>1. Len(fields) > 0
    BY <1>1
  <2>2. LET m == Len(fields)
            joined == FlattenSeq(operands)
        IN /\ joined \in Seq(Byte) /\ Len(joined) = Start(fields, m) + Len(operands[m])
           /\ Placed(joined, operands, Starts(fields), m)
    BY <2>1, JoinedOperands
  <2>3. QED
    BY <2>2
<1>4. Starts(fields)[i] = start
  BY DEF Starts
<1>5. /\ i = n => Len(bytes) = start + Len(str)
      /\ i < n => Len(str) = Width(class)
  BY <1>1, <1>3
<1> HIDE DEF bytes, start, str, class
<1>6. \A k \in 1..Len(str) : start + k \in 1..Len(bytes) /\ bytes[start + k] = str[k]
  BY <1>3, <1>4 DEF Placed, str
<1>7. Cut(got1, bytes, start, Width(class))
  BY <1>1, <1>2, <1>3, OperandCut
<1>8. /\ fit \in Seq(Byte)
      /\ Len(fit) = IF Len(str) > Width(class) THEN Width(class) ELSE Len(str)
      /\ \A k \in 1..Len(fit) : k \in 1..Len(str) /\ fit[k] = str[k]
  BY <1>1, FitCuts
<1> HIDE DEF got1, fit
<1>9. Len(bytes) \in Nat
  BY <1>3, LenProperties
<1>10. start + Len(str) <= Len(bytes)
  <2>1. Len(str) \in 1..Len(str)
    BY <1>2
  <2>2. QED
    BY <1>1, <1>6, <1>9, <2>1
<1>11. got1 \in Seq(Byte) /\ Len(got1) = Len(fit)
       /\ \A k \in 1..Len(got1) : got1[k] = bytes[start + k]
  <2>1. start < Len(bytes)
    BY <1>1, <1>2, <1>9, <1>10
  <2>2. /\ got1 \in Seq(Byte)
        /\ Len(got1) = IF start + Width(class) > Len(bytes) THEN Len(bytes) - start ELSE Width(class)
        /\ \A k \in 1..Len(got1) : got1[k] = bytes[start + k]
    BY <1>7, <2>1 DEF Cut
  <2>3. i = n \/ i < n
    BY <1>1
  <2>4. Len(got1) = Len(fit)
    BY <1>1, <1>2, <1>5, <1>8, <1>9, <1>10, <2>2, <2>3
  <2>5. QED
    BY <2>2, <2>4
<1>12. \A k \in 1..Len(got1) : got1[k] = fit[k]
  BY <1>6, <1>8, <1>11
<1>13. got1 = fit
  BY <1>8, <1>11, <1>12, SeqEqual
<1>14. QED
  BY <1>13 DEF got1, fit, bytes, start, str, class, Width

-----------------------------------------------------------------------------
(* What the decoder makes of a frame *)

\* The operands of a frame as the message of that name reads them.
ReadAs(name, bytes, operands) ==
  LET fields == Fields(name, bytes)
  IN operands = [i \in DOMAIN fields |-> CECBytes(bytes, Start(fields, i), Class[fields[i]].max)]

\* The three ends of a frame with a code: no message has it, an operand has no
\* bytes, or the message reaches the processor.
Processed(bytes, out) ==
  /\ Len(bytes) > 1
  /\ out.kind = "processed" /\ out.from = bytes[1] \div 16 /\ out.to = bytes[1] % 16
  /\ out.message.name \in Decodable /\ Code[out.message.name] = bytes[2]
  /\ ReadAs(out.message.name, SubFrame(bytes, 2), out.message.operands)
  /\ \A i \in DOMAIN out.message.operands : out.message.operands[i] # Thrown

Polled(bytes, out) ==
  /\ Len(bytes) = 1
  /\ out = Outcome("processed", HeaderOf(bytes[1]), [name |-> "Polling", operands |-> <<>>])

Unread(bytes, out) ==
  \/ Len(bytes) = 0 /\ out.kind = "escaped"
  \/ /\ Len(bytes) > 1 /\ out.kind = "ignored"
     /\ \A name \in Decodable : Code[name] # bytes[2]
  \/ /\ Len(bytes) > 1 /\ out.kind = "dropped"
     /\ \E name \in Decodable :
          /\ Code[name] = bytes[2]
          /\ \E operands : /\ ReadAs(name, SubFrame(bytes, 2), operands)
                           /\ \E i \in DOMAIN operands : operands[i] = Thrown

\* decode() takes one of them.
LEMMA DecodeCases ==
  ASSUME NEW bytes \in Seq(Byte)
  PROVE  LET out == DecodeOutcome(bytes)
         IN Processed(bytes, out) \/ Polled(bytes, out) \/ Unread(bytes, out)
<1> DEFINE out == DecodeOutcome(bytes)
<1>0. SUFFICES Processed(bytes, out) \/ Polled(bytes, out) \/ Unread(bytes, out)
  OBVIOUS
<1>1. Len(bytes) = 0 \/ Len(bytes) = 1 \/ Len(bytes) > 1
  <2>1. Len(bytes) \in Nat
    BY LenProperties
  <2>2. \A n \in Nat : n = 0 \/ n = 1 \/ n > 1
    OBVIOUS
  <2>3. QED
    BY <2>1, <2>2
<1>2. CASE Len(bytes) = 0
  <2>1. out = Outcome("escaped", NoHeader, None)
    BY <1>2 DEF DecodeOutcome
  <2>2. out.kind = "escaped"
    BY <2>1 DEF Outcome
  <2>3. QED
    BY <1>2, <2>2 DEF Unread
<1>3. CASE Len(bytes) = 1
  <2>1. out = Outcome("processed", HeaderOf(bytes[1]), [name |-> "Polling", operands |-> <<>>])
    BY <1>3 DEF DecodeOutcome
  <2>2. QED
    BY <1>3, <2>1 DEF Polled
<1>4. CASE Len(bytes) > 1
  <2> DEFINE names == {name \in Decodable : Code[name] = bytes[2]}
             name == CHOOSE n \in names : TRUE
             m == Deserialized(name, SubFrame(bytes, 2))
  <2>1. out = IF names = {} THEN Outcome("ignored", HeaderOf(bytes[1]), None)
              ELSE Outcome(IF Refused(m) THEN "dropped" ELSE "processed", HeaderOf(bytes[1]), m)
    BY <1>4 DEF DecodeOutcome, Refusal
  <2>2. CASE names = {}
    <3>1. out.kind = "ignored"
      BY <2>1, <2>2 DEF Outcome
    <3>2. QED
      BY <1>4, <2>2, <3>1 DEF Unread
  <2>3. CASE names # {}
    <3>1. name \in names
      BY <2>3
    <3>2. name \in Decodable /\ Code[name] = bytes[2]
      BY <3>1
    <3> HIDE DEF name
    <3>3. m.name = name /\ ReadAs(name, SubFrame(bytes, 2), m.operands)
      BY DEF Deserialized, ReadAs
    <3>4. Refused(m) <=> \E i \in DOMAIN m.operands : m.operands[i] = Thrown
      BY DEF Refused
    <3> HIDE DEF m
    <3>5. CASE Refused(m)
      <4>1. out.kind = "dropped"
        BY <2>1, <2>3, <3>5 DEF Outcome
      <4>2. QED
        BY <1>4, <3>2, <3>3, <3>4, <3>5, <4>1 DEF Unread
    <3>6. CASE ~Refused(m)
      <4>1. /\ out.kind = "processed" /\ out.message = m
            /\ out.from = bytes[1] \div 16 /\ out.to = bytes[1] % 16
        BY <2>1, <2>3, <3>6 DEF Outcome, HeaderOf
      <4>2. QED
        BY <1>4, <3>2, <3>3, <3>4, <3>6, <4>1 DEF Processed
    <3>7. QED
      BY <3>5, <3>6
  <2>4. QED
    BY <2>2, <2>3
<1>5. QED
  BY <1>1, <1>2, <1>3, <1>4

\* What follows the code of a frame.
LEMMA SubFrameTyped ==
  ASSUME NEW bytes \in Seq(Byte)
  PROVE  SubFrame(bytes, 2) \in Seq(Byte)
<1>1. Len(bytes) \in Nat /\ \A i \in 3..Len(bytes) : bytes[i] \in Byte
  BY LenProperties, ElementOfSeq
<1>2. SubSeq(bytes, 2 + 1, Len(bytes)) \in Seq(Byte)
  BY <1>1, SubSeqProperties
<1>3. QED
  BY <1>2 DEF SubFrame

\* The operands of a message that reaches the processor.
LEMMA ProcessedAccepted ==
  ASSUME NEW bytes \in Seq(Byte), NEW out, Processed(bytes, out)
  PROVE  LET fields == Fields(out.message.name, SubFrame(bytes, 2))
         IN /\ Uniform(fields) /\ SubFrame(bytes, 2) \in Seq(Byte)
            /\ Accepted(fields, SubFrame(bytes, 2), out.message.operands)
<1> DEFINE body == SubFrame(bytes, 2)
           name == out.message.name
           fields == Fields(name, body)
           operands == out.message.operands
<1>1. body \in Seq(Byte)
  BY SubFrameTyped
<1>2. name \in DOMAIN Code
  BY CodesDiffer DEF Processed
<1>3. Uniform(fields)
  BY <1>1, <1>2, FieldsUniform
<1>4. /\ operands = [i \in DOMAIN fields |-> CECBytes(body, Start(fields, i), Class[fields[i]].max)]
      /\ \A i \in DOMAIN operands : operands[i] # Thrown
  BY DEF Processed, ReadAs
<1> HIDE DEF fields, body, operands
<1>5. Accepted(fields, body, operands)
  BY <1>1, <1>3, <1>4, NotRefusedAccepted
<1>6. QED
  BY <1>1, <1>3, <1>5 DEF fields, body, operands

-----------------------------------------------------------------------------
(* The inductive invariant *)

\* The frame is bytes, as many as it has room for.
WellFormed == frame \in Seq(Byte) /\ Len(frame) <= MaxLength

\* What the application gave is still in the frame while the message is under way.
Carried ==
  sent # NotSent =>
    /\ sent.from \in Addresses /\ sent.to \in Addresses
    /\ sent.name \in DOMAIN Arguments /\ sent.args \in Arguments[sent.name]
    /\ got.kind \notin {"thrown", "overrun"} =>
         LET m == Message(sent.name, sent.args)
         IN \E count \in Counts(m) :
              count <= Len(m.operands) /\ frame = Encoded(sent.from, sent.to, m, count)

\* What became of the frame is what the decoder made of it, unless there was none.
Decoded ==
  \/ got = Nothing
  \/ got.kind = "thrown"
  \/ got.kind = "overrun" /\ sent.name = ReportDescriptor
  \/ got = DecodeOutcome(frame)

IInv == WellFormed /\ Carried /\ Decoded

\* The frame of a message is bytes.
LEMMA EncodedTyped ==
  ASSUME NEW from \in Addresses, NEW to \in Addresses, NEW name \in DOMAIN Arguments,
         NEW args \in Arguments[name], NEW count \in Nat,
         count <= Len(Operands(name, args))
  PROVE  Encoded(from, to, Message(name, args), count) \in Seq(Byte)
<1> DEFINE operands == Operands(name, args)
           m == Message(name, args)
<1>1. m.name = name /\ m.operands = operands
  BY DEF Message, Operands
<1>2. operands \in Seq(Seq(Byte))
  BY MessageMade DEF Made
<1> HIDE DEF operands, m
<1>3. \A i \in 1..count : operands[i] \in Seq(Byte)
  <2>1. Len(operands) \in Nat
    BY <1>2, LenProperties
  <2>2. \A i \in 1..count : i \in 1..Len(operands)
    BY <2>1 DEF operands
  <2>3. QED
    BY <1>2, <2>2, ElementOfSeq
<1>4. SubSeq(operands, 1, count) \in Seq(Seq(Byte))
  BY <1>3, SubSeqProperties
<1>5. FlattenSeq(SubSeq(operands, 1, count)) \in Seq(Byte)
  BY <1>4, FlattenTyped
<1>6. Serialized(m, count) \in Seq(Byte)
  BY <1>1, <1>5 DEF Serialized
<1>7. OpCodeBytes(m.name) \in Seq(Byte)
  <2>1. name \in DOMAIN Code
    BY CodecAssumption
  <2>2. Code[name] % 256 \in Byte
    <3>1. Code[name] \in Nat
      BY <2>1, CodesDiffer
    <3>2. \A c \in Nat : c % 256 \in Byte
      BY DEF Byte
    <3>3. QED
      BY <3>1, <3>2
  <2>3. \A b \in Byte : <<b>> \in Seq(Byte)
    OBVIOUS
  <2>4. QED
    BY <1>1, <2>2, <2>3 DEF OpCodeBytes
<1>8. <<HeaderByte(from, to)>> \in Seq(Byte)
  <2>1. from \in 0..15 /\ to \in 0..15
    BY CodecAssumption
  <2>2. HeaderByte(from, to) \in Byte
    BY <2>1 DEF HeaderByte, Byte
  <2>3. QED
    BY <2>2
<1>9. QED
  BY <1>6, <1>7, <1>8, ConcatProperties DEF Encoded, m

\* The invariant holds at the start, and each step keeps it.
LEMMA InitInv == Init => IInv
<1>1. <<>> \in Seq(Byte) /\ Len(<<>>) = 0
  BY EmptySeq
<1>2. QED
  BY <1>1 DEF Init, IInv, WellFormed, Carried, Decoded, MaxLength

LEMMA StepInv == IInv /\ [Next]_vars => IInv'
<1> SUFFICES ASSUME IInv, [Next]_vars PROVE IInv'
  OBVIOUS
<1>0. <<>> \in Seq(Byte) /\ Len(<<>>) <= MaxLength
  BY EmptySeq DEF MaxLength
<1>1. ASSUME NEW from \in Addresses, NEW to \in Addresses, NEW name \in DOMAIN Arguments,
             Encode(from, to, name)
      PROVE  IInv'
  <2>1. got = Nothing /\ got.kind = "nothing"
    BY <1>1 DEF Encode, Nothing, Outcome
  <2>2. PICK args \in Arguments[name] :
          \E count \in Counts(Message(name, args)) :
            /\ sent' = [from |-> from, to |-> to, name |-> name, args |-> args]
            /\ LET bytes == Encoded(from, to, Message(name, args), count)
               IN IF count > Len(Message(name, args).operands)
                  THEN got' = Outcome("overrun", NoHeader, None) /\ frame' = <<>>
                  ELSE IF Len(bytes) > MaxLength
                  THEN got' = Outcome("thrown", NoHeader, None) /\ frame' = <<>>
                  ELSE frame' = bytes /\ UNCHANGED got
    BY <1>1 DEF Encode
  <2> DEFINE m == Message(name, args)
  <2>3. PICK count \in Counts(m) :
            /\ sent' = [from |-> from, to |-> to, name |-> name, args |-> args]
            /\ LET bytes == Encoded(from, to, m, count)
               IN IF count > Len(m.operands)
                  THEN got' = Outcome("overrun", NoHeader, None) /\ frame' = <<>>
                  ELSE IF Len(bytes) > MaxLength
                  THEN got' = Outcome("thrown", NoHeader, None) /\ frame' = <<>>
                  ELSE frame' = bytes /\ UNCHANGED got
    BY <2>2
  <2>4. sent'.from = from /\ sent'.to = to /\ sent'.name = name /\ sent'.args = args
    BY <2>3
  <2>5. m.name = name /\ m.operands = Operands(name, args)
    BY DEF Message, Operands
  <2>6. Len(m.operands) \in Nat
    BY <2>5, MessageMade, LenProperties DEF Made
  <2>7. count \in Nat /\ (count > Len(m.operands) => name = ReportDescriptor)
    BY <2>5, <2>6 DEF Counts, MaxDescriptors
  <2> HIDE DEF m
  <2>8. CASE count > Len(m.operands)
    <3>1. got'.kind = "overrun" /\ frame' = <<>>
      BY <2>3, <2>8 DEF Outcome
    <3>2. WellFormed'
      BY <1>0, <3>1 DEF WellFormed
    <3>3. Carried'
      BY <2>4, <3>1 DEF Carried
    <3>4. Decoded'
      BY <2>4, <2>7, <2>8, <3>1 DEF Decoded
    <3>5. QED
      BY <3>2, <3>3, <3>4 DEF IInv
  <2>9. CASE count <= Len(m.operands) /\ Len(Encoded(from, to, m, count)) > MaxLength
    <3>1. got'.kind = "thrown" /\ frame' = <<>>
      <4>1. ~(count > Len(m.operands))
        BY <2>6, <2>7, <2>9
      <4>2. got' = Outcome("thrown", NoHeader, None) /\ frame' = <<>>
        BY <2>3, <2>9, <4>1
      <4>3. QED
        BY <4>2 DEF Outcome
    <3>2. WellFormed'
      BY <1>0, <3>1 DEF WellFormed
    <3>3. Carried'
      BY <2>4, <3>1 DEF Carried
    <3>4. Decoded'
      BY <3>1 DEF Decoded
    <3>5. QED
      BY <3>2, <3>3, <3>4 DEF IInv
  <2>10. CASE count <= Len(m.operands) /\ Len(Encoded(from, to, m, count)) <= MaxLength
    <3>1. Encoded(from, to, m, count) \in Seq(Byte)
      BY <2>5, <2>7, <2>10, EncodedTyped DEF m
    <3>2. Len(Encoded(from, to, m, count)) \in Nat
      BY <3>1, LenProperties
    <3>3. frame' = Encoded(from, to, m, count) /\ got' = got
      <4>1. ~(count > Len(m.operands)) /\ ~(Len(Encoded(from, to, m, count)) > MaxLength)
        BY <2>6, <2>7, <2>10, <3>2 DEF MaxLength
      <4>2. QED
        BY <2>3, <4>1
    <3>4. WellFormed'
      BY <2>10, <3>1, <3>3 DEF WellFormed
    <3>5. Carried'
      BY <2>3, <2>4, <2>10, <3>3 DEF Carried, m
    <3>6. Decoded'
      BY <2>1, <3>3 DEF Decoded, Nothing
    <3>7. QED
      BY <3>4, <3>5, <3>6 DEF IInv
  <2>11. count <= Len(m.operands) \/ count > Len(m.operands)
    BY <2>6, <2>7
  <2>12. count <= Len(m.operands) =>
           \/ Len(Encoded(from, to, m, count)) <= MaxLength
           \/ Len(Encoded(from, to, m, count)) > MaxLength
    <3>1. count <= Len(m.operands) => Encoded(from, to, m, count) \in Seq(Byte)
      BY <2>5, <2>7, EncodedTyped DEF m
    <3>2. count <= Len(m.operands) => Len(Encoded(from, to, m, count)) \in Nat
      BY <3>1, LenProperties
    <3>3. QED
      BY <3>2 DEF MaxLength
  <2>13. QED
    BY <2>8, <2>9, <2>10, <2>11, <2>12
<1>2. ASSUME NEW bytes \in Foreign, Arrive(bytes) PROVE IInv'
  <2>1. bytes \in Seq(Byte) /\ Len(bytes) <= MaxLength
    BY CodecAssumption
  <2>2. frame' = bytes /\ sent' = NotSent /\ got' = Nothing
    BY <1>2 DEF Arrive
  <2>3. QED
    BY <2>1, <2>2 DEF IInv, WellFormed, Carried, Decoded, Nothing, NotSent
<1>3. ASSUME Decode PROVE IInv'
  <2>1. got.kind = "nothing"
    BY <1>3 DEF Decode, Nothing, Outcome
  <2>2. sent' = sent /\ frame' = frame /\ got' = DecodeOutcome(frame)
    BY <1>3 DEF Decode
  <2>3. WellFormed'
    BY <2>2 DEF IInv, WellFormed
  <2>4. Carried'
    BY <2>1, <2>2 DEF IInv, Carried
  <2>5. Decoded'
    BY <2>2 DEF Decoded
  <2>6. QED
    BY <2>3, <2>4, <2>5 DEF IInv
<1>4. ASSUME Reset PROVE IInv'
  <2>1. sent' = NotSent /\ frame' = <<>> /\ got' = Nothing
    BY <1>4 DEF Reset
  <2>2. QED
    BY <1>0, <2>1 DEF IInv, WellFormed, Carried, Decoded, Nothing, NotSent
<1>5. ASSUME UNCHANGED vars PROVE IInv'
  BY <1>5 DEF vars, IInv, WellFormed, Carried, Decoded
<1>6. QED
  BY <1>1, <1>2, <1>3, <1>4, <1>5 DEF Next

\* What the theorems below rest on.
LEMMA Invariant == Spec => []IInv
<1>1. Init => IInv
  BY InitInv
<1>2. IInv /\ [Next]_vars => IInv'
  BY StepInv
<1>3. QED
  BY <1>1, <1>2, PTL DEF Spec

-----------------------------------------------------------------------------
(* The theorems *)

\* The outcome is of one of the seven kinds and the frame is bytes.
THEOREM TypeCorrect == Spec => []TypeOK
<1>1. IInv => TypeOK
  <2> SUFFICES ASSUME IInv PROVE TypeOK
    OBVIOUS
  <2>1. frame \in Seq(Byte) /\ Len(frame) <= MaxLength
    BY DEF IInv, WellFormed
  <2>2. sent.name \in DOMAIN Arguments \cup {"none"}
    BY DEF IInv, Carried, NotSent
  <2>3. got.kind \in {"nothing", "processed", "dropped", "ignored", "escaped", "thrown", "overrun"}
    <3>1. CASE got = Nothing
      BY <3>1 DEF Nothing, Outcome
    <3>2. CASE got = DecodeOutcome(frame)
      <4>1. Processed(frame, got) \/ Polled(frame, got) \/ Unread(frame, got)
        BY <2>1, <3>2, DecodeCases
      <4>2. Polled(frame, got) => got.kind = "processed"
        BY DEF Polled, Outcome
      <4>3. QED
        BY <4>1, <4>2 DEF Processed, Unread
    <3>3. QED
      BY <3>1, <3>2 DEF IInv, Decoded
  <2>4. QED
    BY <2>1, <2>2, <2>3 DEF TypeOK
<1>2. QED
  BY <1>1, Invariant, PTL

\* A message that was decoded went one of the three ways of decode().
LEMMA KindsTold ==
  ASSUME IInv
  PROVE  /\ frame \in Seq(Byte)
         /\ got.kind = "escaped" => Len(frame) = 0
         /\ got.kind = "processed" => Processed(frame, got) \/ Polled(frame, got)
         /\ got.kind \notin {"nothing", "thrown", "overrun"} => got = DecodeOutcome(frame)
<1>1. frame \in Seq(Byte)
  BY DEF IInv, WellFormed
<1>2. got.kind \notin {"nothing", "thrown", "overrun"} => got = DecodeOutcome(frame)
  BY DEF IInv, Decoded, Nothing, Outcome
<1>3. got.kind \notin {"nothing", "thrown", "overrun"} =>
        Processed(frame, got) \/ Polled(frame, got) \/ Unread(frame, got)
  BY <1>1, <1>2, DecodeCases
<1>4. Processed(frame, got) \/ Polled(frame, got) => got.kind = "processed"
  BY DEF Processed, Polled, Outcome
<1>5. Unread(frame, got) =>
        got.kind \in {"dropped", "ignored"} \/ (got.kind = "escaped" /\ Len(frame) = 0)
  BY DEF Unread
<1>6. QED
  BY <1>1, <1>2, <1>3, <1>4, <1>5

\* decode() drops every frame that has a header and no message it can read.
THEOREM OnlyEmptyEscapes == Spec => []EscapesOnlyOnEmpty
<1>1. IInv => EscapesOnlyOnEmpty
  <2> SUFFICES ASSUME IInv, got.kind = "escaped" PROVE frame = <<>>
    BY DEF EscapesOnlyOnEmpty
  <2>1. frame \in Seq(Byte) /\ Len(frame) = 0
    BY KindsTold
  <2>2. QED
    BY <2>1, EmptySeq
<1>2. QED
  BY <1>1, Invariant, PTL

\* The operands of whatever frame, joined, begin it, and only the last is short.
THEOREM ShortAtTheEnd == Spec => []OnlyLastShort
<1>1. IInv => OnlyLastShort
  <2> SUFFICES ASSUME IInv, got.kind = "processed", Len(frame) > 1
               PROVE  LET fields == Fields(got.message.name, SubFrame(frame, 2))
                          operands == got.message.operands
                      IN /\ IsPrefix(FlattenSeq(operands), SubFrame(frame, 2))
                         /\ \A i \in 1..(Len(operands) - 1) :
                              Len(operands[i]) = Class[fields[i]].max
    BY DEF OnlyLastShort
  <2> DEFINE body == SubFrame(frame, 2)
             fields == Fields(got.message.name, body)
             operands == got.message.operands
  <2>1. frame \in Seq(Byte) /\ Processed(frame, got)
    <3>1. frame \in Seq(Byte) /\ (Processed(frame, got) \/ Polled(frame, got))
      BY KindsTold
    <3>2. ~Polled(frame, got)
      <4>1. ~(Len(frame) = 1)
        <5>1. Len(frame) \in Nat
          BY <3>1, LenProperties
        <5>2. \A n \in Nat : n > 1 => n # 1
          OBVIOUS
        <5>3. QED
          BY <5>1, <5>2
      <4>2. QED
        BY <4>1 DEF Polled
    <3>3. QED
      BY <3>1, <3>2
  <2>2. Uniform(fields) /\ body \in Seq(Byte) /\ Accepted(fields, body, operands)
    BY <2>1, ProcessedAccepted
  <2> HIDE DEF fields, body, operands
  <2>3. IsPrefix(FlattenSeq(operands), body)
    BY <2>2, AcceptedJoined
  <2>4. \A i \in 1..(Len(operands) - 1) : Len(operands[i]) = Class[fields[i]].max
    BY <2>2 DEF Accepted, Width
  <2>5. QED
    BY <2>3, <2>4 DEF fields, body, operands
<1>2. QED
  BY <1>1, Invariant, PTL

\* Descriptors have their three bytes, because they are counted by three.
LEMMA DescriptorsWhole ==
  ASSUME NEW bytes \in Seq(Byte), NEW name \in DOMAIN Code, NEW operands,
         ReadAs(name, bytes, operands),
         NEW i \in DOMAIN Fields(name, bytes),
         Fields(name, bytes)[i] = "ShortAudioDescriptor"
  PROVE  Len(operands[i]) = 3
<1> DEFINE fields == Fields(name, bytes)
           n == Len(bytes) \div 3
<1>1. Len(bytes) \in Nat
  BY LenProperties
<1>2. n \in Nat /\ 3 * n <= Len(bytes)
  BY <1>1
<1>3. name = ReportDescriptor
  <2>1. name # RequestDescriptor
    <3> SUFFICES ASSUME name = RequestDescriptor PROVE FALSE
      OBVIOUS
    <3> DEFINE few == IF Len(bytes) > MaxDescriptors THEN MaxDescriptors ELSE Len(bytes)
    <3>1. fields = [j \in 1..few |-> "RequestAudioFormat"]
      BY DEF Fields, RequestDescriptor, ReportDescriptor
    <3> HIDE DEF few
    <3>2. fields[i] = "RequestAudioFormat"
      BY <3>1
    <3>3. QED
      BY <3>2
  <2>2. ASSUME name \notin {RequestDescriptor, ReportDescriptor} PROVE FALSE
    <3>1. fields = Layout[name] /\ Shape(fields)
      BY <2>2, LayoutShapes DEF Fields
    <3>2. fields # <<>>
      OBVIOUS
    <3>3. fields \notin Pairs
      <4>1. \A a, c : DOMAIN <<a, c>> = 1..2 /\ <<a, c>>[1] = a /\ <<a, c>>[2] = c
        OBVIOUS
      <4>2. SUFFICES ASSUME fields \in Pairs PROVE FALSE
        OBVIOUS
      <4>3. DOMAIN fields = 1..2 /\ fields[1] # "ShortAudioDescriptor"
            /\ fields[2] # "ShortAudioDescriptor"
        BY <4>1, <4>2 DEF Pairs
      <4>4. i = 1 \/ i = 2
        BY <4>3
      <4>5. QED
        BY <4>3, <4>4
    <3>4. ~ \E class \in DOMAIN Class \ {"ShortAudioDescriptor", "RequestAudioFormat"} :
              fields = <<class>>
      OBVIOUS
    <3>5. QED
      BY <3>1, <3>2, <3>3, <3>4 DEF Shape
  <2>3. QED
    BY <2>1, <2>2
<1>4. fields = [j \in 1..n |-> "ShortAudioDescriptor"]
  BY <1>3 DEF Fields, RequestDescriptor, ReportDescriptor
<1>5. i \in 1..n /\ fields[i] = "ShortAudioDescriptor" /\ fields[1] = "ShortAudioDescriptor"
  <2>1. i \in 1..n
    BY <1>4
  <2>2. 1 \in 1..n
    BY <1>2, <2>1
  <2>3. QED
    BY <1>4, <2>1, <2>2
<1>6. operands[i] = CECBytes(bytes, Start(fields, i), 3)
  BY <1>5, ClassWidths DEF ReadAs, Width
<1>7. Start(fields, i) = (i - 1) * 3
  BY <1>5, ClassWidths DEF Start, Width
<1> HIDE DEF n, fields
<1>8. (i - 1) * 3 \in Nat /\ (i - 1) * 3 < Len(bytes) /\ (i - 1) * 3 + 3 <= Len(bytes)
  BY <1>1, <1>2, <1>5
<1> DEFINE start == (i - 1) * 3
<1>9. Cut(operands[i], bytes, start, 3)
  BY <1>6, <1>7, <1>8, OperandCut
<1>10. start \in Nat /\ start < Len(bytes) /\ start + 3 <= Len(bytes)
  BY <1>8
<1> HIDE DEF start
<1>11. Len(operands[i]) = IF start + 3 > Len(bytes) THEN Len(bytes) - start ELSE 3
  BY <1>9, <1>10 DEF Cut
<1>12. QED
  BY <1>1, <1>10, <1>11

\* An operand that is not empty holds what its class reads, but for half of a
\* physical address.
LEMMA OperandInside ==
  ASSUME NEW class \in DOMAIN Class, NEW str \in Seq(Byte), Len(str) \in 1..Width(class),
         class = "ShortAudioDescriptor" => Len(str) = 3
  PROVE  ReadsInside(Class[class], str) \/ (class = "PhysicalAddress" /\ Len(str) = 1)
<1>1. Len(str) \in Nat /\ Len(str) >= 1
  BY LenProperties
<1>2. str[1] \in Byte
  <2>1. 1 \in 1..Len(str)
    BY <1>1
  <2>2. QED
    BY <2>1, ElementOfSeq
<1>3. CASE class \in DOMAIN Texts
  <2>1. Class[class].reads = 0 /\ Class[class].names = 0
    BY <1>3, ClassKinds DEF IsText
  <2>2. QED
    BY <1>1, <2>1 DEF ReadsInside
<1>4. CASE class \in Bytes
  <2>1. /\ Class[class].reads = 1
        /\ Class[class].entry[str[1]] \in {Unknown} \cup 0..(Class[class].names - 1)
    BY <1>2, <1>4, ClassKinds DEF IsByte
  <2>2. QED
    BY <1>1, <2>1 DEF ReadsInside
<1>5. CASE class = "PhysicalAddress"
  <2>1. Class[class].reads = 2 /\ Class[class].names = 0 /\ Width(class) = 2
    BY <1>5, ClassKinds, ClassWidths
  <2>2. Len(str) = 1 \/ Len(str) >= 2
    BY <1>1
  <2>3. QED
    BY <1>5, <2>1, <2>2 DEF ReadsInside
<1>6. CASE class = "ShortAudioDescriptor"
  <2>1. /\ Class[class].reads = 3 /\ Class[class].names = 16
        /\ Class[class].entry[str[1]] \in 0..15
    BY <1>2, <1>6, ClassKinds
  <2>2. Class[class].entry[str[1]] \in {Unknown} \cup 0..(Class[class].names - 1)
    BY <2>1
  <2>3. Len(str) >= Class[class].reads
    <3>1. Len(str) = Class[class].reads
      BY <1>6, <2>1
    <3>2. \A n \in Nat : n >= n
      OBVIOUS
    <3>3. QED
      BY <1>1, <3>1, <3>2
  <2>4. QED
    BY <2>2, <2>3 DEF ReadsInside
<1>7. \/ class \in DOMAIN Texts \/ class \in Bytes
      \/ class = "PhysicalAddress" \/ class = "ShortAudioDescriptor"
  BY ClassKinds
<1>8. QED
  BY <1>3, <1>4, <1>5, <1>6, <1>7

\* The two addresses of a header are in the table of names of devices.
LEMMA HeaderInside ==
  ASSUME NEW b \in Byte
  PROVE  ReadsInside(LogicalAddress, <<b \div 16>>) /\ ReadsInside(LogicalAddress, <<b % 16>>)
<1>1. b \div 16 \in 0..15 /\ b % 16 \in 0..15
  BY DEF Byte
<1>2. LogicalAddress.reads = 1 /\ LogicalAddress.names = 16
  BY DEF LogicalAddress, Coded
<1>3. \A a \in 0..15 : LogicalAddress.entry[a] \in 0..15
  BY DEF LogicalAddress, Coded, Byte
<1>4. \A a : Len(<<a>>) = 1 /\ <<a>>[1] = a
  OBVIOUS
<1>5. \A a \in 0..15 : ReadsInside(LogicalAddress, <<a>>)
  BY <1>2, <1>3, <1>4 DEF ReadsInside
<1>6. QED
  BY <1>1, <1>5

\* Whatever is printed, and whatever the accessors index, is there.
THEOREM NothingPastTheEnd == Spec => []PrintStaysInside
<1>1. IInv => PrintStaysInside
  <2> SUFFICES ASSUME IInv PROVE PrintStaysInside
    OBVIOUS
  <2>1. got.kind = "overrun" => sent.name = ReportDescriptor
    <3>1. ASSUME got.kind = "overrun", got = DecodeOutcome(frame) PROVE FALSE
      <4>1. Processed(frame, got) \/ Polled(frame, got) \/ Unread(frame, got)
        BY <3>1, KindsTold, DecodeCases
      <4>2. Polled(frame, got) => got.kind = "processed"
        BY DEF Polled, Outcome
      <4>3. QED
        BY <3>1, <4>1, <4>2 DEF Processed, Unread
    <3>2. Nothing.kind = "nothing"
      BY DEF Nothing, Outcome
    <3>3. QED
      BY <3>1, <3>2 DEF IInv, Decoded
  <2>2. ASSUME got.kind = "processed"
        PROVE  ReadsInside(LogicalAddress, <<got.from>>) /\ ReadsInside(LogicalAddress, <<got.to>>)
    <3>1. frame \in Seq(Byte) /\ (Processed(frame, got) \/ Polled(frame, got))
      BY <2>2, KindsTold
    <3>2. got.from = frame[1] \div 16 /\ got.to = frame[1] % 16 /\ Len(frame) >= 1
      <4>1. Len(frame) \in Nat
        BY <3>1, LenProperties
      <4>2. CASE Processed(frame, got)
        BY <4>1, <4>2 DEF Processed
      <4>3. CASE Polled(frame, got)
        BY <4>1, <4>3 DEF Polled, Outcome, HeaderOf
      <4>4. QED
        BY <3>1, <4>2, <4>3
    <3>3. frame[1] \in Byte
      <4>1. 1 \in 1..Len(frame)
        BY <3>1, <3>2, LenProperties
      <4>2. QED
        BY <3>1, <4>1, ElementOfSeq
    <3>4. QED
      BY <3>2, <3>3, HeaderInside
  <2>3. ASSUME got.kind = "processed", Len(frame) > 1,
               NEW i \in DOMAIN Fields(got.message.name, SubFrame(frame, 2))
        PROVE  LET fields == Fields(got.message.name, SubFrame(frame, 2))
                   str == got.message.operands[i]
               IN \/ ReadsInside(Class[fields[i]], str)
                  \/ fields[i] = "PhysicalAddress" /\ Len(str) = 1
    <3> DEFINE body == SubFrame(frame, 2)
               name == got.message.name
               fields == Fields(name, body)
               operands == got.message.operands
               class == fields[i]
    <3>1. frame \in Seq(Byte) /\ Processed(frame, got)
      <4>1. frame \in Seq(Byte) /\ (Processed(frame, got) \/ Polled(frame, got))
        BY <2>3, KindsTold
      <4>2. ~(Len(frame) = 1)
        <5>1. Len(frame) \in Nat
          BY <4>1, LenProperties
        <5>2. \A n \in Nat : n > 1 => n # 1
          OBVIOUS
        <5>3. QED
          BY <2>3, <5>1, <5>2
      <4>3. QED
        BY <4>1, <4>2 DEF Polled
    <3>2. Uniform(fields) /\ body \in Seq(Byte) /\ Accepted(fields, body, operands)
      BY <3>1, ProcessedAccepted
    <3>3. name \in DOMAIN Code /\ ReadAs(name, body, operands)
      BY <3>1, CodesDiffer DEF Processed
    <3>4. class = "ShortAudioDescriptor" => Len(operands[i]) = 3
      BY <2>3, <3>2, <3>3, DescriptorsWhole
    <3>5. i \in 1..Len(fields) /\ class \in DOMAIN Class
      <4>1. DOMAIN fields = 1..Len(fields)
        BY <3>2, LenProperties DEF Uniform
      <4>2. i \in 1..Len(fields)
        BY <2>3, <4>1
      <4>3. QED
        BY <3>2, <4>2, ElementOfSeq DEF Uniform
    <3> HIDE DEF fields, operands, class, body, name
    <3>6. operands[i] \in Seq(Byte) /\ Len(operands[i]) \in 1..Width(class)
      BY <3>2, <3>5, ElementOfSeq DEF Accepted, class
    <3>7. ReadsInside(Class[class], operands[i]) \/ (class = "PhysicalAddress" /\ Len(operands[i]) = 1)
      BY <3>4, <3>5, <3>6, OperandInside
    <3>8. QED
      BY <3>7 DEF fields, operands, class, body, name
  <2>4. QED
    BY <2>1, <2>2, <2>3 DEF PrintStaysInside
<1>2. QED
  BY <1>1, Invariant, PTL

-----------------------------------------------------------------------------
(* The way of a message from one device to another *)

\* A frame of a header, a code and operands comes apart into these.
LEMMA FrameApart ==
  ASSUME NEW h \in Byte, NEW c \in Byte, NEW body \in Seq(Byte)
  PROVE  LET bytes == <<h>> \o <<c>> \o body
         IN /\ bytes \in Seq(Byte) /\ Len(bytes) > 1 /\ bytes[1] = h /\ bytes[2] = c
            /\ SubFrame(bytes, 2) = body
<1> DEFINE head == <<h>> \o <<c>>
           bytes == head \o body
<1>1. head \in Seq(Byte) /\ Len(head) = 2 /\ head[1] = h /\ head[2] = c
  <2> DEFINE a == <<h>>
             b == <<c>>
  <2>1. /\ a \in Seq(Byte) /\ Len(a) = 1 /\ a[1] = h
        /\ b \in Seq(Byte) /\ Len(b) = 1 /\ b[1] = c
    OBVIOUS
  <2> HIDE DEF a, b
  <2>2. head = a \o b
    BY DEF a, b
  <2> HIDE DEF head
  <2>3. Adjacent(head, a, b) /\ head \in Seq(Byte)
    BY <2>1, <2>2, ConcatPlaces
  <2>4. 1 \in 1..1
    OBVIOUS
  <2>5. Len(head) = 1 + 1 /\ head[1] = a[1] /\ head[1 + 1] = b[1]
    BY <2>1, <2>3, <2>4 DEF Adjacent
  <2>6. 1 + 1 = 2
    OBVIOUS
  <2>7. QED
    BY <2>1, <2>3, <2>5, <2>6
<1>2. Len(body) \in Nat
  BY LenProperties
<1> HIDE DEF head
<1>3. /\ bytes \in Seq(Byte) /\ Len(bytes) = 2 + Len(body)
      /\ \A i \in 1..(2 + Len(body)) : bytes[i] = IF i <= 2 THEN head[i] ELSE body[i - 2]
  <2> HIDE DEF bytes
  <2>1. /\ head \o body \in Seq(Byte) /\ Len(head \o body) = Len(head) + Len(body)
        /\ \A i \in 1..(Len(head) + Len(body)) :
             (head \o body)[i] = IF i <= Len(head) THEN head[i] ELSE body[i - Len(head)]
    BY <1>1, ConcatProperties
  <2>2. bytes = head \o body
    BY DEF bytes
  <2>3. QED
    BY <1>1, <2>1, <2>2
<1> HIDE DEF bytes
<1>4. Len(bytes) > 1 /\ bytes[1] = h /\ bytes[2] = c
  BY <1>1, <1>2, <1>3
<1>5. \A k \in 1..Len(body) : bytes[k + 2] = body[k]
  <2>1. \A k \in 1..Len(body) : k + 2 \in 1..(2 + Len(body)) /\ ~(k + 2 <= 2) /\ (k + 2) - 2 = k
    BY <1>2
  <2>2. QED
    BY <1>3, <2>1
<1>6. SubSeq(bytes, 3, Len(bytes)) = body
  <2>1. \A i \in 3..Len(bytes) : bytes[i] \in Byte
    <3>1. \A i \in 3..Len(bytes) : i \in 1..Len(bytes)
      BY <1>2, <1>3
    <3>2. QED
      BY <1>3, <3>1, ElementOfSeq
  <2> DEFINE sub == SubSeq(bytes, 3, Len(bytes))
  <2>2. /\ sub \in Seq(Byte) /\ Len(sub) = IF 3 <= Len(bytes) THEN Len(bytes) - 3 + 1 ELSE 0
        /\ \A i \in 1..(Len(bytes) - 3 + 1) : sub[i] = bytes[3 + i - 1]
    BY <1>2, <1>3, <2>1, SubSeqProperties
  <2> HIDE DEF sub
  <2>3. Len(sub) = Len(body)
    BY <1>2, <1>3, <2>2
  <2>4. \A i \in 1..Len(sub) : sub[i] = body[i]
    <3>1. \A i \in 1..Len(body) : i \in 1..(Len(bytes) - 3 + 1) /\ 3 + i - 1 = i + 2
      BY <1>2, <1>3
    <3>2. QED
      BY <1>5, <2>2, <2>3, <3>1
  <2>5. QED
    BY <2>2, <2>3, <2>4, SeqEqual DEF sub
<1>7. SubFrame(bytes, 2) = body
  <2>1. 2 + 1 = 3
    OBVIOUS
  <2>2. QED
    BY <1>6, <2>1 DEF SubFrame
<1>8. QED
  BY <1>3, <1>4, <1>7 DEF bytes, head

\* The header has both addresses.
LEMMA HeaderApart ==
  ASSUME NEW from \in Addresses, NEW to \in Addresses
  PROVE  /\ HeaderByte(from, to) \in Byte
         /\ HeaderByte(from, to) \div 16 = from /\ HeaderByte(from, to) % 16 = to
<1>1. from \in 0..15 /\ to \in 0..15
  BY CodecAssumption
<1>2. QED
  BY <1>1 DEF HeaderByte, Byte

\* Two layouts.
LEMMA TwoLayouts ==
  /\ "Polling" \in DOMAIN Layout /\ Layout["Polling"] = <<>>
  /\ Layout["SystemAudioModeRequest"] = <<"PhysicalAddress">>
<1>1. "Polling" \in DOMAIN Layout /\ "SystemAudioModeRequest" \in DOMAIN Layout
  BY LayoutShapes DEF Code, RequestDescriptor, ReportDescriptor
<1>2. Layout["Polling"] = ControlMessages["Polling"]
  BY <1>1 DEF Layout, SourceMessages, VersionMessages, NameMessages, DeviceMessages,
              RoutingMessages, AudioMessages, ControlMessages
<1>3. Layout["SystemAudioModeRequest"] = AudioMessages["SystemAudioModeRequest"]
  BY <1>1 DEF Layout, SourceMessages, VersionMessages, NameMessages, DeviceMessages,
              RoutingMessages, AudioMessages, ControlMessages
<1>4. QED
  BY <1>1, <1>2, <1>3 DEF ControlMessages, AudioMessages

\* The request that the encoder does not put into the frame is the one with
\* the address F.F.F.F.
LEMMA OffOnly ==
  ASSUME NEW args \in Arguments["SystemAudioModeRequest"],
         "SystemAudioModeRequest" \in DOMAIN Arguments,
         args[1] # <<15, 15, 15, 15>>
  PROVE  Operands("SystemAudioModeRequest", args)[1] # AllOnes
<1> DEFINE name == "SystemAudioModeRequest"
<1>1. Classes(name, args) = <<"PhysicalAddress">>
  BY TwoLayouts DEF Classes, RequestDescriptor, ReportDescriptor
<1>2. 1 \in 1..Len(Classes(name, args)) /\ Classes(name, args)[1] = "PhysicalAddress"
  BY <1>1
<1>3. /\ args[1] \in Given("PhysicalAddress")
      /\ Operands(name, args)[1] = Build("PhysicalAddress", args[1])
  BY <1>2, MessageMade DEF Made
<1>4. args[1] \in [1..4 -> 0..15]
  BY <1>3 DEF Given
<1> DEFINE a == args[1]
<1>5. Operands(name, args)[1] = <<Packed(a[1], a[2]), Packed(a[3], a[4])>>
  BY <1>3 DEF Build, PackedAddress
<1>6. \A p, q \in 0..15 : Packed(p, q) = 255 => p = 15 /\ q = 15
  BY DEF Packed
<1>7. a # <<15, 15, 15, 15>> /\ a \in [1..4 -> 0..15]
  BY <1>4
<1> HIDE DEF a
<1>8. a = <<a[1], a[2], a[3], a[4]>>
  BY <1>7
<1>9. a[1] \in 0..15 /\ a[2] \in 0..15 /\ a[3] \in 0..15 /\ a[4] \in 0..15
  BY <1>7
<1>10. ~(Packed(a[1], a[2]) = 255 /\ Packed(a[3], a[4]) = 255)
  BY <1>6, <1>7, <1>8, <1>9
<1>11. \A p, q : <<p, q>> = <<255, 255>> => p = 255 /\ q = 255
  OBVIOUS
<1>12. QED
  BY <1>5, <1>10, <1>11 DEF AllOnes

\* As many formats are read as were written.
LEMMA FormatsCounted ==
  ASSUME RequestDescriptor \in DOMAIN Arguments, NEW args \in Arguments[RequestDescriptor]
  PROVE  Fields(RequestDescriptor, FlattenSeq(Operands(RequestDescriptor, args)))
           = Classes(RequestDescriptor, args)
<1> DEFINE name == RequestDescriptor
           classes == Classes(name, args)
           operands == Operands(name, args)
           n == Len(classes)
<1>1. RequestDescriptor # ReportDescriptor
  BY DEF RequestDescriptor, ReportDescriptor
<1>2. /\ Uniform(classes) /\ operands \in Seq(Seq(Byte)) /\ Len(operands) = n
      /\ \A i \in 1..n : args[i] \in Given(classes[i]) /\ operands[i] = Build(classes[i], args[i])
      /\ \A i \in 1..(n - 1) : Len(operands[i]) = Width(classes[i])
  BY <1>1, MessageMade DEF Made
<1>3. n <= MaxDescriptors /\ \A i \in 1..n : classes[i] = "RequestAudioFormat"
  BY ClassesGiven
<1>4. n \in Nat /\ DOMAIN classes = 1..n /\ classes = [i \in DOMAIN classes |-> classes[i]]
  BY <1>2, LenProperties DEF Uniform
<1>5. classes = [i \in 1..n |-> "RequestAudioFormat"]
  BY <1>3, <1>4
<1> HIDE DEF n, classes, operands
<1>6. Len(FlattenSeq(operands)) = n
  <2>1. CASE n = 0
    <3>1. operands = <<>>
      BY <1>2, <2>1, EmptySeq
    <3>2. FlattenSeq(operands) = <<>>
      BY <3>1 DEF FlattenSeq
    <3>3. QED
      BY <2>1, <3>2, EmptySeq
  <2>2. CASE n > 0
    <3>1. Len(classes) = n /\ n \in 1..n /\ 1 \in 1..n
      BY <1>4, <2>2 DEF n
    <3>2. Len(FlattenSeq(operands)) = Start(classes, n) + Len(operands[n])
      <4>1. LET k == Len(classes)
                bytes == FlattenSeq(operands)
            IN /\ bytes \in Seq(Byte) /\ Len(bytes) = Start(classes, k) + Len(operands[k])
               /\ Placed(bytes, operands, Starts(classes), k)
        BY <1>2, <2>2, <3>1, JoinedOperands
      <4>2. QED
        BY <3>1, <4>1
    <3>3. Len(operands[n]) = 1
      <4>1. /\ "RequestAudioFormat" \in DOMAIN Class \ {"ShortAudioDescriptor"}
            /\ Width("RequestAudioFormat") = 1
        BY ClassKinds, ClassWidths DEF Bytes
      <4>2. /\ args[n] \in Given("RequestAudioFormat")
            /\ operands[n] = Build("RequestAudioFormat", args[n])
        BY <1>2, <1>3, <3>1
      <4>3. QED
        BY <4>1, <4>2, ReadBuilt
    <3>4. Start(classes, n) = n - 1
      <4>1. Start(classes, n) = (n - 1) * 1
        BY <1>3, <3>1, ClassWidths DEF Start, Width, Bytes
      <4>2. QED
        BY <1>4, <4>1
    <3>5. QED
      BY <1>4, <3>2, <3>3, <3>4
  <2>3. QED
    BY <1>4, <2>1, <2>2
<1>7. Fields(name, FlattenSeq(operands)) = [i \in 1..n |-> "RequestAudioFormat"]
  <2>1. Fields(name, FlattenSeq(operands)) =
          [i \in 1..(IF n > MaxDescriptors THEN MaxDescriptors ELSE n) |-> "RequestAudioFormat"]
    BY <1>1, <1>6 DEF Fields
  <2>2. ~(n > MaxDescriptors)
    BY <1>3, <1>4 DEF MaxDescriptors
  <2>3. QED
    BY <2>1, <2>2
<1>8. QED
  BY <1>5, <1>7 DEF classes, operands

\* The frame of a message that is decoded, but for a report of descriptors and
\* the request that is not written, and the fields it is read into.
Written(from, to, name, args, bytes) ==
  /\ bytes \in Seq(Byte) /\ Len(bytes) > 1
  /\ bytes[1] \div 16 = from /\ bytes[1] % 16 = to /\ bytes[2] = Code[name]
  /\ SubFrame(bytes, 2) = FlattenSeq(Operands(name, args))
  /\ Fields(name, SubFrame(bytes, 2)) = Classes(name, args)

\* The encoder writes it.
LEMMA EncodedWritten ==
  ASSUME NEW from \in Addresses, NEW to \in Addresses,
         NEW name \in DOMAIN Arguments, NEW args \in Arguments[name],
         name \in Decodable, name # ReportDescriptor,
         ~(name = "SystemAudioModeRequest" /\ args[1] = <<15, 15, 15, 15>>)
  PROVE  Written(from, to, name, args,
                 Encoded(from, to, Message(name, args), Len(Operands(name, args))))
<1> DEFINE operands == Operands(name, args)
           m == Message(name, args)
           body == FlattenSeq(operands)
           h == HeaderByte(from, to)
           c == Code[name]
           bytes == Encoded(from, to, m, Len(operands))
<1>1. m.name = name /\ m.operands = operands
  BY DEF Message, Operands
<1>2. operands \in Seq(Seq(Byte))
  BY MessageMade DEF Made
<1>3. body \in Seq(Byte)
  BY <1>2, FlattenTyped
<1>4. SubSeq(operands, 1, Len(operands)) = operands
  BY <1>2, SubSeqFull
<1>5. ~(name = "SystemAudioModeRequest" /\ operands[1] = AllOnes)
  BY OffOnly
<1>6. c \in Byte /\ name \in DOMAIN Code
  BY CodesDiffer
<1>7. OpCodeBytes(name) = <<c>>
  <2>1. name # "Polling"
    <3>1. Code["Polling"] \notin Byte
      BY DEF Code, Byte
    <3>2. QED
      BY <1>6, <3>1
  <2>2. \A b \in Byte : b % 256 = b
    BY DEF Byte
  <2>3. QED
    BY <1>6, <2>1, <2>2 DEF OpCodeBytes
<1>8. /\ h \in Byte /\ h \div 16 = from /\ h % 16 = to
  BY HeaderApart
<1>9. Fields(name, body) = Classes(name, args)
  <2>1. CASE name = RequestDescriptor
    BY <2>1, FormatsCounted
  <2>2. CASE name # RequestDescriptor
    BY <2>2 DEF Fields, Classes
  <2>3. QED
    BY <2>1, <2>2
<1> HIDE DEF operands, m, body, h, c
<1>10. Serialized(m, Len(operands)) = body
  BY <1>1, <1>4, <1>5 DEF Serialized, body
<1>11. bytes = <<h>> \o <<c>> \o body
  BY <1>1, <1>7, <1>10 DEF Encoded, h
<1> HIDE DEF bytes
<1>12. /\ bytes \in Seq(Byte) /\ Len(bytes) > 1 /\ bytes[1] = h /\ bytes[2] = c
       /\ SubFrame(bytes, 2) = body
  <2>1. LET b == <<h>> \o <<c>> \o body
        IN /\ b \in Seq(Byte) /\ Len(b) > 1 /\ b[1] = h /\ b[2] = c /\ SubFrame(b, 2) = body
    BY <1>3, <1>6, <1>8, FrameApart
  <2>2. QED
    BY <1>11, <2>1
<1>13. Written(from, to, name, args, bytes)
  BY <1>8, <1>9, <1>12 DEF Written, body, operands, c
<1>14. QED
  BY <1>13 DEF bytes, m, operands

\* The operands are those the sender meant.
WellRead(name, args, operands) ==
  LET classes == Classes(name, args)
  IN /\ DOMAIN operands = DOMAIN classes
     /\ \A i \in DOMAIN operands :
          operands[i] # Thrown /\ Read(classes[i], operands[i]) = Wanted(classes[i], args[i])

\* The operands the decoder finds in it are those the sender made, cut to what
\* their classes have room for, and none of them is without bytes.
LEMMA WrittenRead ==
  ASSUME NEW from, NEW to, NEW name \in DOMAIN Arguments, NEW args \in Arguments[name],
         name # ReportDescriptor, \A i \in DOMAIN args : args[i] # <<>>,
         NEW bytes, Written(from, to, name, args, bytes),
         NEW operands, ReadAs(name, SubFrame(bytes, 2), operands)
  PROVE  WellRead(name, args, operands)
<1> DEFINE fields == Classes(name, args)
           made == Operands(name, args)
<1>1. /\ Uniform(fields) /\ made \in Seq(Seq(Byte)) /\ Len(made) = Len(fields)
      /\ \A i \in 1..Len(fields) :
           i \in DOMAIN args /\ args[i] \in Given(fields[i]) /\ made[i] = Build(fields[i], args[i])
      /\ \A i \in 1..Len(fields) : fields[i] # "ShortAudioDescriptor"
      /\ \A i \in 1..(Len(fields) - 1) : Len(made[i]) = Width(fields[i])
  BY MessageMade DEF Made
<1>2. operands = [i \in DOMAIN fields |->
                    CECBytes(FlattenSeq(made), Start(fields, i), Class[fields[i]].max)]
  BY DEF Written, ReadAs
<1> HIDE DEF fields, made
<1>3. DOMAIN operands = 1..Len(fields) /\ DOMAIN fields = 1..Len(fields)
  BY <1>1, <1>2, LenProperties DEF Uniform
<1>4. ASSUME NEW i \in 1..Len(fields)
      PROVE  operands[i] # Thrown /\ Read(fields[i], operands[i]) = Wanted(fields[i], args[i])
  <2> DEFINE class == fields[i]
             str == made[i]
  <2>1. class \in DOMAIN Class \ {"ShortAudioDescriptor"}
    BY <1>1, ElementOfSeq DEF Uniform
  <2>2. args[i] \in Given(class) /\ args[i] # <<>> /\ str = Build(class, args[i])
    BY <1>1
  <2>3. str \in Seq(Byte)
    BY <1>1, ElementOfSeq
  <2>4. /\ Read(class, Fit(class, Build(class, args[i]))) = Wanted(class, args[i])
        /\ Build(class, args[i]) # <<>>
    BY <2>1, <2>2, ReadBuilt
  <2>5. str # <<>>
    BY <2>2, <2>4
  <2>6. operands[i] = Fit(class, str)
    <3>1. CECBytes(FlattenSeq(made), Start(fields, i), Class[fields[i]].max) = Fit(fields[i], made[i])
      BY <1>1, <2>5, ReadBack
    <3>2. QED
      BY <1>2, <1>3, <3>1
  <2>7. operands[i] # <<>>
    BY <2>1, <2>3, <2>5, <2>6, FitCuts
  <2>8. QED
    BY <2>2, <2>4, <2>6, <2>7 DEF Thrown
<1>5. QED
  BY <1>3, <1>4 DEF WellRead, fields

\* So the decoder hands on the message that was sent.
LEMMA WrittenDecoded ==
  ASSUME NEW from, NEW to, NEW name \in DOMAIN Arguments, NEW args \in Arguments[name],
         name # ReportDescriptor, name \in Decodable, \A i \in DOMAIN args : args[i] # <<>>,
         NEW bytes, Written(from, to, name, args, bytes)
  PROVE  LET out == DecodeOutcome(bytes)
         IN Processed(bytes, out) /\ out.message.name = name
<1> DEFINE out == DecodeOutcome(bytes)
<1>1. /\ bytes \in Seq(Byte) /\ bytes[2] = Code[name] /\ Len(bytes) \in Nat /\ Len(bytes) > 1
  BY LenProperties DEF Written
<1>2. Processed(bytes, out) \/ Polled(bytes, out) \/ Unread(bytes, out)
  BY <1>1, DecodeCases
<1> HIDE DEF out
<1>3. Len(bytes) # 0 /\ Len(bytes) # 1
  <2>1. \A n \in Nat : n > 1 => n # 0 /\ n # 1
    OBVIOUS
  <2>2. QED
    BY <1>1, <2>1
<1>4. \A n \in Decodable : Code[n] = bytes[2] => n = name
  BY <1>1, CodesDiffer
<1>5. ~Polled(bytes, out)
  BY <1>3 DEF Polled
<1>6. ~Unread(bytes, out)
  <2>1. ASSUME NEW n \in Decodable, Code[n] = bytes[2], NEW operands,
               ReadAs(n, SubFrame(bytes, 2), operands),
               NEW i \in DOMAIN operands, operands[i] = Thrown
        PROVE  FALSE
    <3>1. ReadAs(name, SubFrame(bytes, 2), operands)
      BY <1>4, <2>1
    <3>2. WellRead(name, args, operands)
      BY <3>1, WrittenRead
    <3>3. QED
      BY <2>1, <3>2 DEF WellRead
  <2>2. ~ \A n \in Decodable : Code[n] # bytes[2]
    BY <1>1
  <2>3. QED
    BY <1>3, <2>1, <2>2 DEF Unread
<1>7. Processed(bytes, out) /\ out.message.name = name
  BY <1>2, <1>4, <1>5, <1>6 DEF Processed
<1>8. QED
  BY <1>7 DEF out

\* A poll is a header, and is read as one.
LEMMA PollRead ==
  ASSUME NEW from \in Addresses, NEW to \in Addresses, NEW args, NEW count \in Nat,
         count <= Len(Operands("Polling", args))
  PROVE  LET out == DecodeOutcome(Encoded(from, to, Message("Polling", args), count))
         IN /\ out.kind = "processed" /\ out.from = from /\ out.to = to
            /\ out.message.name = "Polling" /\ out.message.operands = <<>>
            /\ Classes("Polling", args) = <<>>
<1> DEFINE m == Message("Polling", args)
           bytes == Encoded(from, to, m, count)
           h == HeaderByte(from, to)
<1>1. Classes("Polling", args) = <<>>
  BY TwoLayouts DEF Classes, RequestDescriptor, ReportDescriptor
<1>2. m.name = "Polling" /\ m.operands = <<>>
  BY <1>1 DEF Message
<1>3. count = 0
  <2>1. Len(<<>>) = 0 /\ Operands("Polling", args) = <<>>
    BY <1>2, EmptySeq DEF Operands
  <2>2. QED
    BY <2>1
<1>4. h \in Byte /\ h \div 16 = from /\ h % 16 = to
  BY HeaderApart
<1> HIDE DEF m, h
<1>5. Serialized(m, count) = <<>>
  <2>1. SubSeq(<<>>, 1, 0) = <<>>
    BY SubSeqEmpty
  <2>2. FlattenSeq(<<>>) = <<>>
    BY DEF FlattenSeq
  <2>3. QED
    BY <1>2, <1>3, <2>1, <2>2 DEF Serialized
<1>6. bytes = <<h>> \o <<>> \o <<>>
  BY <1>2, <1>5 DEF Encoded, OpCodeBytes, h
<1>7. <<h>> \in Seq(Byte)
  BY <1>4
<1>8. <<h>> \o <<>> = <<h>>
  BY <1>7, ConcatEmptySeq
<1>9. bytes = <<h>>
  BY <1>6, <1>8
<1> HIDE DEF bytes
<1>10. Len(bytes) = 1 /\ bytes[1] = h
  BY <1>9
<1>11. DecodeOutcome(bytes) = Outcome("processed", HeaderOf(h), [name |-> "Polling", operands |-> <<>>])
  BY <1>10 DEF DecodeOutcome
<1>12. QED
  BY <1>1, <1>4, <1>11 DEF Outcome, HeaderOf, bytes, m

\* What a device that runs this encoder sends, one that runs this decoder reads,
\* whatever the arguments, but for the losses named in Lossy.
THEOREM WhatWasMeant == Spec => []RoundTrip
<1>1. IInv => RoundTrip
  <2> SUFFICES ASSUME IInv, WasSent, ~Lossy
               PROVE  /\ got.kind = "processed"
                      /\ got.from = sent.from /\ got.to = sent.to
                      /\ got.message.name = sent.name
                      /\ LET classes == Classes(sent.name, sent.args)
                         IN [i \in DOMAIN got.message.operands |->
                               Read(classes[i], got.message.operands[i])] = Meant
    BY DEF RoundTrip
  <2> DEFINE from == sent.from
             to == sent.to
             name == sent.name
             args == sent.args
             classes == Classes(name, args)
             m == Message(name, args)
  <2>1. got = DecodeOutcome(frame)
    BY KindsTold DEF WasSent
  <2>2. /\ from \in Addresses /\ to \in Addresses
        /\ name \in DOMAIN Arguments /\ args \in Arguments[name]
        /\ \E count \in Counts(m) : count <= Len(m.operands) /\ frame = Encoded(from, to, m, count)
    BY DEF IInv, Carried, WasSent
  <2>3. /\ name # ReportDescriptor /\ name \in Decodable \cup {"Polling"}
        /\ ~(name = "SystemAudioModeRequest" /\ args[1] = <<15, 15, 15, 15>>)
        /\ \A i \in DOMAIN args : args[i] # <<>>
    BY DEF Lossy
  <2>4. m.name = name /\ m.operands = Operands(name, args)
    BY DEF Message, Operands
  <2>5. Meant = [i \in DOMAIN classes |-> Wanted(classes[i], args[i])]
    BY DEF Meant, Wanted
  <2> HIDE DEF from, to, name, args, m
  <2>6. frame = Encoded(from, to, m, Len(Operands(name, args)))
    BY <2>2, <2>3, <2>4 DEF Counts
  <2>7. CASE name = "Polling"
    <3>1. Operands(name, args) \in Seq(Seq(Byte))
      BY <2>2, MessageMade DEF Made
    <3>2. Len(Operands(name, args)) \in Nat
      BY <3>1, LenProperties
    <3>3. Len(Operands(name, args)) <= Len(Operands(name, args))
      BY <3>2
    <3>4. /\ got.kind = "processed" /\ got.from = from /\ got.to = to
          /\ got.message.name = "Polling" /\ got.message.operands = <<>>
          /\ classes = <<>>
      BY <2>1, <2>2, <2>6, <2>7, <3>2, <3>3, PollRead DEF m
    <3> HIDE DEF classes
    <3>5. DOMAIN got.message.operands = {} /\ DOMAIN classes = {}
      BY <3>4
    <3>6. [i \in DOMAIN got.message.operands |-> Read(classes[i], got.message.operands[i])] = Meant
      BY <2>5, <3>5
    <3>7. QED
      BY <2>7, <3>4, <3>6 DEF from, to, name, args, classes
  <2>8. CASE name \in Decodable
    <3>1. Written(from, to, name, args, frame)
      BY <2>2, <2>3, <2>6, <2>8, EncodedWritten DEF m
    <3>2. Processed(frame, got) /\ got.message.name = name
      BY <2>1, <2>2, <2>3, <2>8, <3>1, WrittenDecoded
    <3>3. got.kind = "processed" /\ got.from = from /\ got.to = to
      BY <3>1, <3>2 DEF Processed, Written
    <3> DEFINE operands == got.message.operands
    <3>4. ReadAs(name, SubFrame(frame, 2), operands)
      BY <3>2 DEF Processed
    <3> HIDE DEF operands
    <3>5. /\ DOMAIN operands = DOMAIN classes
          /\ \A i \in DOMAIN operands : Read(classes[i], operands[i]) = Wanted(classes[i], args[i])
      <4>1. WellRead(name, args, operands)
        BY <2>2, <2>3, <3>1, <3>4, WrittenRead
      <4>2. QED
        BY <4>1 DEF WellRead
    <3> HIDE DEF classes
    <3>6. [i \in DOMAIN operands |-> Read(classes[i], operands[i])] = Meant
      BY <2>5, <3>5
    <3>7. QED
      BY <3>2, <3>3, <3>6 DEF from, to, name, args, classes, operands
  <2>9. QED
    BY <2>3, <2>7, <2>8
<1>2. QED
  BY <1>1, Invariant, PTL
=============================================================================
