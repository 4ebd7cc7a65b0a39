------------------------------ MODULE Operands ------------------------------
(***************************************************************************)
(* ccec/include/ccec/Operands.hpp: what the operand classes make of the    *)
(* bytes of a frame, and of the arguments of the application.              *)
(*                                                                         *)
(* An operand is the sequence of bytes of CECBytes::str.  A class is a     *)
(* record: max is its MAX_LEN, reads the number of bytes its accessors and *)
(* toString() index without a test, names the size of its table of texts   *)
(* (0: it has none), and entry the entry of that table a first byte picks. *)
(* The texts themselves are left out.                                      *)
(***************************************************************************)
EXTENDS Integers, SequencesExt

Byte == 0..255
Unknown == -1     \* toString() says "Unknown" and reads no table

-----------------------------------------------------------------------------
(* Construction from a frame *)

\* No operand is empty: the empty sequence is an exception of its constructor.
Thrown == <<>>

\* Variant: every class consumes all the bytes left, as the texts do.
CECBytesAll(bytes, start, max) ==
  IF start > Len(bytes) THEN Thrown ELSE SubSeq(bytes, start + 1, Len(bytes))

\* The length is cut to the bytes left.  Past the end of the frame it wraps
\* around, and the range given to insert() is one that libstdc++ refuses with
\* a length_error.  The validate() called here is the one of CECBytes: an
\* operand of the right class with a meaningless value is accepted.
CECBytes(bytes, start, max) ==
  IF start > Len(bytes) THEN Thrown
  ELSE SubSeq(bytes, start + 1, IF start + max > Len(bytes) THEN Len(bytes) ELSE start + max)

-----------------------------------------------------------------------------
(* The classes *)

\* A class whose toString() is the hexadecimal one of CECBytes, or copies str.
Text(max) == [max |-> max, reads |-> 0, names |-> 0, entry |-> [b \in Byte |-> Unknown]]

\* One byte that picks an entry of a table when validate() accepts it.
Coded(names, valid) ==
  [max |-> 1, reads |-> 1, names |-> names,
   entry |-> [b \in Byte |-> IF b \in valid THEN b ELSE Unknown]]

OSDString == Text(13)
OSDName == Text(14)
Language == Text(3)
VendorID == Text(3)
UICommand == Text(1)
OpCode == Text(1)
PhysicalAddress == [Text(2) EXCEPT !.reads = 2]
AbortReason == Coded(6, 0..5)
DeviceType == Coded(8, 0..7)
LogicalAddress == Coded(16, 0..15)
Version == Coded(6, 4..5)
PowerStatusAny == Coded(6, 0..6)     \* variant: validate() is one too generous
PowerStatus == Coded(6, 0..3)
SystemAudioStatus == Coded(2, 0..1)
AudioStatus == [Coded(2, Byte) EXCEPT !.entry = [b \in Byte |-> b \div 128]]
RequestAudioFormat == [Coded(16, Byte) EXCEPT !.entry = [b \in Byte |-> b % 16]]
ShortAudioDescriptor ==
  [max |-> 3, reads |-> 3, names |-> 16, entry |-> [b \in Byte |-> (b \div 8) % 16]]

Class == [OSDString |-> OSDString, OSDName |-> OSDName, Language |-> Language,
          VendorID |-> VendorID, UICommand |-> UICommand, OpCode |-> OpCode,
          PhysicalAddress |-> PhysicalAddress, AbortReason |-> AbortReason,
          DeviceType |-> DeviceType, Version |-> Version, PowerStatus |-> PowerStatus,
          SystemAudioStatus |-> SystemAudioStatus, AudioStatus |-> AudioStatus,
          RequestAudioFormat |-> RequestAudioFormat,
          ShortAudioDescriptor |-> ShortAudioDescriptor]

\* What toString() and the accessors read lies inside str and inside the table.
ReadsInside(class, str) ==
  /\ Len(str) >= class.reads
  /\ class.names > 0 => class.entry[str[1]] \in {Unknown} \cup 0..(class.names - 1)

-----------------------------------------------------------------------------
(* Construction from arguments, and the accessors that undo it *)

\* What the constructors of a class take: the digits of an address, what the bits
\* of a format have room for, a text of any length; VendorID cuts what is longer.
Given(class) ==
  CASE class = "PhysicalAddress" -> [1..4 -> 0..15]
    [] class = "RequestAudioFormat" -> (0..3) \X (0..63)
    [] class \in {"ShortAudioDescriptor", "Language"} -> [1..3 -> Byte]
    [] class = "VendorID" -> {str \in Seq(Byte) : Len(str) <= 3}
    [] class \in {"OSDName", "OSDString"} -> Seq(Byte)
    [] OTHER -> [1..1 -> Byte]

Packed(high, low) == 16 * (high % 16) + (low % 16)

\* PhysicalAddress(byte0, byte1, byte2, byte3), or the same four from a text.
PackedAddress(b) == <<Packed(b[1], b[2]), Packed(b[3], b[4])>>

\* getByteValue(0) to getByteValue(3).
ByteValues(str) == <<str[1] \div 16, str[1] % 16, str[2] \div 16, str[2] % 16>>

\* The format identifier and code of an audio format request share a byte;
\* getAudioformatId() and getAudioformatCode() take them apart.
PackedFormat(a) == <<(64 * a[1] + (a[2] % 64)) % 256>>

FormatOf(str) == <<str[1] \div 64, str[1] % 64>>

\* Each of the three bytes of a descriptor keeps its low half only.
PackedDescriptor(b) == [i \in 1..3 |-> b[i] % 16]

\* The arguments of a class become its bytes: a number is cast to uint8_t and
\* the bytes of a text are taken as they are, however many they are, because
\* the constructors call validate() and do not look at what it says.
Build(class, arg) ==
  CASE class = "PhysicalAddress" -> PackedAddress(arg)
    [] class = "RequestAudioFormat" -> PackedFormat(arg)
    [] class = "ShortAudioDescriptor" -> PackedDescriptor(arg)
    [] OTHER -> [i \in DOMAIN arg |-> arg[i] % 256]

\* What an application that knows the class reads back from an operand.
Read(class, str) ==
  CASE class = "PhysicalAddress" -> ByteValues(str)
    [] class = "RequestAudioFormat" -> FormatOf(str)
    [] OTHER -> str
=============================================================================
