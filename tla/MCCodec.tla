------------------------------ MODULE MCCodec -------------------------------
(* Codec on every message, with arguments at the edges of every class, and *)
(* on frames of every length around the one a message needs.               *)
EXTENDS Codec

MCAddresses == {0, 4, 15}

TextOf(n) == [i \in 1..n |-> 64 + (i % 64)]

\* Edges of each class: the last value its table has, the first it has not.
MCValues ==
  [OSDString |-> {TextOf(n) : n \in {0, 1, 13, 14}},
   OSDName |-> {TextOf(n) : n \in {0, 1, 14, 15, 127}},
   Language |-> {TextOf(3)},
   VendorID |-> {TextOf(n) : n \in {2, 3}},
   UICommand |-> {<<65>>}, OpCode |-> {<<0>>, <<255>>},
   PhysicalAddress |-> {<<a, b, c, d>> : a, b, c, d \in {0, 15}} \cup {<<1, 2, 3, 4>>},
   AbortReason |-> {<<0>>, <<5>>, <<6>>}, DeviceType |-> {<<7>>, <<8>>},
   Version |-> {<<3>>, <<4>>, <<5>>, <<6>>}, PowerStatus |-> {<<3>>, <<4>>, <<6>>},
   SystemAudioStatus |-> {<<1>>, <<2>>}, AudioStatus |-> {<<0>>, <<127>>, <<128>>, <<255>>},
   RequestAudioFormat |-> {<<0, 1>>, <<2, 63>>},
   ShortAudioDescriptor |-> {<<15, 7, 80>>, <<9, 7, 3>>}]

Tuples(name) ==
  IF name = RequestDescriptor
  THEN UNION {[1..n -> MCValues["RequestAudioFormat"]] : n \in {1, 2, 5}}
  ELSE IF name = ReportDescriptor
  THEN UNION {[1..n -> MCValues["ShortAudioDescriptor"]] : n \in {1, 4}}
  ELSE {t \in [DOMAIN Layout[name] -> UNION {MCValues[c] : c \in Range(Layout[name])}] :
          \A i \in DOMAIN Layout[name] : t[i] \in MCValues[Layout[name][i]]}

MCArguments == [name \in DOMAIN Code |-> Tuples(name)]

\* Frames with every code, known or not, and 0 to 15 operand bytes.
MCForeign ==
  {<<79>>} \cup {<<79, op>> \o [i \in 1..n |-> b] :
                   op \in {c % 256 : c \in Range(Code)} \cup {137, 238},
                   n \in 0..15, b \in {0, 5, 8, 127, 255}}
=============================================================================
