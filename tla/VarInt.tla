------------------------------- MODULE VarInt -------------------------------
(***************************************************************************)
(* The codec of src/var_int.cpp for integers of 64 bits, in 1 to 9 bytes,  *)
(* and a stream of encoded numbers that is read back by LoadFrom and       *)
(* LoadUIntFrom.                                                           *)
(*                                                                         *)
(* A number is the sequence of the 8 bytes of its two's complement, the    *)
(* highest first: shifts by whole bytes are places in it.                  *)
(***************************************************************************)
EXTENDS Integers, Sequences, FiniteSets

CONSTANTS
  Number,    \* bound: the numbers that are encoded, as sequences of bytes
  Garbage,   \* bound: the other strings that a reader may meet
  MaxDue     \* bound: how many numbers are in the stream

Byte == 0..255

ASSUME VarIntAssumption ==
  /\ Number \subseteq [1..8 -> Byte]
  /\ Garbage \subseteq Seq(Byte)
  /\ MaxDue \in Nat

VARIABLES
  wire,   \* the bytes the BufReader has still to give
  due,    \* history: the numbers that were encoded and not read
  last    \* what the last load did

varIntVars == <<wire, due, last>>

Negative(n) == n[1] >= 128
Complement(n) == [i \in 1..8 |-> 255 - n[i]]

\* n < 2^k, for 0 <= k < 64 and n taken as uint64_t.
Below(n, k) ==
  LET top == 8 - (k \div 8)
  IN  n[top] < 2^(k % 8) /\ \A i \in 1..(top - 1) : n[i] = 0

\* n >= -2^k, for n taken as int64_t.
NotBelowMinus(n, k) == ~ Negative(n) \/ Below(Complement(n), k)

Low(n, count) == SubSeq(n, 9 - count, 8)
Marked(s, keep, mark) == [s EXCEPT ![1] = (@ % keep) + mark]

EncodeUInt(n) ==
  CASE Below(n, 6)  -> Marked(Low(n, 1), 64, 128)
    [] Below(n, 13) /\ ~ Below(n, 6)  -> Marked(Low(n, 2), 32, 192)
    [] Below(n, 28) /\ ~ Below(n, 13) -> Marked(Low(n, 4), 16, 224)
    [] Below(n, 43) /\ ~ Below(n, 28) -> Marked(Low(n, 6), 8, 240)
    [] OTHER -> <<248>> \o n

Encode(n) ==
  CASE ~ Negative(n) -> EncodeUInt(n)
    [] Negative(n) /\ NotBelowMinus(n, 6) -> Marked(Low(n, 1), 128, 0)
    [] Negative(n) /\ NotBelowMinus(n, 21) /\ ~ NotBelowMinus(n, 6) -> Marked(Low(n, 3), 64, 0)
    [] Negative(n) /\ NotBelowMinus(n, 44) /\ ~ NotBelowMinus(n, 21) -> Marked(Low(n, 6), 32, 0)
    [] OTHER -> <<15>> \o n

\* The forms of Decode and DecodeUInt: which first bytes have it, how long
\* it is, what of the first byte counts, and which numbers have a shorter form.
Form(heads, len, keep, short) == [heads |-> heads, len |-> len, keep |-> keep, short |-> short]

UIntForms ==
  {Form(128..191, 1, 64, 0), Form(192..223, 2, 32, 6), Form(224..239, 4, 16, 13),
   Form(240..247, 6, 8, 28), Form({248}, 9, 1, 43)}

NegForms ==
  {Form(64..127, 1, 64, 0), Form(32..63, 3, 32, 6), Form(16..31, 6, 16, 21),
   Form({15}, 9, 1, 44)}

Failed == [ok |-> FALSE]

\* The number in form f at the start of s, widened by copies of fill.
Widened(f, s, fill) ==
  IF f.len = 9 THEN SubSeq(s, 2, 9)
  ELSE [i \in 1..(8 - f.len) |-> fill]
         \o Marked(SubSeq(s, 1, f.len), f.keep, IF fill = 0 THEN 0 ELSE 256 - f.keep)

DecodeAs(forms, s) == {f \in forms : Len(s) >= f.len /\ s[1] \in f.heads}

BadDecodeUInt(s) ==
  IF DecodeAs(UIntForms, s) = {} THEN Failed
  ELSE LET f == CHOOSE f \in DecodeAs(UIntForms, s) : TRUE
       IN  [ok |-> TRUE, n |-> Widened(f, s, 0), len |-> f.len]

DecodeUInt(s) ==
  IF DecodeAs(UIntForms, s) = {} THEN Failed
  ELSE LET f == CHOOSE f \in DecodeAs(UIntForms, s) : TRUE
           n == Widened(f, s, 0)
       IN  IF f.len > 1 /\ Below(n, f.short) THEN Failed
           ELSE [ok |-> TRUE, n |-> n, len |-> f.len]

DecodeNeg(s) ==
  IF DecodeAs(NegForms, s) = {} THEN Failed
  ELSE LET f == CHOOSE f \in DecodeAs(NegForms, s) : TRUE
           n == Widened(f, s, 255)
       IN  IF f.len > 1 /\ NotBelowMinus(n, f.short) THEN Failed
           ELSE [ok |-> TRUE, n |-> n, len |-> f.len]

Decode(s) ==
  IF s = <<>> \/ s[1] < 128 THEN DecodeNeg(s)
  ELSE LET d == DecodeUInt(s) IN IF d.ok /\ Negative(d.n) THEN Failed ELSE d

-----------------------------------------------------------------------------
(* LoadFrom and LoadUIntFrom.                                              *)

\* How many bytes LoadEncodedFrom reads after b; -1 when b is no first byte.
RemainLen(b) ==
  CASE b \in {15, 248} -> 8
    [] b \in 16..31 \cup 240..247 -> 5
    [] b \in 224..239 -> 3
    [] b \in 32..63 -> 2
    [] b \in 192..223 -> 1
    [] b \in 64..127 \cup 128..191 -> 0
    [] OTHER -> -1

\* What LoadEncodedFrom takes off the wire, also when it fails.
Taken ==
  CASE RemainLen(wire[1]) < 0 -> 1
    [] RemainLen(wire[1]) \in 0..(Len(wire) - 1) -> 1 + RemainLen(wire[1])
    [] OTHER -> Len(wire)

Whole == RemainLen(wire[1]) \in 0..(Len(wire) - 1)

\* The caller looks at what a load gave before anything else happens.
NoLoad == [kind |-> "none"]
Looked == last /= NoLoad /\ last' = NoLoad /\ UNCHANGED <<wire, due>>

VarIntInit == wire = <<>> /\ due = <<>> /\ last = NoLoad

Put(kind, n) ==
  /\ last = NoLoad
  /\ Len(due) < MaxDue /\ (due = <<>> => wire = <<>>)
  /\ wire' = wire \o (IF kind = "int" THEN Encode(n) ELSE EncodeUInt(n))
  /\ due' = Append(due, [kind |-> kind, n |-> n])
  /\ UNCHANGED last

\* An empty wire, and then bytes that nobody has encoded.
Meet ==
  /\ last = NoLoad /\ wire = <<>>
  /\ \E s \in Garbage : wire' = s
  /\ UNCHANGED <<due, last>>

\* A number that was encoded is read as what it is.
Load(kind) ==
  /\ last = NoLoad /\ wire /= <<>>
  /\ due /= <<>> => due[1].kind = kind
  /\ LET s == SubSeq(wire, 1, Taken)
         d == IF ~ Whole THEN Failed
              ELSE IF kind = "int" THEN Decode(s) ELSE DecodeUInt(s)
     IN  last' = [kind |-> kind, bytes |-> s, d |-> d,
                  want |-> IF due = <<>> THEN <<>> ELSE due[1].n]
  /\ wire' = SubSeq(wire, Taken + 1, Len(wire))
  /\ due' = IF due = <<>> THEN <<>> ELSE Tail(due)

VarIntNext ==
  \/ \E kind \in {"int", "uint"} : Load(kind) \/ \E n \in Number : Put(kind, n)
  \/ Meet \/ Looked

VarIntSpec == VarIntInit /\ [][VarIntNext]_varIntVars

-----------------------------------------------------------------------------
(* Numbers that are encoded one after the other are read back as they      *)
(* were, so that LoadEncodedFrom and the decoders agree on where each      *)
(* ends, and on any bytes at all a decoder that accepts has used all of    *)
(* them (the assertion sz == 0), and they are the one encoding of its      *)
(* number.                                                                 *)
NumbersSurvive ==
  last /= NoLoad =>
    /\ last.want /= <<>> => last.d.ok /\ last.d.n = last.want
    /\ last.d.ok =>
         /\ last.d.len = Len(last.bytes)
         /\ last.bytes = IF last.kind = "int" THEN Encode(last.d.n)
                                              ELSE EncodeUInt(last.d.n)

=============================================================================
