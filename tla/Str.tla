-------------------------------- MODULE Str --------------------------------
(***************************************************************************)
(* The storage of Str and Str::Buf (include/lom/str.h, src/str.cpp).  A    *)
(* Str has a short string in itself and shares a long one, which a         *)
(* shared_ptr counts; a Buf owns a block that it grows, and gives it to    *)
(* the Str that is made from it.                                           *)
(*                                                                         *)
(* A StrSlice points into the Str it was taken of, and an assignment may   *)
(* read one that points into the Str that is assigned.                     *)
(***************************************************************************)
EXTENDS Integers, Sequences, SequencesExt, FiniteSets, FiniteSetsExt

CONSTANTS
  StrName, BufName,
  Text,        \* strings from outside, sequences of bytes, which are numbers
  Nul,         \* the byte behind a string
  Junk,        \* what is in memory that was not written
  ShortMax,    \* kShortStrLenMax
  FirstCap,    \* 16 in the code: what Construct() asks for
  MaxStr       \* bound: the length of strings

ASSUME StrAssumption ==
  /\ ShortMax \in Nat /\ FirstCap \in Nat /\ MaxStr \in Nat
  /\ StrName \cap BufName = {} /\ IsFiniteSet(StrName) /\ IsFiniteSet(BufName)
  /\ Text \subseteq Seq(Nat) /\ Nul \in Nat /\ Junk \in Nat

VARIABLES
  strs,     \* a Str: ss_len_ (-1 for a long one), its own bytes, length and block of a long one
  bufs,     \* p_, len_ and cap_ of a Buf
  mem,      \* the blocks that are allocated, and the count of the shared_ptrs to each
  value     \* history: what each Str and Buf was given

strVars == <<strs, bufs, mem, value>>

\* Memory.
Alloc(m, bytes, count) ==
  LET b == Min(1..(Cardinality(DOMAIN m.bytes) + 1) \ DOMAIN m.bytes)
      used == DOMAIN m.bytes \cup {b}
  IN  [block |-> b,
       m |-> [bytes |-> [x \in used |-> IF x = b THEN bytes ELSE m.bytes[x]],
              count |-> [x \in used |-> IF x = b THEN count ELSE m.count[x]]]]

Dealloc(m, b) ==
  LET used == DOMAIN m.bytes \ {b}
  IN  [bytes |-> [x \in used |-> m.bytes[x]], count |-> [x \in used |-> m.count[x]]]

Recount(m, b, n) == [m EXCEPT !.count[b] = @ + n]

Unwritten(n) == [i \in 1..n |-> Junk]

\* Both forms of a Str.
Short(text) == [ss_len |-> Len(text), own |-> Append(text, Nul), ls_len |-> 0, block |-> 0]
Long(len, b) == [ss_len |-> -1, own |-> <<>>, ls_len |-> len, block |-> b]
IsLongStr(s) == s.ss_len < 0
LenOf(s) == IF IsLongStr(s) THEN s.ls_len ELSE s.ss_len
Data(m, s) == IF ~ IsLongStr(s) THEN s.own
              ELSE IF s.block \in DOMAIN m.bytes THEN m.bytes[s.block] ELSE Unwritten(s.ls_len + 1)

\* Str(StrSlice), with what it leaves of the memory.
NewStr(m, text) ==
  LET got == Alloc(m, Append(text, Nul), 1) IN
  IF Len(text) <= ShortMax THEN [m |-> m, s |-> Short(text)]
  ELSE [m |-> got.m, s |-> Long(Len(text), got.block)]

\* The shared_ptr of a long string is the last one, or not.
Destruct(m, s) ==
  IF ~ IsLongStr(s) THEN m
  ELSE IF m.count[s.block] = 1 THEN Dealloc(m, s.block) ELSE Recount(m, s.block, -1)

CopyOf(m, s) == IF IsLongStr(s) THEN Recount(m, s.block, 1) ELSE m

\* Each Buf has a block; which of them is not said.
StrInit ==
  LET n == Cardinality(BufName) IN
  \E block \in Bijection(BufName, 1..n) :
    /\ strs = [x \in StrName |-> Short(<<>>)]
    /\ bufs = [b \in BufName |-> [p |-> block[b], len |-> 0, cap |-> FirstCap]]
    /\ mem = [bytes |-> [x \in 1..n |-> <<Nul>> \o Unwritten(FirstCap)],
              count |-> [x \in 1..n |-> 0]]
    /\ value = [x \in StrName \cup BufName |-> <<>>]

\* What a slice of x refers to in memory m.
Bytes(m, x, from, to) == SubSeq(Data(m, strs[x]), from, to)
Cuts(x) == {c \in (1..LenOf(strs[x])) \X (1..LenOf(strs[x])) : c[1] <= c[2]} \cup {<<1, 0>>}

\* d = a slice of x or a string from outside.
AssignText(d, text, given) ==
  LET new == NewStr(mem, text) IN
  /\ strs' = [strs EXCEPT ![d] = new.s]
  /\ mem' = Destruct(new.m, strs[d])
  /\ value' = [value EXCEPT ![d] = given]
  /\ UNCHANGED bufs

BadAssignSlice(d, x, from, to) ==
  LET freed == Destruct(mem, strs[d])
      new == NewStr(freed, Bytes(freed, x, from, to))
  IN  /\ strs' = [strs EXCEPT ![d] = new.s]
      /\ mem' = new.m
      /\ value' = [value EXCEPT ![d] = SubSeq(value[x], from, to)]
      /\ UNCHANGED bufs

AssignSlice(d, x, from, to) == AssignText(d, Bytes(mem, x, from, to), SubSeq(value[x], from, to))

\* d = s for a Str s; of itself, nothing.
AssignStr(d, s) ==
  /\ d /= s
  /\ strs' = [strs EXCEPT ![d] = strs[s]]
  /\ mem' = CopyOf(Destruct(mem, strs[d]), strs[s])
  /\ value' = [value EXCEPT ![d] = value[s]]
  /\ UNCHANGED bufs

\* d = std::move(s): s is left empty.
MoveStr(d, s) ==
  /\ d /= s
  /\ strs' = [strs EXCEPT ![d] = strs[s], ![s] = Short(<<>>)]
  /\ mem' = Destruct(mem, strs[d])
  /\ value' = [value EXCEPT ![d] = value[s], ![s] = <<>>]
  /\ UNCHANGED bufs

\* d = std::move(b): b begins again.
AssignBuf(d, b) ==
  LET buf == bufs[b]
      freed == Destruct(mem, strs[d])
      short == buf.len <= ShortMax
      moved == IF short THEN Dealloc(freed, buf.p) ELSE Recount(freed, buf.p, 1)
      again == Alloc(moved, <<Nul>> \o Unwritten(FirstCap), 0)
  IN  /\ strs' = [strs EXCEPT ![d] = IF short THEN Short(SubSeq(mem.bytes[buf.p], 1, buf.len))
                                    ELSE Long(buf.len, buf.p)]
      /\ bufs' = [bufs EXCEPT ![b] = [p |-> again.block, len |-> 0, cap |-> FirstCap]]
      /\ mem' = again.m
      /\ value' = [value EXCEPT ![d] = value[b], ![b] = <<>>]

\* The end of a Buf and another one in its place, Buf(len, cap).
NewBuf(b, len, cap) ==
  LET again == Alloc(Dealloc(mem, bufs[b].p), [Unwritten(cap + 1) EXCEPT ![len + 1] = Nul], 0) IN
  /\ len <= cap
  /\ bufs' = [bufs EXCEPT ![b] = [p |-> again.block, len |-> len, cap |-> cap]]
  /\ mem' = again.m
  /\ value' = [value EXCEPT ![b] = Unwritten(len)]
  /\ UNCHANGED strs

\* FitLen(len): the buffer and its bytes.
GrownTo(cap, len) ==
  LET Grow[c \in 0..(cap + 2 * len)] == IF c >= len THEN c ELSE Grow[c + (c \div 2) + 1]
  IN  Grow[cap]

FitLen(buf, bytes, len) ==
  LET cap == GrownTo(buf.cap, len)
      grown == bytes \o Unwritten(cap - buf.cap)
  IN  IF len <= buf.len THEN [buf |-> buf, bytes |-> bytes]
      ELSE [buf |-> [buf EXCEPT !.len = len, !.cap = cap], bytes |-> [grown EXCEPT ![len + 1] = Nul]]

\* Write(offset, text), which Append calls at the end; with no text, FitLen.
WriteBuf(b, offset, text, given) ==
  LET fit == FitLen(bufs[b], mem.bytes[bufs[b].p], offset + Len(text))
      Over(s, t) == [i \in DOMAIN s |-> IF i \in (offset + 1)..(offset + Len(t)) THEN t[i - offset] ELSE s[i]]
  IN  /\ offset + Len(text) <= MaxStr
      /\ bufs' = [bufs EXCEPT ![b] = fit.buf]
      /\ mem' = [mem EXCEPT !.bytes[bufs[b].p] = Over(fit.bytes, text)]
      /\ value' = [value EXCEPT ![b] = Over(value[b] \o Unwritten(fit.buf.len - bufs[b].len), given)]
      /\ UNCHANGED strs

WriteSlice(b, offset, x, from, to) ==
  WriteBuf(b, offset, Bytes(mem, x, from, to), SubSeq(value[x], from, to))

FitBuf(b, len) ==
  LET fit == FitLen(bufs[b], mem.bytes[bufs[b].p], len) IN
  /\ bufs' = [bufs EXCEPT ![b] = fit.buf]
  /\ mem' = [mem EXCEPT !.bytes[bufs[b].p] = fit.bytes]
  /\ value' = [value EXCEPT ![b] = @ \o Unwritten(fit.buf.len - bufs[b].len)]
  /\ UNCHANGED strs

StrNext ==
  \/ \E d \in StrName :
       \/ \E text \in Text : AssignText(d, text, text)
       \/ \E x \in StrName :
            \/ \E c \in Cuts(x) : AssignSlice(d, x, c[1], c[2])
            \/ AssignStr(d, x) \/ MoveStr(d, x)
       \/ \E b \in BufName : AssignBuf(d, b)
  \/ \E b \in BufName :
       \/ \E len, cap \in 0..MaxStr : NewBuf(b, len, cap)
       \/ \E len \in 0..MaxStr : FitBuf(b, len)
       \/ \E offset \in 0..bufs[b].len :
            \/ \E text \in Text : WriteBuf(b, offset, text, text)
            \/ \E x \in StrName : \E c \in Cuts(x) : WriteSlice(b, offset, x, c[1], c[2])

StrSpec == StrInit /\ [][StrNext]_strVars

-----------------------------------------------------------------------------
\* Nothing was said of the bytes where a text has Junk.
Agrees(bytes, len, text) ==
  /\ len = Len(text)
  /\ \A i \in 1..len : text[i] \in {Junk, bytes[i]}
  /\ bytes[len + 1] = Nul

LongOnes(b) == {x \in StrName : IsLongStr(strs[x]) /\ strs[x].block = b}
BufsOf(b) == {c \in BufName : bufs[c].p = b}

(* A Str keeps what it was given, with Nul behind it, whatever becomes of  *)
(* the strings, slices and buffers it was made of, its own bytes included; *)
(* and each block is one buffer's, or is counted by the strings on it and  *)
(* goes with the last.                                                     *)
StrContents ==
  /\ \A x \in StrName : Agrees(Data(mem, strs[x]), LenOf(strs[x]), value[x])
  /\ \A b \in BufName :
       /\ Agrees(mem.bytes[bufs[b].p], bufs[b].len, value[b])
       /\ Len(mem.bytes[bufs[b].p]) = bufs[b].cap + 1
  /\ \A b \in DOMAIN mem.bytes :
       /\ mem.count[b] = Cardinality(LongOnes(b))
       /\ (mem.count[b] = 0) = (Cardinality(BufsOf(b)) = 1)
       /\ Cardinality(BufsOf(b)) <= 1

=============================================================================
