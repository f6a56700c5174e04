------------------------------- MODULE StrFns -------------------------------
(***************************************************************************)
(* The functions of StrSlice (include/lom/str.h, src/str.cpp).  A slice    *)
(* refers to bytes that go on behind it, and may know that the next one is *)
(* 0 (is_zero_end_), which the parsers rely on.  memmem, isspace, toupper, *)
(* tolower, strtoll and strtoull are the C library's, in the C locale;     *)
(* the integers of a type are those between its limits.                   *)
(***************************************************************************)
EXTENDS Integers, Sequences, SequencesExt, FiniteSets, FiniteSetsExt

CONSTANTS
  Subject,    \* the texts the functions are checked on,
  Argument,   \* what they are searched, split and replaced with,
  IntMax      \* and the limit of int64_t

Char == 0..255

ASSUME StrFnsAssumption ==
  /\ Subject \subseteq Seq(Char) /\ Argument \subseteq Seq(Char)
  /\ IntMax \in Nat /\ IntMax >= 127

IntMin == -IntMax - 1
UIntMax == 2 * IntMax + 1

Space == {9, 10, 11, 12, 13, 32}
Digit == 48..57

\* StrSlice(const Str &), and a slice of which nothing more is known.
SliceOf(text) == [mem |-> Append(text, 0), at |-> 0, len |-> Len(text), z |-> TRUE]
Unknown(v) == [v EXCEPT !.z = FALSE]

TextOf(v) == SubSeq(v.mem, v.at + 1, v.at + v.len)
ByteAt(v, i) == v.mem[v.at + i + 1]

\* Slice(start, len) and Slice(start).
BadCut(v, start, len) == [v EXCEPT !.at = @ + start, !.len = len]

Cut(v, start, len) ==
  [v EXCEPT !.at = @ + start, !.len = len,
            !.z = IF v.len - start = len THEN v.z ELSE ByteAt(v, start + len) = 0]

CutFrom(v, start) == [v EXCEPT !.at = @ + start, !.len = @ - start]

Index(v, s) ==
  LET found == {i \in 0..(v.len - Len(s)) : TextOf(Cut(v, i, Len(s))) = s}
  IN  IF found = {} THEN -1 ELSE Min(found)

RIndex(v, s) ==
  LET found == {i \in 0..(v.len - Len(s)) : TextOf(Cut(v, i, Len(s))) = s}
  IN  IF found = {} THEN -1 ELSE Max(found)

HasPrefix(v, s) == v.len >= Len(s) /\ TextOf(Cut(v, 0, Len(s))) = s
HasSuffix(v, s) == v.len >= Len(s) /\ TextOf(CutFrom(v, v.len - Len(s))) = s

\* Cmp: memcmp of what both have, and then the lengths.
Cmp(v, w) ==
  LET differ == {i \in 0..(Min({v.len, w.len}) - 1) : ByteAt(v, i) /= ByteAt(w, i)}
      a == IF differ = {} THEN v.len ELSE ByteAt(v, Min(differ))
      b == IF differ = {} THEN w.len ELSE ByteAt(w, Min(differ))
  IN  IF a > b THEN 1 ELSE IF a < b THEN -1 ELSE 0

LTrim(v, chs) == CutFrom(v, Min({v.len} \cup {i \in 0..(v.len - 1) : ByteAt(v, i) \notin chs}))
RTrim(v, chs) == Cut(v, 0, Max({-1} \cup {i \in 0..(v.len - 1) : ByteAt(v, i) \notin chs}) + 1)
Trim(v, chs) == RTrim(LTrim(v, chs), chs)

\* Split without a separator goes on behind white space.
SplitSpaces(v) ==
  LET split[i \in 0..v.len] ==
        LET s == CutFrom(v, i)
            end == Min({s.len} \cup {j \in 1..(s.len - 1) : ByteAt(s, j) \in Space})
        IN  IF s.len = 0 THEN <<>>
            ELSE <<Cut(s, 0, end)>> \o split[LTrim(CutFrom(s, end), Space).at - v.at]
  IN  split[0]

SplitAt(v, sep) ==
  LET split[i \in 0..v.len] ==
        LET s == CutFrom(v, i)
            j == Index(s, sep)
        IN  IF j < 0 THEN <<s>> ELSE <<Cut(s, 0, j)>> \o split[i + j + Len(sep)]
  IN  split[0]

Split(v, sep) == IF sep = <<>> THEN SplitSpaces(Trim(v, Space)) ELSE SplitAt(v, sep)

\* Join: the length that it counts first, and the text.
TotalLen(sep, texts) ==
  LET total[i \in 0..Len(texts)] ==
        IF i = 0 THEN -Len(sep) ELSE total[i - 1] + Len(sep) + Len(texts[i])
  IN  total[Len(texts)]

Join(sep, texts) ==
  LET joined[i \in 0..Len(texts)] ==
        IF i = 0 THEN <<>> ELSE joined[i - 1] \o (IF i > 1 THEN sep ELSE <<>>) \o texts[i]
  IN  IF TotalLen(sep, texts) <= 0 THEN <<>> ELSE joined[Len(texts)]

ReplaceIn(v, a, b, max_count) ==
  LET replaced[at \in (0..v.len) \X Int] ==
        LET s == CutFrom(v, at[1])
            i == Index(s, a)
        IN  IF at[2] <= 0 \/ i < 0 THEN TextOf(s)
            ELSE TextOf(Cut(s, 0, i)) \o b \o replaced[<<at[1] + i + Len(a), at[2] - 1>>]
  IN  replaced[<<0, max_count>>]

ToUpper(c) == IF c \in 97..122 THEN c - 32 ELSE c
ToLower(c) == IF c \in 65..90 THEN c + 32 ELSE c
Upper(v) == [i \in 1..v.len |-> ToUpper(ByteAt(v, i - 1))]
Lower(v) == [i \in 1..v.len |-> ToLower(ByteAt(v, i - 1))]
CaseEq(v, w) == v.len = w.len /\ \A i \in 0..(v.len - 1) : ToUpper(ByteAt(v, i)) = ToUpper(ByteAt(w, i))

\* kHexDigests and kHexDigestsLower.
HexDigit(n, upper_case) == IF n < 10 THEN 48 + n ELSE IF upper_case THEN 55 + n ELSE 87 + n

Hex(v, upper_case) ==
  [i \in 1..(2 * v.len) |->
     LET uc == ByteAt(v, (i - 1) \div 2)
     IN  HexDigit(IF i % 2 = 1 THEN uc \div 16 ELSE uc % 16, upper_case)]

\* Repr: a byte that has an escape of its own, and the letter of that.
Escapes == {<<92, 92>>, <<39, 39>>, <<7, 97>>, <<8, 98>>, <<12, 102>>,
            <<10, 110>>, <<13, 114>>, <<9, 116>>, <<11, 118>>}

ReprOf(c) ==
  IF \E e \in Escapes : e[1] = c THEN <<92, (CHOOSE e \in Escapes : e[1] = c)[2]>>
  ELSE IF c \in 32..126 THEN <<c>>
  ELSE <<92, 120, HexDigit(c \div 16, TRUE), HexDigit(c % 16, TRUE)>>

Repr(v) ==
  LET repr[i \in 0..v.len] == IF i = 0 THEN <<39>> ELSE repr[i - 1] \o ReprOf(ByteAt(v, i - 1))
  IN  Append(repr[v.len], 39)

CToI(c) ==
  CASE c \in Digit -> c - 48
    [] c \in 65..70 -> c - 55
    [] c \in 97..102 -> c - 87
    [] OTHER -> -1

Unhex(v) ==
  IF v.len % 2 /= 0 \/ \E i \in 0..(v.len - 1) : CToI(ByteAt(v, i)) < 0 THEN [ok |-> FALSE]
  ELSE [ok |-> TRUE,
        s |-> [i \in 1..(v.len \div 2) |-> CToI(ByteAt(v, 2 * i - 2)) * 16 + CToI(ByteAt(v, 2 * i - 1))]]

-----------------------------------------------------------------------------
(* Numbers.                                                                *)

\* The loop of FromInt64 and FromUInt64.
Decimal(n) ==
  LET digits[m \in Nat] == IF m > 0 THEN Append(digits[m \div 10], 48 + (m % 10)) ELSE <<>>
  IN  digits[n]

Negated(n) == IF n = IntMin THEN IntMin ELSE -n

FromInt64(n) ==
  IF n = 0 THEN <<48>>
  ELSE IF n = IntMin THEN <<45>> \o Decimal(IntMax + 1)   \* a literal
  ELSE IF n < 0 THEN <<45>> \o Decimal(Negated(n))
  ELSE Decimal(n)

FromUInt64(n) == IF n = 0 THEN <<48>> ELSE Decimal(n)

\* What strtoll and strtoull read of a string that ends with 0: a sign, the
\* prefix of base 0, and digits.
CString(mem, at) == SubSeq(mem, at + 1, Min({i \in (at + 1)..Len(mem) : mem[i] = 0}))
ValueOf(c, base) == IF CToI(c) \in 0..(base - 1) THEN CToI(c) ELSE -1

ReadInt(s, base) ==
  LET sign == IF s[1] \in {43, 45} THEN 1 ELSE 0
      hex == base = 0 /\ Len(s) >= sign + 4 /\ s[sign + 1] = 48 /\ s[sign + 2] \in {88, 120}
               /\ ValueOf(s[sign + 3], 16) >= 0
      b == IF base /= 0 THEN base ELSE IF hex THEN 16 ELSE IF s[sign + 1] = 48 THEN 8 ELSE 10
      from == sign + (IF hex THEN 2 ELSE 0)
      to == Min({i \in from..(Len(s) - 1) : ValueOf(s[i + 1], b) < 0})
      abs[i \in from..to] == IF i = from THEN 0 ELSE abs[i - 1] * b + ValueOf(s[i], b)
  IN  [end |-> IF to = from THEN 0 ELSE to, n |-> IF s[1] = 45 THEN -abs[to] ELSE abs[to]]

\* LOM_STR_SLICE_PARSE_NUM: the bytes themselves when 0 follows, or a copy.
ParseNum(v, base, range) ==
  LET p == IF v.z THEN CString(v.mem, v.at) ELSE CString(Append(TextOf(v), 0), 0)
      r == ReadInt(p, base)
  IN  IF \/ v.len = 0
         \/ p[1] \in Space
         \/ p[r.end + 1] /= 0
         \/ r.end /= v.len
         \/ r.n \notin range
      THEN [ok |-> FALSE]
      ELSE [ok |-> TRUE, n |-> r.n]

ParseInt64(v, base) == ParseNum(v, base, IntMin..IntMax)
\* strtoull negates what it has read.
ParseUInt64(v, base) ==
  LET r == ParseNum(v, base, -UIntMax..UIntMax)
  IN  IF r.ok THEN [r EXCEPT !.n = @ % (UIntMax + 1)] ELSE r

-----------------------------------------------------------------------------
(* Every call is one step: of a slice of a subject, or of a number.        *)
VARIABLE asked

NoCall == [kind |-> "none"]

StrFnsInit == asked = NoCall

CallText ==
  /\ asked = NoCall
  /\ \E text \in Subject, arg \in Argument :
       \E start \in 0..Len(text), known \in BOOLEAN :
         \E len \in 0..(Len(text) - start) :
           LET v == SliceOf(text) IN
           asked' = [kind |-> "text", v |-> Cut(IF known THEN v ELSE Unknown(v), start, len), arg |-> arg]

CallNumber ==
  /\ asked = NoCall
  /\ \E n \in IntMin..IntMax : asked' = [kind |-> "number", n |-> n]

Return == asked /= NoCall /\ asked' = NoCall

StrFnsNext == CallText \/ CallNumber \/ Return

StrFnsSpec == StrFnsInit /\ [][StrFnsNext]_asked

-----------------------------------------------------------------------------
Texts(parts) == [i \in DOMAIN parts |-> TextOf(parts[i])]
ZeroEndTrue(v) == v.z => ByteAt(v, v.len) = 0

\* What is not white space is in one of the parts; each is a longest run of
\* it, and they are from left to right.
AreRuns(parts, v) ==
  LET Black(i) == i \in 0..(v.len - 1) /\ ByteAt(v, i) \notin Space
      In(i, part) == i \in (part.at - v.at)..(part.at - v.at + part.len - 1)
  IN  /\ \A i \in 0..(v.len - 1) : Black(i) <=> \E k \in DOMAIN parts : In(i, parts[k])
      /\ \A k \in DOMAIN parts :
           /\ parts[k].mem = v.mem /\ parts[k].len > 0
           /\ ~Black(parts[k].at - v.at - 1) /\ ~Black(parts[k].at - v.at + parts[k].len)
      /\ \A j, k \in DOMAIN parts : j < k => parts[j].at < parts[k].at

SplitsAgree(v, sep) ==
  LET parts == Split(v, sep) IN
  /\ \A i \in DOMAIN parts : ZeroEndTrue(parts[i])
  /\ IF sep = <<>> THEN AreRuns(parts, v)
     ELSE /\ Join(sep, Texts(parts)) = TextOf(v)
          /\ \A i \in DOMAIN parts : Index(parts[i], sep) = -1
          /\ TotalLen(sep, Texts(parts)) = v.len

TrimsAgree(v) ==
  LET t == Trim(v, Space) IN
  /\ ZeroEndTrue(t)
  /\ \A i \in 0..(v.len - 1) :
       i \in (t.at - v.at)..(t.at - v.at + t.len - 1)
         <=> \E j, k \in 0..(v.len - 1) : j <= i /\ i <= k /\ {ByteAt(v, j), ByteAt(v, k)} \cap Space = {}

\* Replacing the first of them is joining the first parts with b.
ReplacesAgree(v, a, b, max_count) ==
  LET parts == Texts(SplitAt(v, a))
      n == Min({max_count, Len(parts) - 1})
  IN  ReplaceIn(v, a, b, max_count)
        = Join(b, SubSeq(parts, 1, n) \o <<Join(a, SubSeq(parts, n + 1, Len(parts)))>>)

HexAgrees(v) ==
  /\ \A upper_case \in BOOLEAN : Unhex(SliceOf(Hex(v, upper_case))) = [ok |-> TRUE, s |-> TextOf(v)]
  /\ Unhex(v).ok => CaseEq(SliceOf(Hex(SliceOf(Unhex(v).s), TRUE)), v)

SearchesAgree(v, s) ==
  LET back == Index(SliceOf(Reverse(TextOf(v))), Reverse(s)) IN
  /\ RIndex(v, s) = IF back = -1 THEN -1 ELSE v.len - Len(s) - back
  /\ HasPrefix(v, s) <=> Index(v, s) = 0
  /\ HasSuffix(v, s) <=> v.len >= Len(s) /\ RIndex(v, s) = v.len - Len(s)
  /\ Cmp(v, SliceOf(s)) = -Cmp(SliceOf(s), v)
  /\ Cmp(v, SliceOf(s)) = 0 <=> TextOf(v) = s

\* What a reader of a representation makes of it.
Unescaped(s) ==
  LET text[i \in Nat] ==
        IF i > Len(s) THEN <<>>
        ELSE IF s[i] /= 92 THEN <<s[i]>> \o text[i + 1]
        ELSE IF s[i + 1] = 120 THEN <<CToI(s[i + 2]) * 16 + CToI(s[i + 3])>> \o text[i + 4]
        ELSE <<(CHOOSE e \in Escapes : e[2] = s[i + 1])[1]>> \o text[i + 2]
  IN  text[1]

ReprAgrees(v) ==
  LET r == Repr(v)
      inner == SubSeq(r, 2, Len(r) - 1)
  IN  /\ Unescaped(inner) = TextOf(v)
      /\ \A i \in DOMAIN inner : inner[i] \in 32..126

CaseAgrees(v, w) ==
  /\ CaseEq(v, w) <=> Upper(v) = Upper(w)
  /\ Upper(SliceOf(Lower(v))) = Upper(v) /\ Lower(SliceOf(Upper(v))) = Lower(v)

\* "the whole string must be one strict number" (str.h:232), in base 10.
IsNumber(text) ==
  LET sign == IF text /= <<>> /\ text[1] \in {43, 45} THEN 1 ELSE 0 IN
  /\ Len(text) > sign
  /\ \A i \in (sign + 1)..Len(text) : text[i] \in Digit

NumbersAgree(n) ==
  LET text == FromInt64(n)
      utext == FromUInt64(n % (UIntMax + 1))
      inside == Cut(SliceOf(Append(text, 49)), 0, Len(text))
  IN  /\ \A v \in {SliceOf(text), Unknown(SliceOf(text)), inside}, base \in {0, 10} :
           ParseInt64(v, base) = [ok |-> TRUE, n |-> n]
      /\ \A base \in {0, 10} :
           ParseUInt64(SliceOf(utext), base) = [ok |-> TRUE, n |-> n % (UIntMax + 1)]

(* Split and Join undo each other, as Hex and Unhex, FromInt64 and the     *)
(* parsers do; a representation is of one text; Replace is Split and Join; *)
(* Split at white space and Trim find just what is not white space; whole  *)
(* numbers are parsed and nothing else; and a slice that says that 0       *)
(* follows it is right, which the parsers depend on not to read on behind. *)
StringsAgree ==
  /\ asked.kind = "text" =>
       LET v == asked.v
           text == TextOf(v)
       IN  /\ SplitsAgree(v, asked.arg)
           /\ TrimsAgree(v)
           /\ asked.arg /= <<>> =>
                \A max_count \in 0..2, b \in {<<>>, Append(asked.arg, 97)} :
                  ReplacesAgree(v, asked.arg, b, max_count)
           /\ HexAgrees(v) /\ ReprAgrees(v)
           /\ SearchesAgree(v, asked.arg)
           /\ CaseAgrees(v, SliceOf(asked.arg))
           /\ ParseInt64(v, 10).ok => IsNumber(text)
           /\ IsNumber(text) /\ Len(text) <= 2 => ParseInt64(v, 10).ok
  /\ asked.kind = "number" => NumbersAgree(asked.n)

=============================================================================
