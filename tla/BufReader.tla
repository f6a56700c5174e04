----------------------------- MODULE BufReader -----------------------------
(***************************************************************************)
(* BufReaderImpl of src/io/buf_io.cpp: a buffer behind a read function     *)
(* that gives some of what it is asked for, ends or fails.  One caller     *)
(* uses it; its calls are cut where do_read_ is called, since that may     *)
(* park a fiber.  A byte is the number of its place in the stream.         *)
(***************************************************************************)
EXTENDS Integers, Sequences

CONSTANTS
  RBufSz,      \* buf_sz_
  MaxRead,    \* bound: the size of the caller's buffer
  EndBytes    \* the bytes that are end_ch

ASSUME BufReaderAssumption ==
  {RBufSz, MaxRead} \subseteq Nat \ {0} /\ EndBytes \subseteq Nat

VARIABLES
  rstart, rlen, rbuf,   \* start_, len_, buf_
  call,                 \* the call in progress, or the last one
  taken                 \* external: the bytes that do_read_ has given

readerVars == <<rstart, rlen, rbuf, call, taken>>

\* got: the bytes copied to the caller's buffer.
Call == [op : {"read", "full", "until"}, sz : 1..MaxRead, got : Seq(Nat),
         state : {"busy", "ok", "eof", "error"}]

ReaderTypeOK ==
  /\ rstart \in Nat /\ rlen \in Nat
  /\ rbuf \in [0..(RBufSz - 1) -> Nat]
  /\ call \in Call
  /\ taken \in Nat

ReaderInit ==
  /\ rstart = 0 /\ rlen = 0
  /\ rbuf = [k \in 0..(RBufSz - 1) |-> 0]
  /\ call = [op |-> "read", sz |-> 1, got |-> <<>>, state |-> "error"]
  /\ taken = 0

Busy == call.state = "busy"

\* Entry; a size that is not positive returns at once.
ReadStart(op, sz) ==
  /\ ~ Busy
  /\ call' = [op |-> op, sz |-> sz, got |-> <<>>, state |-> "busy"]
  /\ UNCHANGED <<rstart, rlen, rbuf, taken>>

BadFill ==
  /\ Busy
  /\ rstart' = 0

\* Fill calls do_read_ when the buffer is empty.
Fill ==
  /\ Busy /\ rlen = 0
  /\ rstart' = 0

FillGets(r) ==
  /\ Fill
  /\ rlen' = r
  /\ rbuf' = [k \in 0..(RBufSz - 1) |-> IF k < r THEN taken + k + 1 ELSE rbuf[k]]
  /\ taken' = taken + r
  /\ UNCHANGED call

\* The end of the stream, or an error, ends the call.
FillEnds(how) ==
  /\ Fill
  /\ call' = [call EXCEPT !.state = how]
  /\ UNCHANGED <<rlen, rbuf, taken>>

\* The place in the next n bytes where the loop for end_ch stops.
UpToEnd(n) ==
  IF call.op = "until" /\ \E k \in 1..n : rbuf[rstart + k - 1] \in EndBytes
    THEN CHOOSE k \in 1..n : /\ rbuf[rstart + k - 1] \in EndBytes
                             /\ \A j \in 1..(k - 1) : rbuf[rstart + j - 1] \notin EndBytes
    ELSE n

BadCopyLen == UpToEnd(IF rlen < call.sz THEN rlen ELSE call.sz)

\* fill_len: what the buffer has of what is still asked for, up to an end_ch.
CopyLen ==
  LET want == call.sz - Len(call.got) IN UpToEnd(IF rlen < want THEN rlen ELSE want)

BadCopied == [k \in 1..CopyLen |-> rbuf[k - 1]]

Copied == [k \in 1..CopyLen |-> rbuf[rstart + k - 1]]

AtEnd(got) ==
  \/ Len(got) = call.sz
  \/ call.op = "read"
  \/ call.op = "until" /\ got[Len(got)] \in EndBytes

Copy ==
  /\ Busy /\ rlen > 0
  /\ LET got == call.got \o Copied IN
       call' = [call EXCEPT !.got = got, !.state = IF AtEnd(got) THEN "ok" ELSE "busy"]
  /\ rstart' = rstart + CopyLen
  /\ rlen' = rlen - CopyLen
  /\ UNCHANGED <<rbuf, taken>>

ReaderNext ==
  \/ \E op \in {"read", "full", "until"}, sz \in 1..MaxRead : ReadStart(op, sz)
  \/ \E r \in 1..RBufSz : FillGets(r)
  \/ FillEnds("eof") \/ FillEnds("error")
  \/ Copy

ReaderSpec == ReaderInit /\ [][ReaderNext]_readerVars

-----------------------------------------------------------------------------
(* What the reader promises.                                               *)

given == taken - rlen   \* the bytes copied out of the buffer so far

(* The bytes a call gets are those of the stream, in order, from the place *)
(* where the call before it stopped, and the buffer holds the ones after.  *)
ReaderFifo ==
  /\ rstart + rlen <= RBufSz
  /\ \A k \in 1..rlen : rbuf[rstart + k - 1] = given + k
  /\ \A k \in 1..Len(call.got) : call.got[k] = given - Len(call.got) + k

(* _buf_io.h: Read gives something; ReadFull all that was asked for; and   *)
(* ReadUntil stops at the first end_ch, or ends without one only when it   *)
(* has all that was asked for.                                             *)
ReadResults ==
  LET n == Len(call.got) IN
  /\ n <= call.sz
  /\ call.state = "ok" =>
       /\ call.op = "read" => n > 0
       /\ call.op = "full" => n = call.sz
       /\ call.op = "until" => n = call.sz \/ call.got[n] \in EndBytes
  /\ call.op = "until" =>
       \A k \in 1..n : call.got[k] \in EndBytes => k = n /\ call.state = "ok"

=============================================================================
