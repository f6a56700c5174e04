----------------------------- MODULE BufWriter -----------------------------
(***************************************************************************)
(* BufWriterImpl of src/io/buf_io.cpp: a ring buffer in front of a write   *)
(* function that takes part of what it is given, or fails.  One caller     *)
(* uses it; its calls are cut where do_write_ is called, since that may    *)
(* park a fiber.                                                           *)
(*                                                                         *)
(* A byte is the number of its place in the stream: the k-th byte that     *)
(* WriteAll copies into the buffer is k.                                   *)
(***************************************************************************)
EXTENDS Integers

CONSTANTS
  WBufSz,      \* buf_sz_, 4096 to 4194304 in the code
  MaxBytes    \* bound: the length of the stream

ASSUME BufWriterAssumption == WBufSz \in Nat \ {0} /\ MaxBytes \in Nat

VARIABLES
  wstart, wlen, wbuf,   \* start_, len_, buf_
  wop,                  \* the call in progress
  left,                 \* sz, in WriteAll
  sent                  \* external: the bytes that do_write_ has taken

writerVars == <<wstart, wlen, wbuf, wop, left, sent>>

accepted == sent + wlen   \* the bytes copied into the buffer so far

WriterTypeOK ==
  /\ wstart \in Nat
  /\ wlen \in Nat
  /\ wbuf \in [0..(WBufSz - 1) -> Nat]
  /\ wop \in {"none", "writeall", "flush"}
  /\ left \in Nat
  /\ sent \in Nat

WriterInit ==
  /\ wstart = 0 /\ wlen = 0
  /\ wbuf = [k \in 0..(WBufSz - 1) |-> 0]
  /\ wop = "none" /\ left = 0
  /\ sent = 0

Least(m, n) == IF m <= n THEN m ELSE n

SendLen == Least(wlen, WBufSz - wstart)

BadDoWrite(r) ==
  /\ r \in 1..SendLen
  /\ sent' = sent + r
  /\ wlen' = wlen - r
  /\ wstart' = IF wlen' = 0 THEN 0 ELSE wstart + r
  /\ UNCHANGED wbuf

\* DoWrite, when do_write_ takes r bytes.
DoWrite(r) ==
  /\ r \in 1..SendLen
  /\ sent' = sent + r
  /\ wlen' = wlen - r
  /\ wstart' = IF wstart + r = WBufSz \/ wlen' = 0 THEN 0 ELSE wstart + r
  /\ UNCHANGED wbuf

WriteAllStart(n) ==
  /\ wop = "none"
  /\ n > 0 /\ accepted + n <= MaxBytes
  /\ wop' = "writeall" /\ left' = n
  /\ UNCHANGED <<wstart, wlen, wbuf, sent>>

\* The buffer is full: some of it has to be written first.
WriteAllDoWrite(r) ==
  /\ wop = "writeall" /\ wlen = WBufSz
  /\ DoWrite(r)
  /\ UNCHANGED <<wop, left>>

\* Where the free part of the ring begins, and how much of it is in one
\* piece.
TailAt == IF wstart + wlen < WBufSz THEN wstart + wlen ELSE wstart + wlen - WBufSz

BadRoom == WBufSz - TailAt

Room == IF wstart + wlen < WBufSz THEN WBufSz - TailAt ELSE wstart - TailAt

BadWriteAllCopy ==
  /\ wop = "writeall" /\ wlen < WBufSz
  /\ wbuf' = [k \in 0..(WBufSz - 1) |->
                IF k \in TailAt..(TailAt + Room - 1) THEN accepted + 1 + (k - TailAt)
                                                  ELSE wbuf[k]]
  /\ wlen' = wlen + Room
  /\ left' = left - Room
  /\ wop' = IF left = Room THEN "none" ELSE "writeall"
  /\ UNCHANGED <<wstart, sent>>

WriteAllCopy ==
  /\ wop = "writeall" /\ wlen < WBufSz
  /\ LET n == Least(left, Room) IN
       /\ wbuf' = [k \in 0..(WBufSz - 1) |->
                     IF k \in TailAt..(TailAt + n - 1) THEN accepted + 1 + (k - TailAt)
                                                   ELSE wbuf[k]]
       /\ wlen' = wlen + n
       /\ left' = left - n
       /\ wop' = IF left = n THEN "none" ELSE "writeall"
  /\ UNCHANGED <<wstart, sent>>

FlushStart ==
  /\ wop = "none"
  /\ wlen > 0
  /\ wop' = "flush"
  /\ UNCHANGED <<wstart, wlen, wbuf, left, sent>>

BadFlushDoWrite(r) ==
  /\ wop = "flush"
  /\ DoWrite(r)
  /\ wop' = IF wstart' = 0 THEN "none" ELSE "flush"
  /\ UNCHANGED left

FlushDoWrite(r) ==
  /\ wop = "flush"
  /\ DoWrite(r)
  /\ wop' = IF wlen' = 0 THEN "none" ELSE "flush"
  /\ UNCHANGED left

\* do_write_ fails, and so does the call; what WriteAll has copied stays.
DoWriteFails ==
  /\ wop = "flush" \/ (wop = "writeall" /\ wlen = WBufSz)
  /\ wop' = "none" /\ left' = 0
  /\ UNCHANGED <<wstart, wlen, wbuf, sent>>

WriterNext ==
  \/ \E n \in 1..MaxBytes : WriteAllStart(n)
  \/ \E r \in 1..WBufSz : WriteAllDoWrite(r) \/ FlushDoWrite(r)
  \/ WriteAllCopy \/ FlushStart \/ DoWriteFails

WriterSpec == WriterInit /\ [][WriterNext]_writerVars

-----------------------------------------------------------------------------
(* What the writer promises.                                               *)

(* The assertions of DoWrite and WriteAll: start_ is inside the buffer,    *)
(* there is something to send when do_write_ is called, and a free byte    *)
(* where WriteAll copies to.                                               *)
WriterAssertions ==
  /\ wstart < WBufSz /\ wlen <= WBufSz
  /\ wop = "flush" => SendLen > 0
  /\ wop = "writeall" => left > 0 /\ (wlen < WBufSz => Room > 0)

\* The place in the buffer of the i-th byte of the ring.
Slot(i) == IF wstart + i < WBufSz THEN wstart + i ELSE wstart + i - WBufSz

(* The ring holds the bytes accepted and not sent, in order and across the *)
(* wrap: whatever do_write_ takes each time, the bytes it gets are those   *)
(* given to WriteAll, each once.                                           *)
WriterFifo == \A i \in 0..(wlen - 1) : wbuf[Slot(i)] = sent + i + 1

(* A Flush that succeeds has sent everything.                              *)
FlushSends ==
  [][wop = "flush" /\ wop' = "none" /\ sent' /= sent => sent' = accepted]_writerVars

=============================================================================
