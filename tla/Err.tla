-------------------------------- MODULE Err --------------------------------
(***************************************************************************)
(* The last error of a thread (src/err.cpp): a GoSlice of the message and  *)
(* the positions it was passed on at, and errno.  All fibers of the thread *)
(* share them, so that protectors end in any order.                        *)
(***************************************************************************)
EXTENDS SliceOps

CONSTANTS
  Msg,
  Pos,         \* the positions of calls
  NoPos,       \* a CodePos that is not Valid
  NoText,      \* Str()
  Protector,
  Errno,
  MaxTrace     \* 64 in the code

ASSUME ErrAssumption == MaxTrace \in Nat \ {0} /\ 0 \in Errno /\ NoPos \notin Pos

VARIABLES
  errHeap,     \* the arrays of err and of what the protectors hold
  err, errno,
  saved,       \* err_ and errno_ of the protectors that there are
  trace,       \* history: what was reported, and
  savedTrace,  \* history: what had been reported when a protector was made
  lastErrno,   \* history: the number the last failing call gave, and
  savedErrno   \* history: what it was when a protector was made

history == <<trace, savedTrace, lastErrno, savedErrno>>
errVars == <<errHeap, err, errno, saved, history>>

NotMade == [err |-> NilSlice, errno |-> -1]

ErrInit ==
  /\ errHeap = [a \in {} |-> <<>>]
  /\ err = NilSlice /\ errno = 0
  /\ saved = [q \in Protector |-> NotMade]
  /\ trace = <<>> /\ savedTrace = [q \in Protector |-> <<>>]
  /\ lastErrno = 0 /\ savedErrno = [q \in Protector |-> -1]

\* An array lives as long as a slice that is on it.
Kept(h) ==
  LET used == {err'.a} \cup {saved'[q].err.a : q \in Protector}
  IN  errHeap' = [a \in DOMAIN h \cap used |-> h[a]]

PushErrBTImpl(r, pos) ==
  IF r.s.len < MaxTrace /\ pos /= NoPos THEN AppendOneElem(r.h, r.s, pos, NoText) ELSE r

PushErrBT(pos) ==
  LET r == PushErrBTImpl(Gives(errHeap, err), pos) IN
  /\ err' = r.s
  /\ trace' = IF pos = NoPos \/ Len(trace) = MaxTrace THEN trace ELSE Append(trace, pos)
  /\ UNCHANGED <<errno, saved, savedTrace, lastErrno, savedErrno>>
  /\ Kept(r.h)

SetErr(s, pos) ==
  LET r == PushErrBTImpl(AppendOneElem(errHeap, NilSlice, s, NoText), pos) IN
  /\ err' = r.s
  /\ trace' = IF pos = NoPos \/ MaxTrace = 1 THEN <<s>> ELSE <<s, pos>>
  /\ UNCHANGED <<errno, saved, savedTrace, lastErrno, savedErrno>>
  /\ Kept(r.h)

\* Err(): the joined elements, in this order.
ErrText == Content(errHeap, err)

\* A failing system call.
SetErrno(e) ==
  /\ errno' = e /\ lastErrno' = e
  /\ UNCHANGED <<errHeap, err, saved, trace, savedTrace, savedErrno>>

\* The constructor of ErrProtector, and its destructor.
BadProtect(q) ==
  /\ saved[q] = NotMade
  /\ saved' = [saved EXCEPT ![q] = [err |-> err, errno |-> errno]]
  /\ savedTrace' = [savedTrace EXCEPT ![q] = trace]
  /\ savedErrno' = [savedErrno EXCEPT ![q] = lastErrno]
  /\ err' = err /\ errno' = 0 /\ trace' = <<>> /\ lastErrno' = 0
  /\ Kept(errHeap)

Protect(q) ==
  /\ saved[q] = NotMade
  /\ saved' = [saved EXCEPT ![q] = [err |-> err, errno |-> errno]]
  /\ savedTrace' = [savedTrace EXCEPT ![q] = trace]
  /\ savedErrno' = [savedErrno EXCEPT ![q] = lastErrno]
  /\ err' = NilSlice /\ errno' = 0 /\ trace' = <<>> /\ lastErrno' = 0
  /\ Kept(errHeap)

\* What was reported counts again as it did when q was made.
HistoryBack(q) ==
  /\ trace' = savedTrace[q] /\ savedTrace' = [savedTrace EXCEPT ![q] = <<>>]
  /\ lastErrno' = savedErrno[q] /\ savedErrno' = [savedErrno EXCEPT ![q] = -1]

BadUnprotect(q) ==
  /\ saved[q] /= NotMade
  /\ err' = saved[q].err
  /\ saved' = [saved EXCEPT ![q] = NotMade]
  /\ HistoryBack(q)
  /\ UNCHANGED errno
  /\ Kept(errHeap)

Unprotect(q) ==
  /\ saved[q] /= NotMade
  /\ err' = saved[q].err /\ errno' = saved[q].errno
  /\ saved' = [saved EXCEPT ![q] = NotMade]
  /\ HistoryBack(q)
  /\ Kept(errHeap)

ErrNext ==
  \/ \E pos \in Pos \cup {NoPos} : PushErrBT(pos) \/ \E s \in Msg : SetErr(s, pos)
  \/ \E e \in Errno : SetErrno(e)
  \/ \E q \in Protector : Protect(q) \/ Unprotect(q)

ErrSpec == ErrInit /\ [][ErrNext]_errVars

-----------------------------------------------------------------------------
\* errno is the number of the last call that failed, and comes back with a
\* protector: reporting an error does not change it.
ErrnoKept ==
  /\ errno = lastErrno
  /\ \A q \in Protector : saved[q].errno = savedErrno[q]

(* err is the last message and behind it the first MaxTrace - 1 positions  *)
(* it was passed on at, and so is what each protector brings back with     *)
(* errno, although slices share arrays and append in place, and protectors *)
(* of several fibers end in any order.                                     *)
ErrTraceKept ==
  /\ Content(errHeap, err) = trace
  /\ \A q \in Protector : Content(errHeap, saved[q].err) = savedTrace[q]
  /\ Len(trace) <= MaxTrace
  /\ ErrnoKept

-----------------------------------------------------------------------------
(* What a comment of the code says, and what does not hold.                *)

(* err.h: PushErrBT adds the position "in front of the error".  SetErr     *)
(* leaves a message and at most one position, so that of an error which is *)
(* longer the first element would be a position.  The code appends.        *)
PushedInFront == Len(ErrText) > 2 => ErrText[1] \in Pos

=============================================================================
