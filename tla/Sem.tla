-------------------------------- MODULE Sem --------------------------------
(***************************************************************************)
(* fiber::Sem of src/fiber/sem.cpp on top of the scheduler: the program of *)
(* Sem::Acquire, cut where it jumps to the scheduler and where it reads    *)
(* the clock, run by fibers that between two calls may call any other      *)
(* operation.  Every step is a step of Sched (theorem SemRefinesSched in   *)
(* CountProofs); the variable added is the stack frame of Acquire.         *)
(***************************************************************************)
EXTENDS Sched

CONSTANT TimeoutMs   \* the values of timeout_ms that callers use; -1 is none

ASSUME SemAssumption == TimeoutMs \subseteq Nat \cup {-1}

VARIABLE frame       \* the locals of Acquire of each fiber

semVars == <<schedVars, frame>>

\* pc: "none" outside of Acquire, "try" at the head of the loop, "check" at
\* the test of the time, "woken" when SwitchToSchedFiber returns.
Frame == [pc : {"none", "try", "check", "woken"}, sem : SemId \cup {0},
          need : Value, done : Value, expire : Time \cup {-1}]

NoFrame == [pc |-> "none", sem |-> 0, need |-> 0, done |-> 0, expire |-> -1]

SemTypeOK == SchedTypeOK /\ frame \in [Fiber -> Frame]

SemInit == SchedInit /\ frame = [f \in Fiber |-> NoFrame]

InAcquire(f) == frame[f].pc /= "none"

Acquiring(f, s) == InAcquire(f) /\ frame[f].sem = s

Return == frame' = [frame EXCEPT ![curr] = NoFrame]

\* Entry: a handle that is not valid returns kInvalid, and a request for
\* nothing returns 0, both without a change of state.
AcquireStart(s, n, ms) ==
  /\ curr /= None /\ ~ InAcquire(curr)
  /\ s \in DOMAIN sems
  /\ n > 0
  /\ now + ms <= MaxTime
  /\ frame' = [frame EXCEPT ![curr] =
       [pc |-> "try", sem |-> s, need |-> n, done |-> 0,
        expire |-> IF ms < 0 THEN -1 ELSE now + ms]]
  /\ UNCHANGED schedVars

\* done_value += TryAcquireSem(...), and return 0 with all of it.
AcquireTry ==
  /\ curr /= None /\ frame[curr].pc = "try"
  /\ LET fr  == frame[curr]
         got == Granted(fr.sem, fr.need - fr.done)
     IN  /\ TryAcquireSem(fr.sem, fr.need - fr.done)
         /\ IF fr.done + got = fr.need
              THEN Return
              ELSE frame' = [frame EXCEPT ![curr].pc = "check",
                                          ![curr].done = @ + got]

TimedOut(f) == frame[f].expire \in 0..now

\* return kTimeout: what has been taken goes back.
AcquireTimeout ==
  /\ curr /= None /\ frame[curr].pc = "check"
  /\ TimedOut(curr)
  /\ IF frame[curr].done > 0
       THEN RestoreAcquiringSem(frame[curr].sem, frame[curr].done)
       ELSE UNCHANGED schedVars
  /\ Return

BadAcquirePark ==
  /\ curr /= None /\ frame[curr].pc = "check"
  /\ ~ TimedOut(curr)
  /\ WaitSem(-1, frame[curr].sem)
  /\ frame' = [frame EXCEPT ![curr].pc = "woken"]

AcquirePark ==
  /\ curr /= None /\ frame[curr].pc = "check"
  /\ ~ TimedOut(curr)
  /\ WaitSem(frame[curr].expire, frame[curr].sem)
  /\ frame' = [frame EXCEPT ![curr].pc = "woken"]

BadAcquireWoken ==
  /\ curr /= None /\ frame[curr].pc = "woken"
  /\ frame' = [frame EXCEPT ![curr].pc = "try"]
  /\ UNCHANGED schedVars

\* After the switch: return kClosed, or go round the loop.
AcquireWoken ==
  /\ curr /= None /\ frame[curr].pc = "woken"
  /\ IF frame[curr].sem \in DOMAIN sems
       THEN frame' = [frame EXCEPT ![curr].pc = "try"]
       ELSE Return
  /\ UNCHANGED schedVars

AcquireStep == AcquireTry \/ AcquireTimeout \/ AcquirePark \/ AcquireWoken

\* What a fiber outside of Acquire, or main, may call.
UserLeave == curr /= None /\ ~ InAcquire(curr) /\ Leave /\ UNCHANGED frame

UserCall ==
  /\ IF curr = None THEN TRUE ELSE ~ InAcquire(curr)
  /\ Create \/ FdCall \/ SemCall
  /\ UNCHANGED frame

SemNext ==
  \/ \E s \in SemId, n \in Value, ms \in TimeoutMs : AcquireStart(s, n, ms)
  \/ AcquireStep
  \/ UserLeave
  \/ UserCall
  \/ (Run \/ LoopStep \/ WaitInterrupted \/ WaitFailed \/ Environment)
     /\ UNCHANGED frame

SemSpec == SemInit /\ [][SemNext]_semVars

-----------------------------------------------------------------------------
(* What Acquire and Release promise.                                       *)

\* The Acquire of f is the one that s collects value for.
Collecting(f, s) == sems[s].acquirer = f /\ Acquiring(f, s)

(* The acquirer's books: acquiring_value_ is exactly the done_value of the *)
(* one Acquire that is collecting, and no other Acquire holds anything.    *)
(* RestoreAcquiringSem asserts it, and value lost or made up here is lost  *)
(* or made up for good.                                                    *)
AcquirerAccounting ==
  /\ \A s \in DOMAIN sems :
       /\ \A f \in Fiber : Collecting(f, s) => sems[s].acqValue = frame[f].done
       /\ (\A f \in Fiber : ~ Collecting(f, s)) => sems[s].acqValue = 0
  /\ \A f \in Fiber :
       frame[f].done > 0 /\ frame[f].sem \in DOMAIN sems
         => sems[frame[f].sem].acquirer = f

(* An Acquire that has control works on a semaphore that exists, so that   *)
(* the assertions of TryAcquireSem, RestoreAcquiringSem and                *)
(* RegCurrFiberWaitingEvs hold however the semaphore was destroyed while   *)
(* the fiber was parked, and it always still wants something.              *)
AssertionsHold ==
  \A f \in Fiber :
    /\ frame[f].pc \in {"try", "check"} => f = curr /\ frame[f].sem \in DOMAIN sems
    /\ InAcquire(f) => frame[f].done < frame[f].need

(* The acquirer never sleeps on value it could take: while it is parked on *)
(* its semaphore, the semaphore is empty.                                  *)
AcquirerTakesAll ==
  \A s \in DOMAIN sems : \A f \in sems[s].waiters :
    sems[s].acquirer = f => sems[s].value = 0

(* The acquirer has precedence: while its Acquire goes on, the semaphore's *)
(* total never shrinks, as every other Acquire gets nothing.               *)
NoBarging ==
  [][\A s \in DOMAIN sems \cap DOMAIN sems', f \in Fiber :
       Collecting(f, s) /\ Acquiring(f, s)'
         => sems'[s].value + sems'[s].acqValue >= sems[s].value + sems[s].acqValue
    ]_semVars

(* Sem implements AbsSem: the value promised to an acquirer still counts   *)
(* as free until its Acquire has it all.                                   *)
freeBar == [s \in DOMAIN sems |-> sems[s].value + sems[s].acqValue]

requestBar ==
  [f \in Fiber |-> [sem |-> frame[f].sem, need |-> frame[f].need,
                    expire |-> frame[f].expire]]

Abs == INSTANCE AbsSem WITH free <- freeBar, request <- requestBar

AbsSemSpec == Abs!AbsSpec

(* Fairness: that of Sched, where it is the library's code inside Acquire  *)
(* that runs on, and the user's code outside that gives up the thread      *)
(* again and again.                                                        *)
SemFairness ==
  /\ WF_semVars(LoopStep /\ UNCHANGED frame)
  /\ WF_semVars(Tick /\ UNCHANGED frame)
  /\ WF_semVars(AcquireStep)
  /\ SF_semVars(UserLeave)

SemFairSpec == SemSpec /\ SemFairness

(* An Acquire with a time out returns, and so does one whose semaphore is  *)
(* destroyed while it is parked.                                           *)
MustReturn(f) ==
  InAcquire(f) /\ (frame[f].expire >= 0 \/ frame[f].sem \notin DOMAIN sems)

AcquireReturns == \A f \in Fiber : MustReturn(f) ~> ~ InAcquire(f) \/ phase = "main"

(* The acquirer's Acquire returns, once there is enough for it.            *)
EnoughForAcquirer(f) ==
  /\ InAcquire(f) /\ frame[f].sem \in DOMAIN sems
  /\ sems[frame[f].sem].acquirer = f
  /\ sems[frame[f].sem].value + frame[f].done >= frame[f].need

AcquirerServed ==
  \A f \in Fiber : EnoughForAcquirer(f) ~> ~ InAcquire(f) \/ phase = "main"

-----------------------------------------------------------------------------
(* What the comments of the code say of it, and what does not hold.        *)

(* sched.cpp: an acquiring_fiber_seq_ that is set is that of a fiber which *)
(* "is acquiring".  A time out with done_value = 0 leaves it behind.       *)
AcquirerIsAcquiring ==
  \A s \in DOMAIN sems :
    sems[s].acquirer /= NoSeq => \E f \in Fiber : Collecting(f, s)

(* sem.cpp: Acquire goes round "until all of acquire_value is acquired":   *)
(* one that waits on a semaphore with enough value and no acquirer is not  *)
(* left waiting.                                                           *)
Servable(f) ==
  /\ InAcquire(f) /\ frame[f].sem \in DOMAIN sems
  /\ sems[frame[f].sem].acquirer = NoSeq
  /\ sems[frame[f].sem].value >= frame[f].need

WaiterServed ==
  \A f \in Fiber : Servable(f) ~> ~ Servable(f) \/ phase = "main"

=============================================================================
