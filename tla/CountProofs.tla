---------------------------- MODULE CountProofs ----------------------------
(***************************************************************************)
(* Proofs about what is counted: the value of a semaphore and the pointers *)
(* to an object.                                                           *)
(***************************************************************************)
EXTENDS Sem, RCPtr, SchedProofs, FiniteSetTheorems

-----------------------------------------------------------------------------
(* Sem is a program of Sched, so that the invariants of the scheduler hold *)
(* of it, the books of its Acquires are right, and it implements AbsSem.   *)


(* A semaphore that a frame names has been created, so that a new one has  *)
(* no Acquire under way.                                                   *)
FramesNamed == \A f \in Fiber : frame[f].sem < nextSem

SemInv ==
  /\ SchedInv
  /\ frame \in [Fiber -> Frame]
  /\ AssertionsHold
  /\ AcquirerAccounting
  /\ FramesNamed

\* The steps that leave the acquirers of all semaphores alone.
KeepsAcquirers ==
  /\ \A s \in DOMAIN sems' :
       IF s \in DOMAIN sems
         THEN /\ sems'[s].acquirer = sems[s].acquirer
              /\ sems'[s].acqValue = sems[s].acqValue
         ELSE s = nextSem /\ sems'[s].acquirer = NoSeq /\ sems'[s].acqValue = 0
  /\ nextSem <= nextSem'

-----------------------------------------------------------------------------
(* Every step is a step of Sched.                                          *)

LEMMA SemStepIsSchedStep == SemInv /\ [SemNext]_semVars => [SchedNext]_schedVars
<1> SUFFICES ASSUME SemInv, [SemNext]_semVars PROVE [SchedNext]_schedVars
  OBVIOUS
<1>1. ASSUME curr /= None, frame[curr].pc \in {"try", "check"}
      PROVE  /\ curr \in Fiber /\ frame[curr].sem \in DOMAIN sems
             /\ frame[curr].sem \in SemId
             /\ frame[curr].need - frame[curr].done \in Value
             /\ frame[curr].done \in Value
             /\ frame[curr].expire \in Time \cup {-1}
  <2>1. curr \in Fiber /\ frame[curr] \in Frame
    BY <1>1 DEF SemInv, SchedInv, SchedTypeOK
  <2>2. frame[curr].sem \in DOMAIN sems /\ frame[curr].done < frame[curr].need
    BY <1>1, <2>1 DEF SemInv, AssertionsHold, InAcquire
  <2> QED BY <2>1, <2>2, SchedAssumption DEF Frame, Value, SemInv, SchedInv, SchedTypeOK
<1>2. CASE AcquireTry
  BY <1>1, <1>2 DEF AcquireTry, SchedNext, AcquireCall
<1>3. CASE AcquireTimeout
  <2>1. curr /= None /\ frame[curr].pc \in {"try", "check"}
    BY <1>3 DEF AcquireTimeout
  <2>2. CASE frame[curr].done > 0
    <3>1. RestoreAcquiringSem(frame[curr].sem, frame[curr].done)
      BY <1>3, <2>2 DEF AcquireTimeout
    <3>2. frame[curr].sem \in SemId /\ frame[curr].done \in Value \ {0}
      BY <1>1, <2>1, <2>2
    <3> QED BY <3>1, <3>2 DEF SchedNext, AcquireCall
  <2>3. CASE ~ (frame[curr].done > 0)
    BY <1>3, <2>3 DEF AcquireTimeout
  <2> QED BY <2>2, <2>3
<1>4. CASE AcquirePark
  <2>1. frame[curr].expire \in Expiries
    BY <1>1, <1>4 DEF AcquirePark, TimedOut, Expiries, Time, SemInv, SchedInv, SchedTypeOK
  <2> QED BY <1>1, <1>4, <2>1 DEF AcquirePark, SchedNext, AcquireCall
<1>5. CASE AcquireWoken \/ \E s \in SemId, n \in Value, ms \in TimeoutMs : AcquireStart(s, n, ms)
  BY <1>5 DEF AcquireWoken, AcquireStart
<1>6. CASE UserLeave \/ UserCall
  BY <1>6 DEF UserLeave, UserCall, SchedNext
<1> QED BY <1>2, <1>3, <1>4, <1>5, <1>6 DEF SemNext, AcquireStep, SchedNext, semVars

-----------------------------------------------------------------------------
(* The acquirers of the semaphores.                                        *)

LEMMA WakeKeepsAcquirers ==
  ASSUME SchedInv, NEW F \in SUBSET Fiber
  PROVE  \A s \in DOMAIN sems :
           /\ SemsAfterWake(sems, F)[s].acquirer = sems[s].acquirer
           /\ SemsAfterWake(sems, F)[s].acqValue = sems[s].acqValue
BY OtherQueues

(* The entry of a semaphore whose waiters wake up is otherwise as asked.   *)
LEMMA WakeWritesEntry ==
  ASSUME SchedInv, NEW s \in DOMAIN sems, NEW e \in SemInfo, WakeSemWaiters(s, e)
  PROVE  /\ DOMAIN sems' = DOMAIN sems
         /\ sems'[s].acquirer = e.acquirer /\ sems'[s].acqValue = e.acqValue
         /\ \A x \in DOMAIN sems \ {s} : /\ sems'[x].acquirer = sems[x].acquirer
                                         /\ sems'[x].acqValue = sems[x].acqValue
         /\ nextSem' = nextSem /\ curr' = curr
<1> DEFINE F  == sems[s].waiters
           e0 == [e EXCEPT !.waiters = {}]
           q  == [sems EXCEPT ![s] = e0]
<1>1. sems' = SemsAfterWake(q, F) /\ nextSem' = nextSem /\ curr' = curr
  BY DEF WakeSemWaiters, ids
<1>2. e0 \in SemInfo /\ e0.acquirer = e.acquirer /\ e0.acqValue = e.acqValue
  BY DEF SemInfo
<1>3. sems \in [DOMAIN sems -> SemInfo]
  BY DEF SchedInv, SchedTypeOK
<1> HIDE DEF e0
<1>4. q \in [DOMAIN sems -> SemInfo] /\ q[s] = e0
      /\ \A x \in DOMAIN sems \ {s} : q[x] = sems[x]
  BY <1>2, <1>3
<1> HIDE DEF q, F
<1>5. DOMAIN sems' = DOMAIN sems
  BY <1>1, <1>4 DEF SemsAfterWake
<1>6. ASSUME NEW x \in DOMAIN sems
      PROVE  sems'[x].acquirer = q[x].acquirer /\ sems'[x].acqValue = q[x].acqValue
  <2>1. q[x] \in SemInfo
    BY <1>4
  <2>2. sems'[x] = [q[x] EXCEPT !.waiters = @ \ WaitingOn(F, x)]
    BY <1>1, <1>4 DEF SemsAfterWake
  <2> QED BY <2>1, <2>2 DEF SemInfo
<1> QED BY <1>1, <1>2, <1>4, <1>5, <1>6

LEMMA SwitchKeepsAcquirers ==
  ASSUME SchedInv, NEW e, SwitchToSchedFiber(e)
  PROVE  KeepsAcquirers /\ DOMAIN sems' = DOMAIN sems /\ nextSem' = nextSem
<1>1. DOMAIN sems' = DOMAIN sems /\ nextSem' = nextSem /\ nextSem \in Nat
  BY DEF SwitchToSchedFiber, ids, SchedInv, SchedTypeOK
<1>2. ASSUME NEW s \in DOMAIN sems
      PROVE  sems'[s].acquirer = sems[s].acquirer /\ sems'[s].acqValue = sems[s].acqValue
  <2>1. sems[s] \in SemInfo
    BY DEF SchedInv, SchedTypeOK
  <2>2. sems'[s] = [sems[s] EXCEPT !.waiters = @ \cup (IF s \in e.sems THEN {curr} ELSE {})]
    BY DEF SwitchToSchedFiber
  <2> QED BY <2>1, <2>2 DEF SemInfo
<1> QED BY <1>1, <1>2 DEF KeepsAcquirers

(* Only Acquire changes who acquires, and how much.                        *)
LEMMA OthersKeepAcquirers ==
  ASSUME SchedInv,
         Create \/ Leave \/ FdCall \/ SemCall \/ Run \/ LoopStep
           \/ WaitInterrupted \/ WaitFailed \/ Environment
  PROVE  KeepsAcquirers
<1>0. nextSem \in Nat
  BY DEF SchedInv, SchedTypeOK
<1>1. ASSUME sems' = sems, nextSem' = nextSem PROVE KeepsAcquirers
  BY <1>0, <1>1 DEF KeepsAcquirers
<1>2. ASSUME NEW F \in SUBSET Fiber, nextSem' = nextSem,
             sems' = SemsAfterWake(sems, F)
      PROVE  KeepsAcquirers
  <2>1. DOMAIN sems' = DOMAIN sems
    BY <1>2 DEF SemsAfterWake
  <2> QED BY <1>0, <1>2, <2>1, WakeKeepsAcquirers DEF KeepsAcquirers
<1>3. CASE Leave
  <2>1. CASE Finish
    BY <1>1, <2>1 DEF Finish
  <2> QED BY <1>3, <2>1, SwitchKeepsAcquirers DEF Leave, Yield, SleepMS, WaitFd, WaitReading, WaitWriting
<1>4. CASE FdCall
  <2>1. ASSUME NEW d \in Fd, UnregRawFd(d) PROVE KeepsAcquirers
    BY <1>2, <2>1, QueuedAreParked DEF UnregRawFd, ids
  <2> QED BY <1>1, <1>4, <2>1 DEF FdCall, RegRawFd, ids
<1>5. CASE SemCall
  <2>1. ASSUME NEW v \in Value, RegSem(v) PROVE KeepsAcquirers
    <3>1. \A s \in DOMAIN sems' \ {nextSem} : s \in DOMAIN sems /\ sems'[s] = sems[s]
      BY <2>1 DEF RegSem
    <3>2. sems'[nextSem] = [value |-> v, acquirer |-> NoSeq, acqValue |-> 0, waiters |-> {}]
      BY <2>1 DEF RegSem
    <3>3. sems'[nextSem].acquirer = NoSeq /\ sems'[nextSem].acqValue = 0
      BY <3>2
    <3>4. nextSem \notin DOMAIN sems /\ nextSem <= nextSem'
      BY <1>0, <2>1 DEF RegSem, SchedInv, Numbering
    <3> QED BY <1>0, <3>1, <3>3, <3>4 DEF KeepsAcquirers
  <2>2. ASSUME NEW s \in SemId, UnregSem(s) PROVE KeepsAcquirers
    <3>1. sems[s].waiters \in SUBSET Fiber /\ sems' = Without(SemsAfterWake(sems, sems[s].waiters), s)
          /\ nextSem' = nextSem
      BY <2>2, QueuedAreParked DEF UnregSem, ids
    <3>2. \A x \in DOMAIN sems' : x \in DOMAIN sems /\ sems'[x] = SemsAfterWake(sems, sems[s].waiters)[x]
      BY <3>1 DEF Without, SemsAfterWake
    <3> QED BY <1>0, <3>1, <3>2, WakeKeepsAcquirers DEF KeepsAcquirers
  <2>3. ASSUME NEW s \in SemId, NEW n \in Value, ReleaseSem(s, n) PROVE KeepsAcquirers
    <3> DEFINE e == [sems[s] EXCEPT !.value = @ + n]
    <3>1. s \in DOMAIN sems /\ WakeSemWaiters(s, e) /\ e \in SemInfo
      BY <2>3, ReleaseEntry
    <3>2. e.acquirer = sems[s].acquirer /\ e.acqValue = sems[s].acqValue
      BY <3>1 DEF SchedInv, SchedTypeOK, SemInfo
    <3> HIDE DEF e
    <3>3. /\ DOMAIN sems' = DOMAIN sems /\ nextSem' = nextSem
          /\ sems'[s].acquirer = e.acquirer /\ sems'[s].acqValue = e.acqValue
          /\ \A x \in DOMAIN sems \ {s} : /\ sems'[x].acquirer = sems[x].acquirer
                                          /\ sems'[x].acqValue = sems[x].acqValue
      BY <3>1, WakeWritesEntry
    <3> QED BY <1>0, <3>2, <3>3 DEF KeepsAcquirers
  <2> QED BY <1>5, <2>1, <2>2, <2>3 DEF SemCall
<1>6. CASE LoopStep
  <2>1. CASE CheckExpiring
    <3>1. UNION {expireQ[t] : t \in Due} \in SUBSET Fiber
      BY QueuedAreParked DEF Due
    <3> QED BY <1>2, <2>1, <3>1 DEF CheckExpiring, ids
  <2>2. ASSUME NEW in \in SUBSET Fd, NEW out \in SUBSET Fd, WaitReturns(in, out)
        PROVE  KeepsAcquirers
    <3>1. IoWoken(in, out) \in SUBSET Fiber
      BY QueuedAreParked DEF IoWoken
    <3> QED BY <1>2, <2>2, <3>1 DEF WaitReturns, ids
  <2> QED BY <1>1, <1>6, <2>1, <2>2 
          DEF LoopStep, TakeReady, Resume, EnterWait, WaitTimedOut, queues, ids
<1>7. CASE Create \/ Run \/ WaitInterrupted \/ WaitFailed \/ Environment
  BY <1>1, <1>7 DEF Create, Run, WaitInterrupted, WaitFailed, Environment, Tick, Edge, EdgeOver,
                    KernelClose, queues, ids
<1> QED BY <1>3, <1>4, <1>5, <1>6, <1>7

-----------------------------------------------------------------------------
(* The invariant.                                                          *)

LEMMA SemInitInv == SemInit => SemInv
<1> SUFFICES ASSUME SemInit PROVE SemInv
  OBVIOUS
<1>1. SchedInv
  BY InitInv DEF SemInit
<1>2. NoFrame \in Frame
  BY SchedAssumption DEF NoFrame, Frame, Value
<1>3. \A f \in Fiber : frame[f] = NoFrame
  BY DEF SemInit
<1>4. AssertionsHold /\ AcquirerAccounting /\ FramesNamed
  BY <1>3 DEF SemInit, SchedInit, NoFrame, AssertionsHold, InAcquire, AcquirerAccounting,
              FramesNamed
<1> QED BY <1>1, <1>2, <1>4 DEF SemInv, SemInit

(* A step that leaves the acquirers alone keeps the books, as long as it   *)
(* leaves what the frames say of them alone, too.                          *)
LEMMA BooksKept ==
  ASSUME SemInv, KeepsAcquirers, SchedInv',
         \A f \in Fiber : /\ frame'[f].sem = frame[f].sem
                          /\ frame'[f].done = frame[f].done
                          /\ InAcquire(f)' <=> InAcquire(f)
  PROVE  AcquirerAccounting' /\ FramesNamed'
<1>1. /\ nextSem \in Int /\ nextSem' \in Int /\ nextSem <= nextSem'
      /\ \A f \in Fiber : frame[f].sem \in Int /\ frame[f].sem < nextSem
  BY SchedAssumption
     DEF SemInv, SchedInv, SchedTypeOK, KeepsAcquirers, Frame, SemId, FramesNamed
<1>2. FramesNamed'
  BY <1>1 DEF FramesNamed
<1>3. \A f \in Fiber, s \in DOMAIN sems \cap DOMAIN sems' :
        Collecting(f, s)' <=> Collecting(f, s)
  BY DEF KeepsAcquirers, Collecting, Acquiring
<1>4. ASSUME NEW s \in DOMAIN sems'
      PROVE  /\ \A f \in Fiber : Collecting(f, s)' => sems'[s].acqValue = frame'[f].done
             /\ (\A f \in Fiber : ~ Collecting(f, s)') => sems'[s].acqValue = 0
  <2>1. CASE s \in DOMAIN sems
    BY <1>3, <2>1 DEF SemInv, AcquirerAccounting, KeepsAcquirers
  <2>2. CASE s \notin DOMAIN sems
    BY <2>2 DEF KeepsAcquirers, Collecting, Fiber, NoSeq
  <2> QED BY <2>1, <2>2
<1>5. ASSUME NEW f \in Fiber, frame'[f].done > 0, frame'[f].sem \in DOMAIN sems'
      PROVE  sems'[frame'[f].sem].acquirer = f
  <2>1. frame[f].sem \in DOMAIN sems
    BY <1>1, <1>5 DEF KeepsAcquirers
  <2> QED BY <1>5, <2>1 DEF KeepsAcquirers, SemInv, AcquirerAccounting
<1> QED BY <1>2, <1>4, <1>5 DEF AcquirerAccounting


(* What a step of the scheduler does to a program that it does not run.    *)
LEMMA OutsideInv ==
  ASSUME SemInv, SchedInv', UNCHANGED frame,
         \/ (curr = None \/ ~ InAcquire(curr)) /\ (Create \/ Leave \/ FdCall \/ SemCall)
         \/ Run \/ LoopStep \/ WaitInterrupted \/ WaitFailed \/ Environment
  PROVE  SemInv'
<1>1. AcquirerAccounting' /\ FramesNamed'
  BY OthersKeepAcquirers, BooksKept DEF SemInv, InAcquire
<1>2. AssertionsHold'
  <2> SUFFICES ASSUME NEW f \in Fiber, frame[f].pc \in {"try", "check"}
               PROVE  f = curr' /\ frame[f].sem \in DOMAIN sems'
    BY DEF SemInv, AssertionsHold, InAcquire
  <2>1. f = curr /\ curr /= None /\ InAcquire(curr) /\ frame[f].sem \in DOMAIN sems
    BY DEF SemInv, AssertionsHold, InAcquire, Fiber, None
  <2>2. phase = "batch"
    BY <2>1 DEF SemInv, SchedInv, Placement
  <2>3. Environment
    BY <2>1, <2>2 DEF Run, LoopStep, WaitInterrupted, WaitFailed, TakeReady, Resume,
       CheckExpiring, EnterWait, WaitTimedOut, WaitReturns
  <2> QED BY <2>1, <2>3 DEF Environment, Tick, Edge, EdgeOver, KernelClose, queues
<1> QED BY <1>1, <1>2 DEF SemInv

LEMMA AcquireStartInv ==
  ASSUME SemInv, SchedInv', NEW s \in SemId, NEW n \in Value, NEW ms \in TimeoutMs,
         AcquireStart(s, n, ms)
  PROVE  SemInv'
<1> DEFINE t  == IF ms < 0 THEN -1 ELSE now + ms
           fr == [pc |-> "try", sem |-> s, need |-> n, done |-> 0, expire |-> t]
<1>1. /\ curr \in Fiber /\ ~ InAcquire(curr) /\ s \in DOMAIN sems /\ n > 0
      /\ now + ms <= MaxTime /\ UNCHANGED schedVars
  BY DEF AcquireStart, SemInv, SchedInv, SchedTypeOK
<1>2. t \in Time \cup {-1}
  BY <1>1, SemAssumption, SchedAssumption DEF SemInv, SchedInv, SchedTypeOK, Time
<1> HIDE DEF t
<1>3. fr \in Frame
  BY <1>2, SchedAssumption DEF Frame, Value
<1>4. frame' = [frame EXCEPT ![curr] = fr]
  BY DEF AcquireStart, t
<1> HIDE DEF fr
<1>5. /\ frame' \in [Fiber -> Frame] /\ frame'[curr] = fr
      /\ \A f \in Fiber : f /= curr => frame'[f] = frame[f]
  BY <1>1, <1>3, <1>4 DEF SemInv
<1>6. fr.pc = "try" /\ fr.sem = s /\ fr.need = n /\ fr.done = 0
  BY DEF fr
<1>7. UNCHANGED <<curr, sems, nextSem>>
  BY <1>1 DEF schedVars
<1>8. AssertionsHold'
  BY <1>1, <1>5, <1>6, <1>7 DEF SemInv, AssertionsHold, InAcquire
<1>9. FramesNamed'
  BY <1>1, <1>5, <1>6, <1>7 DEF SemInv, SchedInv, Numbering, FramesNamed
<1>10. AcquirerAccounting'
  BY <1>1, <1>5, <1>6, <1>7 DEF SemInv, AcquirerAccounting, Collecting, Acquiring, InAcquire
<1> QED BY <1>5, <1>8, <1>9, <1>10 DEF SemInv

(* The end of an Acquire that leaves nothing behind.                       *)
LEMMA ReturnInv ==
  ASSUME SemInv, SchedInv', curr \in Fiber, InAcquire(curr), Return,
         UNCHANGED <<curr, nextSem>>, DOMAIN sems' = DOMAIN sems,
         \A x \in DOMAIN sems : IF x = frame[curr].sem
           THEN sems'[x].acqValue = 0 /\ sems'[x].acquirer \in {sems[x].acquirer, NoSeq}
           ELSE /\ sems'[x].acquirer = sems[x].acquirer
                /\ sems'[x].acqValue = sems[x].acqValue,
         \A f \in Fiber : f /= curr /\ frame[f].sem = frame[curr].sem
                            /\ frame[f].sem \in DOMAIN sems => frame[f].done = 0
  PROVE  SemInv'
<1>1. NoFrame \in Frame
  BY SchedAssumption DEF NoFrame, Frame, Value
<1>2. /\ frame' \in [Fiber -> Frame] /\ frame'[curr] = NoFrame
      /\ \A f \in Fiber : f /= curr => frame'[f] = frame[f]
  BY <1>1 DEF SemInv, Return
<1>3. NoFrame.pc = "none" /\ NoFrame.sem = 0 /\ NoFrame.done = 0
  BY DEF NoFrame
<1>4. AssertionsHold'
  BY <1>2, <1>3 DEF SemInv, AssertionsHold, InAcquire
<1>5. FramesNamed'
  BY <1>2, <1>3 DEF SemInv, SchedInv, SchedTypeOK, FramesNamed
<1>6. ASSUME NEW x \in DOMAIN sems', NEW f \in Fiber, Collecting(f, x)'
      PROVE  Collecting(f, x) /\ sems'[x].acqValue = frame'[f].done
  <2>1. f /= curr /\ frame'[f] = frame[f]
    BY <1>2, <1>3, <1>6 DEF Collecting, Acquiring, InAcquire
  <2>2. Collecting(f, x)
    BY <1>6, <2>1 DEF Collecting, Acquiring, InAcquire, Fiber, NoSeq
  <2>3. sems[x].acqValue = frame[f].done
    BY <2>2 DEF SemInv, AcquirerAccounting
  <2>4. CASE x = frame[curr].sem
    BY <2>1, <2>2, <2>4 DEF Collecting, Acquiring
  <2>5. CASE x /= frame[curr].sem
    BY <2>1, <2>2, <2>3, <2>5
  <2> QED BY <2>2, <2>4, <2>5
<1>7. ASSUME NEW x \in DOMAIN sems', \A f \in Fiber : ~ Collecting(f, x)'
      PROVE  sems'[x].acqValue = 0
  <2>1. CASE x = frame[curr].sem
    BY <2>1
  <2>2. CASE x /= frame[curr].sem
    <3>1. \A f \in Fiber : ~ Collecting(f, x)
      BY <1>2, <1>7, <2>2 DEF Collecting, Acquiring, InAcquire
    <3> QED BY <2>2, <3>1 DEF SemInv, AcquirerAccounting
  <2> QED BY <2>1, <2>2
<1>8. ASSUME NEW f \in Fiber, frame'[f].done > 0, frame'[f].sem \in DOMAIN sems'
      PROVE  sems'[frame'[f].sem].acquirer = f
  <2>1. f /= curr /\ frame'[f] = frame[f]
    BY <1>2, <1>3, <1>8
  <2> QED BY <1>8, <2>1 DEF SemInv, AcquirerAccounting
<1> QED BY <1>2, <1>4, <1>5, <1>6, <1>7, <1>8 DEF SemInv, AcquirerAccounting


(* So is the end of one that holds nothing, or whose semaphore is gone.    *)
LEMMA ReturnEmptyInv ==
  ASSUME SemInv, curr \in Fiber, InAcquire(curr), Return, UNCHANGED schedVars,
         frame[curr].done = 0 \/ frame[curr].sem \notin DOMAIN sems
  PROVE  SemInv'
<1>0. UNCHANGED <<curr, sems, nextSem>> /\ SchedInv'
  BY DEF SemInv, schedVars, SchedInv, SchedTypeOK, Placement, Parked, QueuesConsistent,
         ExpireConsistent, IoConsistent, SemConsistent, SemBounded, Numbering
<1>1. NoFrame \in Frame
  BY SchedAssumption DEF NoFrame, Frame, Value
<1>2. /\ frame' \in [Fiber -> Frame] /\ frame'[curr] = NoFrame
      /\ \A f \in Fiber : f /= curr => frame'[f] = frame[f]
  BY <1>1 DEF SemInv, Return
<1>3. NoFrame.pc = "none" /\ NoFrame.sem = 0 /\ NoFrame.done = 0
  BY DEF NoFrame
<1>4. AssertionsHold'
  BY <1>0, <1>2, <1>3 DEF SemInv, AssertionsHold, InAcquire
<1>5. FramesNamed'
  BY <1>0, <1>2, <1>3 DEF SemInv, SchedInv, SchedTypeOK, FramesNamed
<1>6. AcquirerAccounting'
  BY <1>0, <1>2, <1>3 DEF SemInv, AcquirerAccounting, Collecting, Acquiring, InAcquire
<1> QED BY <1>0, <1>2, <1>4, <1>5, <1>6 DEF SemInv

(* What holds of a fiber that is in the loop of Acquire.                   *)
LEMMA InLoop ==
  ASSUME SemInv, curr /= None, frame[curr].pc \in {"try", "check"}
  PROVE  /\ curr \in Fiber /\ InAcquire(curr) /\ frame[curr] \in Frame
         /\ frame[curr].sem \in DOMAIN sems
         /\ sems[frame[curr].sem] \in SemInfo
         /\ frame[curr].done < frame[curr].need
         /\ frame[curr].done > 0 => sems[frame[curr].sem].acquirer = curr
         /\ sems[frame[curr].sem].acquirer = curr
              => sems[frame[curr].sem].acqValue = frame[curr].done
         /\ sems[frame[curr].sem].acquirer \in {curr, NoSeq}
              => \A f \in Fiber : f /= curr /\ frame[f].sem = frame[curr].sem
                                    => frame[f].done = 0
<1>1. curr \in Fiber /\ InAcquire(curr) /\ frame[curr] \in Frame
  BY DEF SemInv, SchedInv, SchedTypeOK, InAcquire
<1>2. frame[curr].sem \in DOMAIN sems /\ frame[curr].done < frame[curr].need
  BY <1>1 DEF SemInv, AssertionsHold
<1>3. sems[frame[curr].sem] \in SemInfo
  BY <1>2 DEF SemInv, SchedInv, SchedTypeOK
<1>4. \A f \in Fiber : frame[f].done \in Nat
  BY SchedAssumption DEF SemInv, Frame, Value
<1>5. ASSUME NEW f \in Fiber, f /= curr, frame[f].sem = frame[curr].sem,
             sems[frame[curr].sem].acquirer \in {curr, NoSeq}
      PROVE  frame[f].done = 0
  BY <1>2, <1>4, <1>5 DEF SemInv, AcquirerAccounting, Fiber, NoSeq
<1>6. frame[curr].done > 0 => sems[frame[curr].sem].acquirer = curr
  BY <1>1, <1>2 DEF SemInv, AcquirerAccounting
<1>7. sems[frame[curr].sem].acquirer = curr
        => sems[frame[curr].sem].acqValue = frame[curr].done
  BY <1>1, <1>2 DEF SemInv, AcquirerAccounting, Collecting, Acquiring
<1> QED BY <1>1, <1>2, <1>3, <1>5, <1>6, <1>7

\* The frame after a try that falls short.
LEMMA CheckFrame ==
  ASSUME frame \in [Fiber -> Frame], curr \in Fiber, NEW got \in Nat,
         frame[curr].done + got <= frame[curr].need,
         frame' = [frame EXCEPT ![curr].pc = "check", ![curr].done = @ + got]
  PROVE  /\ frame' \in [Fiber -> Frame] /\ frame'[curr].pc = "check"
         /\ frame'[curr].done = frame[curr].done + got
         /\ \A f \in Fiber : /\ frame'[f].sem = frame[f].sem
                              /\ frame'[f].need = frame[f].need
         /\ \A f \in Fiber \ {curr} : frame'[f] = frame[f]
<1> DEFINE fr == [frame[curr] EXCEPT !.pc = "check", !.done = @ + got]
<1>1. frame[curr] \in Frame /\ frame[curr].done + got \in Value
  BY SchedAssumption DEF Frame, Value
<1>2. /\ fr \in Frame /\ fr.pc = "check" /\ fr.done = frame[curr].done + got
      /\ fr.sem = frame[curr].sem /\ fr.need = frame[curr].need
  BY <1>1 DEF Frame
<1>3. frame' = [frame EXCEPT ![curr] = fr]
  OBVIOUS
<1> HIDE DEF fr
<1> QED BY <1>2, <1>3

LEMMA AcquireTryInv ==
  ASSUME SemInv, SchedInv', AcquireTry
  PROVE  SemInv'
<1> DEFINE s   == frame[curr].sem
           n   == frame[curr].need - frame[curr].done
           got == Granted(s, n)
           e   == sems[s]
           e2  == AfterTryAcquire(s, n)
<1>1. curr /= None /\ frame[curr].pc = "try" /\ TryAcquireSem(s, n)
  BY DEF AcquireTry
<1>2. IF frame[curr].done + got = frame[curr].need
        THEN Return
        ELSE frame' = [frame EXCEPT ![curr].pc = "check", ![curr].done = @ + got]
  BY DEF AcquireTry
<1>3. /\ curr \in Fiber /\ s \in DOMAIN sems /\ e \in SemInfo
      /\ frame[curr].done \in Nat /\ frame[curr].need \in Value /\ n \in Nat /\ n > 0
      /\ e.value \in Nat /\ e.acqValue \in Nat
  BY <1>1, InLoop, SchedAssumption DEF Frame, Value, SemInfo
<1>4. got \in Nat /\ got <= n
  BY <1>3 DEF Granted
<1>5. UNCHANGED <<curr, nextSem>> /\ sems' = [sems EXCEPT ![s] = e2]
  BY <1>1 DEF TryAcquireSem, ids
<1>6. /\ DOMAIN sems' = DOMAIN sems /\ sems'[s] = e2
      /\ \A x \in DOMAIN sems \ {s} : sems'[x] = sems[x]
  BY <1>3, <1>5 DEF SemInv, SchedInv, SchedTypeOK
<1>a. n = frame[curr].need - frame[curr].done /\ e = sems[s]
  OBVIOUS
<1>b. ASSUME e.acquirer \notin {NoSeq, curr} PROVE got = 0 /\ e2 = e
  BY <1>b DEF Granted, AfterTryAcquire
<1>c. ASSUME e.acquirer \in {NoSeq, curr}, got = n
      PROVE  e2.acquirer = NoSeq /\ e2.acqValue = 0
  <2>1. e2 = [e EXCEPT !.value = @ - got, !.acquirer = NoSeq, !.acqValue = 0]
    BY <1>c DEF AfterTryAcquire
  <2> QED BY <1>3, <2>1 DEF SemInfo
<1>d. ASSUME e.acquirer \in {NoSeq, curr}, got /= n
      PROVE  e2.acquirer = curr /\ e2.acqValue = e.acqValue + got
  <2>1. e2 = [e EXCEPT !.value = 0, !.acquirer = curr, !.acqValue = @ + got]
    BY <1>d DEF AfterTryAcquire
  <2> QED BY <1>3, <2>1 DEF SemInfo
<1> HIDE DEF got, e2, e, n
<1>e. ASSUME frame' = [frame EXCEPT ![curr].pc = "check", ![curr].done = @ + got]
      PROVE  /\ frame' \in [Fiber -> Frame] /\ frame'[curr].pc = "check"
             /\ frame'[curr].done = frame[curr].done + got
             /\ \A f \in Fiber : /\ frame'[f].sem = frame[f].sem
                                  /\ frame'[f].need = frame[f].need
                                  /\ InAcquire(f)' <=> InAcquire(f)
             /\ \A f \in Fiber \ {curr} : frame'[f] = frame[f]
  <2>1. frame[curr].done + got <= frame[curr].need /\ frame \in [Fiber -> Frame]
    BY <1>3, <1>4, <1>a, SchedAssumption DEF SemInv, Value
  <2>2. /\ frame' \in [Fiber -> Frame] /\ frame'[curr].pc = "check"
        /\ frame'[curr].done = frame[curr].done + got
        /\ \A f \in Fiber : /\ frame'[f].sem = frame[f].sem
                             /\ frame'[f].need = frame[f].need
        /\ \A f \in Fiber \ {curr} : frame'[f] = frame[f]
    BY <1>3, <1>4, <1>e, <2>1, CheckFrame
  <2>3. \A f \in Fiber : InAcquire(f)' <=> InAcquire(f)
    BY <1>1, <2>2 DEF InAcquire
  <2> QED BY <2>2, <2>3
<1>7. CASE e.acquirer \notin {NoSeq, curr}
  <2>1. got = 0 /\ e2 = e
    BY <1>7, <1>b
  <2>2. frame[curr].done = 0
    BY <1>1, <1>3, <1>7, <1>a, InLoop
  <2>3. frame' = [frame EXCEPT ![curr].pc = "check", ![curr].done = @ + got]
    BY <1>2, <1>3, <1>a, <2>1
  <2>4. \A f \in Fiber : frame'[f].done = frame[f].done
    BY <1>3, <1>e, <2>1, <2>2, <2>3
  <2>5. KeepsAcquirers
    BY <1>5, <1>6, <1>a, <2>1 DEF KeepsAcquirers, SemInv, SchedInv, SchedTypeOK
  <2>6. AcquirerAccounting' /\ FramesNamed'
    BY <1>e, <2>3, <2>4, <2>5, BooksKept
  <2>7. AssertionsHold'
    BY <1>3, <1>5, <1>6, <1>e, <2>3, <2>4 DEF SemInv, AssertionsHold
  <2> QED BY <1>e, <2>3, <2>6, <2>7 DEF SemInv
<1>8. CASE e.acquirer \in {NoSeq, curr} /\ got = n
  <2>1. Return
    BY <1>2, <1>3, <1>8, <1>a, SchedAssumption DEF Value
  <2>2. \A f \in Fiber : f /= curr /\ frame[f].sem = frame[curr].sem => frame[f].done = 0
    BY <1>1, <1>8, <1>a, InLoop
  <2>3. InAcquire(curr) /\ e2.acquirer = NoSeq /\ e2.acqValue = 0
    BY <1>1, <1>8, <1>c, InLoop
  <2> QED BY <1>3, <1>5, <1>6, <2>1, <2>2, <2>3, ReturnInv
<1>9. CASE e.acquirer \in {NoSeq, curr} /\ got /= n
  <2>1. e2.acquirer = curr /\ e2.acqValue = e.acqValue + got
    BY <1>9, <1>d
  <2>2. e.acqValue = frame[curr].done
    <3>1. CASE e.acquirer = curr
      BY <1>1, <1>a, <3>1, InLoop
    <3>2. CASE e.acquirer = NoSeq
      <4>1. frame[curr].done = 0
        BY <1>1, <1>3, <1>a, <3>2, InLoop DEF NoSeq, Fiber
      <4>2. e.acqValue = 0
        BY <1>3, <1>a, <3>2 DEF SemInv, SchedInv, SemBounded
      <4> QED BY <4>1, <4>2
    <3> QED BY <1>9, <3>1, <3>2
  <2>3. frame' = [frame EXCEPT ![curr].pc = "check", ![curr].done = @ + got]
    BY <1>2, <1>3, <1>4, <1>9, <1>a, SchedAssumption DEF Value
  <2>4. frame'[curr].done < frame'[curr].need
    BY <1>3, <1>4, <1>9, <1>a, <1>e, <2>3, SchedAssumption DEF Value
  <2>5. AssertionsHold'
    BY <1>3, <1>5, <1>6, <1>e, <2>3, <2>4 DEF SemInv, AssertionsHold
  <2>6. FramesNamed'
    BY <1>5, <1>e, <2>3 DEF SemInv, FramesNamed
  <2>7. \A f \in Fiber : f /= curr /\ frame[f].sem = s => frame[f].done = 0
    BY <1>1, <1>9, <1>a, InLoop
  <2>8. ASSUME NEW x \in DOMAIN sems'
        PROVE  /\ \A f \in Fiber : Collecting(f, x)' => sems'[x].acqValue = frame'[f].done
               /\ (\A f \in Fiber : ~ Collecting(f, x)') => sems'[x].acqValue = 0
    <3>1. CASE x = s
      <4>1. Collecting(curr, x)'
        BY <1>3, <1>5, <1>6, <1>e, <2>1, <2>3, <3>1 DEF Collecting, Acquiring, InAcquire
      <4>2. \A f \in Fiber : Collecting(f, x)' => f = curr
        BY <1>6, <2>1, <3>1 DEF Collecting
      <4> QED BY <1>3, <1>5, <1>6, <1>e, <2>1, <2>2, <2>3, <3>1, <4>1, <4>2
    <3>2. CASE x /= s
      <4>1. sems'[x] = sems[x] /\ x \in DOMAIN sems
        BY <1>6, <3>2
      <4>2. \A f \in Fiber : Collecting(f, x)' <=> Collecting(f, x)
        BY <1>e, <2>3, <4>1 DEF Collecting, Acquiring
      <4>3. \A f \in Fiber : Collecting(f, x) => frame'[f] = frame[f]
        BY <1>e, <2>3, <3>2 DEF Collecting, Acquiring
      <4> QED BY <4>1, <4>2, <4>3 DEF SemInv, AcquirerAccounting
    <3> QED BY <3>1, <3>2
  <2>9. ASSUME NEW f \in Fiber, frame'[f].done > 0, frame'[f].sem \in DOMAIN sems'
        PROVE  sems'[frame'[f].sem].acquirer = f
    <3>1. CASE f = curr
      BY <1>6, <1>e, <2>1, <2>3, <3>1
    <3>2. CASE f /= curr
      <4>1. frame'[f] = frame[f] /\ frame[f].sem /= s
        BY <1>e, <2>3, <2>7, <2>9, <3>2
      <4> QED BY <1>6, <2>9, <4>1 DEF SemInv, AcquirerAccounting
    <3> QED BY <3>1, <3>2
  <2> QED BY <1>e, <2>3, <2>5, <2>6, <2>8, <2>9 DEF SemInv, AcquirerAccounting
<1> QED BY <1>7, <1>8, <1>9

LEMMA AcquireTimeoutInv ==
  ASSUME SemInv, SchedInv', AcquireTimeout
  PROVE  SemInv'
<1> DEFINE s == frame[curr].sem
           n == frame[curr].done
<1>1. /\ curr /= None /\ frame[curr].pc = "check" /\ Return
      /\ IF n > 0 THEN RestoreAcquiringSem(s, n) ELSE UNCHANGED schedVars
  BY DEF AcquireTimeout
<1>2. /\ curr \in Fiber /\ s \in DOMAIN sems /\ s \in SemId
      /\ sems[s] \in SemInfo /\ n \in Value /\ n \in Nat
  BY <1>1, InLoop, SchedAssumption DEF Frame, Value, SemInv, SchedInv, SchedTypeOK
<1>3. CASE n > 0
  <2> DEFINE e == [sems[s] EXCEPT !.value = @ + n, !.acquirer = NoSeq, !.acqValue = 0]
  <2>1. WakeSemWaiters(s, e) /\ e \in SemInfo
    BY <1>1, <1>2, <1>3, RestoreEntry DEF SemInv
  <2>2. e.acquirer = NoSeq /\ e.acqValue = 0
    BY <1>2 DEF SemInfo
  <2> HIDE DEF e
  <2>3. /\ DOMAIN sems' = DOMAIN sems /\ UNCHANGED <<curr, nextSem>>
        /\ sems'[s].acquirer = NoSeq /\ sems'[s].acqValue = 0
        /\ \A x \in DOMAIN sems \ {s} : /\ sems'[x].acquirer = sems[x].acquirer
                                        /\ sems'[x].acqValue = sems[x].acqValue
    BY <1>2, <2>1, <2>2, WakeWritesEntry DEF SemInv
  <2> QED BY <1>1, <1>2, <1>3, <2>3, InLoop, ReturnInv
<1>4. CASE n = 0
  <2>1. UNCHANGED schedVars
    BY <1>1, <1>4
  <2>2. InAcquire(curr)
    BY <1>1, InLoop
  <2> QED BY <1>1, <1>2, <1>4, <2>1, <2>2, ReturnEmptyInv
<1> QED BY <1>2, <1>3, <1>4


LEMMA AcquireParkInv ==
  ASSUME SemInv, SchedInv', AcquirePark
  PROVE  SemInv'
<1>1. /\ curr /= None /\ frame[curr].pc = "check"
      /\ frame' = [frame EXCEPT ![curr].pc = "woken"]
      /\ SwitchToSchedFiber(Await(frame[curr].expire, {}, {}, {frame[curr].sem}))
  BY DEF AcquirePark, WaitSem
<1>2. curr \in Fiber /\ frame[curr] \in Frame
  BY <1>1, InLoop
<1>3. /\ frame' \in [Fiber -> Frame] /\ frame'[curr].pc = "woken"
      /\ \A f \in Fiber : /\ frame'[f].sem = frame[f].sem
                           /\ frame'[f].need = frame[f].need
                           /\ frame'[f].done = frame[f].done
      /\ \A f \in Fiber \ {curr} : frame'[f] = frame[f]
  <2> DEFINE fr == [frame[curr] EXCEPT !.pc = "woken"]
  <2>1. /\ fr \in Frame /\ fr.pc = "woken" /\ fr.done = frame[curr].done
        /\ fr.sem = frame[curr].sem /\ fr.need = frame[curr].need
    BY <1>2 DEF Frame
  <2>2. frame' = [frame EXCEPT ![curr] = fr]
    BY <1>1
  <2> HIDE DEF fr
  <2> QED BY <1>2, <2>1, <2>2 DEF SemInv
<1>4. \A f \in Fiber : InAcquire(f)' <=> InAcquire(f)
  BY <1>1, <1>3 DEF InAcquire
<1>5. AcquirerAccounting' /\ FramesNamed'
  BY <1>1, <1>3, <1>4, SwitchKeepsAcquirers, BooksKept DEF SemInv
<1>6. AssertionsHold'
  BY <1>3, <1>4 DEF SemInv, AssertionsHold
<1> QED BY <1>3, <1>5, <1>6 DEF SemInv

LEMMA AcquireWokenInv ==
  ASSUME SemInv, SchedInv', AcquireWoken
  PROVE  SemInv'
<1>1. /\ curr \in Fiber /\ frame[curr].pc = "woken" /\ InAcquire(curr)
      /\ frame[curr] \in Frame /\ UNCHANGED schedVars
  BY DEF AcquireWoken, InAcquire, SemInv, SchedInv, SchedTypeOK
<1>2. CASE frame[curr].sem \notin DOMAIN sems
  BY <1>1, <1>2, ReturnEmptyInv DEF AcquireWoken
<1>3. CASE frame[curr].sem \in DOMAIN sems
  <2>1. frame' = [frame EXCEPT ![curr].pc = "try"]
    BY <1>3 DEF AcquireWoken
  <2>2. /\ frame' \in [Fiber -> Frame] /\ frame'[curr].pc = "try"
        /\ \A f \in Fiber : /\ frame'[f].sem = frame[f].sem
                             /\ frame'[f].need = frame[f].need
                             /\ frame'[f].done = frame[f].done
        /\ \A f \in Fiber \ {curr} : frame'[f] = frame[f]
    <3> DEFINE fr == [frame[curr] EXCEPT !.pc = "try"]
    <3>1. /\ fr \in Frame /\ fr.pc = "try" /\ fr.done = frame[curr].done
          /\ fr.sem = frame[curr].sem /\ fr.need = frame[curr].need
      BY <1>1 DEF Frame
    <3>2. frame' = [frame EXCEPT ![curr] = fr]
      BY <2>1
    <3> HIDE DEF fr
    <3> QED BY <1>1, <3>1, <3>2 DEF SemInv
  <2>3. \A f \in Fiber : InAcquire(f)' <=> InAcquire(f)
    BY <1>1, <2>2 DEF InAcquire
  <2>4. UNCHANGED <<curr, sems, nextSem>>
    BY <1>1 DEF schedVars
  <2>5. KeepsAcquirers
    BY <2>4 DEF KeepsAcquirers, SemInv, SchedInv, SchedTypeOK
  <2>6. AcquirerAccounting' /\ FramesNamed'
    BY <2>2, <2>3, <2>5, BooksKept
  <2>7. AssertionsHold'
    BY <1>3, <2>2, <2>3, <2>4 DEF SemInv, AssertionsHold
  <2> QED BY <2>2, <2>6, <2>7 DEF SemInv
<1> QED BY <1>2, <1>3

LEMMA SemNextInv == SemInv /\ [SemNext]_semVars => SemInv'
<1> SUFFICES ASSUME SemInv, [SemNext]_semVars PROVE SemInv'
  OBVIOUS
<1>1. SchedInv'
  BY SemStepIsSchedStep, NextInv DEF SemInv
<1>2. CASE \E s \in SemId, n \in Value, ms \in TimeoutMs : AcquireStart(s, n, ms)
  BY <1>1, <1>2, AcquireStartInv
<1>3. CASE AcquireStep
  BY <1>1, <1>3, AcquireTryInv, AcquireTimeoutInv, AcquireParkInv, AcquireWokenInv
     DEF AcquireStep
<1>4. CASE UserLeave
  BY <1>1, <1>4, OutsideInv DEF UserLeave
<1>5. CASE UserCall
  BY <1>1, <1>5, OutsideInv DEF UserCall
<1>6. CASE (Run \/ LoopStep \/ WaitInterrupted \/ WaitFailed \/ Environment) /\ UNCHANGED frame
  BY <1>1, <1>6, OutsideInv
<1>7. CASE UNCHANGED semVars
  BY <1>1, <1>7 DEF semVars, schedVars, SemInv, AssertionsHold, InAcquire, AcquirerAccounting,
                    Collecting, Acquiring, FramesNamed
<1> QED BY <1>2, <1>3, <1>4, <1>5, <1>6, <1>7 DEF SemNext

-----------------------------------------------------------------------------
(* The theorems.                                                           *)

(* The inductive invariant of Sem. *)
THEOREM SemInvariant == SemSpec => []SemInv
<1>1. SemInit => SemInv
  BY SemInitInv
<1>2. SemInv /\ [SemNext]_semVars => SemInv'
  BY SemNextInv
<1> QED BY <1>1, <1>2, PTL DEF SemSpec

(* Sem::Acquire uses the scheduler as Sched allows its callers to: the     *)
(* fibers of Sem are fibers of Sched, and every invariant of Sched holds.  *)
THEOREM SemRefinesSched == SemSpec => SchedSpec
<1>1. SemInit => SchedInit
  BY DEF SemInit
<1>2. SemInv /\ [SemNext]_semVars => [SchedNext]_schedVars
  BY SemStepIsSchedStep
<1> QED BY <1>1, <1>2, SemInvariant, PTL DEF SemSpec, SchedSpec

(* Type correctness.                                                       *)
THEOREM SemTypeCorrect == SemSpec => []SemTypeOK
<1>1. SemInv => SemTypeOK
  BY DEF SemInv, SchedInv, SemTypeOK
<1> QED BY <1>1, SemInvariant, PTL

(* acquiring_value_ is the done_value of the one Acquire that collects.    *)
THEOREM AcquirerAccountingHolds == SemSpec => []AcquirerAccounting
<1>1. SemInv => AcquirerAccounting
  BY DEF SemInv
<1> QED BY <1>1, SemInvariant, PTL

(* The assertions of sem.cpp and of the scheduler's semaphore operations   *)
(* hold, whenever and by whomever a semaphore is destroyed.                *)
THEOREM AssertionsHoldAlways == SemSpec => []AssertionsHold
<1>1. SemInv => AssertionsHold
  BY DEF SemInv
<1> QED BY <1>1, SemInvariant, PTL

-----------------------------------------------------------------------------
(* What Sem promises: that it implements AbsSem, that nobody takes value   *)
(* past the Acquire that collects, and that an acquirer is parked only on  *)
(* an empty semaphore.  One lemma for each action says all that the action *)
(* must do for these (Promised).                                           *)

\* An acquirer waits, or is about to, only on an empty semaphore.
NothingLeft ==
  \A s \in DOMAIN sems, f \in Fiber :
    sems[s].acquirer = f
      /\ (f \in sems[s].waiters \/ (frame[f].pc = "check" /\ frame[f].sem = s))
    => sems[s].value = 0

\* A fiber outside of Acquire has no frame.
FramesIdle == \A f \in Fiber : ~ InAcquire(f) => frame[f] = NoFrame

\* The inductive invariant.
PromiseInv == SemInv /\ FramesIdle /\ NothingLeft

(* What a step does to a semaphore that it neither acquires nor signals.   *)
EntryKept(s) ==
  /\ sems'[s].value = sems[s].value
  /\ sems'[s].acquirer = sems[s].acquirer
  /\ sems'[s].acqValue = sems[s].acqValue
  /\ sems'[s].waiters \subseteq sems[s].waiters

-----------------------------------------------------------------------------
LEMMA WakeKeepsEntries ==
  ASSUME SchedInv, NEW F, NEW q \in [DOMAIN sems -> SemInfo]
  PROVE  /\ DOMAIN SemsAfterWake(q, F) = DOMAIN sems
         /\ \A s \in DOMAIN sems :
              /\ SemsAfterWake(q, F)[s].value = q[s].value
              /\ SemsAfterWake(q, F)[s].acquirer = q[s].acquirer
              /\ SemsAfterWake(q, F)[s].acqValue = q[s].acqValue
              /\ SemsAfterWake(q, F)[s].waiters \subseteq q[s].waiters
<1>1. DOMAIN SemsAfterWake(q, F) = DOMAIN sems
  BY DEF SemsAfterWake
<1>2. ASSUME NEW s \in DOMAIN sems
      PROVE  /\ SemsAfterWake(q, F)[s].value = q[s].value
             /\ SemsAfterWake(q, F)[s].acquirer = q[s].acquirer
             /\ SemsAfterWake(q, F)[s].acqValue = q[s].acqValue
             /\ SemsAfterWake(q, F)[s].waiters \subseteq q[s].waiters
  <2>1. q[s] \in SemInfo
    OBVIOUS
  <2>2. SemsAfterWake(q, F)[s] = [q[s] EXCEPT !.waiters = @ \ WaitingOn(F, s)]
    BY DEF SemsAfterWake
  <2> QED BY <2>1, <2>2 DEF SemInfo
<1> QED BY <1>1, <1>2

(* A switch without semaphores, as of all callers but Acquire.             *)
LEMMA SwitchKeepsEntries ==
  ASSUME SchedInv, NEW e, e.sems = {}, SwitchToSchedFiber(e)
  PROVE  DOMAIN sems' = DOMAIN sems /\ \A s \in DOMAIN sems : EntryKept(s)
<1>1. DOMAIN sems' = DOMAIN sems
  BY DEF SwitchToSchedFiber
<1>2. ASSUME NEW s \in DOMAIN sems PROVE EntryKept(s)
  <2>1. sems[s] \in SemInfo
    BY DEF SchedInv, SchedTypeOK
  <2>2. sems'[s] = [sems[s] EXCEPT !.waiters = @ \cup (IF s \in e.sems THEN {curr} ELSE {})]
    BY DEF SwitchToSchedFiber
  <2> QED BY <2>1, <2>2 DEF SemInfo, EntryKept
<1> QED BY <1>1, <1>2

LEMMA QuietSteps ==
  ASSUME SchedInv,
         Create \/ Leave \/ FdCall \/ Run \/ LoopStep
           \/ WaitInterrupted \/ WaitFailed \/ Environment
  PROVE  DOMAIN sems' = DOMAIN sems /\ \A s \in DOMAIN sems : EntryKept(s)
<1>1. sems' = sems => DOMAIN sems' = DOMAIN sems /\ \A s \in DOMAIN sems : EntryKept(s)
  BY DEF EntryKept
<1>2. ASSUME NEW F, sems' = SemsAfterWake(sems, F)
      PROVE  DOMAIN sems' = DOMAIN sems /\ \A s \in DOMAIN sems : EntryKept(s)
  <2>1. sems \in [DOMAIN sems -> SemInfo]
    BY DEF SchedInv, SchedTypeOK
  <2> QED BY <1>2, <2>1, WakeKeepsEntries DEF EntryKept
<1>4. CASE Leave
  <2>1. CASE Finish
    BY <1>1, <2>1 DEF Finish
  <2>2. CASE Yield
    BY <2>2, SwitchKeepsEntries DEF Yield, NoEvents
  <2>3. CASE SleepMS
    <3>1. PICK t \in Time : SwitchToSchedFiber(Await(t, {}, {}, {}))
      BY <2>3 DEF SleepMS, Expiries
    <3> QED BY <3>1, SwitchKeepsEntries DEF Await
  <2>4. CASE WaitFd
    <3>1. PICK t, r, w : SwitchToSchedFiber(Await(t, r, w, {}))
      BY <2>4 DEF WaitFd, WaitReading, WaitWriting
    <3> QED BY <3>1, SwitchKeepsEntries DEF Await
  <2> QED BY <1>4, <2>1, <2>2, <2>3, <2>4 DEF Leave
<1>5. CASE FdCall
  <2>1. PICK d \in Fd : RegRawFd(d) \/ UnregRawFd(d)
    BY <1>5 DEF FdCall
  <2>2. CASE RegRawFd(d)
    BY <1>1, <2>2 DEF RegRawFd
  <2>3. CASE UnregRawFd(d)
    BY <1>2, <2>3 DEF UnregRawFd
  <2> QED BY <2>1, <2>2, <2>3
<1>6. CASE LoopStep
  <2>1. CASE TakeReady \/ Resume \/ EnterWait \/ WaitTimedOut
    BY <1>1, <2>1 DEF TakeReady, Resume, EnterWait, WaitTimedOut, queues
  <2>2. CASE CheckExpiring
    BY <1>2, <2>2 DEF CheckExpiring
  <2>3. CASE \E in, out \in SUBSET Fd : WaitReturns(in, out)
    BY <1>2, <2>3 DEF WaitReturns
  <2> QED BY <1>6, <2>1, <2>2, <2>3 DEF LoopStep
<1>7. CASE Create \/ Run \/ WaitInterrupted \/ WaitFailed \/ Environment
  BY <1>1, <1>7 DEF Create, Run, WaitInterrupted, WaitFailed, Environment, Tick, Edge, EdgeOver,
                    KernelClose, queues
<1> QED BY <1>4, <1>5, <1>6, <1>7

(* New, Destroy and Release.                                               *)
LEMMA RegSemEntries ==
  ASSUME SchedInv, NEW v \in Value, RegSem(v)
  PROVE  /\ nextSem \in SemId /\ nextSem \notin DOMAIN sems
         /\ DOMAIN sems' = DOMAIN sems \cup {nextSem}
         /\ \A s \in DOMAIN sems : sems'[s] = sems[s]
         /\ sems'[nextSem] = [value |-> v, acquirer |-> NoSeq, acqValue |-> 0, waiters |-> {}]
<1>1. nextSem \in SemId /\ nextSem \notin DOMAIN sems
  BY SchedAssumption DEF RegSem, SchedInv, SchedTypeOK, SemId, Numbering
<1> QED BY <1>1 DEF RegSem

LEMMA UnregSemEntries ==
  ASSUME SchedInv, NEW s \in SemId, UnregSem(s)
  PROVE  /\ s \in DOMAIN sems /\ DOMAIN sems' = DOMAIN sems \ {s}
         /\ \A x \in DOMAIN sems' : EntryKept(x)
<1> DEFINE q == SemsAfterWake(sems, sems[s].waiters)
<1>1. sems \in [DOMAIN sems -> SemInfo]
  BY DEF SchedInv, SchedTypeOK
<1>2. s \in DOMAIN sems /\ sems' = Without(q, s)
  BY DEF UnregSem
<1>3. DOMAIN q = DOMAIN sems /\ \A x \in DOMAIN sems :
              /\ q[x].value = sems[x].value
              /\ q[x].acquirer = sems[x].acquirer
              /\ q[x].acqValue = sems[x].acqValue
              /\ q[x].waiters \subseteq sems[x].waiters
  BY <1>1, WakeKeepsEntries
<1> HIDE DEF q
<1> QED BY <1>2, <1>3 DEF Without, EntryKept

LEMMA WakeSemEntries ==
  ASSUME SchedInv, NEW s \in DOMAIN sems, NEW e \in SemInfo, WakeSemWaiters(s, e)
  PROVE  /\ DOMAIN sems' = DOMAIN sems
         /\ sems'[s].value = e.value /\ sems'[s].acquirer = e.acquirer
         /\ sems'[s].acqValue = e.acqValue /\ sems'[s].waiters = {}
         /\ \A x \in DOMAIN sems \ {s} : EntryKept(x)
         /\ curr' = curr /\ now' = now
<1> DEFINE F  == sems[s].waiters
           e0 == [e EXCEPT !.waiters = {}]
           q  == [sems EXCEPT ![s] = e0]
<1>1. sems' = SemsAfterWake(q, F) /\ curr' = curr /\ now' = now
  BY DEF WakeSemWaiters
<1>2. /\ e0 \in SemInfo /\ e0.value = e.value /\ e0.acquirer = e.acquirer
      /\ e0.acqValue = e.acqValue /\ e0.waiters = {}
  BY DEF SemInfo
<1>3. sems \in [DOMAIN sems -> SemInfo]
  BY DEF SchedInv, SchedTypeOK
<1> HIDE DEF e0, F
<1>4. q \in [DOMAIN sems -> SemInfo] /\ q[s] = e0
      /\ \A x \in DOMAIN sems \ {s} : q[x] = sems[x]
  BY <1>2, <1>3
<1> HIDE DEF q
<1> QED BY <1>1, <1>2, <1>4, WakeKeepsEntries DEF EntryKept

-----------------------------------------------------------------------------
(* What each step of Sem is to AbsSem, and what it takes from an acquirer. *)

\* The semaphore's total as long as one Acquire collects: the body of NoBarging.
TotalKept ==
  \A s \in DOMAIN sems \cap DOMAIN sems', f \in Fiber :
    Collecting(f, s) /\ Acquiring(f, s)'
      => sems'[s].value + sems'[s].acqValue >= sems[s].value + sems[s].acqValue

AbsStep == [Abs!AbsNext]_Abs!absVars

Promised == FramesIdle' /\ NothingLeft' /\ TotalKept /\ AbsStep

LEMMA FreeSame ==
  ASSUME DOMAIN sems' = DOMAIN sems,
         \A s \in DOMAIN sems :
           sems'[s].value + sems'[s].acqValue = sems[s].value + sems[s].acqValue
  PROVE  freeBar' = freeBar
BY DEF freeBar

LEMMA RequestSame ==
  ASSUME \A f \in Fiber : /\ frame'[f].sem = frame[f].sem
                          /\ frame'[f].need = frame[f].need
                          /\ frame'[f].expire = frame[f].expire
  PROVE  requestBar' = requestBar
BY DEF requestBar

\* A request that is answered, or put.
LEMMA RequestSet ==
  ASSUME curr \in Fiber, frame \in [Fiber -> Frame], NEW fr,
         frame' = [frame EXCEPT ![curr] = fr]
  PROVE  requestBar' = [requestBar EXCEPT ![curr] =
                          [sem |-> fr.sem, need |-> fr.need, expire |-> fr.expire]]
<1> DEFINE r == [sem |-> fr.sem, need |-> fr.need, expire |-> fr.expire]
<1>1. frame'[curr] = fr /\ \A f \in Fiber \ {curr} : frame'[f] = frame[f]
  OBVIOUS
<1>2. requestBar'[curr] = r
  BY <1>1 DEF requestBar
<1>3. \A f \in Fiber \ {curr} : requestBar'[f] = requestBar[f]
  BY <1>1 DEF requestBar
<1>4. /\ requestBar' = [f \in Fiber |-> requestBar'[f]]
      /\ requestBar = [f \in Fiber |-> requestBar[f]]
  BY DEF requestBar
<1> HIDE DEF r
<1>5. requestBar' = [requestBar EXCEPT ![curr] = r]
  BY <1>2, <1>3, <1>4
<1> QED BY <1>5 DEF r

LEMMA RequestAnswered ==
  ASSUME curr \in Fiber, frame \in [Fiber -> Frame], Return
  PROVE  Abs!Answered(curr)
<1>1. requestBar' = [requestBar EXCEPT ![curr] =
                       [sem |-> NoFrame.sem, need |-> NoFrame.need, expire |-> NoFrame.expire]]
  BY RequestSet DEF Return
<1> QED BY <1>1 DEF NoFrame, Abs!Answered, Abs!NoRequest

LEMMA ReturnIdle ==
  ASSUME curr \in Fiber, frame \in [Fiber -> Frame], FramesIdle, Return
  PROVE  /\ FramesIdle'
         /\ \A f \in Fiber : IF f = curr THEN frame'[f].pc = "none" ELSE frame'[f] = frame[f]
<1>1. /\ frame'[curr] = NoFrame
      /\ \A f \in Fiber \ {curr} : frame'[f] = frame[f]
  BY DEF Return
<1>2. frame'[curr].pc = "none"
  BY <1>1 DEF NoFrame
<1> QED BY <1>1, <1>2 DEF FramesIdle, InAcquire

(* Fibers that do not wait yet, on entries that are kept.                  *)
LEMMA NothingLeftKept ==
  ASSUME SemInv, NothingLeft,
         \A s \in DOMAIN sems' :
           IF s \in DOMAIN sems THEN EntryKept(s) ELSE sems'[s].acquirer = NoSeq,
         \A f \in Fiber : frame'[f].pc = "check"
           => frame[f].pc = "check" /\ frame'[f].sem = frame[f].sem
  PROVE  NothingLeft'
BY DEF NothingLeft, EntryKept, Fiber, NoSeq

LEMMA KeptTotals ==
  ASSUME \A s \in DOMAIN sems \cap DOMAIN sems' : EntryKept(s), SemInv, SchedInv'
  PROVE  TotalKept
<1>1. \A s \in DOMAIN sems \cap DOMAIN sems' :
        sems'[s].value + sems'[s].acqValue = sems[s].value + sems[s].acqValue
      /\ sems[s].value \in Int /\ sems[s].acqValue \in Int
  BY SchedAssumption DEF EntryKept, SemInv, SchedInv, SchedTypeOK, SemInfo, Value
<1> QED BY <1>1 DEF TotalKept

-----------------------------------------------------------------------------
LEMMA QuietPromised ==
  ASSUME PromiseInv, SchedInv', UNCHANGED frame,
         Create \/ Leave \/ FdCall \/ Run \/ LoopStep
           \/ WaitInterrupted \/ WaitFailed \/ Environment
  PROVE  Promised
<1>1. DOMAIN sems' = DOMAIN sems /\ \A s \in DOMAIN sems : EntryKept(s)
  BY QuietSteps DEF PromiseInv, SemInv
<1>2. FramesIdle'
  BY DEF PromiseInv, FramesIdle, InAcquire
<1>3. NothingLeft'
  BY <1>1, NothingLeftKept DEF PromiseInv
<1>4. TotalKept
  BY <1>1, KeptTotals DEF PromiseInv
<1>5. freeBar' = freeBar /\ requestBar' = requestBar
  BY <1>1, FreeSame, RequestSame DEF EntryKept
<1>6. now' = now \/ now' = now + 1
  <2>1. CASE Create \/ Leave \/ FdCall
    BY <2>1 DEF Create, Leave, Yield, SleepMS, WaitFd, WaitReading, WaitWriting, Finish,
                SwitchToSchedFiber, FdCall, RegRawFd, UnregRawFd
  <2>2. CASE LoopStep
    BY <2>2 DEF LoopStep, TakeReady, Resume, CheckExpiring, EnterWait, WaitTimedOut, WaitReturns
  <2>3. CASE Run \/ WaitInterrupted \/ WaitFailed \/ Environment
    BY <2>3 DEF Run, WaitInterrupted, WaitFailed, Environment, Tick, Edge, EdgeOver, KernelClose
  <2> QED BY <2>1, <2>2, <2>3
<1>7. AbsStep
  BY <1>5, <1>6 DEF AbsStep, Abs!AbsNext, Abs!Pass, Abs!absVars
<1> QED BY <1>2, <1>3, <1>4, <1>7 DEF Promised

LEMMA RegSemPromised ==
  ASSUME PromiseInv, SchedInv', UNCHANGED frame, NEW v \in Value, RegSem(v)
  PROVE  Promised
<1>1. /\ nextSem \in SemId /\ nextSem \notin DOMAIN sems /\ now' = now
      /\ DOMAIN sems' = DOMAIN sems \cup {nextSem}
      /\ \A s \in DOMAIN sems : sems'[s] = sems[s]
      /\ sems'[nextSem] = [value |-> v, acquirer |-> NoSeq, acqValue |-> 0, waiters |-> {}]
  BY RegSemEntries DEF PromiseInv, SemInv, RegSem
<1>2. FramesIdle'
  BY DEF PromiseInv, FramesIdle, InAcquire
<1>3. NothingLeft'
  BY <1>1, NothingLeftKept DEF PromiseInv, EntryKept
<1>4. TotalKept
  BY <1>1, KeptTotals DEF PromiseInv, EntryKept
<1>5. requestBar' = requestBar
  BY RequestSame
<1>6. Abs!New(nextSem, v)
  <2>1. v + 0 = v /\ v \in 0..UInt64Max
    BY SchedAssumption DEF Value
  <2> QED BY <1>1, <1>5, <2>1 DEF Abs!New, freeBar
<1>7. AbsStep
  BY <1>1, <1>6 DEF AbsStep, Abs!AbsNext, Value
<1> QED BY <1>2, <1>3, <1>4, <1>7 DEF Promised

LEMMA UnregSemPromised ==
  ASSUME PromiseInv, SchedInv', UNCHANGED frame, NEW s \in SemId, UnregSem(s)
  PROVE  Promised
<1>1. /\ s \in DOMAIN sems /\ DOMAIN sems' = DOMAIN sems \ {s} /\ now' = now
      /\ \A x \in DOMAIN sems' : EntryKept(x)
  BY UnregSemEntries DEF PromiseInv, SemInv, UnregSem
<1>2. FramesIdle'
  BY DEF PromiseInv, FramesIdle, InAcquire
<1>3. NothingLeft'
  BY <1>1, NothingLeftKept DEF PromiseInv
<1>4. TotalKept
  BY <1>1, KeptTotals DEF PromiseInv
<1>5. requestBar' = requestBar
  BY RequestSame
<1>6. Abs!Destroy(s)
  BY <1>1, <1>5 DEF Abs!Destroy, freeBar, EntryKept
<1> QED BY <1>2, <1>3, <1>4, <1>6 DEF Promised, AbsStep, Abs!AbsNext

LEMMA ReleasePromised ==
  ASSUME PromiseInv, SchedInv', UNCHANGED frame, curr = None \/ ~ InAcquire(curr),
         NEW s \in SemId, NEW n \in Value, ReleaseSem(s, n)
  PROVE  Promised
<1> DEFINE e == [sems[s] EXCEPT !.value = @ + n]
<1>1. s \in DOMAIN sems /\ WakeSemWaiters(s, e) /\ ~ Overflows(s, n)
  BY DEF ReleaseSem
<1>2. sems[s] \in SemInfo /\ e \in SemInfo /\ n \in Nat
  BY <1>1, ReleaseEntry, SchedAssumption DEF PromiseInv, SemInv, SchedInv, SchedTypeOK, Value
<1>3. /\ e.value = sems[s].value + n /\ e.acquirer = sems[s].acquirer
      /\ e.acqValue = sems[s].acqValue
      /\ sems[s].value \in Nat /\ sems[s].acqValue \in Nat
  BY <1>2, SchedAssumption DEF SemInfo, Value
<1> HIDE DEF e
<1>4. /\ DOMAIN sems' = DOMAIN sems
      /\ sems'[s].value = sems[s].value + n /\ sems'[s].acquirer = sems[s].acquirer
      /\ sems'[s].acqValue = sems[s].acqValue /\ sems'[s].waiters = {}
      /\ \A x \in DOMAIN sems \ {s} : EntryKept(x)
      /\ curr' = curr /\ now' = now
  BY <1>1, <1>2, <1>3, WakeSemEntries DEF PromiseInv, SemInv
<1>5. FramesIdle'
  BY DEF PromiseInv, FramesIdle, InAcquire
<1>6. NothingLeft'
  <2>1. \A f \in Fiber : frame[f].pc /= "check"
    BY DEF PromiseInv, SemInv, AssertionsHold, InAcquire, Fiber, None
  <2> QED BY <1>4, <2>1 DEF NothingLeft, PromiseInv, EntryKept
<1>7. TotalKept
  <2>1. \A x \in DOMAIN sems : sems[x].value \in Int /\ sems[x].acqValue \in Int
    BY SchedAssumption DEF PromiseInv, SemInv, SchedInv, SchedTypeOK, SemInfo, Value
  <2> QED BY <1>2, <1>3, <1>4, <2>1 DEF TotalKept, EntryKept
<1>8. requestBar' = requestBar
  BY RequestSame
<1>9. Abs!Release(s, n)
  <2>1. freeBar[s] = sems[s].value + sems[s].acqValue
    BY <1>1 DEF freeBar
  <2>2. freeBar[s] + n <= UInt64Max
    BY <1>1, <1>2, <1>3, <2>1, SchedAssumption DEF Overflows
  <2>3. freeBar' = [freeBar EXCEPT ![s] = @ + n]
    <3>1. sems'[s].value + sems'[s].acqValue = sems[s].value + sems[s].acqValue + n
      BY <1>2, <1>3, <1>4
    <3> QED BY <1>1, <1>4, <3>1 DEF freeBar, EntryKept
  <2> QED BY <1>1, <1>4, <1>8, <2>2, <2>3 DEF Abs!Release, freeBar
<1> QED BY <1>5, <1>6, <1>7, <1>9 DEF Promised, AbsStep, Abs!AbsNext, Value

\* The frame of a try that falls short, and of one that changes its pc alone.
LEMMA ShortFrame ==
  ASSUME frame \in [Fiber -> Frame], curr \in Fiber, NEW got,
         frame' = [frame EXCEPT ![curr].pc = "check", ![curr].done = @ + got]
  PROVE  /\ frame'[curr].pc = "check"
         /\ \A f \in Fiber : /\ frame'[f].sem = frame[f].sem
                             /\ frame'[f].need = frame[f].need
                             /\ frame'[f].expire = frame[f].expire
         /\ \A f \in Fiber \ {curr} : frame'[f] = frame[f]
<1> DEFINE fr == [frame[curr] EXCEPT !.pc = "check", !.done = @ + got]
<1>1. frame[curr] \in Frame
  OBVIOUS
<1>2. /\ fr.pc = "check" /\ fr.sem = frame[curr].sem /\ fr.need = frame[curr].need
      /\ fr.expire = frame[curr].expire
  BY <1>1 DEF Frame
<1>3. frame' = [frame EXCEPT ![curr] = fr]
  OBVIOUS
<1> HIDE DEF fr
<1> QED BY <1>2, <1>3

LEMMA PcFrame ==
  ASSUME frame \in [Fiber -> Frame], curr \in Fiber, NEW pc,
         frame' = [frame EXCEPT ![curr].pc = pc]
  PROVE  /\ frame'[curr].pc = pc
         /\ \A f \in Fiber : /\ frame'[f].sem = frame[f].sem
                             /\ frame'[f].need = frame[f].need
                             /\ frame'[f].expire = frame[f].expire
         /\ \A f \in Fiber \ {curr} : frame'[f] = frame[f]
<1> DEFINE fr == [frame[curr] EXCEPT !.pc = pc]
<1>1. frame[curr] \in Frame
  OBVIOUS
<1>2. /\ fr.pc = pc /\ fr.sem = frame[curr].sem /\ fr.need = frame[curr].need
      /\ fr.expire = frame[curr].expire
  BY <1>1 DEF Frame
<1>3. frame' = [frame EXCEPT ![curr] = fr]
  OBVIOUS
<1> HIDE DEF fr
<1> QED BY <1>2, <1>3

-----------------------------------------------------------------------------
(* The steps of Acquire.                                                   *)

LEMMA AcquireStartPromised ==
  ASSUME PromiseInv, SchedInv', NEW s \in SemId, NEW n \in Value, NEW ms \in TimeoutMs,
         AcquireStart(s, n, ms)
  PROVE  Promised
<1> DEFINE t  == IF ms < 0 THEN -1 ELSE now + ms
           fr == [pc |-> "try", sem |-> s, need |-> n, done |-> 0, expire |-> t]
<1>1. /\ curr /= None /\ ~ InAcquire(curr) /\ s \in DOMAIN sems /\ n > 0
      /\ now + ms <= MaxTime /\ frame' = [frame EXCEPT ![curr] = fr]
      /\ UNCHANGED schedVars
  BY DEF AcquireStart
<1>2. UNCHANGED <<curr, sems, now>>
  BY <1>1 DEF schedVars
<1>3. curr \in Fiber /\ frame \in [Fiber -> Frame] /\ now \in 0..MaxTime
  BY <1>1 DEF PromiseInv, SemInv, SchedInv, SchedTypeOK, Time
<1>4. t \in -1..MaxTime /\ (t = -1 \/ t >= now)
  BY <1>1, <1>3, SemAssumption, SchedAssumption
<1>5. frame'[curr] = fr /\ fr.pc = "try" /\ \A f \in Fiber \ {curr} : frame'[f] = frame[f]
  BY <1>1, <1>3
<1> HIDE DEF t
<1>6. FramesIdle'
  BY <1>5 DEF PromiseInv, FramesIdle, InAcquire
<1>7. NothingLeft'
  <2>1. \A x \in DOMAIN sems : EntryKept(x)
    BY <1>2 DEF EntryKept
  <2> QED BY <1>2, <1>5, <2>1, NothingLeftKept DEF PromiseInv
<1>8. TotalKept
  BY <1>2, KeptTotals DEF PromiseInv, EntryKept
<1>9. requestBar' = [requestBar EXCEPT ![curr] = [sem |-> s, need |-> n, expire |-> t]]
  <2>1. requestBar' = [requestBar EXCEPT ![curr] =
                         [sem |-> fr.sem, need |-> fr.need, expire |-> fr.expire]]
    BY <1>1, <1>3, RequestSet
  <2> QED BY <2>1
<1>10. requestBar[curr] = Abs!NoRequest
  BY <1>1, <1>3 DEF PromiseInv, FramesIdle, requestBar, NoFrame, Abs!NoRequest
<1>11. Abs!Ask(curr, s, n, t)
  BY <1>1, <1>2, <1>4, <1>9, <1>10, FreeSame DEF Abs!Ask, freeBar
<1>12. n \in 1..UInt64Max
  BY <1>1, SchedAssumption DEF Value
<1>13. AbsStep
  BY <1>3, <1>4, <1>11, <1>12 DEF AbsStep, Abs!AbsNext
<1> QED BY <1>6, <1>7, <1>8, <1>13 DEF Promised

LEMMA AcquireTryPromised ==
  ASSUME PromiseInv, SchedInv', AcquireTry
  PROVE  Promised
<1> DEFINE s   == frame[curr].sem
           n   == frame[curr].need - frame[curr].done
           got == Granted(s, n)
           e   == sems[s]
           e2  == AfterTryAcquire(s, n)
<1>1. /\ curr /= None /\ frame[curr].pc = "try" /\ TryAcquireSem(s, n)
      /\ IF frame[curr].done + got = frame[curr].need
           THEN Return
           ELSE frame' = [frame EXCEPT ![curr].pc = "check", ![curr].done = @ + got]
  BY DEF AcquireTry
<1>2. /\ curr \in Fiber /\ InAcquire(curr) /\ frame[curr] \in Frame
      /\ s \in DOMAIN sems /\ e \in SemInfo
      /\ frame[curr].done < frame[curr].need
      /\ frame[curr].done > 0 => e.acquirer = curr
      /\ e.acquirer = curr => e.acqValue = frame[curr].done
      /\ frame \in [Fiber -> Frame]
  BY <1>1, InLoop DEF PromiseInv, SemInv
<1>3. /\ frame[curr].done \in Nat /\ frame[curr].need \in Nat
      /\ e.value \in Nat /\ e.acqValue \in Nat /\ e.acquirer \in Fiber \cup {NoSeq}
      /\ e.acquirer = NoSeq => e.acqValue = 0
  BY <1>2, SchedAssumption DEF Frame, SemInfo, Value, PromiseInv, SemInv, SchedInv, SemBounded
<1>4. /\ DOMAIN sems' = DOMAIN sems /\ sems'[s] = e2
      /\ \A x \in DOMAIN sems \ {s} : sems'[x] = sems[x]
      /\ UNCHANGED <<curr, now>>
  BY <1>1, <1>2 DEF TryAcquireSem
<1>5. \A x \in DOMAIN sems : sems[x].value \in Int /\ sems[x].acqValue \in Int
  BY SchedAssumption DEF PromiseInv, SemInv, SchedInv, SchedTypeOK, SemInfo, Value
<1>6. \A x \in DOMAIN sems \ {s} : EntryKept(x)
  BY <1>4 DEF EntryKept
<1>7. CASE e.acquirer \notin {NoSeq, curr}
  <2>1. got = 0 /\ e2 = e /\ frame[curr].done = 0
    BY <1>2, <1>3, <1>7 DEF Granted, AfterTryAcquire
  <2>2. frame' = [frame EXCEPT ![curr].pc = "check", ![curr].done = @ + got]
    BY <1>1, <1>2, <1>3, <2>1
  <2>3. /\ frame'[curr].pc = "check"
        /\ \A f \in Fiber : /\ frame'[f].sem = frame[f].sem
                            /\ frame'[f].need = frame[f].need
                            /\ frame'[f].expire = frame[f].expire
        /\ \A f \in Fiber \ {curr} : frame'[f] = frame[f]
    BY <1>2, <2>2, ShortFrame
  <2>4. \A x \in DOMAIN sems : sems'[x] = sems[x]
    BY <1>4, <2>1
  <2>5. FramesIdle'
    BY <1>2, <2>3 DEF PromiseInv, FramesIdle, InAcquire
  <2>6. NothingLeft'
    BY <1>4, <1>7, <2>3, <2>4 DEF PromiseInv, NothingLeft
  <2>7. TotalKept
    BY <1>4, <2>4, KeptTotals DEF PromiseInv, EntryKept
  <2>8. AbsStep
    BY <1>4, <2>3, <2>4, FreeSame, RequestSame DEF AbsStep, Abs!absVars
  <2> QED BY <2>5, <2>6, <2>7, <2>8 DEF Promised
<1>8. CASE e.acquirer \in {NoSeq, curr} /\ e.value < n
  <2>0. got = e.value /\ got /= n
    BY <1>2, <1>3, <1>8 DEF Granted
  <2>1. e2 = [e EXCEPT !.value = 0, !.acquirer = curr, !.acqValue = @ + got]
    BY <1>8, <2>0 DEF AfterTryAcquire
  <2>2. e2.value = 0 /\ e2.acquirer = curr /\ e2.acqValue = e.acqValue + e.value
        /\ e2.waiters = e.waiters
    BY <1>2, <2>0, <2>1 DEF SemInfo
  <2>3. frame' = [frame EXCEPT ![curr].pc = "check", ![curr].done = @ + got]
    BY <1>1, <1>2, <1>3, <1>8, <2>0
  <2>4. /\ frame'[curr].pc = "check"
        /\ \A f \in Fiber : /\ frame'[f].sem = frame[f].sem
                            /\ frame'[f].need = frame[f].need
                            /\ frame'[f].expire = frame[f].expire
        /\ \A f \in Fiber \ {curr} : frame'[f] = frame[f]
    BY <1>2, <2>3, ShortFrame
  <2>5. FramesIdle'
    BY <1>2, <2>4 DEF PromiseInv, FramesIdle, InAcquire
  <2> HIDE DEF e2
  <2>6. NothingLeft'
    BY <1>4, <2>2, <2>4 DEF PromiseInv, NothingLeft
  <2>7. \A x \in DOMAIN sems :
          sems'[x].value + sems'[x].acqValue = sems[x].value + sems[x].acqValue
    <3>1. 0 + (e.acqValue + e.value) = e.value + e.acqValue
      BY <1>3
    <3> QED BY <1>4, <2>2, <3>1
  <2>8. TotalKept
    BY <1>4, <1>5, <2>7 DEF TotalKept
  <2>9. AbsStep
    BY <1>4, <2>4, <2>7, FreeSame, RequestSame DEF AbsStep, Abs!absVars
  <2> QED BY <2>5, <2>6, <2>8, <2>9 DEF Promised
<1>9. CASE e.acquirer \in {NoSeq, curr} /\ e.value >= n
  <2>1. got = n /\ e2 = [e EXCEPT !.value = @ - got, !.acquirer = NoSeq, !.acqValue = 0]
    BY <1>2, <1>3, <1>9 DEF Granted, AfterTryAcquire
  <2>2. e2.value = e.value - n /\ e2.acquirer = NoSeq /\ e2.acqValue = 0
    BY <1>2, <2>1 DEF SemInfo
  <2>3. Return
    BY <1>1, <1>3, <2>1
  <2>4. /\ FramesIdle'
        /\ \A f \in Fiber : IF f = curr THEN frame'[f].pc = "none" ELSE frame'[f] = frame[f]
    BY <1>2, <2>3, ReturnIdle DEF PromiseInv
  <2>5. e.acqValue = frame[curr].done
    BY <1>2, <1>3, <1>9
  <2> HIDE DEF e2
  <2>6. NothingLeft'
    BY <1>4, <2>2, <2>4 DEF PromiseInv, NothingLeft, Fiber, NoSeq
  <2>7. TotalKept
    <3>1. \A x \in DOMAIN sems \ {s} :
            sems'[x].value + sems'[x].acqValue >= sems[x].value + sems[x].acqValue
      BY <1>4, <1>5
    <3>2. ASSUME NEW x \in DOMAIN sems, NEW f \in Fiber, Collecting(f, x), Acquiring(f, x)'
          PROVE  x /= s
      BY <1>9, <2>4, <3>2 DEF Collecting, Acquiring, InAcquire, Fiber, NoSeq
    <3> QED BY <1>4, <3>1, <3>2 DEF TotalKept
  <2>8. Abs!Grant(curr)
    <3>1. requestBar[curr] = [sem |-> s, need |-> frame[curr].need,
                              expire |-> frame[curr].expire]
      BY <1>2 DEF requestBar
    <3>2. requestBar[curr] /= Abs!NoRequest
      BY <1>2, <1>3, <3>1 DEF Abs!NoRequest
    <3>3. freeBar[s] = e.value + e.acqValue
      BY <1>2 DEF freeBar
    <3>4. freeBar[s] >= frame[curr].need
      BY <1>3, <1>9, <2>5, <3>3
    <3>5. e2.value + e2.acqValue = e.value + e.acqValue - frame[curr].need
      BY <1>3, <2>2, <2>5
    <3>6. freeBar' = [freeBar EXCEPT ![s] = @ - frame[curr].need]
      <4>1. DOMAIN freeBar' = DOMAIN freeBar /\ DOMAIN freeBar = DOMAIN sems
        BY <1>4 DEF freeBar
      <4>2. \A x \in DOMAIN sems \ {s} : freeBar'[x] = freeBar[x]
        BY <1>4 DEF freeBar
      <4>3. freeBar'[s] = e2.value + e2.acqValue
        BY <1>2, <1>4 DEF freeBar
      <4>4. freeBar'[s] = freeBar[s] - frame[curr].need
        BY <1>3, <3>3, <3>5, <4>3
      <4>5. freeBar' = [x \in DOMAIN freeBar |-> freeBar'[x]]
        BY <4>1 DEF freeBar
      <4>6. \A x \in DOMAIN freeBar :
              freeBar'[x] = IF x = s THEN freeBar[s] - frame[curr].need ELSE freeBar[x]
        BY <4>1, <4>2, <4>4
      <4>7. freeBar' = [x \in DOMAIN freeBar |->
                          IF x = s THEN freeBar[s] - frame[curr].need ELSE freeBar[x]]
        BY <4>5, <4>6
      <4> QED BY <4>7
    <3>7. Abs!Answered(curr)
      BY <1>2, <2>3, RequestAnswered
    <3>8. s \in DOMAIN freeBar
      BY <1>2 DEF freeBar
    <3> QED BY <1>4, <3>1, <3>2, <3>4, <3>6, <3>7, <3>8 DEF Abs!Grant
  <2> QED BY <1>2, <2>4, <2>6, <2>7, <2>8 DEF Promised, AbsStep, Abs!AbsNext
<1> QED BY <1>3, <1>7, <1>8, <1>9

LEMMA AcquireTimeoutPromised ==
  ASSUME PromiseInv, SchedInv', AcquireTimeout
  PROVE  Promised
<1> DEFINE s == frame[curr].sem
           n == frame[curr].done
<1>1. /\ curr /= None /\ frame[curr].pc = "check" /\ Return /\ TimedOut(curr)
      /\ IF n > 0 THEN RestoreAcquiringSem(s, n) ELSE UNCHANGED schedVars
  BY DEF AcquireTimeout
<1>2. /\ curr \in Fiber /\ s \in DOMAIN sems /\ s \in SemId
      /\ sems[s] \in SemInfo /\ n \in Value /\ n \in Nat
      /\ n > 0 => sems[s].acquirer = curr
      /\ sems[s].acquirer = curr => sems[s].acqValue = n
      /\ frame \in [Fiber -> Frame]
  BY <1>1, InLoop, SchedAssumption DEF Frame, Value, PromiseInv, SemInv, SchedInv, SchedTypeOK
<1>3. /\ FramesIdle'
      /\ \A f \in Fiber : IF f = curr THEN frame'[f].pc = "none" ELSE frame'[f] = frame[f]
  BY <1>1, <1>2, ReturnIdle DEF PromiseInv
<1>4. ASSUME freeBar' = freeBar, now' = now PROVE AbsStep
  <2>1. requestBar[curr].expire = frame[curr].expire
    BY <1>2 DEF requestBar
  <2>2. Abs!GiveUp(curr)
    BY <1>1, <1>2, <1>4, <2>1, RequestAnswered DEF Abs!GiveUp, TimedOut
  <2> QED BY <1>2, <2>2 DEF AbsStep, Abs!AbsNext
<1>5. \A x \in DOMAIN sems : sems[x].value \in Int /\ sems[x].acqValue \in Int
  BY SchedAssumption DEF PromiseInv, SemInv, SchedInv, SchedTypeOK, SemInfo, Value
<1>6. CASE n > 0
  <2> DEFINE e == [sems[s] EXCEPT !.value = @ + n, !.acquirer = NoSeq, !.acqValue = 0]
  <2>1. WakeSemWaiters(s, e) /\ e \in SemInfo
    BY <1>1, <1>2, <1>6, RestoreEntry DEF PromiseInv, SemInv
  <2>2. e.value = sems[s].value + n /\ e.acquirer = NoSeq /\ e.acqValue = 0
    BY <1>2 DEF SemInfo
  <2> HIDE DEF e
  <2>3. /\ DOMAIN sems' = DOMAIN sems /\ now' = now
        /\ sems'[s].value = sems[s].value + n
        /\ sems'[s].acquirer = NoSeq /\ sems'[s].acqValue = 0
        /\ \A x \in DOMAIN sems \ {s} : EntryKept(x)
    BY <1>2, <2>1, <2>2, WakeSemEntries DEF PromiseInv, SemInv
  <2>4. \A x \in DOMAIN sems :
          sems'[x].value + sems'[x].acqValue = sems[x].value + sems[x].acqValue
    <3>1. sems[s].value + n + 0 = sems[s].value + sems[s].acqValue
      BY <1>2, <1>5, <1>6
    <3> QED BY <2>3, <3>1 DEF EntryKept
  <2>5. NothingLeft'
    BY <1>3, <2>3 DEF PromiseInv, NothingLeft, EntryKept, Fiber, NoSeq
  <2>6. TotalKept
    BY <1>5, <2>3, <2>4 DEF TotalKept
  <2> QED BY <1>3, <1>4, <2>3, <2>4, <2>5, <2>6, FreeSame DEF Promised
<1>7. CASE n = 0
  <2>1. UNCHANGED <<curr, sems, now>>
    BY <1>1, <1>7 DEF schedVars
  <2>2. \A x \in DOMAIN sems : EntryKept(x)
    BY <2>1 DEF EntryKept
  <2>3. NothingLeft'
    BY <1>3, <2>1, <2>2, NothingLeftKept DEF PromiseInv
  <2>4. TotalKept
    BY <2>2, KeptTotals DEF PromiseInv
  <2> QED BY <1>3, <1>4, <2>1, <2>3, <2>4, FreeSame DEF Promised
<1> QED BY <1>2, <1>6, <1>7

LEMMA AcquireParkPromised ==
  ASSUME PromiseInv, SchedInv', AcquirePark
  PROVE  Promised
<1> DEFINE s == frame[curr].sem
           e == Await(frame[curr].expire, {}, {}, {s})
<1>1. /\ curr /= None /\ frame[curr].pc = "check"
      /\ frame' = [frame EXCEPT ![curr].pc = "woken"]
      /\ SwitchToSchedFiber(e)
  BY DEF AcquirePark, WaitSem
<1>2. curr \in Fiber /\ s \in DOMAIN sems /\ frame \in [Fiber -> Frame] /\ InAcquire(curr)
  BY <1>1, InLoop DEF PromiseInv, SemInv
<1>3. /\ frame'[curr].pc = "woken"
      /\ \A f \in Fiber : /\ frame'[f].sem = frame[f].sem
                          /\ frame'[f].need = frame[f].need
                          /\ frame'[f].expire = frame[f].expire
      /\ \A f \in Fiber \ {curr} : frame'[f] = frame[f]
  BY <1>1, <1>2, PcFrame
<1>4. /\ DOMAIN sems' = DOMAIN sems /\ now' = now
      /\ \A x \in DOMAIN sems :
           /\ sems'[x].value = sems[x].value
           /\ sems'[x].acquirer = sems[x].acquirer
           /\ sems'[x].acqValue = sems[x].acqValue
           /\ sems'[x].waiters = sems[x].waiters \cup (IF x = s THEN {curr} ELSE {})
  <2>1. DOMAIN sems' = DOMAIN sems /\ now' = now
    BY <1>1 DEF SwitchToSchedFiber
  <2>2. ASSUME NEW x \in DOMAIN sems
        PROVE  /\ sems'[x].value = sems[x].value
               /\ sems'[x].acquirer = sems[x].acquirer
               /\ sems'[x].acqValue = sems[x].acqValue
               /\ sems'[x].waiters = sems[x].waiters \cup (IF x = s THEN {curr} ELSE {})
    <3>1. sems[x] \in SemInfo
      BY DEF PromiseInv, SemInv, SchedInv, SchedTypeOK
    <3>2. sems'[x] = [sems[x] EXCEPT !.waiters = @ \cup (IF x \in e.sems THEN {curr} ELSE {})]
      BY <1>1 DEF SwitchToSchedFiber
    <3>3. e.sems = {s}
      BY DEF Await
    <3> QED BY <3>1, <3>2, <3>3 DEF SemInfo
  <2> QED BY <2>1, <2>2
<1>5. FramesIdle'
  BY <1>2, <1>3 DEF PromiseInv, FramesIdle, InAcquire
<1>6. NothingLeft'
  BY <1>1, <1>2, <1>3, <1>4 DEF PromiseInv, NothingLeft
<1>7. \A x \in DOMAIN sems : sems[x].value \in Int /\ sems[x].acqValue \in Int
  BY SchedAssumption DEF PromiseInv, SemInv, SchedInv, SchedTypeOK, SemInfo, Value
<1>8. TotalKept
  BY <1>4, <1>7 DEF TotalKept
<1>9. AbsStep
  BY <1>3, <1>4, FreeSame, RequestSame DEF AbsStep, Abs!absVars
<1> QED BY <1>5, <1>6, <1>8, <1>9 DEF Promised

LEMMA AcquireWokenPromised ==
  ASSUME PromiseInv, SchedInv', AcquireWoken
  PROVE  Promised
<1> DEFINE s == frame[curr].sem
<1>1. /\ curr \in Fiber /\ frame[curr].pc = "woken" /\ InAcquire(curr)
      /\ frame \in [Fiber -> Frame] /\ UNCHANGED schedVars
  BY DEF AcquireWoken, InAcquire, PromiseInv, SemInv, SchedInv, SchedTypeOK
<1>2. UNCHANGED <<curr, sems, now>> /\ freeBar' = freeBar
  BY <1>1, FreeSame DEF schedVars
<1>3. \A x \in DOMAIN sems : EntryKept(x)
  BY <1>2 DEF EntryKept
<1>4. TotalKept
  BY <1>3, KeptTotals DEF PromiseInv
<1>5. CASE s \notin DOMAIN sems
  <2>1. Return
    BY <1>5 DEF AcquireWoken
  <2>2. /\ FramesIdle'
        /\ \A f \in Fiber : IF f = curr THEN frame'[f].pc = "none" ELSE frame'[f] = frame[f]
    BY <1>1, <2>1, ReturnIdle DEF PromiseInv
  <2>3. NothingLeft'
    BY <1>2, <1>3, <2>2, NothingLeftKept DEF PromiseInv
  <2>4. requestBar[curr] /= Abs!NoRequest /\ requestBar[curr].sem \notin DOMAIN freeBar
    <3>1. frame[curr].done < frame[curr].need /\ frame[curr] \in Frame
      BY <1>1 DEF PromiseInv, SemInv, AssertionsHold
    <3>2. frame[curr].need /= 0
      BY <3>1, SchedAssumption DEF Frame, Value
    <3> QED BY <1>1, <1>5, <3>2 DEF requestBar, freeBar, Abs!NoRequest
  <2>5. Abs!Closed(curr)
    BY <1>1, <1>2, <2>1, <2>4, RequestAnswered DEF Abs!Closed
  <2> QED BY <1>1, <1>4, <2>2, <2>3, <2>5 DEF Promised, AbsStep, Abs!AbsNext
<1>6. CASE s \in DOMAIN sems
  <2>1. frame' = [frame EXCEPT ![curr].pc = "try"]
    BY <1>6 DEF AcquireWoken
  <2>2. /\ frame'[curr].pc = "try"
        /\ \A f \in Fiber : /\ frame'[f].sem = frame[f].sem
                            /\ frame'[f].need = frame[f].need
                            /\ frame'[f].expire = frame[f].expire
        /\ \A f \in Fiber \ {curr} : frame'[f] = frame[f]
    BY <1>1, <2>1, PcFrame
  <2>3. FramesIdle'
    BY <1>1, <2>2 DEF PromiseInv, FramesIdle, InAcquire
  <2>4. NothingLeft'
    BY <1>2, <1>3, <2>2, NothingLeftKept DEF PromiseInv
  <2>5. AbsStep
    BY <1>2, <2>2, RequestSame DEF AbsStep, Abs!absVars
  <2> QED BY <1>4, <2>3, <2>4, <2>5 DEF Promised
<1> QED BY <1>5, <1>6

-----------------------------------------------------------------------------
LEMMA PromiseInit == SemInit => PromiseInv /\ Abs!AbsInit
<1> SUFFICES ASSUME SemInit PROVE PromiseInv /\ Abs!AbsInit
  OBVIOUS
<1>1. SemInv
  BY SemInitInv
<1>2. /\ \A f \in Fiber : frame[f] = NoFrame
      /\ sems = [s \in {} |-> [value |-> 0, acquirer |-> NoSeq, acqValue |-> 0, waiters |-> {}]]
      /\ DOMAIN sems = {} /\ now = 0
  BY DEF SemInit, SchedInit
<1>3. FramesIdle /\ NothingLeft
  BY <1>2 DEF FramesIdle, NothingLeft
<1>4. freeBar = [s \in {} |-> 0]
  BY <1>2 DEF freeBar
<1>5. requestBar = [f \in Fiber |-> Abs!NoRequest]
  BY <1>2 DEF requestBar, NoFrame, Abs!NoRequest
<1> QED BY <1>1, <1>2, <1>3, <1>4, <1>5 DEF PromiseInv, Abs!AbsInit

LEMMA PromiseStep ==
  PromiseInv /\ [SemNext]_semVars => PromiseInv' /\ AbsStep /\ (SemNext => TotalKept)
<1> SUFFICES ASSUME PromiseInv, [SemNext]_semVars
             PROVE  PromiseInv' /\ AbsStep /\ (SemNext => TotalKept)
  OBVIOUS
<1>1. SemInv' /\ SchedInv'
  BY SemNextInv DEF PromiseInv, SemInv
<1>2. ASSUME SemNext PROVE Promised
  <2>1. CASE \E s \in SemId, n \in Value, ms \in TimeoutMs : AcquireStart(s, n, ms)
    BY <1>1, <2>1, AcquireStartPromised
  <2>2. CASE AcquireStep
    BY <1>1, <2>2, AcquireTryPromised, AcquireTimeoutPromised, AcquireParkPromised,
       AcquireWokenPromised DEF AcquireStep
  <2>3. CASE UserLeave
    BY <1>1, <2>3, QuietPromised DEF UserLeave
  <2>4. CASE UserCall
    <3>1. UNCHANGED frame /\ (curr = None \/ ~ InAcquire(curr))
      BY <2>4 DEF UserCall
    <3>2. CASE Create \/ FdCall
      BY <1>1, <3>1, <3>2, QuietPromised
    <3>3. CASE SemCall
      BY <1>1, <3>1, <3>3, RegSemPromised, UnregSemPromised, ReleasePromised DEF SemCall
    <3> QED BY <2>4, <3>2, <3>3 DEF UserCall
  <2>5. CASE (Run \/ LoopStep \/ WaitInterrupted \/ WaitFailed \/ Environment) /\ UNCHANGED frame
    BY <1>1, <2>5, QuietPromised
  <2> QED BY <1>2, <2>1, <2>2, <2>3, <2>4, <2>5 DEF SemNext
<1>3. CASE UNCHANGED semVars
  <2>1. UNCHANGED <<sems, now, frame>>
    BY <1>3 DEF semVars, schedVars
  <2>2. PromiseInv'
    BY <1>1, <2>1 DEF PromiseInv, FramesIdle, NothingLeft, InAcquire
  <2>3. AbsStep
    BY <2>1, FreeSame, RequestSame DEF AbsStep, Abs!absVars
  <2>4. SemNext => TotalKept
    BY <1>1, <2>1, KeptTotals DEF PromiseInv, EntryKept
  <2> QED BY <2>2, <2>3, <2>4
<1>4. CASE SemNext
  BY <1>1, <1>2, <1>4 DEF Promised, PromiseInv
<1> QED BY <1>3, <1>4

LEMMA PromiseInvariant == SemSpec => []PromiseInv
BY PromiseInit, PromiseStep, PTL DEF SemSpec

(* Acquire, with its partial acquisitions, its parks and its races with    *)
(* Destroy and time outs, is for its callers one that takes all in one     *)
(* step or nothing.                                                        *)
THEOREM SemImplementsAbsSem == SemSpec => AbsSemSpec
BY PromiseInit, PromiseStep, PromiseInvariant, PTL DEF SemSpec, AbsSemSpec, Abs!AbsSpec, AbsStep

(* Nobody takes anything from a semaphore past the Acquire that collects.  *)
THEOREM NoBargingHolds == SemSpec => NoBarging
<1>1. PromiseInv /\ [SemNext]_semVars => [TotalKept]_semVars
  BY PromiseStep
<1> QED BY <1>1, PromiseInvariant, PTL DEF SemSpec, NoBarging, TotalKept

(* The acquirer is never parked on value it could take.                    *)
THEOREM AcquirerTakesAllHolds == SemSpec => []AcquirerTakesAll
<1>1. PromiseInv => AcquirerTakesAll
  <2>1. PromiseInv => \A s \in DOMAIN sems : sems[s].waiters \subseteq Fiber
    BY DEF PromiseInv, SemInv, SchedInv, SchedTypeOK, SemInfo
  <2> QED BY <2>1 DEF PromiseInv, NothingLeft, AcquirerTakesAll
<1> QED BY <1>1, PromiseInvariant, PTL

-----------------------------------------------------------------------------
(* RCPtr: the count of an object is the number of its pointers, and an     *)
(* object lives as long as it has one, for any number of threads, pointers *)
(* and objects: provided that callers hold the object whose member they    *)
(* assign from.                                                            *)

(* A place that stays where it is while t is at work: a variable of t, or  *)
(* a member of an object that a variable of t other than dst points to.    *)
Anchored(t, l) ==
  \/ l \in VarsOf(t)
  \/ \E v \in VarsOf(t) : v /= op[t].dst /\ p[v] \in Obj /\ l \in MembersOf(p[v])

Operations ==
  \A t \in Thread :
    /\ op[t] = Idle => held[t] = Null
    /\ op[t] /= Idle =>
         /\ op[t].dst \in Place /\ Anchored(t, op[t].dst)
         /\ op[t].src /= NoPlace =>
              op[t].src \in Place /\ Anchored(t, op[t].src) /\ p[op[t].src] = held[t]
    /\ op[t].pc = "drop" => op[t].dst \notin released
    /\ op[t].pc = "store" => op[t].dst \in released
    /\ dying[t] /= {} => op[t].pc = "store"
    /\ dying[t] \subseteq heap

Apart ==
  \A t, u \in Thread : t /= u =>
    /\ dying[t] \cap dying[u] = {}
    /\ op[t] /= Idle => op[u].dst /= op[t].dst /\ op[u].src /= op[t].dst

Stores(l) == \E t \in Thread : op[t].pc = "store" /\ op[t].dst = l

ReleasedBy ==
  \A l \in released : Stores(l) \/ \E o \in Obj : Dead(o) /\ l \in MembersOf(o)

FreedReleased == \A o \in Obj \ heap : MembersOf(o) \subseteq released

RCInv ==
  /\ RCTypeOK
  /\ PointersCounted
  /\ Operations
  /\ Apart
  /\ ReleasedBy
  /\ FreedReleased

-----------------------------------------------------------------------------
LEMMA Places ==
  /\ IsFiniteSet(Place)
  /\ \A t \in Thread : VarsOf(t) \subseteq Place
  /\ \A o \in Obj : MembersOf(o) \subseteq Place
  /\ \A t, u \in Thread : t /= u => VarsOf(t) \cap VarsOf(u) = {}
  /\ \A o, x \in Obj : o /= x => MembersOf(o) \cap MembersOf(x) = {}
  /\ \A t \in Thread, o \in Obj : VarsOf(t) \cap MembersOf(o) = {}
  /\ \A l \in Place : (\E t \in Thread : l \in VarsOf(t)) \/ \E o \in Obj : l \in MembersOf(o)
<1>1. IsFiniteSet(Thread \X Name) /\ IsFiniteSet(Obj \X Member)
  BY FS_Product, RCPtrAssumption
<1>2. IsFiniteSet(Place)
  BY <1>1, FS_Union DEF Place, Var
<1> QED BY <1>2, RCPtrAssumption DEF Place, Var, VarsOf, MembersOf

(* Null is no object, so that what t reaches through a variable is in one. *)
LEMMA ReachedPlace ==
  ASSUME NEW t \in Thread, NEW l \in Place, RCTypeOK, Reaches(t, l)
  PROVE  \/ l \in VarsOf(t)
         \/ \E v \in VarsOf(t) : p[v] \in Obj /\ l \in MembersOf(p[v])
<1>1. \A v \in VarsOf(t) : p[v] \in Obj \cup {Null}
  BY Places DEF RCTypeOK
<1>2. l \notin MembersOf(Null)
  BY RCPtrAssumption DEF Place, Var, MembersOf
<1> QED BY <1>1, <1>2 DEF Reaches

LEMMA FiniteCounts ==
  \A o \in Obj : IsFiniteSet(Counting(o)) /\ IsFiniteSet(Holding(o))
<1> TAKE o \in Obj
<1>1. Counting(o) \subseteq Place /\ Holding(o) \subseteq Thread
  BY DEF Counting, Holding
<1> QED BY <1>1, Places, RCPtrAssumption, FS_Subset

(* An object that a pointer counts for, or a thread holds, is alive.       *)
LEMMA CountedLives ==
  ASSUME RCInv, NEW o \in Obj, Counting(o) /= {} \/ Holding(o) /= {}
  PROVE  rc[o] > 0 /\ ~ Dead(o)
<1>1. /\ Cardinality(Counting(o)) \in Nat /\ Cardinality(Holding(o)) \in Nat
      /\ Cardinality(Counting(o)) = 0 => Counting(o) = {}
      /\ Cardinality(Holding(o)) = 0 => Holding(o) = {}
  BY FiniteCounts, FS_CardinalityType, FS_EmptySet
<1> QED BY <1>1 DEF RCInv, PointersCounted

(* A variable counts while its thread is not storing in it.                *)
LEMMA OwnVarCounts ==
  ASSUME RCInv, NEW t \in Thread, NEW v \in VarsOf(t),
         v /= op[t].dst \/ op[t].pc /= "store"
  PROVE  v \in Place /\ v \notin released
<1>1. v \in Place
  BY Places
<1>2. SUFFICES ASSUME v \in released PROVE FALSE
  BY <1>1
<1>3. PICK u \in Thread : op[u].pc = "store" /\ op[u].dst = v
  BY <1>2, Places DEF RCInv, ReleasedBy, Stores
<1>4. op[u] /= Idle
  BY <1>3 DEF Idle
<1>5. Anchored(u, v)
  BY <1>3, <1>4 DEF RCInv, Operations
<1>6. v \in VarsOf(u)
  BY <1>5, Places DEF Anchored
<1> QED BY <1>3, <1>6, Places

(* The object with a place that t is at work with is alive.                *)
LEMMA AnchorLives ==
  ASSUME RCInv, NEW t \in Thread, NEW l \in Place, Anchored(t, l),
         NEW o \in Obj, l \in MembersOf(o)
  PROVE  ~ Dead(o)
<1>1. PICK v \in VarsOf(t) : v /= op[t].dst /\ p[v] \in Obj /\ l \in MembersOf(p[v])
  BY Places DEF Anchored
<1>2. p[v] = o
  BY <1>1, Places
<1>3. v \in Counting(o)
  BY <1>1, <1>2, OwnVarCounts DEF Counting
<1> QED BY <1>3, CountedLives

(* What an idle thread may use counts, and if it points to an object, that *)
(* object is alive.                                                        *)
LEMMA UsedCounts ==
  ASSUME RCInv, NEW t \in Thread, op[t] = Idle, NEW l \in Place, Reaches(t, l),
         \A u \in Thread : op[u].dst /= l
  PROVE  /\ l \notin released
         /\ p[l] \in Obj => ~ Dead(p[l])
         /\ \A o \in Obj : l \in MembersOf(o) => ~ Dead(o)
<1>1. op[t].dst = NoPlace /\ op[t].pc /= "store" /\ NoPlace \notin Place
  BY RCPtrAssumption DEF Idle
<1>2. Anchored(t, l)
  BY <1>1, ReachedPlace, Places DEF Anchored, RCInv
<1>3. \A o \in Obj : l \in MembersOf(o) => ~ Dead(o)
  BY <1>2, AnchorLives
<1>4. l \notin released
  BY <1>3 DEF RCInv, ReleasedBy, Stores
<1>5. p[l] \in Obj => l \in Counting(p[l])
  BY <1>4 DEF Counting
<1> QED BY <1>3, <1>4, <1>5, CountedLives

-----------------------------------------------------------------------------
LEMMA RCInitInv == RCInit => RCInv
<1> SUFFICES ASSUME RCInit PROVE RCInv
  OBVIOUS
<1>1. RCTypeOK
  BY DEF RCInit, RCTypeOK, Place
<1>2. \A o \in Obj : Counting(o) = {} /\ Holding(o) = {}
  BY RCPtrAssumption DEF RCInit, Counting, Holding
<1>3. PointersCounted
  BY <1>2, FS_EmptySet DEF RCInit, PointersCounted, Dead
<1>4. Operations /\ Apart
  BY DEF RCInit, Operations, Apart, Idle
<1>5. ReleasedBy /\ FreedReleased
  BY DEF RCInit, ReleasedBy, FreedReleased, MembersOf, Dead
<1> QED BY <1>1, <1>3, <1>4, <1>5 DEF RCInv

(* The first step of an assignment; N is the object it makes, if it does.  *)
LEMMA BeginInv ==
  ASSUME RCInv, NEW t \in Thread, op[t] = Idle,
         NEW dst \in Place, NEW src \in Place \cup {NoPlace}, NEW o \in Obj \cup {Null},
         NEW N \in SUBSET (Obj \ heap), N \subseteq {o},
         Begin(t, dst, src, o),
         \A u \in Thread : op[u].dst /= dst /\ op[u].src /= dst,
         dst \notin released,
         dst \in VarsOf(t) \/ \E v \in VarsOf(t) : p[v] \in Obj /\ dst \in MembersOf(p[v]),
         src /= NoPlace =>
           /\ p[src] = o
           /\ \A u \in Thread : op[u].dst /= src
           /\ \/ src \in VarsOf(t)
              \/ \E v \in VarsOf(t) : v /= dst /\ p[v] \in Obj /\ src \in MembersOf(p[v]),
         o \in Obj => o \in N \/ ~ Dead(o),
         heap' = heap \cup N,
         p' = [l \in Place |-> IF \E x \in N : l \in MembersOf(x) THEN Null ELSE p[l]],
         released' = released \ {l \in Place : \E x \in N : l \in MembersOf(x)}
  PROVE  RCInv'
<1> DEFINE Made(l) == \E x \in N : l \in MembersOf(x)
<1>1. /\ op' = [op EXCEPT ![t] = [pc |-> "drop", dst |-> dst, src |-> src]]
      /\ held' = [held EXCEPT ![t] = o]
      /\ rc' = [x \in Obj |-> IF x = o THEN rc[x] + 1 ELSE rc[x]]
      /\ dying' = dying
  BY DEF Begin, IncRC
<1>2. /\ op'[t] = [pc |-> "drop", dst |-> dst, src |-> src] /\ op'[t] /= Idle
      /\ held'[t] = o /\ held[t] = Null /\ dying[t] = {}
      /\ \A u \in Thread : u /= t => op'[u] = op[u] /\ held'[u] = held[u]
  BY <1>1 DEF RCInv, RCTypeOK, Operations, Idle
<1>3. RCTypeOK'
  BY <1>1, RCPtrAssumption DEF RCInv, RCTypeOK
<1>4. /\ \A l \in Place : Made(l) => l \in released
      /\ \A l \in Place : ~ Made(l) => p'[l] = p[l] /\ (l \in released' <=> l \in released)
      /\ \A l \in Place : Made(l) => p'[l] = Null
      /\ \A u \in Thread : \A v \in VarsOf(u) : v \in Place /\ ~ Made(v)
  BY Places DEF RCInv, FreedReleased
<1>5. \A x \in N : Dead(x) /\ ~ Dead(x)'
  BY <1>1 DEF Dead, RCInv, Operations
<1>6. \A x \in Obj \ N : Dead(x)' <=> Dead(x)
  BY <1>1 DEF Dead
<1>7. \A u \in Thread : \A l \in Place : Anchored(u, l) => ~ Made(l)
  BY <1>5, AnchorLives
<1>8. ASSUME NEW x \in Obj
      PROVE  /\ rc'[x] = Cardinality(Counting(x)') + Cardinality(Holding(x)')
             /\ Dead(x)' <=> rc'[x] = 0
  <2>1. Counting(x)' = Counting(x)
    BY <1>4, RCPtrAssumption DEF Counting
  <2>2. Holding(x)' = IF x = o THEN Holding(x) \cup {t} ELSE Holding(x)
    BY <1>2, RCPtrAssumption DEF Holding
  <2>3. t \notin Holding(x)
    BY <1>2, RCPtrAssumption DEF Holding
  <2>4. /\ Cardinality(Counting(x)) \in Nat /\ Cardinality(Holding(x)) \in Nat
        /\ Cardinality(Holding(x) \cup {t}) = Cardinality(Holding(x)) + 1
    BY <2>3, FiniteCounts, FS_CardinalityType, FS_AddElement
  <2>5. rc[x] = Cardinality(Counting(x)) + Cardinality(Holding(x)) /\ (Dead(x) <=> rc[x] = 0)
    BY DEF RCInv, PointersCounted
  <2>6. rc'[x] = IF x = o THEN rc[x] + 1 ELSE rc[x]
    BY <1>1
  <2>7. CASE x = o
    <3>1. ~ Dead(x)'
      BY <1>5, <1>6, <2>7
    <3> QED BY <2>1, <2>2, <2>4, <2>5, <2>6, <2>7, <3>1
  <2>8. CASE x /= o
    <3>1. Dead(x)' <=> Dead(x)
      BY <1>6, <2>8
    <3> QED BY <2>1, <2>2, <2>4, <2>5, <2>6, <2>8, <3>1
  <2> QED BY <2>7, <2>8
<1>9. PointersCounted'
  BY <1>8 DEF PointersCounted
<1>10. ASSUME NEW u \in Thread, u /= t
       PROVE  /\ op[u] = Idle => held'[u] = Null
              /\ op[u] /= Idle =>
                   /\ op[u].dst \in Place /\ Anchored(u, op[u].dst)'
                   /\ op[u].src /= NoPlace =>
                        op[u].src \in Place /\ Anchored(u, op[u].src)' /\ p'[op[u].src] = held'[u]
              /\ op[u].pc = "drop" => op[u].dst \notin released'
              /\ op[u].pc = "store" => op[u].dst \in released'
              /\ dying'[u] /= {} => op[u].pc = "store"
              /\ dying'[u] \subseteq heap'
  <2>1. \A l \in Place : Anchored(u, l) => Anchored(u, l)'
    BY <1>2, <1>4, <1>10, ZenonT(40) DEF Anchored, VarsOf, MembersOf
  <2>2. op[u].pc \in {"drop", "store"} => op[u] /= Idle
    BY DEF Idle
  <2> QED BY <1>1, <1>2, <1>4, <1>7, <1>10, <2>1, <2>2 DEF RCInv, Operations
<1>11. /\ Anchored(t, dst)'
       /\ src /= NoPlace => src \in Place /\ Anchored(t, src)' /\ p'[src] = o
  <2>1. Anchored(t, dst)'
    <3>1. CASE dst \in VarsOf(t)
      BY <3>1 DEF Anchored, VarsOf
    <3>2. CASE \E v \in VarsOf(t) : p[v] \in Obj /\ dst \in MembersOf(p[v])
      <4>1. PICK v \in VarsOf(t) : p[v] \in Obj /\ dst \in MembersOf(p[v])
        BY <3>2
      <4>2. v /= dst /\ p'[v] = p[v]
        BY <1>4, <4>1, Places
      <4>3. op'[t].dst = dst
        BY <1>2
      <4>4. v \in VarsOf(t) /\ v /= op'[t].dst /\ p'[v] \in Obj /\ dst \in MembersOf(p'[v])
        BY <4>1, <4>2, <4>3
      <4> QED BY <4>4 DEF Anchored, VarsOf, MembersOf
    <3> QED BY <3>1, <3>2
  <2>2. ASSUME src /= NoPlace PROVE src \in Place /\ Anchored(t, src)' /\ p'[src] = o
    <3>1. Anchored(t, src)
      <4>1. \A v \in VarsOf(t) : v /= op[t].dst
        BY <1>4, RCPtrAssumption DEF Idle
      <4> QED BY <2>2, <4>1 DEF Anchored
    <3>2. Anchored(t, src)'
      BY <1>2, <1>4, <2>2 DEF Anchored, VarsOf, MembersOf
    <3> QED BY <1>4, <1>7, <2>2, <3>1, <3>2
  <2> QED BY <2>1, <2>2
<1>12. Operations'
  <2>1. op'[t].dst \notin released'
    BY <1>2
  <2> QED BY <1>1, <1>2, <1>10, <1>11, <2>1 DEF Operations, Idle
<1>13. Apart'
  <2>1. \A u \in Thread : op[u].dst /= dst /\ op[u].src /= dst /\ (src /= NoPlace => op[u].dst /= src)
    OBVIOUS
  <2>2. \A u \in Thread : op[u] /= Idle => op[u].dst \in Place
    BY DEF RCInv, Operations
  <2>3. NoPlace \notin Place
    BY RCPtrAssumption
  <2> QED BY <1>1, <1>2, <2>1, <2>2, <2>3 DEF RCInv, Apart
<1>14. ReleasedBy'
  <2> SUFFICES ASSUME NEW l \in released'
               PROVE  Stores(l)' \/ \E x \in Obj : Dead(x)' /\ l \in MembersOf(x)
    BY DEF ReleasedBy, MembersOf
  <2>1. l \in released /\ ~ Made(l) /\ l \in Place
    BY DEF RCInv, RCTypeOK
  <2>2. CASE Stores(l)
    BY <1>2, <2>2 DEF Stores, Idle
  <2>3. CASE \E x \in Obj : Dead(x) /\ l \in MembersOf(x)
    BY <1>6, <2>1, <2>3
  <2> QED BY <2>1, <2>2, <2>3 DEF RCInv, ReleasedBy
<1>15. FreedReleased'
  <2> SUFFICES ASSUME NEW x \in Obj \ heap', NEW l \in MembersOf(x) PROVE l \in released'
    BY DEF FreedReleased, MembersOf
  <2>1. ~ Made(l) /\ l \in Place
    BY Places
  <2> QED BY <1>4, <2>1 DEF RCInv, FreedReleased
<1> QED BY <1>3, <1>9, <1>12, <1>13, <1>14, <1>15 DEF RCInv

(* A pointer that counted no longer does, and the object it was the last   *)
(* pointer to begins to die.                                               *)
LEMMA DecRCCounts ==
  ASSUME RCInv, NEW t \in Thread, NEW l \in Place, l \notin released,
         DecRC(t, l), heap' = heap, p' = p, held' = held
  PROVE  /\ rc' \in [Obj -> Int] /\ dying' \in [Thread -> SUBSET Obj]
         /\ PointersCounted'
         /\ \A u \in Thread : u /= t => dying'[u] = dying[u] /\ dying'[t] \cap dying[u] = {}
         /\ dying'[t] \subseteq heap
         /\ \A x \in Obj : Dead(x) => Dead(x)'
<1> DEFINE Last == {x \in Obj : x = p[l] /\ rc[x] = 1}
<1>1. /\ released' = released \cup {l}
      /\ rc' = [x \in Obj |-> IF x = p[l] THEN rc[x] - 1 ELSE rc[x]]
      /\ dying' = [dying EXCEPT ![t] = @ \cup Last]
  BY DEF DecRC
<1>2. rc' \in [Obj -> Int] /\ dying' \in [Thread -> SUBSET Obj]
  BY <1>1 DEF RCInv, RCTypeOK
<1>3. /\ dying'[t] = dying[t] \cup Last
      /\ \A u \in Thread : u /= t => dying'[u] = dying[u]
  BY <1>1 DEF RCInv, RCTypeOK
<1>4. \A x \in Obj : x = p[l] => l \in Counting(x) /\ rc[x] > 0 /\ ~ Dead(x)
  <2>1. \A x \in Obj : x = p[l] => l \in Counting(x)
    BY DEF Counting
  <2> QED BY <2>1, CountedLives
<1>5. \A x \in Obj : Dead(x)' <=> Dead(x) \/ x \in Last
  BY <1>3 DEF Dead
<1>6. ASSUME NEW x \in Obj
      PROVE  /\ rc'[x] = Cardinality(Counting(x)') + Cardinality(Holding(x)')
             /\ Dead(x)' <=> rc'[x] = 0
  <2>1. Counting(x)' = IF x = p[l] THEN Counting(x) \ {l} ELSE Counting(x)
    BY <1>1 DEF Counting
  <2>2. Holding(x)' = Holding(x)
    BY DEF Holding
  <2>3. /\ Cardinality(Counting(x)) \in Nat /\ Cardinality(Holding(x)) \in Nat
        /\ x = p[l] => Cardinality(Counting(x) \ {l}) = Cardinality(Counting(x)) - 1
    BY <1>4, FiniteCounts, FS_CardinalityType, FS_RemoveElement
  <2>4. rc[x] = Cardinality(Counting(x)) + Cardinality(Holding(x)) /\ (Dead(x) <=> rc[x] = 0)
    BY DEF RCInv, PointersCounted
  <2>5. rc'[x] = IF x = p[l] THEN rc[x] - 1 ELSE rc[x]
    BY <1>1
  <2>6. CASE x = p[l]
    BY <1>4, <1>5, <2>1, <2>2, <2>3, <2>4, <2>5, <2>6
  <2>7. CASE x /= p[l]
    BY <1>5, <2>1, <2>2, <2>3, <2>4, <2>5, <2>7
  <2> QED BY <2>6, <2>7
<1>7. PointersCounted'
  BY <1>6 DEF PointersCounted
<1>8. Last \subseteq heap /\ \A u \in Thread : Last \cap dying[u] = {}
  BY <1>4 DEF Dead
<1> QED BY <1>2, <1>3, <1>5, <1>7, <1>8 DEF RCInv, Operations, Apart

LEMMA DropOldInv ==
  ASSUME RCInv, NEW t \in Thread, DropOld(t)
  PROVE  RCInv'
<1> DEFINE dst == op[t].dst
<1>1. /\ op[t].pc = "drop" /\ op[t] /= Idle /\ dst \in Place /\ dst \notin released
      /\ op' = [op EXCEPT ![t].pc = "store"]
      /\ p' = p /\ heap' = heap /\ held' = held /\ released' = released \cup {dst}
      /\ DecRC(t, dst)
  BY DEF DropOld, DecRC, RCInv, Operations, Idle
<1>2. /\ op'[t].pc = "store" /\ op'[t].dst = dst /\ op'[t].src = op[t].src
      /\ op'[t] \in [pc : {"drop", "store"}, dst : Place, src : Place \cup {NoPlace}]
      /\ op'[t] /= Idle
      /\ \A u \in Thread : u /= t => op'[u] = op[u]
  BY <1>1 DEF RCInv, RCTypeOK, Idle
<1>3. /\ rc' \in [Obj -> Int] /\ dying' \in [Thread -> SUBSET Obj]
      /\ PointersCounted'
      /\ \A u \in Thread : u /= t => dying'[u] = dying[u] /\ dying'[t] \cap dying[u] = {}
      /\ dying'[t] \subseteq heap
      /\ \A x \in Obj : Dead(x) => Dead(x)'
  BY <1>1, DecRCCounts
<1>4. RCTypeOK'
  BY <1>1, <1>3 DEF RCInv, RCTypeOK
<1>5. \A u \in Thread : op'[u].dst = op[u].dst /\ op'[u].src = op[u].src /\ (op'[u] = Idle <=> op[u] = Idle)
  BY <1>1, <1>2
<1>6. \A u \in Thread, l \in Place : Anchored(u, l) => Anchored(u, l)'
  BY <1>1, <1>5 DEF Anchored, VarsOf, MembersOf
<1>7. \A u \in Thread : u /= t => op[u].dst /= dst
  BY <1>1 DEF RCInv, Apart
<1>8. Operations'
  <2> SUFFICES ASSUME NEW u \in Thread
               PROVE  /\ op'[u] = Idle => held'[u] = Null
                      /\ op'[u] /= Idle =>
                           /\ op'[u].dst \in Place /\ Anchored(u, op[u].dst)'
                           /\ op'[u].src /= NoPlace =>
                                op'[u].src \in Place /\ Anchored(u, op[u].src)' /\ p'[op'[u].src] = held'[u]
                      /\ op'[u].pc = "drop" => op'[u].dst \notin released'
                      /\ op'[u].pc = "store" => op'[u].dst \in released'
                      /\ dying'[u] /= {} => op'[u].pc = "store"
                      /\ dying'[u] \subseteq heap'
    BY DEF Operations, Idle
  <2>1. CASE u = t
    BY <1>1, <1>2, <1>3, <1>5, <1>6, <2>1 DEF RCInv, Operations
  <2>2. CASE u /= t
    BY <1>1, <1>2, <1>3, <1>5, <1>6, <1>7, <2>2 DEF RCInv, Operations
  <2> QED BY <2>1, <2>2
<1>9. Apart'
  BY <1>3, <1>5 DEF RCInv, Apart, Idle
<1>10. ReleasedBy'
  <2> SUFFICES ASSUME NEW l \in released'
               PROVE  Stores(l)' \/ \E x \in Obj : Dead(x)' /\ l \in MembersOf(x)
    BY DEF ReleasedBy, MembersOf
  <2>1. CASE l = dst
    BY <1>2, <2>1 DEF Stores
  <2>2. CASE l \in released
    <3>1. CASE Stores(l)
      BY <1>1, <1>2, <3>1 DEF Stores
    <3>2. CASE \E x \in Obj : Dead(x) /\ l \in MembersOf(x)
      BY <1>3, <3>2
    <3> QED BY <2>2, <3>1, <3>2 DEF RCInv, ReleasedBy
  <2> QED BY <1>1, <2>1, <2>2
<1>11. FreedReleased'
  BY <1>1 DEF RCInv, FreedReleased, MembersOf
<1> QED BY <1>3, <1>4, <1>8, <1>9, <1>10, <1>11 DEF RCInv

LEMMA DestroyMemberInv ==
  ASSUME RCInv, NEW t \in Thread, NEW o \in Obj, NEW m \in Member, DestroyMember(t, o, m)
  PROVE  RCInv'
<1>1. /\ o \in dying[t] /\ <<o, m>> \notin released /\ DecRC(t, <<o, m>>)
      /\ p' = p /\ heap' = heap /\ held' = held /\ op' = op
      /\ released' = released \cup {<<o, m>>}
      /\ <<o, m>> \in Place /\ <<o, m>> \in MembersOf(o) /\ Dead(o)
  BY DEF DestroyMember, DecRC, Place, MembersOf, Dead
<1>2. /\ rc' \in [Obj -> Int] /\ dying' \in [Thread -> SUBSET Obj]
      /\ PointersCounted'
      /\ \A u \in Thread : u /= t => dying'[u] = dying[u] /\ dying'[t] \cap dying[u] = {}
      /\ dying'[t] \subseteq heap
      /\ \A x \in Obj : Dead(x) => Dead(x)'
  BY <1>1, DecRCCounts
<1>3. RCTypeOK'
  BY <1>1, <1>2 DEF RCInv, RCTypeOK
<1>4. \A u \in Thread, l \in Place : Anchored(u, l) => Anchored(u, l)' /\ l /= <<o, m>>
  BY <1>1, AnchorLives DEF Anchored, VarsOf, MembersOf
<1>5. Operations'
  <2> SUFFICES ASSUME NEW u \in Thread
               PROVE  /\ op[u] = Idle => held[u] = Null
                      /\ op[u] /= Idle =>
                           /\ op[u].dst \in Place /\ Anchored(u, op[u].dst)'
                           /\ op[u].src /= NoPlace =>
                                op[u].src \in Place /\ Anchored(u, op[u].src)' /\ p[op[u].src] = held[u]
                      /\ op[u].pc = "drop" => op[u].dst \notin released'
                      /\ op[u].pc = "store" => op[u].dst \in released'
                      /\ dying'[u] /= {} => op[u].pc = "store"
                      /\ dying'[u] \subseteq heap
    BY <1>1 DEF Operations, Idle
  <2>1. op[u].pc = "drop" => op[u].dst \notin released' /\ op[u] /= Idle
    BY <1>1, <1>4 DEF RCInv, Operations, Idle
  <2>2. dying'[u] /= {} => dying[u] /= {}
    BY <1>1, <1>2
  <2>3. dying'[u] \subseteq heap
    BY <1>2 DEF RCInv, Operations
  <2> QED BY <1>1, <1>4, <2>1, <2>2, <2>3 DEF RCInv, Operations
<1>6. Apart'
  BY <1>1, <1>2 DEF RCInv, Apart, Idle
<1>7. ReleasedBy'
  <2> SUFFICES ASSUME NEW l \in released'
               PROVE  Stores(l)' \/ \E x \in Obj : Dead(x)' /\ l \in MembersOf(x)
    BY DEF ReleasedBy, MembersOf
  <2>1. CASE l = <<o, m>>
    BY <1>1, <1>2, <2>1
  <2>2. CASE l \in released
    BY <1>1, <1>2, <2>2 DEF RCInv, ReleasedBy, Stores
  <2> QED BY <1>1, <2>1, <2>2
<1>8. FreedReleased'
  BY <1>1 DEF RCInv, FreedReleased, MembersOf
<1> QED BY <1>2, <1>3, <1>5, <1>6, <1>7, <1>8 DEF RCInv

LEMMA FreeInv ==
  ASSUME RCInv, NEW t \in Thread, NEW o \in Obj, Free(t, o)
  PROVE  RCInv'
<1>1. /\ o \in dying[t] /\ MembersOf(o) \subseteq released
      /\ heap' = heap \ {o} /\ dying' = [dying EXCEPT ![t] = @ \ {o}]
      /\ p' = p /\ rc' = rc /\ released' = released /\ op' = op /\ held' = held
  BY DEF Free
<1>2. /\ dying'[t] = dying[t] \ {o}
      /\ \A u \in Thread : u /= t => dying'[u] = dying[u] /\ o \notin dying[u]
  BY <1>1 DEF RCInv, RCTypeOK, Apart
<1>3. RCTypeOK'
  BY <1>1 DEF RCInv, RCTypeOK
<1>4. \A x \in Obj : Dead(x)' <=> Dead(x)
  BY <1>1, <1>2 DEF Dead
<1>5. PointersCounted'
  BY <1>1, <1>4 DEF RCInv, PointersCounted, Counting, Holding
<1>6. \A u \in Thread, l \in Place : Anchored(u, l) <=> Anchored(u, l)'
  BY <1>1 DEF Anchored, VarsOf, MembersOf
<1>7. Operations'
  <2> SUFFICES ASSUME NEW u \in Thread
               PROVE  /\ op[u] = Idle => held[u] = Null
                      /\ op[u] /= Idle =>
                           /\ op[u].dst \in Place /\ Anchored(u, op[u].dst)'
                           /\ op[u].src /= NoPlace =>
                                op[u].src \in Place /\ Anchored(u, op[u].src)' /\ p[op[u].src] = held[u]
                      /\ op[u].pc = "drop" => op[u].dst \notin released
                      /\ op[u].pc = "store" => op[u].dst \in released
                      /\ dying'[u] /= {} => op[u].pc = "store"
                      /\ dying'[u] \subseteq heap'
    BY <1>1 DEF Operations, Idle
  <2>1. (dying'[u] /= {} => op[u].pc = "store") /\ dying'[u] \subseteq heap'
    BY <1>1, <1>2 DEF RCInv, Operations
  <2> QED BY <1>1, <1>6, <2>1 DEF RCInv, Operations
<1>8. Apart'
  BY <1>1, <1>2 DEF RCInv, Apart, Idle
<1>9. ReleasedBy'
  BY <1>1, <1>4 DEF RCInv, ReleasedBy, Stores, MembersOf
<1>10. FreedReleased'
  BY <1>1 DEF RCInv, FreedReleased, MembersOf
<1> QED BY <1>3, <1>5, <1>7, <1>8, <1>9, <1>10 DEF RCInv

(* The source of an assignment is in an object that is alive, and it still *)
(* has the value that was counted.                                         *)
LEMMA StoredIsHeld ==
  ASSUME RCInv, NEW t \in Thread, op[t] /= Idle
  PROVE  Stored(t) = {held[t]}
<1>1. CASE op[t].src = NoPlace
  BY <1>1 DEF Stored
<1>2. CASE op[t].src /= NoPlace
  <2>1. op[t].src \in Place /\ Anchored(t, op[t].src) /\ p[op[t].src] = held[t]
    BY <1>2 DEF RCInv, Operations
  <2>2. \A o \in Obj \ heap : op[t].src \notin MembersOf(o)
    BY <2>1, AnchorLives DEF Dead
  <2> QED BY <1>2, <2>1, <2>2 DEF Stored
<1> QED BY <1>1, <1>2

LEMMA StoreInv ==
  ASSUME RCInv, NEW t \in Thread, Store(t)
  PROVE  RCInv'
<1> DEFINE dst == op[t].dst
<1>1. /\ op[t].pc = "store" /\ op[t] /= Idle /\ dying[t] = {}
      /\ dst \in Place /\ dst \in released /\ Anchored(t, dst)
  BY DEF Store, Idle, RCInv, Operations
<1>2. /\ p' = [p EXCEPT ![dst] = held[t]]
      /\ released' = released \ {dst}
      /\ op' = [op EXCEPT ![t] = Idle] /\ held' = [held EXCEPT ![t] = Null]
      /\ rc' = rc /\ heap' = heap /\ dying' = dying
  BY <1>1, StoredIsHeld DEF Store
<1>3. /\ op'[t] = Idle /\ held'[t] = Null /\ p'[dst] = held[t]
      /\ \A u \in Thread : u /= t => op'[u] = op[u] /\ held'[u] = held[u]
      /\ \A l \in Place : l /= dst => p'[l] = p[l]
      /\ held[t] \in Obj \cup {Null}
  BY <1>1, <1>2 DEF RCInv, RCTypeOK
<1>4. RCTypeOK'
  BY <1>2, <1>3 DEF RCInv, RCTypeOK
<1>5. \A x \in Obj : Dead(x)' <=> Dead(x)
  BY <1>2 DEF Dead
<1>6. ASSUME NEW x \in Obj
      PROVE  /\ rc'[x] = Cardinality(Counting(x)') + Cardinality(Holding(x)')
             /\ Dead(x)' <=> rc'[x] = 0
  <2>1. Counting(x)' = IF x = held[t] THEN Counting(x) \cup {dst} ELSE Counting(x)
    BY <1>1, <1>2, <1>3 DEF Counting
  <2>2. Holding(x)' = IF x = held[t] THEN Holding(x) \ {t} ELSE Holding(x)
    BY <1>3, RCPtrAssumption DEF Holding
  <2>3. dst \notin Counting(x) /\ (x = held[t] => t \in Holding(x))
    BY <1>1 DEF Counting, Holding
  <2>4. /\ Cardinality(Counting(x)) \in Nat /\ Cardinality(Holding(x)) \in Nat
        /\ Cardinality(Counting(x) \cup {dst}) = Cardinality(Counting(x)) + 1
        /\ x = held[t] => Cardinality(Holding(x) \ {t}) = Cardinality(Holding(x)) - 1
    BY <2>3, FiniteCounts, FS_CardinalityType, FS_AddElement, FS_RemoveElement
  <2>5. rc[x] = Cardinality(Counting(x)) + Cardinality(Holding(x)) /\ (Dead(x) <=> rc[x] = 0)
    BY DEF RCInv, PointersCounted
  <2>6. rc'[x] = rc[x] /\ (Dead(x)' <=> Dead(x))
    BY <1>2, <1>5
  <2>7. CASE x = held[t]
    <3>1. Cardinality(Counting(x)') = Cardinality(Counting(x)) + 1
      BY <2>1, <2>4, <2>7
    <3>2. Cardinality(Holding(x)') = Cardinality(Holding(x)) - 1
      BY <2>2, <2>4, <2>7
    <3> QED BY <2>4, <2>5, <2>6, <3>1, <3>2
  <2>8. CASE x /= held[t]
    BY <2>1, <2>2, <2>5, <2>6, <2>8
  <2> QED BY <2>7, <2>8
<1>7. PointersCounted'
  BY <1>6 DEF PointersCounted
<1>8. ASSUME NEW u \in Thread, u /= t, op[u] /= Idle
      PROVE  /\ op[u].dst /= dst /\ op[u].src /= dst
             /\ \A l \in Place : Anchored(u, l) => Anchored(u, l)'
  <2>1. op[u].dst /= dst /\ op[u].src /= dst
    BY <1>1, <1>8 DEF RCInv, Apart
  <2>2. \A v \in VarsOf(u) : v /= dst
    BY <1>1, <1>8, Places DEF Anchored
  <2>3. op'[u] = op[u] /\ \A v \in VarsOf(u) : p'[v] = p[v]
    BY <1>3, <1>8, <2>2, Places
  <2> QED BY <2>1, <2>3 DEF Anchored, VarsOf, MembersOf
<1>9. Operations'
  <2> SUFFICES ASSUME NEW u \in Thread
               PROVE  /\ op'[u] = Idle => held'[u] = Null
                      /\ op'[u] /= Idle =>
                           /\ op'[u].dst \in Place /\ Anchored(u, op[u].dst)'
                           /\ op'[u].src /= NoPlace =>
                                op'[u].src \in Place /\ Anchored(u, op[u].src)' /\ p'[op'[u].src] = held'[u]
                      /\ op'[u].pc = "drop" => op'[u].dst \notin released'
                      /\ op'[u].pc = "store" => op'[u].dst \in released'
                      /\ dying'[u] /= {} => op'[u].pc = "store"
                      /\ dying'[u] \subseteq heap'
    BY DEF Operations, Idle
  <2>1. CASE u = t
    BY <1>1, <1>2, <1>3, <2>1 DEF Idle
  <2>2. CASE u /= t
    <3>1. op[u].pc \in {"drop", "store"} => op[u] /= Idle
      BY DEF Idle
    <3> QED BY <1>2, <1>3, <1>8, <2>2, <3>1 DEF RCInv, Operations
  <2> QED BY <2>1, <2>2
<1>10. Apart'
  <2>1. \A u \in Thread : op[u] /= Idle => op[u].dst \in Place
    BY DEF RCInv, Operations
  <2> QED BY <1>2, <1>3, <2>1, RCPtrAssumption DEF RCInv, Apart, Idle
<1>11. ReleasedBy'
  <2> SUFFICES ASSUME NEW l \in released'
               PROVE  Stores(l)' \/ \E x \in Obj : Dead(x)' /\ l \in MembersOf(x)
    BY DEF ReleasedBy, MembersOf
  <2>1. l \in released /\ l /= dst
    BY <1>2
  <2>2. CASE Stores(l)
    BY <1>3, <2>1, <2>2 DEF Stores
  <2>3. CASE \E x \in Obj : Dead(x) /\ l \in MembersOf(x)
    BY <1>5, <2>3
  <2> QED BY <2>1, <2>2, <2>3 DEF RCInv, ReleasedBy
<1>12. FreedReleased'
  <2>1. \A x \in Obj \ heap : dst \notin MembersOf(x)
    BY <1>1, AnchorLives DEF Dead
  <2> QED BY <1>2, <2>1 DEF RCInv, FreedReleased, MembersOf
<1> QED BY <1>4, <1>7, <1>9, <1>10, <1>11, <1>12 DEF RCInv
-----------------------------------------------------------------------------
(* What an idle thread that may use dst and src knows of them.             *)
LEMMA MayUseFacts ==
  ASSUME RCInv, NEW t \in Thread, NEW dst \in Place, NEW src \in Place, MayUse(t, dst, src)
  PROVE  /\ op[t] = Idle
         /\ \A u \in Thread : op[u].dst /= dst /\ op[u].src /= dst /\ op[u].dst /= src
         /\ dst \notin released
         /\ dst \in VarsOf(t) \/ \E v \in VarsOf(t) : p[v] \in Obj /\ dst \in MembersOf(p[v])
         /\ p[src] \in Obj \cup {Null}
         /\ p[src] \in Obj => ~ Dead(p[src])
<1>1. /\ op[t] = Idle /\ Reaches(t, dst) /\ Reaches(t, src) /\ RCTypeOK
      /\ \A u \in Thread : op[u].dst /= dst /\ op[u].dst /= src /\ op[u].src /= dst
  BY DEF MayUse, RCInv
<1>2. dst \notin released /\ (p[src] \in Obj => ~ Dead(p[src]))
  BY <1>1, UsedCounts
<1>3. dst \in VarsOf(t) \/ \E v \in VarsOf(t) : p[v] \in Obj /\ dst \in MembersOf(p[v])
  BY <1>1, ReachedPlace
<1>4. p[src] \in Obj \cup {Null}
  BY <1>1 DEF RCTypeOK
<1> QED BY <1>1, <1>2, <1>3, <1>4

LEMMA AssignNewInv ==
  ASSUME RCInv, NEW t \in Thread, NEW dst \in Place, NEW o \in Obj, AssignNew(t, dst, o)
  PROVE  RCInv'
<1> DEFINE N == {o}
<1>1. MayUse(t, dst, dst) /\ o \notin heap /\ Begin(t, dst, NoPlace, o)
  BY DEF AssignNew
<1>2. /\ op[t] = Idle
      /\ \A u \in Thread : op[u].dst /= dst /\ op[u].src /= dst
      /\ dst \notin released
      /\ dst \in VarsOf(t) \/ \E v \in VarsOf(t) : p[v] \in Obj /\ dst \in MembersOf(p[v])
  BY <1>1, MayUseFacts
<1>3. /\ heap' = heap \cup N
      /\ p' = [l \in Place |-> IF \E x \in N : l \in MembersOf(x) THEN Null ELSE p[l]]
      /\ released' = released \ {l \in Place : \E x \in N : l \in MembersOf(x)}
  BY Places DEF AssignNew
<1>4. N \in SUBSET (Obj \ heap) /\ N \subseteq {o} /\ o \in N
  BY <1>1
<1> HIDE DEF N
<1> QED BY <1>1, <1>2, <1>3, <1>4, BeginInv

(* An assignment that makes no object.                                     *)
LEMMA NoNewInv ==
  ASSUME RCInv, NEW t \in Thread, NEW dst \in Place, NEW from \in Place,
         NEW src \in Place \cup {NoPlace}, NEW o \in Obj \cup {Null},
         MayUse(t, dst, from), Begin(t, dst, src, o),
         UNCHANGED <<p, heap, released>>,
         o = p[from] \/ o = Null,
         src /= NoPlace =>
           /\ src = from /\ p[src] = o
           /\ \/ src \in VarsOf(t)
              \/ \E v \in VarsOf(t) : v /= dst /\ p[v] \in Obj /\ src \in MembersOf(p[v])
  PROVE  RCInv'
<1> DEFINE N == {}
<1>1. /\ op[t] = Idle
      /\ \A u \in Thread : op[u].dst /= dst /\ op[u].src /= dst /\ op[u].dst /= from
      /\ dst \notin released
      /\ dst \in VarsOf(t) \/ \E v \in VarsOf(t) : p[v] \in Obj /\ dst \in MembersOf(p[v])
      /\ o \in Obj => ~ Dead(o)
  BY MayUseFacts, RCPtrAssumption
<1>2. /\ heap' = heap \cup N
      /\ p' = [l \in Place |-> IF \E x \in N : l \in MembersOf(x) THEN Null ELSE p[l]]
      /\ released' = released \ {l \in Place : \E x \in N : l \in MembersOf(x)}
  BY DEF RCInv, RCTypeOK
<1>3. N \in SUBSET (Obj \ heap) /\ N \subseteq {o}
  OBVIOUS
<1>4. src /= NoPlace =>
           /\ p[src] = o
           /\ \A u \in Thread : op[u].dst /= src
           /\ \/ src \in VarsOf(t)
              \/ \E v \in VarsOf(t) : v /= dst /\ p[v] \in Obj /\ src \in MembersOf(p[v])
  BY <1>1
<1> HIDE DEF N
<1> QED BY <1>1, <1>2, <1>3, <1>4, BeginInv

LEMMA AssignRawInv ==
  ASSUME RCInv, NEW t \in Thread, NEW dst \in Place, NEW from \in Place, AssignRaw(t, dst, from)
  PROVE  RCInv'
<1>1. MayUse(t, dst, from) /\ Begin(t, dst, NoPlace, p[from]) /\ UNCHANGED <<p, heap, released>>
  BY DEF AssignRaw
<1>2. p[from] \in Obj \cup {Null}
  BY DEF RCInv, RCTypeOK
<1> QED BY <1>1, <1>2, NoNewInv

LEMMA ResetInv ==
  ASSUME RCInv, NEW t \in Thread, NEW dst \in Place, Reset(t, dst)
  PROVE  RCInv'
<1>1. MayUse(t, dst, dst) /\ Begin(t, dst, NoPlace, Null) /\ UNCHANGED <<p, heap, released>>
  BY DEF Reset
<1> QED BY <1>1, NoNewInv

LEMMA AssignPtrInv ==
  ASSUME RCInv, Careful,
         NEW t \in Thread, NEW dst \in Place, NEW src \in Place, AssignPtr(t, dst, src)
  PROVE  RCInv'
<1>1. /\ MayUse(t, dst, src) /\ Begin(t, dst, src, p[src]) /\ UNCHANGED <<p, heap, released>>
      /\ src \in VarsOf(t) \/ \E v \in VarsOf(t) \ {dst} : src \in MembersOf(p[v])
  BY DEF AssignPtr
<1>2. p[src] \in Obj \cup {Null}
  BY DEF RCInv, RCTypeOK
<1>3. \A v \in VarsOf(t) : src \in MembersOf(p[v]) => p[v] \in Obj
  <2>1. \A v \in VarsOf(t) : p[v] \in Obj \cup {Null}
    BY Places DEF RCInv, RCTypeOK
  <2>2. src \notin MembersOf(Null)
    BY RCPtrAssumption DEF Place, Var, MembersOf
  <2> QED BY <2>1, <2>2
<1> QED BY <1>1, <1>2, <1>3, NoNewInv

LEMMA RCNextInv ==
  ASSUME Careful, RCInv, [RCNext]_rcVars
  PROVE  RCInv'
<1>1. CASE RCNext
  <2>1. ASSUME NEW t \in Thread, NEW dst \in Place, NEW o \in Obj, AssignNew(t, dst, o)
        PROVE  RCInv'
    BY <2>1, AssignNewInv
  <2>2. ASSUME NEW t \in Thread, NEW dst \in Place, NEW from \in Place,
               AssignRaw(t, dst, from) \/ AssignPtr(t, dst, from)
        PROVE  RCInv'
    BY <2>2, AssignRawInv, AssignPtrInv
  <2>3. ASSUME NEW t \in Thread, NEW dst \in Place, Reset(t, dst) PROVE RCInv'
    BY <2>3, ResetInv
  <2>4. ASSUME NEW t \in Thread, DropOld(t) \/ Store(t) PROVE RCInv'
    BY <2>4, DropOldInv, StoreInv
  <2>5. ASSUME NEW t \in Thread, NEW o \in Obj,
               Free(t, o) \/ \E m \in Member : DestroyMember(t, o, m)
        PROVE  RCInv'
    BY <2>5, FreeInv, DestroyMemberInv
  <2> QED BY <1>1, <2>1, <2>2, <2>3, <2>4, <2>5 DEF RCNext
<1>2. CASE UNCHANGED rcVars
  <2> USE <1>2 DEF rcVars
  <2>1. RCTypeOK' /\ PointersCounted' /\ FreedReleased'
    BY DEF RCInv, RCTypeOK, PointersCounted, FreedReleased, Counting, Holding, Dead, MembersOf
  <2>2. Operations' /\ Apart'
    BY DEF RCInv, Operations, Apart, Anchored, VarsOf, MembersOf, Idle
  <2>3. ReleasedBy'
    BY DEF RCInv, ReleasedBy, Stores, Dead, MembersOf
  <2> QED BY <2>1, <2>2, <2>3 DEF RCInv
<1> QED BY <1>1, <1>2

(* While callers hold the object whose member they assign from, RCInv is   *)
(* an invariant.                                                           *)
LEMMA CarefulInv == Careful => (RCSpec => []RCInv)
<1>1. CASE Careful
  <2>1. RCInit => RCInv
    BY RCInitInv
  <2>2. RCInv /\ [RCNext]_rcVars => RCInv'
    BY <1>1, RCNextInv
  <2> QED BY <2>1, <2>2, PTL DEF RCSpec
<1>2. CASE ~ Careful
  BY <1>2
<1> QED BY <1>1, <1>2

(* rc_ is the number of pointers and no RCPtr outlives or outlasts its     *)
(* object, for any number of threads that assign at once.                  *)
THEOREM PointersAreCounted == Careful => (RCSpec => []PointersCounted)
<1>1. RCInv => PointersCounted
  BY DEF RCInv
<1> QED BY <1>1, CarefulInv, PTL

(* Then an assignment stores the pointer it was given: what mem.h:18 says  *)
(* of the object's life is enough if it is said of the source as well.     *)
THEOREM AssignmentsCopy == Careful => (RCSpec => AssignmentCopies)
<1>1. ASSUME RCInv, NEW t \in Thread, Store(t)
      PROVE  p'[op[t].dst] = held[t]
  <2>1. op[t] /= Idle /\ op[t].dst \in Place
    BY <1>1 DEF Store, Idle, RCInv, Operations
  <2>2. Stored(t) = {held[t]}
    BY <1>1, <2>1, StoredIsHeld
  <2> QED BY <1>1, <2>1, <2>2 DEF Store, RCInv, RCTypeOK
<1>2. RCInv /\ [RCNext]_rcVars
        => [\A t \in Thread : Store(t) => p'[op[t].dst] = held[t]]_rcVars
  BY <1>1
<1> QED BY <1>2, CarefulInv, PTL DEF RCSpec, AssignmentCopies

=============================================================================
