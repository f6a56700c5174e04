------------------------------- MODULE Sched -------------------------------
(***************************************************************************)
(* The fiber scheduler of src/fiber/sched.cpp and the fiber life cycle of  *)
(* src/fiber/fiber.cpp.                                                    *)
(*                                                                         *)
(* One thread runs everything: the scheduler loop Run, and the fibers it   *)
(* jumps into, which jump back.  The interleavings are those of the clock, *)
(* the kernel's epoll set and the order in which fibers call the           *)
(* scheduler's operations.  The program of the fibers is left open: a      *)
(* running fiber may call any operation its callers in src/fiber call, in  *)
(* any order (module Sem puts the semaphore's program on top).             *)
(*                                                                         *)
(* A definition that starts with Bad is a mistake on purpose: the next     *)
(* definition as a bug would have it, which a property must detect.        *)
(***************************************************************************)
EXTENDS Integers, FiniteSets

CONSTANTS
  Fd,          \* raw file descriptors
  MaxFiber,    \* bound: fibers created in one run of the program
  MaxSem,      \* bound: semaphores created
  UInt64Max,   \* kUInt64Max, scaled down: the largest value of a semaphore
  MaxTime,     \* bound: the clock stops here
  PollMax,     \* the 100 ms cap of epoll_wait's timeout, scaled down
  IntHalf,     \* 2^31: ints are -IntHalf .. IntHalf - 1
  EvCountMax   \* kEpollEvCountMax, 1024 in the code

ASSUME SchedAssumption ==
  /\ MaxFiber \in Nat
  /\ MaxSem \in Nat
  /\ UInt64Max \in Nat
  /\ MaxTime \in Nat
  /\ PollMax \in Nat \ {0}
  /\ IntHalf \in Nat \ {0}
  /\ EvCountMax \in Nat \ {0}

Fiber == 1..MaxFiber          \* fibers are named by their seq_
SemId == 1..MaxSem            \* so are semaphores
Value == 0..UInt64Max
Time  == 0..MaxTime

None    == 0                  \* curr_fiber = nullptr
NoSeq   == -1                 \* acquiring_fiber_seq_ = -1
Forever == -1                 \* an epoll_wait without a timeout

\* What a parked fiber waits for: struct WaitingEvents.
Events == [expire : Time \cup {-1}, r : SUBSET Fd, w : SUBSET Fd,
           sems : SUBSET SemId]

NoEvents == [expire |-> -1, r |-> {}, w |-> {}, sems |-> {}]

FdWaitingFibers == [r : SUBSET Fiber, w : SUBSET Fiber]

SemInfo == [value : Value, acquirer : Fiber \cup {NoSeq}, acqValue : Value,
            waiters : SUBSET Fiber]

VARIABLES
  live,      \* fibers created and not destroyed
  nextSeq,   \* next_fiber_seq
  ready,     \* ready_fibers
  batch,     \* the part of running_fibers that Run has still to resume
  curr,      \* curr_fiber
  evs,       \* waiting_evs_ of every fiber
  expireQ,   \* expire_waiting_fibers: a map from times, empty entries stay
  ioQ,       \* io_waiting_fibers: a map from registered fds
  sems,      \* sem_infos: a map from registered semaphores
  nextSem,   \* next_sem_seq
  phase,     \* where Run is; "main" outside of Run
  waitUntil, \* when epoll_wait gives up; 0 outside of it
  now,       \* NowMS()
  interest,  \* kernel: the fds in the epoll set
  pending    \* kernel: the fds with an event not yet reported

schedVars == <<live, nextSeq, ready, batch, curr, evs, expireQ, ioQ, sems,
               nextSem, phase, waitUntil, now, interest, pending>>
queues == <<evs, expireQ, ioQ, sems>>
kernel == <<interest, pending>>
loop   == <<batch, phase, waitUntil>>
ids    == <<live, nextSeq, nextSem>>

Phases == {"main", "loop", "batch", "poll", "wait"}

SchedTypeOK ==
  /\ live \subseteq Fiber
  /\ nextSeq \in 1..(MaxFiber + 1)
  /\ ready \subseteq Fiber
  /\ batch \subseteq Fiber
  /\ curr \in Fiber \cup {None}
  /\ evs \in [Fiber -> Events]
  /\ DOMAIN expireQ \subseteq Time
  /\ expireQ \in [DOMAIN expireQ -> SUBSET Fiber]
  /\ DOMAIN ioQ \subseteq Fd
  /\ ioQ \in [DOMAIN ioQ -> FdWaitingFibers]
  /\ DOMAIN sems \subseteq SemId
  /\ sems \in [DOMAIN sems -> SemInfo]
  /\ nextSem \in 1..(MaxSem + 1)
  /\ phase \in Phases
  /\ waitUntil \in Int
  /\ now \in Time
  /\ interest \subseteq Fd
  /\ pending \subseteq interest

SchedInit ==
  /\ live = {} /\ nextSeq = 1
  /\ ready = {} /\ batch = {} /\ curr = None
  /\ evs = [f \in Fiber |-> NoEvents]
  /\ expireQ = [t \in {} |-> {}]
  /\ ioQ = [d \in {} |-> [r |-> {}, w |-> {}]]
  /\ sems = [s \in {} |-> [value |-> 0, acquirer |-> NoSeq, acqValue |-> 0,
                           waiters |-> {}]]
  /\ nextSem = 1
  /\ phase = "main" /\ waitUntil = 0
  /\ now = 0
  /\ interest = {} /\ pending = {}

-----------------------------------------------------------------------------
(* WakeUpFibers(F): every fiber of F becomes ready and leaves all the      *)
(* queues its waiting events name.  The callers empty the queue F comes    *)
(* from first, so each operator takes the queue as it is then.  The order  *)
(* in which F is walked does not matter.                                   *)

EvsAfterWake(F) == [f \in Fiber |-> IF f \in F THEN NoEvents ELSE evs[f]]

BadExpireAfterWake(q, F) == q

ExpireAfterWake(q, F) ==
  [t \in DOMAIN q |-> q[t] \ {f \in F : evs[f].expire = t}]

Reading(F, d)   == {f \in F : d \in evs[f].r}
Writing(F, d)   == {f \in F : d \in evs[f].w}
WaitingOn(F, s) == {f \in F : s \in evs[f].sems}

BadIoAfterWake(q, F) == q

\* io_waiting_fibers[fd] inserts an fd that is not there.
IoAfterWake(q, F) ==
  [d \in DOMAIN q \cup UNION {evs[f].r \cup evs[f].w : f \in F} |->
     IF d \in DOMAIN q
       THEN [r |-> q[d].r \ Reading(F, d), w |-> q[d].w \ Writing(F, d)]
       ELSE [r |-> {}, w |-> {}]]

SemsAfterWake(q, F) ==
  [s \in DOMAIN q |-> [q[s] EXCEPT !.waiters = @ \ WaitingOn(F, s)]]

Without(q, k) == [x \in DOMAIN q \ {k} |-> q[x]]

-----------------------------------------------------------------------------
(* Operations a fiber, or main outside of Run, calls.                      *)

CanCall == curr /= None \/ phase = "main"

\* Create: a new fiber, registered as ready (RegFiber).
Create ==
  /\ CanCall
  /\ nextSeq <= MaxFiber
  /\ live' = live \cup {nextSeq}
  /\ ready' = ready \cup {nextSeq}
  /\ nextSeq' = nextSeq + 1
  /\ UNCHANGED <<curr, queues, nextSem, loop, now, kernel>>

\* RegCurrFiberWaitingEvs and the jump to Run: the fiber enters the queue of
\* every event of e, or ready_fibers when e is empty.
SwitchToSchedFiber(e) ==
  /\ curr /= None
  /\ evs' = [evs EXCEPT ![curr] = e]
  /\ expireQ' = IF e.expire >= 0
                  THEN [t \in DOMAIN expireQ \cup {e.expire} |->
                          (IF t \in DOMAIN expireQ THEN expireQ[t] ELSE {})
                          \cup (IF t = e.expire THEN {curr} ELSE {})]
                  ELSE expireQ
  /\ ioQ' = [d \in DOMAIN ioQ |->
               [r |-> ioQ[d].r \cup (IF d \in e.r THEN {curr} ELSE {}),
                w |-> ioQ[d].w \cup (IF d \in e.w THEN {curr} ELSE {})]]
  /\ sems' = [s \in DOMAIN sems |->
                [sems[s] EXCEPT !.waiters =
                   @ \cup (IF s \in e.sems THEN {curr} ELSE {})]]
  /\ ready' = IF e = NoEvents THEN ready \cup {curr} ELSE ready
  /\ curr' = None
  /\ UNCHANGED <<ids, loop, now, kernel>>

\* The WaitingEvents that the callers in src/fiber build: a time out or
\* none, and at most one fd direction or semaphore.  Only ConnectStreamSock
\* may park with a time that is over.
Expiries == {-1} \cup {t \in Time : t > now}

Await(t, readFds, writeFds, semSet) ==
  [expire |-> t, r |-> readFds, w |-> writeFds, sems |-> semSet]

Yield == SwitchToSchedFiber(NoEvents)

SleepMS == \E t \in Expiries \ {-1} : SwitchToSchedFiber(Await(t, {}, {}, {}))

WaitReading(t, d) == d \in DOMAIN ioQ /\ SwitchToSchedFiber(Await(t, {d}, {}, {}))
WaitWriting(t, d) == d \in DOMAIN ioQ /\ SwitchToSchedFiber(Await(t, {}, {d}, {}))

WaitFd ==
  \E t \in Time \cup {-1}, d \in Fd : WaitReading(t, d) \/ WaitWriting(t, d)

WaitSem(t, s) == s \in DOMAIN sems /\ SwitchToSchedFiber(Await(t, {}, {}, {s}))

\* The end of run_: Start resets waiting_evs_, jumps to Run, and Run destroys
\* the fiber.
Finish ==
  /\ curr /= None
  /\ evs' = [evs EXCEPT ![curr] = NoEvents]
  /\ live' = live \ {curr}
  /\ curr' = None
  /\ UNCHANGED <<nextSeq, nextSem, ready, expireQ, ioQ, sems, loop, now, kernel>>

\* RegRawFdToSched: EPOLL_CTL_ADD fails for an fd already in the epoll set,
\* and may fail for others; nothing changes then.  An fd that is ready as it
\* is added has an event at once.
RegRawFd(d) ==
  /\ CanCall
  /\ d \notin DOMAIN ioQ
  /\ d \notin interest
  /\ interest' = interest \cup {d}
  /\ ioQ' = [x \in DOMAIN ioQ \cup {d} |->
               IF x = d THEN [r |-> {}, w |-> {}] ELSE ioQ[x]]
  /\ pending' \in {pending, pending \cup {d}}
  /\ UNCHANGED <<ids, ready, curr, evs, expireQ, sems, loop, now>>

BadUnregRawFd(d) ==
  /\ CanCall
  /\ d \in DOMAIN ioQ
  /\ ioQ' = Without(ioQ, d)
  /\ interest' = interest \ {d} /\ pending' = pending \ {d}
  /\ UNCHANGED <<ids, ready, curr, evs, expireQ, sems, loop, now>>

\* UnregRawFdFromSched: all waiters wake up, the entry goes, and then
\* EPOLL_CTL_DEL may fail and leave the fd in the epoll set.
UnregRawFd(d) ==
  /\ CanCall
  /\ d \in DOMAIN ioQ
  /\ LET F == ioQ[d].r \cup ioQ[d].w
         cleared == [ioQ EXCEPT ![d] = [r |-> {}, w |-> {}]]
     IN  /\ ready' = ready \cup F
         /\ evs' = EvsAfterWake(F)
         /\ expireQ' = ExpireAfterWake(expireQ, F)
         /\ ioQ' = Without(IoAfterWake(cleared, F), d)
         /\ sems' = SemsAfterWake(sems, F)
  /\ \/ interest' = interest \ {d} /\ pending' = pending \ {d}
     \/ UNCHANGED kernel
  /\ UNCHANGED <<ids, curr, loop, now>>

-----------------------------------------------------------------------------
(* Semaphore operations of the scheduler.                                  *)

\* RegSemToSched, called by Sem::New with the next sequence number.
RegSem(v) ==
  /\ CanCall
  /\ nextSem <= MaxSem
  /\ nextSem' = nextSem + 1
  /\ sems' = [s \in DOMAIN sems \cup {nextSem} |->
                IF s = nextSem
                  THEN [value |-> v, acquirer |-> NoSeq, acqValue |-> 0,
                        waiters |-> {}]
                  ELSE sems[s]]
  /\ UNCHANGED <<live, nextSeq, ready, curr, evs, expireQ, ioQ, loop, now, kernel>>

BadWakeSemWaiters(s, e) ==
  LET F == {f \in sems[s].waiters : \A g \in sems[s].waiters : f <= g} IN
  /\ ready' = ready \cup F
  /\ evs' = EvsAfterWake(F)
  /\ expireQ' = ExpireAfterWake(expireQ, F)
  /\ ioQ' = IoAfterWake(ioQ, F)
  /\ sems' = SemsAfterWake([sems EXCEPT ![s] = e], F)
  /\ UNCHANGED <<ids, curr, loop, now, kernel>>

\* Wake all waiters of s, whose entry of sem_infos is otherwise e.
WakeSemWaiters(s, e) ==
  LET F == sems[s].waiters IN
  /\ ready' = ready \cup F
  /\ evs' = EvsAfterWake(F)
  /\ expireQ' = ExpireAfterWake(expireQ, F)
  /\ ioQ' = IoAfterWake(ioQ, F)
  /\ sems' = SemsAfterWake([sems EXCEPT ![s] = [e EXCEPT !.waiters = {}]], F)
  /\ UNCHANGED <<ids, curr, loop, now, kernel>>

BadUnregSem(s) ==
  /\ CanCall
  /\ s \in DOMAIN sems
  /\ sems' = Without(sems, s)
  /\ UNCHANGED <<ids, ready, curr, evs, expireQ, ioQ, loop, now, kernel>>

UnregSem(s) ==
  /\ CanCall
  /\ s \in DOMAIN sems
  /\ LET F == sems[s].waiters
     IN  /\ ready' = ready \cup F
         /\ evs' = EvsAfterWake(F)
         /\ expireQ' = ExpireAfterWake(expireQ, F)
         /\ ioQ' = IoAfterWake(ioQ, F)
         /\ sems' = Without(SemsAfterWake(sems, F), s)
  /\ UNCHANGED <<ids, curr, loop, now, kernel>>

\* What TryAcquireSem grants the running fiber: all of n or what there is,
\* and nothing while some other fiber is acquiring.
Granted(s, n) ==
  IF sems[s].acquirer \notin {NoSeq, curr} THEN 0
  ELSE IF sems[s].value >= n THEN n ELSE sems[s].value

BadTakeOver(s, n) ==
  LET e == sems[s]
      g == Granted(s, n)
  IN  IF g = n
        THEN [e EXCEPT !.value = @ - g, !.acquirer = NoSeq, !.acqValue = 0]
        ELSE [e EXCEPT !.value = 0, !.acquirer = curr, !.acqValue = @ + g]

BadAddUp(s, n) ==
  LET e == sems[s]
      g == Granted(s, n)
  IN  IF e.acquirer \notin {NoSeq, curr} THEN e
      ELSE IF g = n
        THEN [e EXCEPT !.value = @ - g, !.acquirer = NoSeq, !.acqValue = 0]
        ELSE [e EXCEPT !.value = 0, !.acquirer = curr, !.acqValue = g]

\* The entry of sem_infos after TryAcquireSem: short of n, the fiber becomes
\* or stays the acquirer and keeps what it has got in acquiring_value_.
AfterTryAcquire(s, n) ==
  LET e == sems[s]
      g == Granted(s, n)
  IN  IF e.acquirer \notin {NoSeq, curr} THEN e
      ELSE IF g = n
        THEN [e EXCEPT !.value = @ - g, !.acquirer = NoSeq, !.acqValue = 0]
        ELSE [e EXCEPT !.value = 0, !.acquirer = curr, !.acqValue = @ + g]

TryAcquireSem(s, n) ==
  /\ curr /= None
  /\ s \in DOMAIN sems
  /\ n > 0
  /\ sems' = [sems EXCEPT ![s] = AfterTryAcquire(s, n)]
  /\ UNCHANGED <<ids, ready, curr, evs, expireQ, ioQ, loop, now, kernel>>

BadRestore(s, n) ==
  /\ s \in DOMAIN sems
  /\ sems[s].acquirer = curr /\ sems[s].acqValue = n
  /\ WakeSemWaiters(s, [sems[s] EXCEPT !.acquirer = NoSeq, !.acqValue = 0])

\* RestoreAcquiringSem, under its two assertions.
RestoreAcquiringSem(s, n) ==
  /\ s \in DOMAIN sems
  /\ sems[s].acquirer = curr /\ sems[s].acqValue = n
  /\ UInt64Max - sems[s].value >= n
  /\ WakeSemWaiters(s, [sems[s] EXCEPT !.value = @ + n, !.acquirer = NoSeq,
                                       !.acqValue = 0])

BadOverflowsNever(s, n) == FALSE

BadOverflows(s, n) == UInt64Max - sems[s].value < n

\* The overflow test of ReleaseSem; a release that fails changes nothing.
Overflows(s, n) == UInt64Max - sems[s].value - sems[s].acqValue < n

ReleaseSem(s, n) ==
  /\ CanCall
  /\ s \in DOMAIN sems
  /\ ~ Overflows(s, n)
  /\ WakeSemWaiters(s, [sems[s] EXCEPT !.value = @ + n])

-----------------------------------------------------------------------------
(* The loop of Run.                                                        *)

Run ==
  /\ phase = "main"
  /\ phase' = "loop"
  /\ UNCHANGED <<ids, ready, curr, queues, batch, waitUntil, now, kernel>>

\* running_fibers takes over ready_fibers.
TakeReady ==
  /\ phase = "loop"
  /\ batch' = ready
  /\ ready' = {}
  /\ phase' = "batch"
  /\ UNCHANGED <<ids, curr, queues, waitUntil, now, kernel>>

\* Jump to the next fiber of running_fibers, in the order of their seqs.
Resume ==
  /\ phase = "batch" /\ curr = None
  /\ \E f \in batch :
       /\ \A g \in batch : f <= g
       /\ curr' = f
       /\ batch' = batch \ {f}
  /\ UNCHANGED <<ids, ready, queues, phase, waitUntil, now, kernel>>

BadDueEarly == {t \in DOMAIN expireQ : t <= now + 1}

BadDueLate == {t \in DOMAIN expireQ : t < now}

Due == {t \in DOMAIN expireQ : t <= now}

\* "check expiring": pop every entry that is due and wake up its fibers.
CheckExpiring ==
  /\ phase = "batch" /\ curr = None /\ batch = {}
  /\ LET F     == UNION {expireQ[t] : t \in Due}
         later == [t \in DOMAIN expireQ \ Due |-> expireQ[t]]
     IN  /\ ready' = ready \cup F
         /\ evs' = EvsAfterWake(F)
         /\ expireQ' = ExpireAfterWake(later, F)
         /\ ioQ' = IoAfterWake(ioQ, F)
         /\ sems' = SemsAfterWake(sems, F)
  /\ phase' = "poll"
  /\ UNCHANGED <<ids, curr, batch, waitUntil, now, kernel>>

\* The conversion (int)n of an int64_t.
ToInt(n) == ((n + IntHalf) % (2 * IntHalf)) - IntHalf

Lesser(m, n) == IF m <= n THEN m ELSE n

BadPollTimeoutReady ==
  IF DOMAIN expireQ = {} THEN PollMax
  ELSE LET first == CHOOSE t \in DOMAIN expireQ :
                      \A u \in DOMAIN expireQ : t <= u
       IN  IF first > now THEN Lesser(PollMax, ToInt(first - now)) ELSE 0

BadPollTimeoutCap ==
  IF DOMAIN expireQ = {} THEN -1
  ELSE LET first == CHOOSE t \in DOMAIN expireQ :
                      \A u \in DOMAIN expireQ : t <= u
       IN  IF first > now THEN ToInt(first - now) ELSE 0

\* ep_wait_timeout, from the entries of the expire queue that are left.
PollTimeout ==
  LET cap == IF ready = {} THEN PollMax ELSE 0
  IN  IF DOMAIN expireQ = {} THEN cap
      ELSE LET first == CHOOSE t \in DOMAIN expireQ :
                          \A u \in DOMAIN expireQ : t <= u
           IN  IF first > now THEN Lesser(cap, ToInt(first - now)) ELSE 0

\* "check io ev": call epoll_wait; a negative timeout has no end.
EnterWait ==
  /\ phase = "poll"
  /\ phase' = "wait"
  /\ waitUntil' = IF PollTimeout < 0 THEN Forever ELSE now + PollTimeout
  /\ UNCHANGED <<ids, ready, curr, queues, batch, now, kernel>>

\* epoll_wait returns without events: timed out, or interrupted (EINTR).  It
\* reports events before it looks at the time or at signals.
WaitTimedOut ==
  /\ phase = "wait"
  /\ pending = {}
  /\ waitUntil /= Forever /\ now >= waitUntil
  /\ phase' = "loop"
  /\ waitUntil' = 0
  /\ UNCHANGED <<ids, ready, curr, queues, batch, now, kernel>>

WaitInterrupted ==
  /\ phase = "wait"
  /\ pending = {}
  /\ phase' = "loop"
  /\ waitUntil' = 0
  /\ UNCHANGED <<ids, ready, curr, queues, batch, now, kernel>>

\* Any other error: Run returns to its caller.
WaitFailed ==
  /\ phase = "wait"
  /\ phase' = "main"
  /\ waitUntil' = 0
  /\ UNCHANGED <<ids, ready, curr, queues, batch, now, kernel>>

BadIoWoken(in, out) ==
  LET F == UNION {ioQ[d].r : d \in in \cap DOMAIN ioQ}
  IN  {f \in F : \A g \in F : f <= g}

BadIoWokenBoth(in, out) ==
  UNION {ioQ[d].r \cup ioQ[d].w : d \in (in \cup out) \cap DOMAIN ioQ}

\* The fibers woken by epoll events: fds of in are readable, of out writable
\* (EPOLLERR and EPOLLHUP put an fd in both); fds that are not registered
\* are ignored.
IoWoken(in, out) ==
  (UNION {ioQ[d].r : d \in in \cap DOMAIN ioQ}) \cup
  (UNION {ioQ[d].w : d \in out \cap DOMAIN ioQ})

WaitReturns(in, out) ==
  /\ phase = "wait"
  /\ in \cup out \subseteq pending
  /\ in \cup out /= {}
  /\ Cardinality(in \cup out) = Lesser(Cardinality(pending), EvCountMax)
  /\ LET F == IoWoken(in, out)
         cleared == [d \in DOMAIN ioQ |->
                       [r |-> IF d \in in THEN {} ELSE ioQ[d].r,
                        w |-> IF d \in out THEN {} ELSE ioQ[d].w]]
     IN  /\ ready' = ready \cup F
         /\ evs' = EvsAfterWake(F)
         /\ expireQ' = ExpireAfterWake(expireQ, F)
         /\ ioQ' = IoAfterWake(cleared, F)
         /\ sems' = SemsAfterWake(sems, F)
  /\ pending' = pending \ (in \cup out)
  /\ phase' = "loop"
  /\ waitUntil' = 0
  /\ UNCHANGED <<ids, curr, batch, now, interest>>

-----------------------------------------------------------------------------
(* The clock and the kernel.                                               *)

Tick ==
  /\ now < MaxTime
  /\ now' = now + 1
  /\ UNCHANGED <<ids, ready, curr, queues, loop, kernel>>

\* An edge on an fd of the epoll set (EPOLLET).
Edge(d) ==
  /\ d \in interest \ pending
  /\ pending' = pending \cup {d}
  /\ UNCHANGED <<ids, ready, curr, queues, loop, now, interest>>

\* What an edge was about is over before epoll_wait has reported it.
EdgeOver(d) ==
  /\ d \in pending
  /\ pending' = pending \ {d}
  /\ UNCHANGED <<ids, ready, curr, queues, loop, now, interest>>

\* close() of an fd that EPOLL_CTL_DEL left behind.
KernelClose(d) ==
  /\ d \in interest \ DOMAIN ioQ
  /\ interest' = interest \ {d}
  /\ pending' = pending \ {d}
  /\ UNCHANGED <<ids, ready, curr, queues, loop, now>>

LoopStep ==
  \/ TakeReady \/ Resume \/ CheckExpiring \/ EnterWait \/ WaitTimedOut
  \/ \E in, out \in SUBSET Fd : WaitReturns(in, out)

Leave == Yield \/ SleepMS \/ WaitFd \/ Finish

FdCall == \E d \in Fd : RegRawFd(d) \/ UnregRawFd(d)

SemCall ==
  \/ \E v \in Value : RegSem(v)
  \/ \E s \in SemId : UnregSem(s)
  \/ \E s \in SemId, n \in Value : ReleaseSem(s, n)

\* Acquire restores only what it has got, never nothing.
AcquireCall ==
  \/ \E s \in SemId, n \in Value : TryAcquireSem(s, n)
  \/ \E s \in SemId, n \in Value \ {0} : RestoreAcquiringSem(s, n)
  \/ \E s \in SemId, t \in Expiries : WaitSem(t, s)

Environment == Tick \/ \E d \in Fd : Edge(d) \/ EdgeOver(d) \/ KernelClose(d)

SchedNext ==
  \/ Create \/ Leave \/ FdCall \/ SemCall \/ AcquireCall
  \/ Run \/ LoopStep \/ WaitInterrupted \/ WaitFailed
  \/ Environment

SchedSpec == SchedInit /\ [][SchedNext]_schedVars

-----------------------------------------------------------------------------
(* What the scheduler promises.                                            *)

Parked(f) == evs[f] /= NoEvents

(* Every live fiber is in exactly one place: it runs, is still to be run   *)
(* in this round, is ready for the next one, or is parked.  So Run never   *)
(* resumes a destroyed or a parked fiber, and no fiber is lost.            *)
Placement ==
  /\ \A f \in Fiber :
       f \in live <=> f = curr \/ f \in batch \/ f \in ready \/ Parked(f)
  /\ batch \cap ready = {}
  /\ curr \notin batch \cup ready
  /\ \A f \in batch \cup ready \cup {curr} : f \in Fiber => ~ Parked(f)
  /\ batch /= {} \/ curr /= None => phase = "batch"

(* The waiting queues and the fibers' waiting events name each other       *)
(* exactly: WakeUpFibers leaves no fiber behind in a queue, where a later  *)
(* event would resume it a second time, and needs no entry that is gone,   *)
(* so that its io_waiting_fibers[fd] never re-creates an unregistered fd.  *)
ExpireConsistent(e, q) ==
  /\ \A t \in DOMAIN q : q[t] = {f \in Fiber : e[f].expire = t}
  /\ \A f \in Fiber : e[f].expire >= 0 => e[f].expire \in DOMAIN q

IoConsistent(e, q) ==
  /\ \A d \in DOMAIN q : /\ q[d].r = {f \in Fiber : d \in e[f].r}
                         /\ q[d].w = {f \in Fiber : d \in e[f].w}
  /\ \A f \in Fiber : e[f].r \cup e[f].w \subseteq DOMAIN q

SemConsistent(e, q) ==
  /\ \A s \in DOMAIN q : q[s].waiters = {f \in Fiber : s \in e[f].sems}
  /\ \A f \in Fiber : e[f].sems \subseteq DOMAIN q

QueuesConsistent ==
  /\ ExpireConsistent(evs, expireQ)
  /\ IoConsistent(evs, ioQ)
  /\ SemConsistent(evs, sems)

(* A semaphore's free value and the part its acquirer has taken so far fit *)
(* in a uint64_t together, which the assertions of TryAcquireSem and       *)
(* ReleaseSem rely on, and without an acquirer nothing is taken.           *)
SemBounded ==
  \A s \in DOMAIN sems :
    /\ sems[s].value + sems[s].acqValue <= UInt64Max
    /\ sems[s].acquirer = NoSeq => sems[s].acqValue = 0

(* Sequence numbers are not used twice. *)
Numbering ==
  /\ \A f \in live : f < nextSeq
  /\ \A s \in DOMAIN sems : s < nextSem

SchedInv == SchedTypeOK /\ Placement /\ QueuesConsistent /\ SemBounded /\ Numbering

(* Run does not sleep past work it knows of: with a ready fiber epoll_wait *)
(* returns at once, and it never outlasts the first timer.                 *)
NoOversleep ==
  phase = "wait" =>
    /\ ready /= {} => waitUntil \in 0..now
    /\ \A t \in DOMAIN expireQ : waitUntil \in 0..now \/ waitUntil \in 0..t

\* Value has come to s, by a release (of 0 even) or by a restore.
Signalled(s) == sems'[s].value > sems[s].value \/ ReleaseSem(s, 0)

(* A parked fiber is woken only by something it waits for: its time is     *)
(* over, one of its fds has an event reported or is unregistered, or value *)
(* has come to its semaphore or the semaphore is destroyed; that the       *)
(* fiber leaves a queue proves nothing of its event.  In particular        *)
(* SleepMS never returns early.  Which way an fd is ready is Net's.        *)
WokenFor(f) ==
  \/ evs[f].expire \in 0..now
  \/ \E d \in evs[f].r \cup evs[f].w : d \in pending \ pending' \/ d \notin DOMAIN ioQ'
  \/ \E s \in evs[f].sems : s \notin DOMAIN sems' \/ Signalled(s)

NoSpuriousWakeUp ==
  [][\A f \in Fiber : Parked(f) /\ ~ Parked(f)' => WokenFor(f)]_schedVars

(* Fairness: the loop of Run goes on, time passes, and the fibers are      *)
(* cooperative: one that runs gives up the thread in the end.              *)
SchedFairness ==
  /\ WF_schedVars(LoopStep)
  /\ WF_schedVars(Tick)
  /\ WF_schedVars(Leave)

SchedFairSpec == SchedSpec /\ SchedFairness

(* A ready fiber runs in the end, whatever the others do, unless epoll_wait *)
(* fails and Run returns.                                                   *)
ReadyRuns ==
  \A f \in Fiber : f \in ready ~> curr = f \/ phase = "main"

(* A fiber that sleeps or waits with a time out does not stay parked       *)
(* forever, even when the event it waits for never happens.                *)
TimersFire ==
  \A f \in Fiber :
    evs[f].expire >= 0 /\ phase /= "main" ~> evs[f].expire < 0 \/ phase = "main"

-----------------------------------------------------------------------------
(* What a comment of the code says, and what does not hold.                *)

(* sched.cpp: a fiber that switches with empty events is "ready at once".  *)
(* With a timer 2^31 ms or more away the conversion of PollTimeout makes   *)
(* epoll_wait's timeout negative, and Run blocks with a ready fiber.       *)
ReadyAtOnce ==
  phase = "wait" /\ ready /= {} => waitUntil \in 0..now

=============================================================================
