------------------------------ MODULE SlotHold ------------------------------
(***************************************************************************)
(* Slot reservation and backfill (mbd.policy.c).  A parallel job that does  *)
(* not find enough slots reserves the ones there are (SLOT_RESERVE), keeps  *)
(* them from session to session for at most the hold time of its queue, and *)
(* predicts when it will start from the run limits of the running jobs.     *)
(* A job with a run limit in a BACKFILL queue may run in reserved slots it  *)
(* will have left before that time: the slots are lent to it while it is    *)
(* looked at, given back, and taken from the reservation if it starts.      *)
(* Preemption is left out: every candidate slot is available now.           *)
(***************************************************************************)
EXTENDS Integers, Sequences, FiniteSets, SequencesExt, FiniteSetsExt

CONSTANTS
  MaxHoldTime,   \* bound on the clock
  MaxDispFails   \* bound on the dispatches that fail

VARIABLES
  rin,    \* the scenario: hosts, jobs, whether pending jobs may be killed
  rnow,   \* now
  rdisp,  \* now_disp: when the session began
  rses,   \* the jobs still to be offered in this session, in order
  rjob,   \* jobs
  rfail,  \* dispatches that failed so far
  rheld   \* history: since when a job has held slots in every session

rvars == <<rin, rnow, rdisp, rses, rjob, rfail, rheld>>

(* rin.jobs[j] = [n, lim, hold, bf, que, hjl]: numProcessors, the run limit  *)
(* (0: none), the queue's slotHoldTime and BACKFILL, the queue and its       *)
(* limit of slots per host.  rin.hosts[h] = [max, cf]: slots and CPU factor. *)
RJobs == DOMAIN rin.jobs
RHosts == DOMAIN rin.hosts
RJ(j) == rin.jobs[j]
RH(h) == rin.hosts[h]

NoHeldSlots == [h \in RHosts |-> 0]
SumOver(S, op(_)) == Cardinality(UNION {{x} \X (1..op(x)) : x \in S})
Slots(f) == SumOver(RHosts, LAMBDA h : f[h])

Lesser(a, b) == IF a < b THEN a ELSE b
Greater(a, b) == IF a < b THEN b ELSE a

RunningSlots(job, h) == SumOver({j \in RJobs : job[j].st = "run"}, LAMBDA j : job[j].slots[h])
ReservedFor(job, h) == SumOver({j \in RJobs : job[j].resv}, LAMBDA j : job[j].slots[h])
OfQueueOn(job, q, h) ==
  SumOver({j \in RJobs : RJ(j).que = q /\ (job[j].st = "run" \/ job[j].resv)},
          LAMBDA j : job[j].slots[h])

(***************************************************************************)
(* Reservations.                                                            *)
(***************************************************************************)
reserveSlotsH(r, slots) ==
  IF Slots(slots) = 0 THEN [r EXCEPT !.resv = FALSE, !.slots = slots]
  ELSE [r EXCEPT !.resv = TRUE, !.slots = slots,
                 !.time = IF r.time = 0 THEN rnow ELSE @]

freeReserveSlotsH(r) == [r EXCEPT !.resv = FALSE, !.slots = NoHeldSlots]

(* Returns the job and whether it is scheduled in this session. *)
checkSlotReserveH(j, r) ==
  IF ~r.resv THEN [job |-> [r EXCEPT !.time = 0], go |-> TRUE]
  ELSE IF RJ(j).hold > 0 /\ r.time > 0 /\ rnow - r.time > RJ(j).hold
       THEN [job |-> [freeReserveSlotsH(r) EXCEPT !.time = 0], go |-> FALSE]
       ELSE [job |-> freeReserveSlotsH(r), go |-> TRUE]

(* When the running jobs on its candidate hosts will have left the slots it  *)
(* lacks; 0 when none of them has a run limit.                               *)
jobStartTime(job, cand, needed) ==
  LET left(x) == (RJ(x[1]).lim \div RH(x[2]).cf) - (rnow - job[x[1]].start)
      leaves == {x \in RJobs \X RHosts :
                   /\ job[x[1]].st = "run" /\ job[x[1]].slots[x[2]] > 0
                   /\ RJ(x[1]).lim > 0 /\ cand[x[2]] > 0}
      goneBy(t) == SumOver({x \in leaves : left(x) <= t}, LAMBDA x : job[x[1]].slots[x[2]])
      times == {left(x) : x \in leaves}
      enough == {t \in times : goneBy(t) >= needed}
  IN IF needed <= 0 \/ leaves = {} THEN 0
     ELSE rdisp + (IF enough # {} THEN Min(enough) ELSE Max(times))

(***************************************************************************)
(* Slots lent to job b on host h while it is looked at (getHostJobSlots).   *)
(***************************************************************************)
CanBackfill(b) == RJ(b).bf /\ RJ(b).lim > 0
FinishesOn(b, h) == rnow + RJ(b).lim \div RH(h).cf

Lends(job, b, h, r) ==
  IF CanBackfill(b) /\ job[r].resv /\ job[r].pst # 0 /\ job[r].pst >= FinishesOn(b, h)
  THEN Lesser(job[r].cand[h], job[r].slots[h]) ELSE 0

Lent(job, b, h) == SumOver(RJobs, LAMBDA r : Lends(job, b, h, r))
LentByOwn(job, b, h) ==
  SumOver({r \in RJobs : RJ(r).que = RJ(b).que}, LAMBDA r : Lends(job, b, h, r))

QueueRoomOn(job, b, h) ==
  Greater(0, RJ(b).hjl - OfQueueOn(job, RJ(b).que, h) + LentByOwn(job, b, h))
HostRoomFor(job, b, h) ==
  Greater(0, RH(h).max - RunningSlots(job, h) - ReservedFor(job, h) + Lent(job, b, h))

getHostJobSlotsH(job, b, h) ==
  Lesser(QueueRoomOn(job, b, h), HostRoomFor(job, b, h))

(* A return before the end of getHostJobSlots does not give the slots back:  *)
(* the reservations go on without them.                                      *)
KeepsLoan(job, b, h) == QueueRoomOn(job, b, h) = 0 \/ HostRoomFor(job, b, h) = 0
AfterLoans(job, b) ==
  [r \in RJobs |->
     IF \E h \in RHosts : KeepsLoan(job, b, h) /\ Lends(job, b, h, r) > 0
     THEN reserveSlotsH(job[r], [h \in RHosts |->
            job[r].slots[h] - IF KeepsLoan(job, b, h) THEN Lends(job, b, h, r) ELSE 0])
     ELSE job[r]]

(***************************************************************************)
(* The slots job b takes (getNumProcs): lent ones first, those with the     *)
(* least slack first, then the others on those hosts, then other hosts.     *)
(***************************************************************************)
Before(job, b, x, y) ==
  LET slack(z) == job[z[1]].pst - FinishesOn(b, z[2])
  IN \/ slack(x) < slack(y)
     \/ slack(x) = slack(y) /\ (x[2] < y[2] \/ (x[2] = y[2] /\ x[1] < y[1]))

Clamp(n, top) == Lesser(Greater(n, 0), top)

(* The slots taken from each lender: room[h] is getHostJobSlots. *)
FromLenders(job, b, room) ==
  LET lenders == {x \in RJobs \X RHosts : room[x[2]] > 0 /\ Lends(job, b, x[2], x[1]) > 0}
      before(x) == {y \in lenders : Before(job, b, y, x)}
      lends(x) == Lends(job, b, x[2], x[1])
      fits(x) == Clamp(room[x[2]] - SumOver({y \in before(x) : y[2] = x[2]}, lends), lends(x))
      takes(x) == Clamp(RJ(b).n - SumOver(before(x), fits), fits(x))
  IN [r \in RJobs |-> [h \in RHosts |-> IF <<r, h>> \in lenders THEN takes(<<r, h>>) ELSE 0]]

(* The hosts in turn, each giving what it has left. *)
FillUp(b, room, use, hosts) ==
  [h \in RHosts |->
     IF h \notin hosts THEN use[h]
     ELSE use[h] + Clamp(RJ(b).n - Slots(use)
                           - SumOver({g \in hosts : g < h}, LAMBDA g : room[g] - use[g]),
                         room[h] - use[h])]

Borrowed(from) == [h \in RHosts |-> SumOver(RJobs, LAMBDA r : from[r][h])]
BorrowedOn(from) == {h \in RHosts : \E r \in RJobs : from[r][h] > 0}
getNumProcsH(b, room, from) ==
  CHOOSE use \in {FillUp(b, room, lenders, RHosts \ BorrowedOn(from)) :
                    lenders \in {FillUp(b, room, Borrowed(from), BorrowedOn(from))}} : TRUE

Mut_freeBackfillSlots(job, from) == job

(* freeBackfillSlotsFromBackfillee: the slots leave the reservations. *)
freeBackfillSlots(job, from) ==
  [r \in RJobs |->
     IF Slots(from[r]) = 0 THEN job[r]
     ELSE LET kept == [h \in RHosts |-> job[r].slots[h] - from[r][h]]
          IN IF Slots(kept) = 0 THEN [freeReserveSlotsH(job[r]) EXCEPT !.time = 0]
             ELSE reserveSlotsH(job[r], kept)]

(* removeBackfillSlotsFromBackfiller: what is left of them for job b when    *)
(* there are not enough.                                                     *)
OwnSlots(job, b, room, from, use) ==
  [h \in RHosts |-> IF \E r \in RJobs : from[r][h] > 0
                    THEN Lesser(use[h], room[h] - Lent(job, b, h)) ELSE use[h]]

enoughMaxUsableSlots(b) ==
  SumOver(RHosts, LAMBDA h : Lesser(RH(h).max, RJ(b).hjl)) >= RJ(b).n

(***************************************************************************)
(* A job is offered (dispatchAJob).                                         *)
(***************************************************************************)
Dispatched(job, b, from, use) ==
  [freeBackfillSlots(job, from) EXCEPT
     ![b].st = "run", ![b].slots = use, ![b].start = rnow, ![b].time = 0]

(* The dispatch failed: the reservations have lost their slots already. *)
DispatchFailed(job, from) == freeBackfillSlots(job, from)

ReservedNow(job, b, own, cand) ==
  IF RJ(b).hold > 0 /\ enoughMaxUsableSlots(b) /\ Slots(own) > 0
  THEN [job EXCEPT ![b] = reserveSlotsH([@ EXCEPT !.cand = cand,
          !.pst = jobStartTime(job, cand, RJ(b).n - Slots(own))], own)]
  ELSE job

dispatchAJobH(job, b, room, from, use) ==
  \/ /\ Slots(use) >= RJ(b).n
     /\ \/ rjob' = Dispatched(job, b, from, use) /\ UNCHANGED rfail
        \/ /\ rfail < MaxDispFails /\ rfail' = rfail + 1
           /\ rjob' = DispatchFailed(job, from)
  \/ /\ Slots(use) < RJ(b).n
     /\ rjob' = ReservedNow(job, b, OwnSlots(rjob, b, room, from, use), room)
     /\ UNCHANGED rfail

Offer ==
  /\ rses # <<>>
  /\ LET b == Head(rses)
     IN /\ IF rjob[b].st # "pend" THEN UNCHANGED <<rjob, rfail>>
           ELSE \E room \in {[h \in RHosts |-> getHostJobSlotsH(rjob, b, h)]} :
                  \E from \in {FromLenders(rjob, b, room)} :
                    \E use \in {getNumProcsH(b, room, from)}, job \in {AfterLoans(rjob, b)} :
                      dispatchAJobH(job, b, room, from, use)
        /\ rses' = Tail(rses)
        /\ rheld' = [j \in RJobs |->
             IF rjob'[j].resv THEN IF rheld[j] = 0 THEN rnow ELSE rheld[j]
             ELSE IF rses' = <<>> THEN 0 ELSE rheld[j]]
  /\ UNCHANGED <<rin, rnow, rdisp>>

(***************************************************************************)
(* A session begins: every pending job is scanned before one is offered.    *)
(***************************************************************************)
StartSession ==
  /\ rses = <<>> /\ \E j \in RJobs : rjob[j].st = "pend"
  /\ \E scan \in {[j \in RJobs |-> IF rjob[j].st = "pend" THEN checkSlotReserveH(j, rjob[j])
                                   ELSE [job |-> rjob[j], go |-> FALSE]]} :
     /\ rjob' = [j \in RJobs |-> scan[j].job]
     /\ rses' = SetToSortSeq({j \in RJobs : scan[j].go}, <)
     /\ rheld' = [j \in RJobs |-> IF scan[j].go THEN rheld[j] ELSE 0]
  /\ rdisp' = rnow
  /\ UNCHANGED <<rin, rnow, rfail>>

(* A started job ends, within its run limit or when it is killed for it. *)
JobEnds(j) ==
  /\ rjob[j].st = "run"
  /\ rjob' = [rjob EXCEPT ![j].st = "done", ![j].slots = NoHeldSlots]
  /\ UNCHANGED <<rin, rnow, rdisp, rses, rfail, rheld>>

(* bkill of a pending job. *)
KillPending(j) ==
  /\ rin.kill /\ rjob[j].st = "pend"
  /\ rjob' = [rjob EXCEPT ![j] = [freeReserveSlotsH(@) EXCEPT !.st = "done"]]
  /\ rheld' = [rheld EXCEPT ![j] = 0]
  /\ UNCHANGED <<rin, rnow, rdisp, rses, rfail>>

Clock ==
  /\ rnow < MaxHoldTime
  /\ rnow' = rnow + 1
  /\ UNCHANGED <<rin, rdisp, rses, rjob, rfail, rheld>>

SlotHoldNext ==
  \/ StartSession \/ Offer \/ Clock
  \/ \E j \in RJobs : JobEnds(j) \/ KillPending(j)

SlotHoldInit(sc) ==
  /\ rin = sc /\ rnow = 1 /\ rdisp = 0 /\ rses = <<>> /\ rfail = 0
  /\ rjob = [j \in RJobs |->
       [st |-> IF RJ(j).on = 0 THEN "pend" ELSE "run", start |-> 1, resv |-> FALSE,
        time |-> 0, pst |-> 0, cand |-> NoHeldSlots,
        slots |-> [h \in RHosts |-> IF RJ(j).on = h THEN RJ(j).n ELSE 0]]]
  /\ rheld = [j \in RJobs |-> 0]

(* Sessions go on as long as jobs are pending, and started jobs end. *)
SlotHoldFairness ==
  /\ WF_rvars(StartSession \/ Offer)
  /\ \A j \in 1..4 : WF_rvars(j \in RJobs /\ JobEnds(j))

-----------------------------------------------------------------------------
(* Slots are never sold twice: through lending, giving back, backfilling and *)
(* early returns, the running and the reserved slots fit the host (numJobs,  *)
(* which counts both, against MXJ).                                          *)
SlotsNotOversold ==
  \A h \in RHosts : RunningSlots(rjob, h) + ReservedFor(rjob, h) <= RH(h).max

(* A job does not sit on slots longer than its queue allows: freeing and     *)
(* making the reservation anew in every session does not restart the hold    *)
(* time (reserveTime).                                                       *)
HoldBounded ==
  \A j \in RJobs : rjob[j].resv => rdisp - rheld[j] <= RJ(j).hold

(* What a waiting job has reserved is taken away in a session only for a job *)
(* that is dispatched there and leaves before the predicted start.  Two      *)
(* cases are known to take it for nothing: the queue of the job looked at is *)
(* at its limit on the host, and the dispatch fails.                         *)
YieldedOnlyToBackfill ==
  [][\A r \in RJobs, h \in RHosts :
       (Len(rses') < Len(rses) /\ rjob[r].resv /\ rjob[r].slots[h] > rjob'[r].slots[h])
         => LET b == Head(rses)
            IN \/ /\ rjob[b].st = "pend" /\ rjob'[b].st = "run"
                  /\ rjob'[b].slots[h] >= rjob[r].slots[h] - rjob'[r].slots[h]
                  /\ rnow + RJ(b).lim \div RH(h).cf <= rjob[r].pst
               \/ QueueRoomOn(rjob, b, h) = 0
               \/ rfail' > rfail]_rvars

(* The jobs that reserve slots do not keep each other from starting: every   *)
(* job is dispatched at last when the running ones end, as reservations are  *)
(* given up at the beginning of each session and made in the jobs' order.    *)
EveryJobStarts ==
  []<>(\A j \in RJobs : rjob[j].st # "pend")

\* Slots that are held for a job, lent to shorter ones and taken back are
\* never more than a host has, and are held no longer than MAX_RESERVE_TIME
\* allows (reserveSlots, freeBackfillSlots, checkSlotReserve).
HoldsSound == SlotsNotOversold /\ HoldBounded
=============================================================================
