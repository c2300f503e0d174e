---------------------------- MODULE SchedSession ----------------------------
(***************************************************************************)
(* A scheduling session of mbatchd (scheduleAndDispatchJobs, mbd.policy.c). *)
(* A session runs in stages and returns whenever it has stayed too long;    *)
(* the next call goes on from the stage reached, and requests, status       *)
(* reports and timeouts are handled in between.  The reasons why a host, a  *)
(* queue or a user cannot be served are cached: those of a job limit are    *)
(* kept from session to session and set and cleared by the job counters     *)
(* (mbd.misc.c), the others are computed once per session.  Every job needs *)
(* one slot; which of the usable hosts it gets is the subject of HostChoice.*)
(***************************************************************************)
EXTENDS Integers, Sequences, FiniteSets, FiniteSetsExt

CONSTANTS
  CheckEvery,     \* jobs scheduled between two looks at the clock
  MaxStartErrors  \* bound on the dispatches that fail

VARIABLES
  sin,    \* the scenario: hosts, queues, user limits, jobs, what else happens
  sst,    \* mSchedStage: the last stage completed, "none" between sessions
  syld,   \* the call has returned: mbatchd may handle something else
  sn,     \* numSched
  srefs,  \* jRefList
  scur,   \* current: the job of its entry, 0 for NULL
  snl,    \* numLsbUsable
  snq,    \* numQUsable
  sjob,   \* jobs: status and host
  shr,    \* hReasonTb[1]
  sqr,    \* qPtr->reasonTb[1], of the queue as a whole at 0
  sur,    \* uPtr->reasonTb[1][0]
  shs,    \* hStatus: closed by the administrator, unreachable
  sacc,   \* hosts that took a job within the accept interval
  serr,   \* dispatches that failed so far
  soff,   \* history: the jobs offered in this session
  sclo,   \* history: the hosts closed since before this session
  shit    \* history: the last job was dispatched to one of these

svars == <<sin, sst, syld, sn, srefs, scur, snl, snq, sjob, shr, sqr, sur, shs,
           sacc, serr, soff, sclo, shit>>
Tables == <<shr, sqr, sur>>

SessJobs == DOMAIN sin.jobs
SessHosts == DOMAIN sin.hosts
SessQueues == DOMAIN sin.queues
Users == DOMAIN sin.users
J(j) == sin.jobs[j]
Q(q) == sin.queues[q]
PrioOf(j) == Q(J(j).queue).prio

(* The slots in use, by host, queue and user. *)
OnHost(job, h) == {j \in SessJobs : job[j].st \in {"run", "ssusp"} /\ job[j].host = h}
OfQueue(job, q) == {j \in SessJobs : job[j].st \in {"run", "ssusp"} /\ J(j).queue = q}
OfUser(job, u) == {j \in SessJobs : job[j].st \in {"run", "ssusp"} /\ J(j).user = u}
HostRoom(job, h) == sin.hosts[h] - Cardinality(OnHost(job, h))
QueueRoom(job, q) == Q(q).max - Cardinality(OfQueue(job, q))
UserRoom(job, u) == sin.users[u] - Cardinality(OfUser(job, u))
QHostRoom(job, q, h) == Q(q).hjl - Cardinality(OfQueue(job, q) \cap OnHost(job, h))

(***************************************************************************)
(* Reasons.  "" is none; those of a job limit are OUT_SCHED_RS.             *)
(***************************************************************************)
OUT_SCHED_RS(r) == r \in {"hostlimit", "quelimit", "quehostlimit", "userlimit"}
CLEAR_REASON(v, r) == IF v = r THEN "" ELSE v
SET_REASON(c, v, r) == IF c THEN r ELSE CLEAR_REASON(v, r)

(* The counters change for one job of queue q and user u on host h. *)
updQaccount(job, q, h) ==
  [sqr EXCEPT ![q][0] = SET_REASON(QueueRoom(job, q) <= 0, @, "quelimit"),
              ![q][h] = SET_REASON(QHostRoom(job, q, h) <= 0, @, "quehostlimit")]

updUserData(job, u) ==
  [sur EXCEPT ![u] = SET_REASON(UserRoom(job, u) <= 0, @, "userlimit")]

Mut_updHostData(job, h) ==
  [shr EXCEPT ![h] = IF HostRoom(job, h) <= 0 THEN "hostlimit" ELSE @]

updHostData(job, h) ==
  [shr EXCEPT ![h] = IF HostRoom(job, h) <= 0 THEN "hostlimit"
                     ELSE CLEAR_REASON(@, "hostlimit")]

updCountersOf(job, j, h) ==
  /\ sjob' = job
  /\ sqr' = updQaccount(job, J(j).queue, h)
  /\ sur' = updUserData(job, J(j).user)
  /\ shr' = updHostData(job, h)

(***************************************************************************)
(* The stages.                                                              *)
(***************************************************************************)
(* The configuration and the jobs of a scenario. *)
SessionScenario(sc) ==
  /\ sc.hosts \in Seq(Nat) /\ sc.users \in Seq(Nat)
  /\ sc.queues \in Seq([prio : Nat, max : Nat, hjl : Nat, accept : BOOLEAN, rr : BOOLEAN,
                         member : SUBSET DOMAIN sc.hosts])
  /\ sc.jobs \in Seq([queue : DOMAIN sc.queues, user : DOMAIN sc.users,
                       st : {"new", "pend", "psusp"}])

(* The reason of a limit of 0 is there from the first job on. *)
SessionInit(sc) ==
  /\ sin = sc
  /\ sst = "none" /\ syld = TRUE /\ sn = 0 /\ srefs = <<>> /\ scur = 0
  /\ snl = 0 /\ snq = 0 /\ serr = 0
  /\ sjob = [j \in DOMAIN sc.jobs |-> [st |-> sc.jobs[j].st, host |-> 0]]
  /\ shr = [h \in DOMAIN sc.hosts |-> ""]
  /\ sqr = [q \in DOMAIN sc.queues |-> [h \in 0..Len(sc.hosts) |->
              SET_REASON(h = 0 /\ sc.queues[q].max <= 0, "", "quelimit")]]
  /\ sur = [u \in DOMAIN sc.users |-> SET_REASON(sc.users[u] <= 0, "", "userlimit")]
  /\ shs = [h \in DOMAIN sc.hosts |-> {}]
  /\ sacc = {} /\ soff = {} /\ sclo = {} /\ shit = FALSE

(* The jobs of the pending list, those of a higher priority first and else in
   the order of submission: the i-th has i - 1 before it. *)
SchedBefore(a, b) == PrioOf(a) > PrioOf(b) \/ (PrioOf(a) = PrioOf(b) /\ a < b)
PendingJobs == {j \in SessJobs : sjob[j].st \in {"pend", "psusp"}}
PlaceInPJL(j) == Cardinality({k \in PendingJobs : SchedBefore(k, j)})
PJL == [i \in 1..Cardinality(PendingJobs) |-> CHOOSE j \in PendingJobs : PlaceInPJL(j) = i - 1]

M_STAGE_INIT ==
  /\ sst = "none"
  /\ sst' = "init" /\ srefs' = PJL /\ scur' = 0
  /\ soff' = {} /\ sclo' = {h \in SessHosts : "closed" \in shs[h]}
  /\ syld' = FALSE
  /\ UNCHANGED <<sin, sn, snl, snq, sjob, Tables, shs, sacc, serr, shit>>

(* Loads and host status are asked of LIM; a failure returns at once. *)
M_STAGE_GOT_LOAD ==
  /\ sst = "init"
  /\ sst' \in {"init", "load"} /\ syld' \in BOOLEAN
  /\ sst' = "init" => syld'
  /\ UNCHANGED <<sin, sn, srefs, scur, snl, snq, sjob, Tables, shs, sacc, serr,
                 soff, sclo, shit>>

(* tryResume: any of the jobs suspended by the system may go on. *)
M_STAGE_RESUME_SUSP ==
  /\ sst = "load"
  /\ \E R \in SUBSET {j \in SessJobs : sjob[j].st = "ssusp"} :
       sjob' = [j \in SessJobs |-> IF j \in R THEN [sjob[j] EXCEPT !.st = "run"] ELSE sjob[j]]
  /\ sst' = "resume" /\ syld' \in BOOLEAN
  /\ UNCHANGED <<sin, sn, srefs, scur, snl, snq, Tables, shs, sacc, serr, soff,
                 sclo, shit>>

HostReason(h) ==
  IF OUT_SCHED_RS(shr[h]) THEN shr[h]
  ELSE IF "down" \in shs[h] THEN "unreach"
  ELSE IF "closed" \in shs[h] THEN "disabled" ELSE ""

getLsbUsable ==
  /\ sst = "resume"
  /\ shr' = [h \in SessHosts |-> HostReason(h)]
  /\ snl' = Cardinality({h \in SessHosts : HostReason(h) = ""})
  /\ sacc' = {h \in sacc : OnHost(sjob, h) # {}}
  /\ sst' = "hosts" /\ syld' \in BOOLEAN
  /\ UNCHANGED <<sin, sn, srefs, scur, snq, sjob, sqr, sur, shs, serr, soff, sclo, shit>>

QueueReason(q, h) ==
  IF h \notin Q(q).member THEN "member"
  ELSE IF \E j \in OnHost(sjob, h) : sjob[j].st = "ssusp" /\ PrioOf(j) >= Q(q).prio
       THEN "ssusp"
  ELSE IF OUT_SCHED_RS(sqr[q][h]) THEN sqr[q][h]
  ELSE IF Q(q).accept /\ h \in sacc THEN "accept" ELSE ""

(* A queue without jobs, or at its limit, keeps the reasons it had, and so
   does a host that is not usable. *)
getQUsable(q, h) ==
  IF \/ ~\E j \in SessJobs : J(j).queue = q /\ sjob[j].st \in {"pend", "psusp", "ssusp"}
     \/ sqr[q][0] = "quelimit" \/ h = 0
  THEN sqr[q][h]
  ELSE IF shr[h] # "" THEN sqr[q][h] ELSE QueueReason(q, h)

UsableBy(q) ==
  IF sqr[q][0] = "quelimit" THEN {}
  ELSE {h \in SessHosts : shr[h] = "" /\ QueueReason(q, h) = ""}

(* The end of a session before its jobs are looked at. *)
resetSchedulerSession ==
  /\ sst' = "none" /\ srefs' = <<>> /\ scur' = 0 /\ syld' = TRUE /\ sn' = 0
  /\ UNCHANGED <<sin, snl, sjob, Tables, shs, sacc, serr, soff, sclo, shit>>

NoHostUsable == sst = "hosts" /\ snl <= 0 /\ snq' = 0 /\ resetSchedulerSession

M_STAGE_QUE_CAND ==
  /\ sst = "hosts" /\ snl > 0
  /\ sqr' = [q \in SessQueues |-> [h \in 0..Len(sin.hosts) |-> getQUsable(q, h)]]
  /\ snq' = Cardinality({x \in SessQueues \X SessHosts :
                /\ \E j \in SessJobs : J(j).queue = x[1] /\ sjob[j].st \in {"pend", "psusp", "ssusp"}
                /\ x[2] \in UsableBy(x[1])})
  /\ sst' = "queues" /\ sn' = 0 /\ syld' = FALSE
  /\ UNCHANGED <<sin, srefs, scur, snl, sjob, shr, sur, shs, sacc, serr, soff, sclo, shit>>

NothingToSchedule ==
  /\ sst = "queues" /\ sn = 0
  /\ snl <= 0 \/ snq <= 0 \/ srefs = <<>>
  /\ snq' = 0
  /\ resetSchedulerSession

(* The loop over the jobs; a call that comes back to it looks at the counts. *)
Scheduling == sst = "queues" /\ srefs # <<>> /\ (sn > 0 \/ (snl > 0 /\ snq > 0))

(* Every few jobs the session looks at the clock. *)
StayTooLong ==
  /\ Scheduling
  /\ sn % CheckEvery = 0 /\ ~syld
  /\ syld' = TRUE /\ sn' = 0
  /\ UNCHANGED <<sin, sst, srefs, scur, snl, snq, sjob, Tables, shs, sacc, serr,
                 soff, sclo, shit>>

(***************************************************************************)
(* The jobs.                                                                *)
(***************************************************************************)
UserRuns(j) == Cardinality({k \in SessJobs : sjob[k].st = "run" /\ J(k).user = J(j).user})
RoundRobin(j) == Q(J(j).queue).rr
Place(j) == CHOOSE i \in DOMAIN srefs : srefs[i] = j

(* Where the walk over jRefList stops: at a job without round robin, or at the
   last round robin job of a priority. *)
WalkEnd(from) ==
  Min({i \in from..Len(srefs) :
         \/ ~RoundRobin(srefs[i])
         \/ i = Len(srefs) \/ PrioOf(srefs[i]) # PrioOf(srefs[i + 1])})

(* The job taken next: of a round robin priority, the first job of a user with
   the fewest running jobs. *)
NextJob ==
  LET from == IF scur = 0 THEN 1 ELSE Place(scur)
      end == WalkEnd(from)
      least == {i \in from..end : \A k \in from..end :
                  UserRuns(srefs[i]) <= UserRuns(srefs[k])}
  IN IF RoundRobin(srefs[end]) THEN srefs[Min(least)] ELSE srefs[end]

(* current after the walk: the entry after the one it stopped at. *)
NextCurrent ==
  LET end == WalkEnd(IF scur = 0 THEN 1 ELSE Place(scur))
  IN IF end = Len(srefs) THEN 0 ELSE srefs[end + 1]

readyToDisp(j) ==
  /\ sjob[j].st = "pend"
  /\ sqr[J(j).queue][0] # "quelimit"
  /\ sur[J(j).user] # "userlimit"

(* Hosts the job may use: no reason against them, and the counters agree. *)
getJUsableNow(j) ==
  {h \in SessHosts :
     /\ shr[h] = "" /\ sqr[J(j).queue][h] = ""
     /\ h \in Q(J(j).queue).member
     /\ HostRoom(sjob, h) > 0 /\ QHostRoom(sjob, J(j).queue, h) > 0}

(* After a dispatch, hosts that accept one job at a time are out for all the
   queues. *)
setExecHostsAcceptInterval(qr, j, h) ==
  [q \in SessQueues |-> [qr[q] EXCEPT ![h] =
     IF Q(J(j).queue).accept /\ ~OUT_SCHED_RS(@) THEN "accept" ELSE @]]

Taken(j) ==
  /\ srefs' = SubSeq(srefs, 1, Place(j) - 1) \o SubSeq(srefs, Place(j) + 1, Len(srefs))
  /\ scur' = NextCurrent
  /\ soff' = IF srefs' = <<>> THEN {} ELSE soff \cup {j}

(* The last round ends the session (disp_clean). *)
EndOfRound ==
  /\ syld' = (srefs' = <<>>) /\ sn' = IF srefs' = <<>> THEN 0 ELSE sn + 1
  /\ sst' = IF srefs' = <<>> THEN "none" ELSE sst

(* Errors of hosts are noted for the session. *)
Failed(F) == [h \in SessHosts |-> IF h \in F THEN "start" ELSE shr[h]]

NotDispatched(j) ==
  /\ ~readyToDisp(j) \/ getJUsableNow(j) = {}
  /\ Taken(j)
  /\ UNCHANGED <<snl, sjob, Tables, sacc, serr, shit>>
  /\ EndOfRound

(* dispatchAJob: hosts in F refuse the job; then it starts on another, or the
   candidates or the time run out. *)
DispatchFails(j) ==
  /\ readyToDisp(j)
  /\ syld' \in BOOLEAN
  /\ \E F \in (SUBSET getJUsableNow(j)) \ {{}} :
       /\ serr + Cardinality(F) <= MaxStartErrors
       /\ serr' = serr + Cardinality(F)
       /\ snl' = snl - Cardinality(F)
       /\ shr' = Failed(F)
       /\ F = getJUsableNow(j) \/ syld'
  /\ Taken(j)
  /\ \/ syld' /\ sn' = 0 /\ sst' = sst
     \/ EndOfRound
  /\ UNCHANGED <<sjob, sqr, sur, sacc, shit>>

SessDispatched(j) ==
  /\ readyToDisp(j)
  /\ \E F \in SUBSET getJUsableNow(j) : \E h \in getJUsableNow(j) \ F :
       LET job == [sjob EXCEPT ![j] = [st |-> "run", host |-> h]] IN
       /\ serr + Cardinality(F) <= MaxStartErrors
       /\ serr' = serr + Cardinality(F)
       /\ snl' = snl - Cardinality(F)
       /\ sjob' = job
       /\ sqr' = setExecHostsAcceptInterval(updQaccount(job, J(j).queue, h), j, h)
       /\ sur' = updUserData(job, J(j).user)
       /\ shr' = [g \in SessHosts |-> IF g = h THEN updHostData(job, h)[h] ELSE Failed(F)[g]]
       /\ sacc' = sacc \cup {h}
       /\ shit' = (h \in sclo)
  /\ Taken(j)
  /\ EndOfRound

(* One round of the loop; the last one ends the session. *)
scheduleAndDispatch ==
  /\ Scheduling
  /\ LET j == NextJob IN NotDispatched(j) \/ DispatchFails(j) \/ SessDispatched(j)
  /\ UNCHANGED <<sin, snq, shs, sclo>>

SessionStep ==
  \/ M_STAGE_INIT \/ M_STAGE_GOT_LOAD \/ M_STAGE_RESUME_SUSP \/ getLsbUsable
  \/ NoHostUsable \/ M_STAGE_QUE_CAND \/ NothingToSchedule
  \/ scheduleAndDispatch

(***************************************************************************)
(* What mbatchd handles while no call is under way.                         *)
(***************************************************************************)
SessionKept == UNCHANGED <<sin, sst, syld, sn, srefs, scur, snl, snq, serr, soff>>

jobSubmitted(j) ==
  /\ syld /\ "new" \in sin.env /\ sjob[j].st = "new"
  /\ sjob' = [sjob EXCEPT ![j].st = "pend"]
  /\ SessionKept /\ UNCHANGED <<Tables, shs, sacc, sclo, shit>>

(* A pending job is killed; its reference stays in jRefList. *)
jobKilled(j) ==
  /\ syld /\ "kill" \in sin.env /\ sjob[j].st \in {"pend", "psusp"}
  /\ sjob' = [sjob EXCEPT ![j].st = "done"]
  /\ SessionKept /\ UNCHANGED <<Tables, shs, sacc, sclo, shit>>

jobStopped(j) ==
  /\ syld /\ "stop" \in sin.env /\ sjob[j].st = "pend"
  /\ sjob' = [sjob EXCEPT ![j].st = "psusp"]
  /\ SessionKept /\ UNCHANGED <<Tables, shs, sacc, sclo, shit>>

jobFinished(j) ==
  /\ syld /\ "finish" \in sin.env /\ sjob[j].st \in {"run", "ssusp"}
  /\ updCountersOf([sjob EXCEPT ![j].st = "done"], j, sjob[j].host)
  /\ SessionKept /\ UNCHANGED <<shs, sacc, sclo, shit>>

jobSuspended(j) ==
  /\ syld /\ "suspend" \in sin.env /\ sjob[j].st = "run"
  /\ sjob' = [sjob EXCEPT ![j].st = "ssusp"]
  /\ SessionKept /\ UNCHANGED <<Tables, shs, sacc, sclo, shit>>

(* badmin hclose and hopen, and sbatchd lost or back. *)
ctrlHost(h) ==
  /\ syld /\ \E s \in {"closed", "down"} \cap sin.env :
       /\ shs' = [shs EXCEPT ![h] = IF s \in @ THEN @ \ {s} ELSE @ \cup {s}]
       /\ sclo' = IF s = "closed" THEN sclo \ {h} ELSE sclo
  /\ SessionKept /\ UNCHANGED <<sjob, Tables, sacc, shit>>

IntervalOver(h) ==
  /\ h \in sacc
  /\ sacc' = sacc \ {h}
  /\ SessionKept /\ UNCHANGED <<sjob, Tables, shs, sclo, shit>>

SessionNext ==
  \/ SessionStep \/ StayTooLong
  \/ \E j \in SessJobs : jobSubmitted(j) \/ jobKilled(j) \/ jobStopped(j)
                     \/ jobFinished(j) \/ jobSuspended(j)
  \/ \E h \in SessHosts : ctrlHost(h) \/ IntervalOver(h)

(* mbatchd calls the scheduler again and again, and an accept interval ends. *)
SessionFairness ==
  /\ WF_svars(SessionStep)
  /\ \A h \in {1, 2} : WF_svars(h \in SessHosts /\ IntervalOver(h))

(***************************************************************************)
(* Properties.                                                              *)
(***************************************************************************)
(* A cached limit reason is never out of date: whatever came between the
   calls of a session, the limit it names is reached (updCounters clears it
   where a job ends, the scheduler where it computes it). *)
CachedLimitsTrue ==
  /\ \A h \in SessHosts : shr[h] = "hostlimit" => HostRoom(sjob, h) <= 0
  /\ \A u \in Users : sur[u] = "userlimit" => UserRoom(sjob, u) <= 0
  /\ \A q \in SessQueues :
       /\ sqr[q][0] = "quelimit" => QueueRoom(sjob, q) <= 0
       /\ \A h \in SessHosts : sqr[q][h] = "quehostlimit" => QHostRoom(sjob, q, h) <= 0

(* No limit is exceeded: whatever the references and the cached reasons were
   worth after a yield, there are never more jobs on a host, in a queue, in a
   queue on a host or of a user than allowed. *)
JobLimitsKept ==
  /\ \A h \in SessHosts : HostRoom(sjob, h) >= 0
  /\ \A u \in Users : UserRoom(sjob, u) >= 0
  /\ \A q \in SessQueues :
       /\ QueueRoom(sjob, q) >= 0
       /\ \A h \in SessHosts : QHostRoom(sjob, q, h) >= 0

(* A reference that outlived its job is harmless: only a job that is still
   pending is started, and no limit is exceeded by it. *)
StaleReferenceHarmless ==
  [][\A j \in SessJobs : (sjob[j].st # "run" /\ sjob'[j].st = "run") =>
       /\ sjob[j].st \in {"pend", "ssusp"}
       /\ HostRoom(sjob', sjob'[j].host) >= 0 /\ UserRoom(sjob', J(j).user) >= 0
       /\ QueueRoom(sjob', J(j).queue) >= 0]_svars

(* Queues with a higher priority are searched first: no job waits for its turn
   in a session when one of a lower priority had it. *)
HigherPriorityFirst ==
  \A i \in DOMAIN srefs : \A j \in soff : PrioOf(j) >= PrioOf(srefs[i])

(* So it is without round robin, through every yield; a job is offered once. *)
OfferedInOrder ==
  /\ (\A q \in SessQueues : ~Q(q).rr) => HigherPriorityFirst
  /\ \A i \in DOMAIN srefs : srefs[i] \notin soff

(* A pending job that can run on some host for ever is dispatched: no session
   that stops half-way, no reason that outlives its cause and no reference
   that is dropped keeps it waiting. *)
CanRun(j) ==
  /\ sjob[j].st = "pend"
  /\ QueueRoom(sjob, J(j).queue) > 0 /\ UserRoom(sjob, J(j).user) > 0
  /\ \E h \in SessHosts :
       /\ shs[h] = {} /\ h \in Q(J(j).queue).member
       /\ HostRoom(sjob, h) > 0 /\ QHostRoom(sjob, J(j).queue, h) > 0
       /\ \A k \in OnHost(sjob, h) : sjob[k].st # "ssusp"

RunnableIsDispatched ==
  []<>(\A j \in SessJobs : ~CanRun(j))

\* Within a session, between the replies of sbatchds, the limits that
\* mbatchd has cached are those of the jobs that run and none is exceeded,
\* and jobs are offered in the order of their queues (updHostData,
\* scheduleAndDispatchJobs).
SessionSound == CachedLimitsTrue /\ JobLimitsKept /\ OfferedInOrder
=============================================================================
