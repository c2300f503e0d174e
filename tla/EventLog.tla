------------------------------ MODULE EventLog ------------------------------
(***************************************************************************)
(* The event log of mbatchd (lsbatch/daemons/mbd.log.c): what mbatchd has  *)
(* in core is rebuilt from lsb.events when it starts.  Every change is     *)
(* appended to the log; when enough jobs have been removed switch_log()    *)
(* archives the log and rewrites it without the records it takes to be no  *)
(* longer needed.  mbatchd can stop between any two system calls, also     *)
(* half way through a record or a switch.                                  *)
(*                                                                         *)
(* A job is an array of Elems; with Elems = {0} it is a plain job.         *)
(* Records carry a serial number n, which only properties look at.         *)
(***************************************************************************)
EXTENDS Integers, Sequences, FiniteSets, SequencesExt

CONSTANTS Hosts,        \* batch hosts, which badmin opens and closes
          SafeGap,      \* SAFE_JID_GAP
          MaxJobNum,    \* maxjobnum: removed jobs that make mbatchd switch
          Scenarios     \* bounds: what a behaviour has in it, see below

(* A scenario gives the kinds of operations, how many of them there are, the *)
(* ticks of the clock, stops of mbatchd and failing switches; the queues,    *)
(* the elements of a job and maxJobId, the bound of the job ids.             *)
ASSUME LogAssumption ==
    /\ SafeGap \in Nat /\ MaxJobNum \in Nat \ {0} 
    /\ \A s \in Scenarios :
         /\ s.ops \in Nat /\ s.ticks \in Nat /\ s.stops \in Nat /\ s.fails \in Nat
         /\ s.queues # {} /\ s.elems # {} /\ s.maxJobId \in Nat \ {0, 1}

VARIABLES
  (* mbatchd *)
  stage,      \* "down", "replay", "replayed" (until log_mbdStart), "run"
  jobs,       \* the elements in core
  hostClosed, \* hosts with HOST_STAT_DISABLED
  qClosed,    \* queues without QUEUE_STAT_OPEN
  qInactive,  \* queues without QUEUE_STAT_ACTIVE
  nextJobId, nextJobId_t,
  removed,    \* numRemoveJobs
  sw,         \* where mbatchd is in switch_log
  ctrl,       \* hostCtrlEvents, closedQueueEvents and inactiveQueueEvents
  (* the log directory *)
  log,        \* lsb.events
  pos,        \* records of it that the offset in its first line skips
  ev0,        \* lsb.events.0
  archive,    \* lsb.events.1, .2, ...: the newest first
  (* the world *)
  now,
  left,       \* what is left of the scenario
  (* history: serial of the last record, jobs a signal is owed to, whether
     a switch kept an UNFULFILL record and dropped the MBD_START after it,
     and whether a switch ended between the renames *)
  serial, owed, staled, torn

coreVars == <<jobs, hostClosed, qClosed, qInactive, nextJobId, nextJobId_t, removed>>
diskVars == <<log, pos, ev0, archive, serial>>
histVars == <<owed, staled, torn>>
vars == <<stage, coreVars, sw, ctrl, diskVars, now, left, histVars>>

NoSig == "SIG_NULL"
Sig == "SIGSTOP"
Pending == {"PEND", "PSUSP"}
Started == {"RUN", "USUSP"}
Finished == {"DONE", "EXIT"}
NoHost == "none"
MaxJobId == left.maxJobId
Elems == left.elems
Queues == left.queues
Ids == (1..(MaxJobId - 1)) \X Elems

Restrict1(f, S) == [x \in S |-> f[x]]
inCore(j) == \E id \in DOMAIN jobs : id[1] = j

-----------------------------------------------------------------------------
(* replay_event: what one record does to the core that init_log builds.     *)

Empty == [jobs |-> <<>>, hostClosed |-> {}, qClosed |-> {}, qInactive |-> {},
          next |-> 1, removed |-> 0, bad |-> FALSE]

setJob(c, id, r) == [c EXCEPT !.jobs = (id :> r) @@ @]
wrap(n) == IF n >= MaxJobId THEN 1 ELSE n

(* The elements of a new job *)
replay_jobdata(j, q) ==
    [id \in {j} \X Elems |-> [st |-> "PEND", q |-> q, start |-> 0, host |-> NoHost,
                              sig |-> NoSig, again |-> FALSE]]

replay_newjob(c, e) ==
    [c EXCEPT !.jobs = replay_jobdata(e.job, e.q) @@ @, !.next = wrap(e.job + 1)]

(* jStatusChange and, at the end of a job, handleFinishJob *)
toStatus(r, st) ==
    IF st \in Finished THEN [r EXCEPT !.st = st, !.sig = NoSig]
                       ELSE [r EXCEPT !.st = st]
toPend(r, reset) ==
    [r EXCEPT !.st = "PEND", !.host = NoHost, !.start = IF reset THEN 0 ELSE @]

replay_startjob(c, e) ==
    setJob(c, e.id, [c.jobs[e.id] EXCEPT !.st = "RUN", !.start = e.time,
                                         !.host = e.host])

replay_newstat(c, e) ==
    LET r == c.jobs[e.id] IN
    IF r.st \in Pending /\ e.st \in Started THEN c
    ELSE IF e.st = "PEND" /\ r.st \in Started
         THEN setJob(c, e.id, toPend(r, e.reset))
         ELSE setJob(c, e.id, toStatus(r, e.st))

handleRequeueJob(r) == [r EXCEPT !.st = "PEND", !.host = NoHost, !.again = TRUE]

replay_jobrequeue(c, e) ==
    [setJob(c, e.id, handleRequeueJob(c.jobs[e.id])) EXCEPT
        !.removed = IF c.jobs[e.id].again THEN @ + 1 ELSE @]

replay_cleanjob(c, e) ==
    IF e.id \in DOMAIN c.jobs
    THEN [c EXCEPT !.jobs = Restrict1(@, DOMAIN @ \ {e.id}), !.removed = @ + 1]
    ELSE c

replay_switchjob(c, e) == setJob(c, e.id, [c.jobs[e.id] EXCEPT !.q = e.q])

replay_hostcontrol(c, e) ==
    [c EXCEPT !.hostClosed = IF e.op = "close" THEN @ \union {e.h} ELSE @ \ {e.h}]

replay_qc(c, e) ==
    CASE e.op = "open"  -> [c EXCEPT !.qClosed = @ \ {e.q}]
      [] e.op = "close" -> [c EXCEPT !.qClosed = @ \union {e.q}]
      [] e.op = "act"   -> [c EXCEPT !.qInactive = @ \ {e.q}]
      [] e.op = "inact" -> [c EXCEPT !.qInactive = @ \union {e.q}]

\* mutant: MBD_START cancels nothing
Mut_replay_mbdStart(c) == c
replay_mbdStart(c) ==
    [c EXCEPT !.jobs = [id \in DOMAIN @ |-> [@[id] EXCEPT !.sig = NoSig]]]

replay_unfulfill(c, e) == setJob(c, e.id, [c.jobs[e.id] EXCEPT !.sig = Sig])

replay_logSwitch(c, e) == [c EXCEPT !.next = e.last]

(* Records of one element, for which getJobData may find nothing *)
OfElement == {"JOB_START", "JOB_STATUS", "JOB_REQUEUE", "JOB_SWITCH", "UNFULFILL"}

replay_event(c, e) ==
    IF e.type \in {"PART", "BAD"} \/ (e.type \in OfElement /\ e.id \notin DOMAIN c.jobs)
    THEN [c EXCEPT !.bad = TRUE]
    ELSE CASE e.type = "JOB_NEW"     -> replay_newjob(c, e)
           [] e.type = "JOB_START"   -> replay_startjob(c, e)
           [] e.type = "JOB_STATUS"  -> replay_newstat(c, e)
           [] e.type = "JOB_REQUEUE" -> replay_jobrequeue(c, e)
           [] e.type = "JOB_CLEAN"   -> replay_cleanjob(c, e)
           [] e.type = "JOB_SWITCH"  -> replay_switchjob(c, e)
           [] e.type = "HOST_CTRL"   -> replay_hostcontrol(c, e)
           [] e.type = "QUEUE_CTRL"  -> replay_qc(c, e)
           [] e.type = "MBD_START"   -> replay_mbdStart(c)
           [] e.type = "UNFULFILL"   -> replay_unfulfill(c, e)
           [] e.type = "LOG_SWITCH"  -> replay_logSwitch(c, e)
           [] OTHER                  -> c

(* init_log: the records in order *)
Replay(l) ==
    LET core[i \in 0..Len(l)] ==
          IF i = 0 THEN Empty ELSE replay_event(core[i - 1], l[i])
    IN core[Len(l)]

-----------------------------------------------------------------------------
(* openEventFile and putEventRec: records are appended.  A record that      *)
(* follows half a record ends up in the same line.                          *)
putEventRec(l, e) ==
    IF l # <<>> /\ Last(l).type = "PART"
    THEN [l EXCEPT ![Len(l)] = [@ EXCEPT !.type = "BAD"]]
    ELSE Append(l, e)

Rec(n, t, ty) == [n |-> n, time |-> t, type |-> ty]

(* A request, report or housekeeping step that appends record e and changes *)
(* the core; the archive is not touched.                                    *)
Logged(e) ==
    /\ log' = putEventRec(log, [n |-> serial + 1, time |-> now] @@ e)
    /\ serial' = serial + Len(log') - Len(log)
    /\ UNCHANGED <<pos, ev0, archive>>

spend(what) == left[what] > 0 /\ left' = [left EXCEPT ![what] = @ - 1]

Op(k) ==
      /\ k \in left.kinds /\ stage = "run" /\ sw = "no"
      /\ spend("ops")
      /\ UNCHANGED <<stage, sw, ctrl, now, staled, torn>>

(* getNextJobId and newJob: the id is given only if the job is accepted *)
FreeIds == {j \in 1..(MaxJobId - 1) : ~inCore(j)}
From(j) == IF nextJobId < MaxJobId THEN (j - nextJobId) % (MaxJobId - 1)
                                   ELSE j - 1
nextId == CHOOSE j \in FreeIds : \A k \in FreeIds : From(j) <= From(k)

newJob(q) ==
    /\ Op("new") /\ FreeIds # {} /\ q \notin qClosed
    /\ jobs' = replay_jobdata(nextId, q) @@ jobs
    /\ nextJobId' = wrap(nextId + 1)
    /\ Logged([type |-> "JOB_NEW", job |-> nextId, q |-> q])
    /\ UNCHANGED <<hostClosed, qClosed, qInactive, nextJobId_t, removed, owed>>

(* newJob turns a submission down: for its parameters, then the id is given
   back, or because the job file does not come, then it is not *)
newJobFails(why) ==
    /\ Op("fail") /\ FreeIds # {}
    /\ nextJobId' = IF why = "params" THEN nextJobId ELSE wrap(nextId + 1)
    /\ UNCHANGED <<jobs, hostClosed, qClosed, qInactive, nextJobId_t, removed, owed,
                   diskVars>>

setTo(id, r) == jobs' = [jobs EXCEPT ![id] = r]
restOfCore == UNCHANGED <<hostClosed, qClosed, qInactive, nextJobId, nextJobId_t>>

startJob(id, h) ==
    /\ Op("start") /\ jobs[id].st = "PEND" /\ h \notin hostClosed
    /\ jobs[id].q \notin qInactive
    /\ setTo(id, [jobs[id] EXCEPT !.st = "RUN", !.start = now, !.host = h])
    /\ Logged([type |-> "JOB_START", id |-> id, host |-> h])
    /\ restOfCore /\ UNCHANGED <<removed, owed>>

(* statusJob, signalJob: bstop, bresume, bkill of a pending job, the reports *)
Moves == {<<"PEND", "PSUSP">>, <<"PSUSP", "PEND">>, <<"RUN", "USUSP">>,
          <<"USUSP", "RUN">>, <<"RUN", "DONE">>, <<"RUN", "EXIT">>,
          <<"USUSP", "EXIT">>, <<"PEND", "EXIT">>}

newStatus(id, st) ==
    /\ Op(IF st \in Finished THEN "end" ELSE "suspend") /\ <<jobs[id].st, st>> \in Moves
    /\ setTo(id, toStatus(jobs[id], st))
    /\ owed' = IF st \in Finished THEN owed \ {id} ELSE owed
    /\ Logged([type |-> "JOB_STATUS", id |-> id, st |-> st, reset |-> FALSE])
    /\ restOfCore /\ UNCHANGED removed

(* The job goes back to its queue; startTime is reset for some reasons *)
backToPend(id, reset) ==
    /\ Op("back") /\ jobs[id].st \in Started
    /\ setTo(id, toPend(jobs[id], reset))
    /\ Logged([type |-> "JOB_STATUS", id |-> id, st |-> "PEND", reset |-> reset])
    /\ restOfCore /\ UNCHANGED <<removed, owed>>

requeue(id) ==
    /\ Op("requeue") /\ jobs[id].st \in Finished
    /\ setTo(id, handleRequeueJob(jobs[id]))
    /\ removed' = IF jobs[id].again THEN removed + 1 ELSE removed
    /\ Logged([type |-> "JOB_REQUEUE", id |-> id])
    /\ restOfCore /\ UNCHANGED owed

(* clean and removeJob; the last element of an array takes the array along, *)
(* whose own JOB_CLEAN record changes nothing when it is replayed           *)
removeJob(id) ==
    /\ Op("clean") /\ jobs[id].st \in Finished
    /\ jobs' = Restrict1(jobs, DOMAIN jobs \ {id})
    /\ removed' = removed + 1
    /\ Logged([type |-> "JOB_CLEAN", id |-> id])
    /\ restOfCore /\ UNCHANGED owed

switchJob(id, q) ==
    /\ Op("move") /\ jobs[id].st \in Pending /\ q # jobs[id].q
    /\ setTo(id, [jobs[id] EXCEPT !.q = q])
    /\ Logged([type |-> "JOB_SWITCH", id |-> id, q |-> q])
    /\ restOfCore /\ UNCHANGED <<removed, owed>>

ctrlHost(h) ==
    /\ Op("host")
    /\ LET op == IF h \in hostClosed THEN "open" ELSE "close" IN
       /\ hostClosed' = IF op = "close" THEN hostClosed \union {h} ELSE hostClosed \ {h}
       /\ Logged([type |-> "HOST_CTRL", h |-> h, op |-> op])
    /\ UNCHANGED <<jobs, qClosed, qInactive, nextJobId, nextJobId_t, removed, owed>>

ctrlQueue(q, op) ==
    /\ Op("queue")
    /\ CASE op = "open"  -> q \in qClosed /\ qClosed' = qClosed \ {q}
         [] op = "close" -> q \notin qClosed /\ qClosed' = qClosed \union {q}
         [] OTHER        -> UNCHANGED qClosed
    /\ CASE op = "act"   -> q \in qInactive /\ qInactive' = qInactive \ {q}
         [] op = "inact" -> q \notin qInactive /\ qInactive' = qInactive \union {q}
         [] OTHER        -> UNCHANGED qInactive
    /\ Logged([type |-> "QUEUE_CTRL", q |-> q, op |-> op])
    /\ UNCHANGED <<jobs, hostClosed, nextJobId, nextJobId_t, removed, owed>>

(* A signal that cannot be sent now is kept in pendEvent and not logged *)
signal(id) ==
    /\ Op("signal") /\ jobs[id].st \in Started /\ jobs[id].sig = NoSig
    /\ setTo(id, [jobs[id] EXCEPT !.sig = Sig])
    /\ owed' = owed \union {id}
    /\ restOfCore /\ UNCHANGED <<removed, diskVars>>

deliver(id) ==
    /\ Op("signal") /\ jobs[id].sig = Sig
    /\ setTo(id, [jobs[id] EXCEPT !.sig = NoSig])
    /\ owed' = owed \ {id}
    /\ restOfCore /\ UNCHANGED <<removed, diskVars>>

-----------------------------------------------------------------------------
(* switch_log, one action per system call after which the log directory is  *)
(* different.  It is called by switchELog when enough jobs are gone, and by *)
(* init_log when a record could not be replayed.                            *)

(* canSwitch: records from before the last start of a job are not needed *)
\* mutant: the record of the start itself counts as old
Mut_canSwitch(e, id) ==
    id \in DOMAIN jobs => jobs[id].start > 0 /\ e.time <= jobs[id].start
canSwitch(e, id) ==
    IF id \in DOMAIN jobs
    THEN jobs[id].start > 0 /\ e.time < jobs[id].start
    ELSE TRUE

Kept(e) ==
    CASE e.type = "LOG_SWITCH" -> TRUE
      [] e.type = "JOB_NEW"    -> inCore(e.job)
      [] e.type \in {"JOB_SWITCH", "JOB_CLEAN"} -> inCore(e.id[1])
      [] e.type \in {"JOB_START", "JOB_STATUS", "JOB_REQUEUE", "UNFULFILL"}
                               -> inCore(e.id[1]) /\ ~canSwitch(e, e.id)
      [] OTHER                 -> FALSE

(* saveHostCtrlEvent, saveQueueCtrlEvent: what is still closed or inactive, *)
(* from the last record that says so                                        *)
saved(e) ==
    \/ e.type = "HOST_CTRL" /\ e.op = "close" /\ e.h \in hostClosed
    \/ e.type = "QUEUE_CTRL" /\ e.op = "close" /\ e.q \in qClosed
    \/ e.type = "QUEUE_CTRL" /\ e.op = "inact" /\ e.q \in qInactive

overridden(e) == [x \in DOMAIN e \ {"n", "time"} |-> e[x]]

ctrlTables ==
    LET at == {i \in DOMAIN log : saved(log[i])}
        lastOnes == {i \in at : \A k \in at :
                       overridden(log[k]) = overridden(log[i]) => k <= i}
    IN {log[i] : i \in lastOnes}

(* An UNFULFILL record that is kept while an MBD_START after it is not *)
unclears(l) == \E i, k \in DOMAIN l :
    i < k /\ l[i].type = "UNFULFILL" /\ Kept(l[i]) /\ l[k].type = "MBD_START"

(* init_log switches when a record was bad, then, like periodicCheck, when
   enough jobs were removed *)
mustSwitch == stage = "replay" \/ (stage # "down" /\ removed >= MaxJobNum)

(* createEvent0File: what was logged since the last switch *)
\* mutant: the copy starts with the last record that was copied before
Mut_createEvent0File ==
    /\ sw = "no" /\ mustSwitch
    /\ ev0' = SubSeq(log, IF pos = 0 THEN 1 ELSE pos, Len(log))
    /\ sw' = "ev0"
    /\ UNCHANGED <<stage, coreVars, ctrl, log, pos, archive, serial, now, left, histVars>>
createEvent0File ==
    /\ sw = "no" /\ mustSwitch
    /\ ev0' = SubSeq(log, pos + 1, Len(log))
    /\ sw' = "ev0"
    /\ UNCHANGED <<stage, coreVars, ctrl, log, pos, archive, serial, now, left, histVars>>

(* lsb.events.tmp is written and renamed over lsb.events *)
rewrite ==
    /\ sw = "ev0"
    /\ log' = SelectSeq(log, Kept)
    /\ pos' = Len(log')
    /\ ctrl' = ctrlTables
    /\ staled' = (staled \/ unclears(log))
    /\ sw' = "moved"
    /\ UNCHANGED <<stage, coreVars, ev0, archive, serial, now, left,
                   owed, torn>>

(* writeHostCtrlEvent, writeQueueCtrlEvent: hosts, closed queues, inactive ones *)
rank(e) == IF e.type = "HOST_CTRL" THEN 1 ELSE IF e.op = "close" THEN 2 ELSE 3
writeCtrl ==
    /\ sw = "moved"
    /\ \E e \in ctrl :
         /\ \A f \in ctrl : rank(e) <= rank(f)
         /\ log' = putEventRec(log, [e EXCEPT !.n = serial + 1])
         /\ ctrl' = ctrl \ {e}
    /\ serial' = serial + 1
    /\ UNCHANGED <<stage, coreVars, sw, pos, ev0, archive, now, left,
                   histVars>>

(* log_logSwitch: during replay the id that the log leads to *)
\* mutant: always the id that replay led to
Mut_log_logSwitch ==
    /\ sw = "moved" /\ ctrl = {}
    /\ Logged([type |-> "LOG_SWITCH", last |-> nextJobId_t])
    /\ sw' = "logged"
    /\ UNCHANGED <<stage, coreVars, ctrl, now, left, histVars>>
log_logSwitch ==
    /\ sw = "moved" /\ ctrl = {}
    /\ Logged([type |-> "LOG_SWITCH",
               last |-> IF stage = "run" THEN nextJobId ELSE nextJobId_t])
    /\ sw' = "logged"
    /\ UNCHANGED <<stage, coreVars, ctrl, now, left, histVars>>

switched(n) ==
    /\ sw' = "no"
    /\ stage' = IF stage = "replay" THEN "replayed" ELSE stage
    /\ removed' = IF stage = "replay" THEN removed ELSE n

(* renameElogFiles, and switchELog's reset of its count *)
renameElogFiles ==
    /\ sw = "logged"
    /\ archive' = <<ev0>> \o archive /\ ev0' = <<>>
    /\ switched(0)
    /\ UNCHANGED <<jobs, hostClosed, qClosed, qInactive, nextJobId, nextJobId_t, ctrl,
                   log, pos, serial, now, left, histVars>>

(* A system call fails before the rename of lsb.events.tmp, or in           *)
(* renameElogFiles: switchELog tries again half the way on                  *)
switchFails ==
    /\ sw \in {"ev0", "logged"} /\ spend("fails")
    /\ switched(MaxJobNum \div 2)
    /\ torn' = (torn \/ sw = "logged")
    /\ UNCHANGED <<jobs, hostClosed, qClosed, qInactive, nextJobId, nextJobId_t, ctrl,
                   diskVars, now, owed, staled>>

-----------------------------------------------------------------------------
(* mbatchd goes and comes.                                                  *)

stopped ==
    /\ spend("stops")
    /\ stage' = "down" /\ sw' = "no" /\ ctrl' = {}
    /\ jobs' = <<>> /\ hostClosed' = {} /\ qClosed' = {} /\ qInactive' = {}
    /\ nextJobId' = 1 /\ nextJobId_t' = 1 /\ removed' = 0
    /\ UNCHANGED <<now, staled>>

RECURSIVE putAll(_, _, _)
putAll(l, S, n) ==
    IF S = {} THEN l
    ELSE LET id == CHOOSE i \in S : TRUE IN
         putAll(putEventRec(l, [n |-> n + 1, time |-> now, type |-> "UNFULFILL",
                                id |-> id]), S \ {id}, n + 1)

(* mbdDie: log_unfulfill for what is pending, log_mbdDie *)
mbdDie ==
    /\ stage = "run" /\ sw = "no"
    /\ LET S == {id \in DOMAIN jobs : jobs[id].sig # NoSig} IN
       /\ log' = putEventRec(putAll(log, S, serial),
                             Rec(serial + Cardinality(S) + 1, now, "MBD_DIE"))
       /\ serial' = serial + Cardinality(S) + 1
    /\ stopped
    /\ UNCHANGED <<pos, ev0, archive, owed, torn>>

(* A crash: pending signals are forgotten, but for those whose UNFULFILL    *)
(* record no MBD_START follows yet                                          *)
crash ==
    /\ stage # "down" /\ stopped
    /\ owed' = IF stage = "run" THEN {} ELSE owed
    /\ torn' = (torn \/ sw \in {"moved", "logged"})
    /\ UNCHANGED diskVars

(* A crash in the write of a record, nothing of which had effect yet *)
crashWriting ==
    /\ stage = "run" /\ sw = "no" /\ stopped
    /\ log' = putEventRec(log, Rec(serial + 1, now, "PART"))
    /\ serial' = serial + 1
    /\ owed' = {}
    /\ UNCHANGED <<pos, ev0, archive, torn>>

init_log ==
    /\ stage = "down"
    /\ LET c == Replay(log)
           gap == c.next + SafeGap IN
       /\ jobs' = c.jobs /\ hostClosed' = c.hostClosed
       /\ qClosed' = c.qClosed /\ qInactive' = c.qInactive
       /\ removed' = c.removed /\ nextJobId_t' = c.next
       /\ stage' = IF c.bad THEN "replay" ELSE "replayed"
       /\ nextJobId' = IF serial = 0 THEN 1 ELSE wrap(gap)   \* 0: no file yet
    /\ UNCHANGED <<sw, ctrl, diskVars, now, left, histVars>>

log_mbdStart ==
    /\ stage = "replayed" /\ sw = "no" /\ ~mustSwitch
    /\ Logged([type |-> "MBD_START"])
    /\ stage' = "run"
    /\ UNCHANGED <<coreVars, sw, ctrl, now, left, histVars>>

tick ==
    /\ spend("ticks") /\ now' = now + 1 /\ sw = "no" /\ stage = "run"
    /\ UNCHANGED <<stage, coreVars, sw, ctrl, diskVars, histVars>>

Init ==
    /\ stage = "down" /\ sw = "no" /\ ctrl = {}
    /\ jobs = <<>> /\ hostClosed = {} /\ qClosed = {} /\ qInactive = {}
    /\ nextJobId = 1 /\ nextJobId_t = 1 /\ removed = 0
    /\ log = <<>> /\ pos = 0 /\ ev0 = <<>> /\ archive = <<>>
    /\ now = 1 /\ left \in Scenarios
    /\ serial = 0 /\ owed = {} /\ staled = FALSE /\ torn = FALSE

OpNext ==
    \/ \E q \in Queues : newJob(q) \/ \E op \in {"open", "close", "act", "inact"} : ctrlQueue(q, op)
    \/ \E why \in {"params", "file"} : newJobFails(why)
    \/ \E h \in Hosts : ctrlHost(h)
    \/ \E id \in DOMAIN jobs :
         \/ \E h \in Hosts : startJob(id, h)
         \/ \E st \in Pending \union Started \union Finished : newStatus(id, st)
         \/ \E r \in BOOLEAN : backToPend(id, r)
         \/ requeue(id) \/ removeJob(id)
         \/ \E q \in Queues : switchJob(id, q)
         \/ signal(id) \/ deliver(id)

Next ==
    \/ OpNext \/ tick
    \/ createEvent0File \/ rewrite \/ writeCtrl \/ log_logSwitch
    \/ renameElogFiles \/ switchFails
    \/ mbdDie \/ crash \/ crashWriting \/ init_log \/ log_mbdStart

Spec == Init /\ [][Next]_vars

-----------------------------------------------------------------------------
TypeOK ==
    /\ stage \in {"down", "replay", "replayed", "run"}
    /\ sw \in {"no", "ev0", "moved", "logged"}
    /\ DOMAIN jobs \subseteq Ids
    /\ \A id \in DOMAIN jobs :
         jobs[id] \in [st : Pending \union Started \union Finished, q : Queues,
                      start : 0..now, host : Hosts \union {NoHost},
                      sig : {NoSig, Sig}, again : BOOLEAN]
    /\ hostClosed \subseteq Hosts /\ qClosed \subseteq Queues /\ qInactive \subseteq Queues
    /\ nextJobId \in 1..(MaxJobId - 1) /\ nextJobId_t \in 1..(MaxJobId - 1)
    /\ removed \in Nat /\ pos \in 0..Len(log)

(* What init_log must bring back of a job: everything but what it takes     *)
(* to be lost by a crash (pending signals) and the count of requeues.       *)
Image(js) == [id \in DOMAIN js |-> [st |-> js[id].st, q |-> js[id].q,
                                    host |-> js[id].host, start |-> js[id].start]]

(* Whenever mbatchd stops, also within a record or in the middle of         *)
(* switch_log, init_log brings back exactly the jobs it had, each with its  *)
(* status, queue, host and start time: records that canSwitch lets go are   *)
(* made up for by those that are kept, JOB_NEW and JOB_CLEAN of an array    *)
(* outlive its elements, and the new log takes the old one's place at once. *)
JobsRecoverable == stage # "down" => Image(Replay(log).jobs) = Image(jobs)

(* Hosts and queues that were closed or inactivated are so after a restart, *)
(* unless mbatchd stopped between the rename of lsb.events.tmp and the end  *)
(* of writeQueueCtrlEvent.                                                  *)
CtrlRecoverable ==
    stage # "down" /\ sw # "moved" =>
        /\ Replay(log).hostClosed = hostClosed
        /\ Replay(log).qClosed = qClosed
        /\ Replay(log).qInactive = qInactive

Serials(l) == [i \in DOMAIN l |-> l[i].n]

(* The archived files and the part of lsb.events behind its offset hold     *)
(* every record ever written once and in order, unless a switch broke off   *)
(* after lsb.events was replaced: createEvent0File starts where the last    *)
(* switch ended.                                                            *)
HistoryComplete ==
    sw = "no" /\ ~torn =>
        LET files == FlattenSeq(Reverse(archive)) \o SubSeq(log, pos + 1, Len(log))
        IN Serials(files) = [i \in 1..serial |-> i]

(* An id is not given to a second job, by this mbatchd or by a later one,   *)
(* before the ids are used up, though the JOB_NEW record of a job leaves    *)
(* lsb.events with the job: LOG_SWITCH keeps the count.  A switch broken    *)
(* off before log_logSwitch is the exception.  A record stands for at most  *)
(* SafeGap + 1 ids; submissions that fail take ids and leave no record, so  *)
(* the scenarios with them are left out.                                    *)
IdsFresh ==
    sw = "no" /\ ~torn /\ "fail" \notin left.kinds /\ (SafeGap + 1) * serial < MaxJobId =>
        LET files == FlattenSeq(Reverse(archive)) \o SubSeq(log, pos + 1, Len(log))
            given == {i \in DOMAIN files : files[i].type = "JOB_NEW"}
        IN \A i, k \in given : files[i].job = files[k].job => i = k

(* src/README: as fixed is listed that "A new jobId will be used even if    *)
(* the job is not submitted successfully": the next id is the one after the *)
(* last job that was accepted.  (The run never restarts mbatchd.)           *)
OnlyJobsTakeIds == stage = "run" => nextJobId = Replay(log).next

(* A signal is pending only for jobs to which one is owed: one that was     *)
(* delivered before does not come back with the UNFULFILL record of an      *)
(* earlier mbatchd, unless a switch dropped the MBD_START that cancels it.  *)
SignalsOwed ==
    ~staled => {id \in DOMAIN jobs : jobs[id].sig # NoSig} \subseteq owed

(* An orderly exit of mbatchd (mbdDie) loses no pending signal. *)
SignalsKept ==
    stage \in {"replay", "replayed", "run"} => owed \subseteq {id \in DOMAIN jobs : jobs[id].sig # NoSig}

(* Whenever mbatchd stops, init_log brings back its jobs and what was       *)
(* closed, with every variable of its type.                                 *)
Recoverable == TypeOK /\ JobsRecoverable /\ CtrlRecoverable

(* Over restarts a job has a pending signal when, and only when, one is     *)
(* owed to it (log_unfulfill, replay_mbdStart, replay_unfulfill).           *)
SignalsSafe == SignalsOwed /\ SignalsKept
=============================================================================
