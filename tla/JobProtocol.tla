------------------------------ MODULE JobProtocol ------------------------------
(***************************************************************************)
(* The life of one batch job between the master batch daemon (mbatchd) and *)
(* the slave batch daemons (sbatchd, one per host): the start handshake,   *)
(* the status reports, loss of hosts, restarts of either daemon.           *)
(*                                                                         *)
(* mbatchd dispatches the job over a new connection (an sbdNode).  The     *)
(* sbatchd forks a child on that connection and answers with its pid; the  *)
(* child waits for mbatchd's go-ahead on the same connection, prepares,    *)
(* reports RUN through its sbatchd and only then executes the user's       *)
(* command.  A child that gets no go-ahead reports PEND.                   *)
(*                                                                         *)
(* A dispatch, its connection and the child forked on it share one number: *)
(* a connection forks at most one child, and pids are not reused.          *)
(***************************************************************************)
EXTENDS Integers, Sequences, Functions

CONSTANTS Hosts,        \* batch server hosts
          NoHost,       \* hPtr == NULL
          Rerunnable,   \* SUB_RERUNNABLE: rerun when the host is lost
          MaxDispatch,  \* bound: dispatches, hence connections and children
          MaxFault,     \* bound: daemon restarts, host reboots, lost hosts
          MaxLate       \* bound: reports whose answer does not come in time

ASSUME ProtocolAssumption ==
    /\ NoHost \notin Hosts
    /\ Rerunnable \in BOOLEAN
    /\ MaxDispatch \in Nat /\ MaxFault \in Nat /\ MaxLate \in Nat

VARIABLES
    jStatus,    \* mbatchd's status of the job
    hPtr,       \* jData->hPtr[0]
    jobPid,     \* jData->jobPid, 0 when unknown
    execHome,   \* whether jData->execHome has been filled in
    nextSeq,    \* jData->nextSeq
    zombies,    \* the ZJL list, oldest first: <<host, pid>> of given-up instances
    zlog,       \* the ZJL list that a replay of the event log would build
    hStatus,    \* mbatchd's view of each host
    needPoll,   \* hosts flagged HOST_NEEDPOLL
    node,       \* the sbdNode of each dispatch, at mbatchd's end
    to,         \* the host each dispatch went to
    req,        \* requests not yet read by the sbatchd
    reply,      \* the sbatchd's answer: 0 none, -1 error, or a pid
    ack,        \* go-aheads sent and not yet read
    broken,     \* connections reset under both ends
    late,       \* reports whose sender gave up waiting, still under way
    sbd,        \* hosts whose sbatchd is running
    card,       \* the pid in the sbatchd's job card, 0 when there is none
    cardStatus, \* the status of the job card
    seq,        \* the sbatchd's report counter
    proc,       \* the child of each dispatch
    faults, lates,  \* counters for the bounds
    crossed     \* history: what was said of one instance was applied to another

mbd  == <<jStatus, hPtr, jobPid, execHome, nextSeq, zombies, zlog, hStatus,
         needPoll>>
wire == <<node, to, req, reply, ack, broken>>
slave == <<sbd, card, cardStatus, seq, proc>>
vars == <<mbd, wire, late, slave, faults, lates, crossed>>

Pids == 1..MaxDispatch

\* RUN: executing or starting; REQUEUE, RERUN: EXIT with JFLAG_REQUEUE, logged
\* for EXIT_ZOMBIE or EXIT_RERUN; PDONE: DONE with post-processing reported;
\* NONE: removed from memory.
JobStatus ==
    {"PEND", "RUN", "DONE", "PDONE", "EXIT", "REQUEUE", "RERUN", "NONE"}

\* What an sbatchd reports.  FAIL: PEND for PEND_JOB_START_FAIL or
\* PEND_JOB_NO_FILE; PEND: PEND for another reason; BOOT: EXIT with
\* ERR_HOST_BOOT; POST: JOB_STAT_PDONE or JOB_STAT_PERR.
Reported == {"RUN", "FAIL", "PEND", "DONE", "EXIT", "BOOT", "POST"}

\* new: forked, not JOB_STARTED; run: JOB_EXEC_STARTED; post: postJobStarted.
CardStatus == {"none", "new", "run", "post", "PEND", "DONE", "EXIT", "BOOT"}

\* wait: reading the go-ahead; fail, bad: reporting PEND; setup: preparing;
\* exec: running the user's command; end: exited; lost: died with its host.
ProcState == {"none", "wait", "fail", "bad", "setup", "exec", "end", "lost"}

Live == {"wait", "fail", "bad", "setup", "exec"}

Report == [host : Hosts, pid : 0..MaxDispatch, status : Reported, seq : Nat]

TypeOK ==
    /\ jStatus \in JobStatus
    /\ hPtr \in Hosts \cup {NoHost}
    /\ jobPid \in 0..MaxDispatch
    /\ execHome \in {"null", "set"}
    /\ nextSeq \in Nat
    /\ zombies \in Seq(Hosts \X (0..MaxDispatch))
    /\ zlog \in Seq(Hosts \X (0..MaxDispatch))
    /\ hStatus \in [Hosts -> {"OK", "UNREACH", "UNAVAIL"}]
    /\ needPoll \subseteq Hosts
    /\ node \in [Pids -> {"idle", "open", "keep", "closed"}]
    /\ to \in [Pids -> Hosts \cup {NoHost}]
    /\ req \subseteq Pids
    /\ reply \in [Pids -> -1..MaxDispatch]
    /\ ack \subseteq Pids
    /\ broken \subseteq Pids
    /\ late \subseteq Report
    /\ sbd \subseteq Hosts
    /\ card \in [Hosts -> 0..MaxDispatch]
    /\ cardStatus \in [Hosts -> CardStatus]
    /\ seq \in [Hosts -> Nat]
    /\ proc \in [Pids -> ProcState]
    /\ faults \in 0..MaxFault
    /\ lates \in 0..MaxLate
    /\ crossed \in {"no", "yes"}

\* A submitted job, before its first dispatch, in a freshly started cluster.
Init ==
    /\ jStatus = "PEND"
    /\ hPtr = NoHost
    /\ jobPid = 0
    /\ execHome = "null"
    /\ nextSeq = 1
    /\ zombies = <<>>
    /\ zlog = <<>>
    /\ hStatus = [h \in Hosts |-> "OK"]
    /\ needPoll = Hosts
    /\ node = [d \in Pids |-> "idle"]
    /\ to = [d \in Pids |-> NoHost]
    /\ req = {}
    /\ reply = [d \in Pids |-> 0]
    /\ ack = {}
    /\ broken = {}
    /\ late = {}
    /\ sbd = Hosts
    /\ card = [h \in Hosts |-> 0]
    /\ cardStatus = [h \in Hosts |-> "none"]
    /\ seq = [h \in Hosts |-> 1]
    /\ proc = [p \in Pids |-> "none"]
    /\ faults = 0
    /\ lates = 0
    /\ crossed = "no"

-----------------------------------------------------------------------------
(* mbatchd: what its handlers share *)

\* isInZomJobList: the positions of zombies with this host and pid.
isInZomJobList(h, p) == {i \in DOMAIN zombies : zombies[i] = <<h, p>>}

\* The oldest zombie with this host and pid leaves the list.  Its record in
\* the log has the job id only: replay_newstat removes the oldest one.
offZomJobList(h, p) ==
    /\ \E i \in isInZomJobList(h, p) :
         /\ \A j \in isInZomJobList(h, p) : i <= j
         /\ zombies' = SubSeq(zombies, 1, i - 1) \o SubSeq(zombies, i + 1, Len(zombies))
    /\ zlog' = IF zlog = <<>> THEN zlog ELSE Tail(zlog)

\* jStatusChange to PEND of a started job, with its freeExecParams; the pid
\* stays, and so do the connections.
toPend ==
    /\ jStatus' = "PEND"
    /\ hPtr' = NoHost
    /\ execHome' = "null"
    /\ nextSeq' = 1

\* cleanSbdNode: close every connection of the job.  A go-ahead that is
\* still queued in mbatchd is lost, one already written is not.
cleanSbdNode ==
    /\ node' = [d \in Pids |-> IF node[d] = "idle" THEN "idle" ELSE "closed"]
    /\ \E lost \in SUBSET ack : ack' = ack \ lost
    /\ UNCHANGED <<to, req, reply, broken>>

\* hStatChange(h, 0): the host has been heard of.
heardFrom(h) == hStatus' = [hStatus EXCEPT ![h] = "OK"]

\* sbatchdJobs: list the job for a sbatchd.  A start whose pid is not known
\* is given up, without a word to the connection it was sent on.
sbatchdJobs(h) ==
    IF jStatus = "RUN" /\ hPtr = h /\ jobPid = 0
    THEN toPend
    ELSE /\ nextSeq' = IF hPtr = h /\ jStatus \in {"RUN", "DONE"}
                       THEN 1 ELSE nextSeq
         /\ UNCHANGED <<jStatus, hPtr, execHome>>

-----------------------------------------------------------------------------
(* mbatchd: statusJob, one operator per branch *)

unchangedJob == UNCHANGED <<jStatus, hPtr, jobPid, execHome, nextSeq>>

\* JOB_STAT_PDONE or JOB_STAT_PERR.
statusPost ==
    /\ jStatus' = IF jStatus = "DONE" THEN "PDONE" ELSE jStatus
    /\ UNCHANGED <<hPtr, jobPid, execHome, nextSeq, zombies, zlog, wire>>

\* The child got no go-ahead or no job file.
statusFail(h, p) ==
    /\ IF jStatus = "RUN" /\ hPtr = h
       THEN toPend /\ UNCHANGED jobPid
       ELSE unchangedJob
    /\ IF isInZomJobList(h, p) # {} THEN offZomJobList(h, p)
                                     ELSE UNCHANGED <<zombies, zlog>>
    /\ UNCHANGED wire

\* A started job that mbatchd holds to be pending: adopted, on the host that
\* reports it.  When the instance is a zombie the host is not filled in.
statusAdopt(h, p, n) ==
    /\ jStatus = "PEND"
    /\ jStatus' = "RUN"
    /\ IF isInZomJobList(h, p) # {}
       THEN UNCHANGED <<hPtr, jobPid, execHome, nextSeq>>
       ELSE /\ hPtr' = h
            /\ jobPid' = p
            /\ execHome' = "set"
            /\ nextSeq' = n
    /\ UNCHANGED <<zombies, zlog, wire>>

\* A started job that mbatchd holds to be started: the pid is taken from the
\* first report, whatever host it comes from.
statusRun(h, p, n) ==
    /\ jStatus = "RUN"
    /\ jobPid' = IF jobPid = 0 \/ execHome = "null" THEN p ELSE jobPid
    /\ execHome' = "set"
    /\ nextSeq' = IF execHome = "set" /\ hPtr = h /\ n >= nextSeq
                  THEN n ELSE nextSeq
    /\ UNCHANGED <<jStatus, hPtr, zombies, zlog, wire>>

\* Mutant: the number of the report is noted after a requeue, too.
Mut_statusFinish(h, p, st, n) ==
    IF isInZomJobList(h, p) # {}
    THEN offZomJobList(h, p) /\ unchangedJob /\ UNCHANGED wire
    ELSE /\ UNCHANGED <<zombies, zlog>>
         /\ IF hPtr # h \/ n < nextSeq
            THEN unchangedJob /\ UNCHANGED wire
            ELSE /\ nextSeq' = n
                 /\ IF jStatus # "RUN"
                    THEN UNCHANGED <<jStatus, hPtr, jobPid, execHome, wire>>
                    ELSE /\ UNCHANGED jobPid
                         /\ cleanSbdNode
                         /\ jStatus' = IF st = "BOOT" THEN "RERUN" ELSE st
                         /\ hPtr' = IF st = "PEND" THEN NoHost ELSE hPtr
                         /\ execHome' = IF st = "PEND" THEN "null" ELSE execHome

\* A report of a finished or requeued job: it may be a zombie's, obsolete,
\* or the end of the instance mbatchd knows.
statusFinish(h, p, st, n) ==
    IF isInZomJobList(h, p) # {}
    THEN /\ offZomJobList(h, p)
         /\ unchangedJob
         /\ UNCHANGED wire
    ELSE /\ UNCHANGED <<zombies, zlog>>
         /\ IF hPtr # h \/ n < nextSeq
            THEN unchangedJob /\ UNCHANGED wire
            ELSE IF jStatus # "RUN"
            THEN /\ nextSeq' = IF st = "PEND" THEN 1 ELSE n
                 /\ UNCHANGED <<jStatus, hPtr, jobPid, execHome, wire>>
            ELSE /\ UNCHANGED jobPid
                 /\ cleanSbdNode
                 /\ IF st = "PEND"
                    THEN toPend
                    ELSE /\ jStatus' = IF st = "DONE" THEN "DONE"
                                       ELSE IF st = "BOOT" /\ Rerunnable
                                       THEN "RERUN" ELSE "EXIT"
                         /\ nextSeq' = n
                         /\ UNCHANGED <<hPtr, execHome>>

\* This step ends the current instance on the word of another, p on host h, or
\* takes p for it.
crosses(h, p) ==
    /\ jStatus = "RUN"
    /\ \/ jStatus' # "RUN" /\ jobPid \notin {0, p}
       \/ jobPid' # jobPid /\ ~(jobPid = 0 /\ hPtr = h)

\* statusJob: mbatchd handles a status report.
statusJob(h, p, st, n) ==
    IF jStatus = "NONE"
    THEN UNCHANGED <<mbd, wire>>
    ELSE /\ heardFrom(h)
         /\ UNCHANGED needPoll
         /\ \/ st = "POST" /\ statusPost
            \/ st = "FAIL" /\ statusFail(h, p)
            \/ st = "RUN" /\ statusAdopt(h, p, n)
            \/ st = "RUN" /\ statusRun(h, p, n)
            \/ /\ st = "RUN" /\ jStatus \notin {"PEND", "RUN"}
               /\ nextSeq' = IF hPtr = h /\ n >= nextSeq THEN n ELSE nextSeq
               /\ UNCHANGED <<jStatus, hPtr, jobPid, execHome, zombies, zlog, wire>>
            \/ st \in {"PEND", "DONE", "EXIT", "BOOT"}
               /\ statusFinish(h, p, st, n)

-----------------------------------------------------------------------------
(* mbatchd: actions *)

\* dispatch_it, start_ajob and jobStarted: the request is queued on a new
\* connection and the job counted as started, before the sbatchd has seen it.
\* Only the oldest zombie is looked at.
dispatch_it(h) ==
    /\ jStatus = "PEND"
    /\ hStatus[h] = "OK"
    /\ h \in sbd
    /\ zombies # <<>> => Head(zombies)[1] # h
    /\ \E d \in Pids :
         /\ node[d] = "idle"
         /\ \A e \in 1..(d - 1) : node[e] # "idle"
         /\ node' = [node EXCEPT ![d] = "open"]
         /\ to' = [to EXCEPT ![d] = h]
         /\ req' = req \cup {d}
    /\ jStatus' = "RUN"
    /\ hPtr' = h
    /\ jobPid' = 0
    /\ UNCHANGED <<execHome, nextSeq, zombies, zlog, hStatus, needPoll, reply,
                   ack, broken, late, slave, faults, lates, crossed>>

\* dispatch_it when the sbatchd refuses the connection: jobStartError leaves
\* the job pending, hStatChange marks the host.
dispatchRefused(h) ==
    /\ jStatus = "PEND"
    /\ hStatus[h] = "OK"
    /\ h \notin sbd
    /\ hStatus' = [hStatus EXCEPT ![h] = "UNREACH"]
    /\ UNCHANGED <<jStatus, hPtr, jobPid, execHome, nextSeq, zombies, zlog, needPoll,
                   wire, late, slave, faults, lates, crossed>>

\* The answer on connection d is the pid of the child of the last dispatch.
awaited(d) ==
    /\ d = MaxDispatch \/ node[d + 1] = "idle"
    /\ hPtr = to[d]
    /\ reply[d] = d

\* doNewJobReply with a pid: the first answer to arrive on any connection of
\* the job while its pid is unknown is recorded, logged and acknowledged.
doNewJobReply(d) ==
    /\ node[d] = "open"
    /\ reply[d] > 0
    /\ UNCHANGED <<jStatus, hPtr, execHome, nextSeq, zombies, zlog, hStatus, needPoll,
                   to, req, reply, broken, late, slave, faults, lates>>
    /\ IF jobPid = 0 /\ jStatus = "RUN"
       THEN /\ jobPid' = reply[d]
            /\ node' = [node EXCEPT ![d] = "keep"]
            /\ ack' = ack \cup {d}
            /\ crossed' = IF awaited(d) THEN crossed ELSE "yes"
       ELSE /\ node' = [node EXCEPT ![d] = "closed"]
            /\ UNCHANGED <<jobPid, ack, crossed>>

\* doNewJobReply with an error answer, a broken connection, or evicted by
\* shutdownSbdConnections when there are too many connections.
doNewJobException(d) ==
    /\ node[d] = "open"
    /\ node' = [node EXCEPT ![d] = "closed"]
    /\ IF jobPid = 0 /\ jStatus = "RUN" THEN toPend
       ELSE UNCHANGED <<jStatus, hPtr, execHome, nextSeq>>
    /\ UNCHANGED <<jobPid, zombies, zlog, hStatus, needPoll, to, req, reply,
                   ack, broken, late, slave, lates, crossed>>

doNewJobError(d) ==
    /\ reply[d] = -1 \/ d \in broken
    /\ doNewJobException(d)
    /\ UNCHANGED faults

shutdownSbdConnections(d) ==
    /\ faults < MaxFault
    /\ faults' = faults + 1
    /\ doNewJobException(d)

\* processSbdNode on a kept channel: the child has read the go-ahead.
closeKeptChannel(d) ==
    /\ node[d] = "keep"
    /\ d \notin ack
    /\ node' = [node EXCEPT ![d] = "closed"]
    /\ UNCHANGED <<mbd, to, req, reply, ack, broken, late, slave, faults,
                   lates, crossed>>

\* pollSbatchds gives a host up, first as unreachable, then as unavailable;
\* hostJobs then makes a rerunnable job a zombie there and requeues it.
hostUnreach(h) ==
    /\ faults < MaxFault
    /\ faults' = faults + 1
    /\ hStatus[h] = "OK"
    /\ hStatus' = [hStatus EXCEPT ![h] = "UNREACH"]
    /\ UNCHANGED <<jStatus, hPtr, jobPid, execHome, nextSeq, zombies, zlog, needPoll,
                   wire, late, slave, lates, crossed>>

\* Mutant: the lost instance is not put on the zombie list.
Mut_hostUnavail(h) ==
    /\ hStatus[h] = "UNREACH"
    /\ hStatus' = [hStatus EXCEPT ![h] = "UNAVAIL"]
    /\ IF jStatus = "RUN" /\ hPtr = h /\ Rerunnable
       THEN /\ UNCHANGED zombies
            /\ UNCHANGED zlog
            /\ jStatus' = "REQUEUE"
       ELSE UNCHANGED <<zombies, zlog, jStatus>>
    /\ UNCHANGED <<hPtr, jobPid, execHome, nextSeq, needPoll, wire, late, slave,
                   faults, lates, crossed>>

hostUnavail(h) ==
    /\ hStatus[h] = "UNREACH"
    /\ hStatus' = [hStatus EXCEPT ![h] = "UNAVAIL"]
    /\ IF jStatus = "RUN" /\ hPtr = h /\ Rerunnable
       THEN /\ zombies' = Append(zombies, <<h, jobPid>>)
            /\ zlog' = Append(zlog, <<h, jobPid>>)
            /\ jStatus' = "REQUEUE"
       ELSE UNCHANGED <<zombies, zlog, jStatus>>
    /\ UNCHANGED <<hPtr, jobPid, execHome, nextSeq, needPoll, wire, late, slave,
                   faults, lates, crossed>>

\* pollSbatchds with probe_slave: a host flagged HOST_NEEDPOLL is sent its
\* jobs, any other is only asked whether it answers.
probe_slave(h) ==
    /\ h \in needPoll \/ hStatus[h] # "OK"
    /\ IF h \in needPoll THEN sbatchdJobs(h)
       ELSE UNCHANGED <<jStatus, hPtr, execHome, nextSeq>>
    /\ IF h \in sbd
       THEN heardFrom(h) /\ needPoll' = needPoll \ {h}
       ELSE /\ hStatus' = [hStatus EXCEPT
                             ![h] = IF @ = "OK" THEN "UNREACH" ELSE @]
            /\ UNCHANGED needPoll
    /\ UNCHANGED <<jobPid, zombies, zlog, wire, late, slave, faults, lates,
                   crossed>>

\* clean: requeue a finished job that asks for it, or remove it from memory.
cleanRequeue ==
    /\ jStatus \in {"REQUEUE", "RERUN"}
    /\ toPend
    /\ UNCHANGED <<jobPid, zombies, zlog, hStatus, needPoll, wire, late, slave,
                   faults, lates, crossed>>

removeJob ==
    /\ jStatus \in {"EXIT", "PDONE"}
    /\ zombies = <<>>
    /\ \A d \in Pids : node[d] \notin {"open", "keep"}
    /\ jStatus' = "NONE"
    /\ UNCHANGED <<hPtr, jobPid, execHome, nextSeq, zombies, zlog, hStatus, needPoll,
                   wire, late, slave, faults, lates, crossed>>

\* mbatchd dies and its successor replays the event log: what is logged
\* survives, connections and messages under way do not.  An EXIT logged for
\* EXIT_RERUN is replayed without the requeue, a start logged without a host
\* is skipped, and a removed job is read back and removed again.
mbdRestart ==
    /\ faults < MaxFault
    /\ faults' = faults + 1
    /\ jStatus' = IF jStatus = "RERUN" THEN "EXIT"
                  ELSE IF jStatus = "RUN" /\ hPtr = NoHost THEN "PEND"
                  ELSE jStatus
    /\ zombies' = zlog
    /\ crossed' = IF zombies = zlog THEN crossed ELSE "yes"
    /\ nextSeq' = 1
    /\ hStatus' = [h \in Hosts |-> "OK"]
    /\ needPoll' = Hosts
    /\ cleanSbdNode
    /\ late' = {}
    /\ UNCHANGED <<hPtr, jobPid, execHome, zlog, slave, lates>>

\* A report whose sender no longer waits reaches mbatchd.
lateReport(r) ==
    /\ r \in late
    /\ statusJob(r.host, r.pid, r.status, r.seq)
    /\ late' = late \ {r}
    /\ crossed' = IF crosses(r.host, r.pid) THEN "yes" ELSE crossed
    /\ UNCHANGED <<slave, faults, lates>>

-----------------------------------------------------------------------------
(* sbatchd and its children *)

\* jobsig(0): the process of the job card exists on this host.
alive(h) == \E p \in Pids : card[h] = p /\ to[p] = h /\ proc[p] \in Live

dropCard(h) ==
    /\ card' = [card EXCEPT ![h] = 0]
    /\ cardStatus' = [cardStatus EXCEPT ![h] = "none"]

setCard(h, p, st) ==
    /\ card' = [card EXCEPT ![h] = p]
    /\ cardStatus' = [cardStatus EXCEPT ![h] = st]

\* status_job, the answer of mbatchd came in time: sbatchd does nothing else
\* while it waits, so the call is one step.
reported(h, p, st) ==
    /\ statusJob(h, p, st, seq[h])
    /\ seq' = [seq EXCEPT ![h] = @ + 1]
    /\ UNCHANGED <<late, lates>>

\* status_job failed: the report may still be under way.
notReported(h, p, st) ==
    /\ lates < MaxLate
    /\ lates' = lates + 1
    /\ \/ UNCHANGED late
       \/ late' = late \cup {[host |-> h, pid |-> p, status |-> st, seq |-> seq[h]]}
    /\ seq' = [seq EXCEPT ![h] = @ + 1]
    /\ UNCHANGED <<mbd, wire, sbd, card, cardStatus, proc>>

\* do_newjob: a job card of this job answers for itself; otherwise fork.  The
\* last case is a crash of the sbatchd between the fork and the answer.
do_newjob(d) ==
    /\ d \in req
    /\ to[d] \in sbd
    /\ req' = req \ {d}
    /\ \/ /\ cardStatus[to[d]] # "none"
          /\ reply' = [reply EXCEPT ![d] = IF card[to[d]] = 0 THEN -1 ELSE card[to[d]]]
          /\ UNCHANGED <<sbd, card, cardStatus, proc, faults>>
       \/ /\ cardStatus[to[d]] = "none"
          /\ reply' = [reply EXCEPT ![d] = -1]
          /\ UNCHANGED <<sbd, card, cardStatus, proc, faults>>
       \/ /\ cardStatus[to[d]] = "none"
          /\ reply' = [reply EXCEPT ![d] = d]
          /\ proc' = [proc EXCEPT ![d] = "wait"]
          /\ setCard(to[d], d, "new")
          /\ UNCHANGED <<sbd, faults>>
       \/ /\ cardStatus[to[d]] = "none"
          /\ faults < MaxFault
          /\ faults' = faults + 1
          /\ proc' = [proc EXCEPT ![d] = "wait"]
          /\ sbd' = sbd \ {to[d]}
          /\ UNCHANGED <<reply, card, cardStatus>>
    /\ UNCHANGED <<mbd, node, to, ack, broken, late, seq, lates, crossed>>

\* execJob: the child reads the go-ahead, or finds its connection closed.
readGoAhead(p) ==
    /\ proc[p] = "wait"
    /\ p \in ack
    /\ proc' = [proc EXCEPT ![p] = "setup"]
    /\ ack' = ack \ {p}
    /\ UNCHANGED <<mbd, node, to, req, reply, broken, late, sbd, card,
                   cardStatus, seq, faults, lates, crossed>>

\* Mutant: end of file is taken for the go-ahead.
Mut_noGoAhead(p) ==
    /\ proc[p] = "wait"
    /\ p \in broken \/ (node[p] = "closed" /\ p \notin ack)
    /\ proc' = [proc EXCEPT ![p] = "setup"]
    /\ UNCHANGED <<mbd, wire, late, sbd, card, cardStatus, seq, faults, lates,
                   crossed>>

noGoAhead(p) ==
    /\ proc[p] = "wait"
    /\ p \in broken \/ (node[p] = "closed" /\ p \notin ack)
    /\ proc' = [proc EXCEPT ![p] = "fail"]
    /\ UNCHANGED <<mbd, wire, late, sbd, card, cardStatus, seq, faults, lates,
                   crossed>>

\* execJob: no account mapping, environment, working directory...
setupFails(p) ==
    /\ proc[p] = "setup"
    /\ proc' = [proc EXCEPT ![p] = "bad"]
    /\ UNCHANGED <<mbd, wire, late, sbd, card, cardStatus, seq, faults, lates,
                   crossed>>

\* What do_jobSetup reports for a child in this state.
setupStatus(p) ==
    CASE proc[p] = "fail" -> "FAIL"
      [] proc[p] = "bad" -> "PEND"
      [] OTHER -> IF cardStatus[to[p]] \in {"new", "run", "post"}
                  THEN "RUN" ELSE cardStatus[to[p]]

\* jobSetupStatus and do_jobSetup: the child reports through its sbatchd,
\* which looks the job card up by job id and writes the child's pid into it.
\* A child the sbatchd has no card for exits.
do_jobSetup(p) ==
    /\ proc[p] \in {"setup", "fail", "bad"}
    /\ to[p] \in sbd
    /\ \/ /\ cardStatus[to[p]] = "none"
          /\ proc' = [proc EXCEPT ![p] = "end"]
          /\ UNCHANGED <<mbd, wire, late, card, cardStatus, seq, lates, crossed>>
       \/ /\ cardStatus[to[p]] # "none"
          /\ \/ notReported(to[p], p, setupStatus(p))
             \/ /\ reported(to[p], p, setupStatus(p))
                /\ IF proc[p] = "setup"
                   THEN /\ proc' = [proc EXCEPT ![p] = "exec"]
                        /\ setCard(to[p], p, IF cardStatus[to[p]] = "new"
                                             THEN "run" ELSE cardStatus[to[p]])
                   ELSE /\ proc' = [proc EXCEPT ![p] = "end"]
                        /\ dropCard(to[p])
          /\ crossed' = IF card[to[p]] # p \/ crosses(to[p], p) THEN "yes" ELSE crossed
    /\ UNCHANGED <<sbd, faults>>

\* The user's command ends, or is killed.
jobExit(p) ==
    /\ proc[p] = "exec"
    /\ proc' = [proc EXCEPT ![p] = "end"]
    /\ UNCHANGED <<mbd, wire, late, sbd, card, cardStatus, seq, faults, lates,
                   crossed>>

\* resigJobs1, do_sigjob and renewJobStat: mbatchd has the zombies of a host
\* killed; the sbatchd signals the process of the card with that job id.
killZombie(h) ==
    /\ \E i \in DOMAIN zombies : zombies[i][1] = h
    /\ hStatus[h] = "OK"
    /\ h \in sbd
    /\ cardStatus[h] \in {"new", "run"}
    /\ alive(h)
    /\ proc' = [proc EXCEPT ![card[h]] = "end"]
    /\ UNCHANGED <<mbd, wire, late, sbd, card, cardStatus, seq, faults, lates,
                   crossed>>

\* Mutant: only jobs that reported RUN are looked at.
Mut_checkFinish(h) ==
    /\ h \in sbd
    /\ cardStatus[h] = "run"
    /\ ~alive(h)
    /\ \E st \in {"DONE", "EXIT", "PEND", "BOOT"} :
         /\ st = "BOOT" <=> \E p \in Pids : card[h] = p /\ proc[p] = "lost"
         /\ cardStatus' = [cardStatus EXCEPT ![h] = st]
    /\ UNCHANGED <<mbd, wire, late, sbd, card, seq, proc, faults, lates, crossed>>

\* checkFinish and jobGone: the process of the card is gone; its exit status
\* decides between DONE, EXIT and a requeue.
checkFinish(h) ==
    /\ h \in sbd
    /\ cardStatus[h] \in {"new", "run"}
    /\ ~alive(h)
    /\ \E st \in {"DONE", "EXIT", "PEND", "BOOT"} :
         /\ st = "BOOT" <=> \E p \in Pids : card[h] = p /\ proc[p] = "lost"
         /\ cardStatus' = [cardStatus EXCEPT ![h] = st]
    /\ UNCHANGED <<mbd, wire, late, sbd, card, seq, proc, faults, lates, crossed>>

\* job_finish: report the end; a done job stays for its post-processing.
job_finish(h) ==
    /\ h \in sbd
    /\ cardStatus[h] \in {"PEND", "DONE", "EXIT", "BOOT"}
    /\ \/ notReported(h, card[h], cardStatus[h])
       \/ /\ reported(h, card[h], cardStatus[h])
          /\ IF cardStatus[h] = "DONE" THEN setCard(h, card[h], "post")
                                       ELSE dropCard(h)
          /\ UNCHANGED <<sbd, proc>>
    /\ crossed' = IF crosses(h, card[h]) THEN "yes" ELSE crossed
    /\ UNCHANGED faults

\* job_finish after the post-processing.
post_finish(h) ==
    /\ h \in sbd
    /\ cardStatus[h] = "post"
    /\ \/ notReported(h, card[h], "POST")
       \/ /\ reported(h, card[h], "POST")
          /\ dropCard(h)
          /\ UNCHANGED <<sbd, proc>>
    /\ UNCHANGED <<faults, crossed>>

\* An sbatchd dies; its children live on, and so do their connections.
sbdCrash(h) ==
    /\ faults < MaxFault
    /\ faults' = faults + 1
    /\ h \in sbd
    /\ sbd' = sbd \ {h}
    /\ dropCard(h)
    /\ req' = {d \in req : to[d] # h}
    /\ broken' = broken \cup {d \in req : to[d] = h}
    /\ UNCHANGED <<mbd, node, to, reply, ack, late, seq, proc, lates, crossed>>

\* The host reboots: its processes are gone and their connections reset.
hostBoot(h) ==
    /\ faults < MaxFault
    /\ faults' = faults + 1
    /\ sbd' = sbd \ {h}
    /\ dropCard(h)
    /\ proc' = [p \in Pids |-> IF to[p] = h /\ proc[p] \in Live
                               THEN "lost" ELSE proc[p]]
    /\ req' = {d \in req : to[d] # h}
    /\ ack' = {d \in ack : to[d] # h}
    /\ broken' = broken \cup {d \in Pids : to[d] = h /\ node[d] = "open"}
    /\ UNCHANGED <<mbd, node, to, reply, late, seq, lates, crossed>>

\* addJob: the job cards an answer of do_restartReq asks for.  status is new
\* when the execution of the command was not yet known to mbatchd.
listedJobs(h) ==
    (IF jStatus = "RUN" /\ hPtr = h /\ jobPid # 0
     THEN {<<jobPid, IF execHome = "set" THEN "run" ELSE "new">>} ELSE {})
    \cup (IF jStatus = "DONE" /\ hPtr = h THEN {<<jobPid, "DONE">>} ELSE {})
    \cup {<<zombies[i][2], IF zombies[i][2] = 0 THEN "EXIT" ELSE "run">> :
              i \in {j \in DOMAIN zombies : zombies[j][1] = h}}

\* An sbatchd starts and asks for its jobs (getJobsState, do_restartReq).
sbdRestart(h) ==
    /\ h \notin sbd
    /\ sbd' = sbd \cup {h}
    /\ heardFrom(h)
    /\ needPoll' = needPoll \ {h}
    /\ sbatchdJobs(h)
    /\ IF listedJobs(h) = {} THEN UNCHANGED <<card, cardStatus>>
       ELSE \E c \in listedJobs(h) : setCard(h, c[1], c[2])
    /\ seq' = [seq EXCEPT ![h] = 1]
    /\ UNCHANGED <<jobPid, zombies, zlog, wire, late, proc, faults, lates, crossed>>

\* A connection is reset under both ends.
breakConnection(d) ==
    /\ faults < MaxFault
    /\ faults' = faults + 1
    /\ node[d] = "open"
    /\ d \notin broken
    /\ broken' = broken \cup {d}
    /\ req' = req \ {d}
    /\ UNCHANGED <<mbd, node, to, reply, ack, late, slave, lates, crossed>>

-----------------------------------------------------------------------------
mbatchd ==
    \/ \E h \in Hosts : \/ dispatch_it(h) \/ dispatchRefused(h)
                        \/ hostUnreach(h) \/ hostUnavail(h) \/ probe_slave(h)
    \/ \E d \in Pids : \/ doNewJobReply(d) \/ doNewJobError(d)
                       \/ shutdownSbdConnections(d) \/ closeKeptChannel(d)
    \/ cleanRequeue \/ removeJob \/ mbdRestart
    \/ \E r \in late : lateReport(r)

sbatchd(h) ==
    \/ checkFinish(h) \/ job_finish(h) \/ post_finish(h) \/ killZombie(h)
    \/ sbdCrash(h) \/ sbdRestart(h) \/ hostBoot(h)

child(d) ==
    \/ do_newjob(d) \/ breakConnection(d)
    \/ readGoAhead(d) \/ noGoAhead(d) \/ setupFails(d) \/ do_jobSetup(d)
    \/ jobExit(d)

Next == \/ mbatchd
        \/ \E h \in Hosts : sbatchd(h)
        \/ \E d \in Pids : child(d)

Spec == Init /\ [][Next]_vars

\* Weak fairness of what the daemons and their children do by themselves: the
\* select loops of mbatchd and sbatchd serve every ready connection and run
\* their periodic work, and init restarts an sbatchd.  Faults, the end of the
\* user's command and the signal to a zombie carry no fairness.
Fairness ==
    /\ WF_vars(cleanRequeue)
    /\ \A h \in Hosts : /\ WF_vars(dispatch_it(h)) /\ WF_vars(probe_slave(h))
                        /\ WF_vars(checkFinish(h)) /\ WF_vars(job_finish(h))
                        /\ WF_vars(sbdRestart(h))
    /\ \A d \in Pids : /\ WF_vars(doNewJobReply(d)) /\ WF_vars(doNewJobError(d))
                       /\ WF_vars(do_newjob(d)) /\ WF_vars(readGoAhead(d))
                       /\ WF_vars(noGoAhead(d)) /\ WF_vars(do_jobSetup(d))
    /\ WF_vars(\E r \in late : lateReport(r))

LiveSpec == Spec /\ Fairness

-----------------------------------------------------------------------------
(* Properties *)

isZombie(p) == <<to[p], p>> \in Range(zombies)

\* At most one process executes the user's command, apart from instances that
\* mbatchd itself lists as zombies to be killed.  It rests on the handshake of
\* doNewJobReply (a child goes ahead only once its pid is recorded) and on
\* statusJob giving a start up only on the word of that instance; it is lost
\* only after one of the cross-overs recorded in crossed.
SingleExecution ==
    \A p, q \in Pids :
        p # q /\ proc[p] = "exec" /\ proc[q] = "exec" /\ crossed = "no"
        => isZombie(p) \/ isZombie(q)

\* A child that has its go-ahead, or has acted on it.
goesAhead(p) == proc[p] \in {"setup", "exec"} \/ (proc[p] = "wait" /\ p \in ack)

\* Every child that goes ahead is a zombie or the instance of mbatchd's record.
InCharge ==
    \A p \in Pids :
        goesAhead(p) => \/ isZombie(p)
                        \/ jStatus = "RUN" /\ jobPid = p /\ hPtr = to[p]

\* A dispatch number is unused until dispatch_it takes it, its request is
\* unanswered until do_newjob reads it, and only then is a child forked.
Wiring ==
    \A d \in Pids :
        /\ node[d] = "idle" => to[d] = NoHost /\ proc[d] = "none" /\ d \notin req
                               /\ d \notin ack /\ reply[d] = 0
        /\ d \in req => proc[d] = "none" /\ d \notin ack /\ reply[d] = 0
        /\ proc[d] # "none" => to[d] # NoHost

\* p is 0 or the pid of a child that was forked on host h.
forkedOn(h, p) == p \in Pids => proc[p] # "none" /\ to[p] = h

\* p is 0 or the pid of a child that has not executed the command, or no
\* longer does.
over(p) == p \in Pids => proc[p] \in {"fail", "bad", "end", "lost"}

\* Pids are kept with the host they belong to, wherever they are kept.
Located ==
    /\ hPtr # NoHost => forkedOn(hPtr, jobPid)
    /\ \A z \in Range(zombies) : forkedOn(z[1], z[2])
    /\ \A r \in late : forkedOn(r.host, r.pid)
    /\ \A h \in Hosts : forkedOn(h, card[h])
    /\ \A d \in Pids : reply[d] = d => proc[d] # "none"

\* An instance is reported or recorded as ended only when it has.
EndsAreTrue ==
    /\ jStatus = "DONE" => over(jobPid)
    /\ \A r \in late : r.status # "RUN" => over(r.pid)
    /\ \A h \in Hosts :
           cardStatus[h] \in {"post", "PEND", "DONE", "EXIT", "BOOT"} => over(card[h])

\* The inductive invariant behind SingleExecution.
JobInv == Wiring /\ (crossed = "no" => Located /\ EndsAreTrue /\ InCharge)

\* The reports of the current instance are never discarded as obsolete:
\* statusJob compares nextSeq with the counter of the sbatchd, which restarts
\* at 1 with the sbatchd, while mbatchd resets nextSeq on its own occasions.
\* (Holds when no report outlives the call that sent it.)
SeqInStep ==
    \A h \in Hosts :
        /\ jStatus = "RUN" /\ hPtr = h
        /\ cardStatus[h] # "none" /\ card[h] = jobPid
        => seq[h] >= nextSeq

\* statusJob's own message, "Job <%s> started but hPtr is NULL", is logged as
\* an error: a started job has an execution host.
StartedHasHost == jStatus = "RUN" => hPtr # NoHost

RerunStep == jStatus \in {"REQUEUE", "RERUN"} => jStatus' \in {jStatus, "PEND"}

\* mailUser tells the owner of a rerunnable job whose host was lost that "The
\* job will be re-queued and re-run with the same jobId": the job leaves its
\* EXIT status for PEND only.
RerunPromise == [][RerunStep]_vars

Instance(p) == jStatus = "RUN" /\ jobPid = p /\ crossed = "no" /\ lates = 0

\* mbatchd learns of the end of the instance it holds to be running, through
\* restarts of either daemon, reboots and lost hosts: no ended process leaves
\* its job in RUN for ever.  (Up to the first report that outlives the call
\* that sent it: one that says RUN can bring a job back that is over.)
EndReported ==
    \A p \in Pids :
        Instance(p) /\ hPtr = to[p] /\ proc[p] \in {"end", "lost"} ~> ~Instance(p)
=============================================================================
