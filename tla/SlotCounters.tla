---------------------------- MODULE SlotCounters ----------------------------
(***************************************************************************)
(* The slot accounting of mbatchd.  Every queue, the user and every host   *)
(* has six counters (jobs, pending, running, suspended by the system,      *)
(* suspended by the user, reserved).  They are never computed from the     *)
(* jobs: each change of a job adds and subtracts what it believes to be    *)
(* the difference (mbd.misc.c), and the scheduler trusts the result when   *)
(* it looks for free slots.  A counter that is wrong stays wrong until     *)
(* mbatchd restarts and counts again.                                      *)
(*                                                                         *)
(* The module has the life of a job as mbatchd sees it (submission,        *)
(* reservation, dispatch, brun, bstop, bresume, bkill, bswitch, bmod,      *)
(* brequeue, the reports of sbatchd and the replies to signals, restart)   *)
(* with, in every handler, the calls that touch the counters in the order  *)
(* in which the code makes them.                                           *)
(*                                                                         *)
(* Abstracted: one user, one slot of a job per host, no pre-exec command,  *)
(* no migration, no zombie jobs (see JobProtocol).  The accounts per user  *)
(* and host inside a queue change in the same calls, by the same numbers.  *)
(***************************************************************************)
EXTENDS Integers, FiniteSets, FiniteSetsExt

CONSTANTS
    Jobs, Hosts, Queues,
    MaxWire,          \* signals of one job under way at a time
    Scenarios         \* workloads: [ops, does, bills, lockLoad, mxj], where
                      \* mxj is the number of job slots of a host

ASSUME SlotConstants == MaxWire \in Nat

VARIABLES
    job,      \* what mbatchd knows of each job
    books,    \* the counters
    sbd,      \* status and reasons of each job at its sbatchd
    wire,     \* signals sent to sbatchd and its replies
    scen, left

vars == <<job, books, sbd, wire, scen, left>>

Pending == {"PEND", "PSUSP"}
Suspended == {"SSUSP", "USUSP"}
Started == {"RUN"} \cup Suspended
Statuses == Pending \cup Started \cup {"EXIT"}
Kinds == {"JOBS", "PEND", "RESERVE"} \cup Started
Signals == {"SUSP", "RESUME", "TERM", "RLOAD", "ZERO"}
Reasons == {"LOCK", "STOP", "LOAD", "UR"}

NoSub == [queue |-> "none"]
NewJob(bill) ==
    [status |-> "PEND", reserve |-> FALSE, hosts |-> {}, bill |-> bill,
     newSub |-> NoSub, modOnce |-> FALSE, reasons |-> {}, logged |-> {}, sig |-> "NULL",
     urgent |-> FALSE, sendSig |-> FALSE]
Absent == [NewJob(NoSub) EXCEPT !.status = "NULL"]

Zero == [k \in Kinds |-> 0]
EmptyBooks == [queue |-> [q \in Queues |-> Zero], user |-> Zero,
               host |-> [h \in Hosts |-> Zero], group |-> [st \in Statuses |-> 0],
               exclusive |-> {},
               negative |-> FALSE]

Init ==
    /\ job = [j \in Jobs |-> Absent]
    /\ books = EmptyBooks
    /\ sbd = [j \in Jobs |-> [st |-> "NULL", reasons |-> {}]]
    /\ wire = {}
    /\ scen \in Scenarios
    /\ left = scen.ops

-----------------------------------------------------------------------------
(* Counters. *)

(* A change of the counters: jobs and pend for JOBS and PEND, num slots     *)
(* that leave the counter "from" and enter the counter "to", and the jobs   *)
(* each of the hosts gains.                                                 *)
delta(jobs, pend, from, to, num, hostJobs) ==
    [k \in Kinds \cup {"HOST"} |->
        CASE k = "JOBS" -> jobs
          [] k = "PEND" -> pend
          [] k = "HOST" -> hostJobs
          [] OTHER -> (IF k = to THEN num ELSE 0) - (IF k = from THEN num ELSE 0)]

NoChange == delta(0, 0, "none", "none", 0, 0)

addValue(c, d) == [k \in Kinds |-> IF c[k] + d[k] < 0 THEN 0 ELSE c[k] + d[k]]
isNegative(c, d) == \E k \in Kinds : c[k] + d[k] < 0

(* What updHostData adds for each slot: one where the queue has num. *)
perHost(d) ==
    [k \in Kinds |-> IF k = "JOBS" THEN d["HOST"]
                     ELSE IF k = "PEND" THEN 0
                     ELSE IF d[k] > 0 THEN 1
                     ELSE IF d[k] < 0 THEN -1
                     ELSE 0]

(* updQaccount, updUserData and updHostData together, for a change d of     *)
(* the queue and the user and e of each host.  A host whose last job has    *)
(* gone is no longer exclusive.                                             *)
charge(b, q, hosts, d, e) ==
    [queue |-> [b.queue EXCEPT ![q] = addValue(@, d)],
     user |-> addValue(b.user, d),
     host |-> [h \in Hosts |-> IF h \in hosts THEN addValue(b.host[h], e) ELSE b.host[h]],
     group |-> b.group,
     exclusive |-> b.exclusive \ {h \in hosts : b.host[h]["JOBS"] + e["JOBS"] <= 0},
     negative |-> \/ b.negative
                  \/ isNegative(b.queue[q], d) \/ isNegative(b.user, d)
                  \/ \E h \in hosts : isNegative(b.host[h], e)]

(* The state of mbatchd that a handler changes, passed through its calls. *)
State == [job |-> job, books |-> books]
Become(s) == job' = s.job /\ books' = s.books

chargeJob(s, j, d) ==
    [s EXCEPT !.books = charge(@, s.job[j].bill.queue, s.job[j].hosts, d, perHost(d))]

(* The counters of the job group. *)
updJgrpCountByJStatus(s, old, new) ==
    [s EXCEPT !.books.group = [st \in Statuses |->
        @[st] - (IF st = old THEN 1 ELSE 0) + (IF st = new THEN 1 ELSE 0)]]

(* What a change of status from old to new is for the counters: the job     *)
(* has num slots and asked for numReq.                                      *)
statusDelta(old, new, num, numReq) ==
    IF old = new THEN NoChange
    ELSE CASE old \in Started /\ new \in Started -> delta(0, 0, old, new, num, 0)
           [] (old = "PEND" /\ new \in Started) \/ (old = "PSUSP" /\ new = "RUN") ->
                delta(num - numReq, -numReq, "none", new, num, 1)
           [] old \in Started /\ new = "EXIT" -> delta(-num, 0, old, "none", num, -1)
           [] old \in Pending /\ new = "EXIT" -> delta(-numReq, -numReq, "none", "none", 0, 0)
           [] old \in Started /\ new = "PEND" ->
                delta(numReq - num, numReq, old, "none", num, -1)
           [] OTHER -> NoChange

updCounters(s, j, old) ==
    chargeJob(s, j, statusDelta(old, s.job[j].status, Cardinality(s.job[j].hosts),
                                s.job[j].bill.max))

(* Taking (on) or giving back a reservation. *)
reserveDelta(st, on, num) ==
    CASE st \in Suspended /\ on -> delta(0, 0, st, "RESERVE", num, 0)
      [] st \in Suspended /\ ~on -> delta(0, 0, "RESERVE", st, num, 0)
      [] st \in Pending /\ on -> delta(0, -num, "none", "RESERVE", num, 1)
      [] st \in Pending /\ ~on -> delta(0, num, "RESERVE", "none", num, -1)
      [] OTHER -> NoChange

updResCounters(s, j, on) ==
    IF on = s.job[j].reserve THEN s
    ELSE chargeJob(s, j, reserveDelta(s.job[j].status, on, Cardinality(s.job[j].hosts)))

setReserve(s, j, on) ==
    [updResCounters(s, j, on) EXCEPT !.job[j].reserve = on]

(* A job leaves (sign is -1) or enters (1) the counters of its queue. *)
moveDelta(st, sign, num, numReq) ==
    IF st \in Pending
    THEN delta(sign * numReq, sign * numReq, "none", "none", 0, 0)
    ELSE delta(sign * num, 0, "none", st, sign * num, sign)

moveJob(s, j, sign, numReq) ==
    chargeJob(s, j, moveDelta(s.job[j].status, sign, Cardinality(s.job[j].hosts), numReq))

inQueue(s, j, q) == [s EXCEPT !.job[j].bill.queue = q]

(* Moves a job from queue qf to the queue it is in now; a pending job also *)
(* from oldNumReq requested slots to those of its parameters.  What it has *)
(* reserved is given back in one queue and taken in the other.             *)
updSwitchJob(s, j, qf, oldNumReq) ==
    setReserve(
        moveJob(inQueue(moveJob(setReserve(inQueue(s, j, qf), j, FALSE), j, -1, oldNumReq),
                        j, s.job[j].bill.queue),
                j, 1, s.job[j].bill.max),
        j, s.job[j].reserve)

-----------------------------------------------------------------------------
(* Changes of a job that several handlers make. *)

freeReserveSlots(s, j) ==
    IF s.job[j].reserve
    THEN [setReserve(s, j, FALSE) EXCEPT !.job[j].hosts = {}]
    ELSE s

(* Mutant: a reservation survives the start of the job. *)
Mut_resetReserve(s, j, new) ==
    IF s.job[j].status = "PEND" /\ new \in {"PSUSP", "EXIT"}
    THEN freeReserveSlots(s, j)
    ELSE IF s.job[j].status \in Started /\ new \in {"EXIT", "PEND"}
    THEN setReserve(s, j, FALSE)
    ELSE s

resetReserve(s, j, new) ==
    IF s.job[j].status = "PEND" /\ new \in {"PSUSP", "EXIT"}
    THEN freeReserveSlots(s, j)
    ELSE IF s.job[j].status \in Started /\ new \in {"RUN", "EXIT", "USUSP", "PEND"}
    THEN setReserve(s, j, FALSE)
    ELSE s

saveOldParameters(s, j) == s.job[j].bill

(* Puts the parameters kept aside (newSub) in force. *)
changeJobParams(s, j) ==
    LET keep == s.job[j].newSub.once /\ ~s.job[j].modOnce
    IN  [s EXCEPT !.job[j].bill = s.job[j].newSub,
                  !.job[j].modOnce = keep,
                  !.job[j].newSub = IF keep THEN saveOldParameters(s, j) ELSE NoSub]

handleFinishJob(s, j) ==
    LET t == [s EXCEPT !.job[j].sig = "NULL", !.job[j].reasons = {}]
    IN  IF s.job[j].bill.once /\ s.job[j].newSub # NoSub
        THEN changeJobParams(t, j) ELSE t

freeExecParams(s, j) == [s EXCEPT !.job[j].hosts = {}, !.job[j].reasons = {}]

setState(s, j, new) ==
    [updJgrpCountByJStatus(s, s.job[j].status, new) EXCEPT
        !.job[j].status = new,
        !.job[j].logged = IF new \in Suspended THEN s.job[j].reasons ELSE {}]

(* What else a job's new status brings. *)
onStatus(s, j, old, new) ==
    CASE new = "EXIT" -> handleFinishJob(s, j)
      [] old \in Pending /\ new \in Started -> [s EXCEPT !.job[j].reasons = {}]
      [] old \in Started /\ new = "RUN" ->
            [s EXCEPT !.job[j].reasons = {}, !.job[j].sendSig = FALSE]
      [] OTHER -> s

leaveHosts(s, j, old) ==
    IF old \in Started /\ s.job[j].status = "PEND" THEN freeExecParams(s, j) ELSE s

jStatusChange(s, j, new, logIt) ==
    IF s.job[j].status = new THEN s
    ELSE leaveHosts(
            updCounters(
                onStatus(
                    setState(IF logIt /\ s.job[j].reserve THEN resetReserve(s, j, new) ELSE s,
                             j, new),
                    j, s.job[j].status, new),
                j, s.job[j].status),
            j, s.job[j].status)

newParams(s, j) == IF s.job[j].newSub # NoSub THEN changeJobParams(s, j) ELSE s

enterPend(s, j) ==
    chargeJob(s, j, delta(s.job[j].bill.max, s.job[j].bill.max, "none", "none", 0, 0))

(* Mutant: the job group is not told. *)
Mut_handleRequeueJob(s, j) ==
    enterPend(
        freeExecParams(
            [newParams(s, j) EXCEPT
                !.job[j].status = "PEND", !.job[j].reserve = FALSE,
                !.job[j].modOnce = FALSE, !.job[j].urgent = FALSE],
            j),
        j)

(* A finished job goes back to the pending list. *)
handleRequeueJob(s, j) ==
    enterPend(
        freeExecParams(
            [updJgrpCountByJStatus(newParams(s, j), s.job[j].status, "PEND") EXCEPT
                !.job[j].status = "PEND", !.job[j].reserve = FALSE,
                !.job[j].modOnce = FALSE, !.job[j].urgent = FALSE],
            j),
        j)

(* A signal to a job that is not started. *)
sigPFjob(s, j, sig, logIt) ==
    LET st == s.job[j].status
    IN  CASE sig = "SUSP" /\ st = "PEND" -> jStatusChange(s, j, "PSUSP", logIt)
          [] sig = "RESUME" /\ st = "PSUSP" -> jStatusChange(s, j, "PEND", logIt)
          [] sig = "TERM" /\ st \in Pending -> jStatusChange(s, j, "EXIT", logIt)
          [] OTHER -> s

-----------------------------------------------------------------------------
(* Requests of users. *)

user(what) == what \in scen.does /\ left > 0 /\ left' = left - 1

held(s, j, hold) == IF hold THEN jStatusChange(s, j, "PSUSP", FALSE) ELSE s

(* newJob, handleNewJob: bsub, and bsub -H. *)
handleNewJob(j, bill, hold) ==
    /\ user("bsub")
    /\ job[j].status = "NULL" /\ ~bill.once
    /\ Become(held(enterPend([updJgrpCountByJStatus(State, "NULL", "PEND") EXCEPT
                                 !.job[j] = NewJob(bill)],
                              j),
                    j, hold))
    /\ UNCHANGED <<sbd, wire, scen>>

(* bstop, bresume, bkill of a job that is pending. *)
signalPending(j, sig) ==
    /\ user(sig)
    /\ job[j].status \in Pending
    /\ Become(sigPFjob(State, j, sig, TRUE))
    /\ UNCHANGED <<sbd, wire, scen>>

(* The parameters of a started job are kept for its next run. *)
keepParams(s, j) ==
    [s EXCEPT !.job[j].newSub = IF s.job[j].status \in Started THEN s.job[j].bill ELSE NoSub]

(* bswitch: a reservation of a pending job is given up, that of a          *)
(* suspended one moves along.                                              *)
switchAJob(j, q) ==
    /\ user("bswitch")
    /\ job[j].status \in Pending \cup Started
    /\ job[j].bill.queue # q
    /\ Become(keepParams(
                 updSwitchJob(
                   inQueue(IF job[j].status \in Pending THEN freeReserveSlots(State, j)
                           ELSE State,
                           j, q),
                   j, job[j].bill.queue, job[j].bill.max),
                 j))
    /\ UNCHANGED <<sbd, wire, scen>>

saveForOnce(s, j, bill) ==
    IF bill.once /\ ~s.job[j].bill.once
    THEN [s EXCEPT !.job[j].modOnce = TRUE, !.job[j].newSub = saveOldParameters(s, j)]
    ELSE s

setBill(s, j, bill) ==
    [s EXCEPT !.job[j].bill = [bill EXCEPT !.queue = s.job[j].bill.queue]]

(* The queue or the number of slots changes: a reservation is given up. *)
changeSlots(s, j, q, oldNumReq) ==
    updSwitchJob(inQueue(freeReserveSlots(s, j), j, q), j, s.job[j].bill.queue, oldNumReq)

(* bmod of a pending job (for a started one it changes no counter).  With  *)
(* -O the modification is for one run only: the old parameters are kept.   *)
handleJParameters(j, bill) ==
    /\ user("bmod")
    /\ job[j].status \in Pending
    /\ job[j].bill.once => bill.once
    /\ bill.excl = job[j].bill.excl
    /\ Become(IF bill.queue # job[j].bill.queue \/ bill.max # job[j].bill.max
              THEN changeSlots(setBill(saveForOnce(State, j, bill), j, bill),
                               j, bill.queue, job[j].bill.max)
              ELSE setBill(saveForOnce(State, j, bill), j, bill))
    /\ UNCHANGED <<sbd, wire, scen>>

heldAgain(s, j, hold) ==
    IF hold THEN [updJgrpCountByJStatus(s, "PEND", "PSUSP") EXCEPT !.job[j].status = "PSUSP"]
    ELSE s

(* brequeue of a finished job. *)
requeue(j, hold) ==
    /\ user("brequeue")
    /\ job[j].status = "EXIT"
    /\ Become(heldAgain(handleRequeueJob(State, j), j, hold))
    /\ UNCHANGED <<sbd, wire, scen>>

-----------------------------------------------------------------------------
(* The scheduler. *)

(* Mutant: off by one at the last slot. *)
Mut_slotFree(s, j, h) ==
    /\ s.books.host[h]["JOBS"] <= scen.mxj
    /\ h \notin s.books.exclusive
    /\ s.job[j].bill.excl => s.books.host[h]["JOBS"] < 1

slotFree(s, j, h) ==
    /\ s.books.host[h]["JOBS"] < scen.mxj
    /\ h \notin s.books.exclusive
    /\ s.job[j].bill.excl => s.books.host[h]["JOBS"] < 1

eligible(s, j) == {h \in Hosts : slotFree(s, j, h)}

(* The job has been accepted by sbatchd on the hosts S. *)
jobStarted(s, j, S) ==
    jStatusChange([s EXCEPT !.job[j].hosts = S,
                            !.books.exclusive = IF s.job[j].bill.excl THEN @ \cup S ELSE @],
                  j, "RUN", TRUE)

onSbd(j) == sbd' = [sbd EXCEPT ![j] = [st |-> "RUN", reasons |-> {}]]

(* A signal that is still due comes before the scheduling of a job. *)
dueSignal(j) == sigPFjob(State, j, job[j].sig, TRUE)
ready(j) == job[j].status = "PEND" /\ dueSignal(j).job[j].status = "PEND"

scheduleAJob(j) ==
    /\ job[j].status \in Pending
    /\ dueSignal(j) # State
    /\ Become(dueSignal(j))
    /\ UNCHANGED <<sbd, wire, scen, left>>

(* A job gives its reservation back whenever the scheduler comes to it. *)
checkSlotReserve(j) ==
    /\ ready(j) /\ job[j].reserve
    /\ Become(freeReserveSlots(State, j))
    /\ UNCHANGED <<sbd, wire, scen, left>>

(* The hosts a job gets: as many as it may use of those that are free. *)
startOn(s, j, S) ==
    /\ S \subseteq eligible(s, j)
    /\ Cardinality(S) >= s.job[j].bill.min
    /\ Cardinality(S) = Min({s.job[j].bill.max, Cardinality(eligible(s, j))})
    /\ Become(jobStarted(s, j, S))

dispatchAJob(j) ==
    /\ ready(j)
    /\ \E S \in SUBSET Hosts : startOn(freeReserveSlots(State, j), j, S)
    /\ onSbd(j)
    /\ UNCHANGED <<wire, scen, left>>

(* Too few free slots: the job holds those there are. *)
holdSlots(s, j) ==
    /\ Cardinality(eligible(s, j)) < s.job[j].bill.min
    /\ Become(setReserve([s EXCEPT !.job[j].hosts = eligible(s, j)], j, TRUE))

reserveSlots(j) ==
    /\ "reserve" \in scen.does
    /\ ready(j)
    /\ holdSlots(freeReserveSlots(State, j), j)
    /\ UNCHANGED <<sbd, wire, scen, left>>

(* brun: on the hosts it names, whatever runs there.  A finished job is    *)
(* requeued first, and stays pending if the dispatch fails.                *)
forceJob(s, j, S, accepted) ==
    /\ Cardinality(S) \in s.job[j].bill.min .. s.job[j].bill.max
    /\ Become(IF accepted THEN jobStarted(s, j, S) ELSE [s EXCEPT !.job[j].hosts = {}])

runJob(j, S, accepted) ==
    /\ user("brun")
    /\ job[j].status \in Pending \cup {"EXIT"}
    /\ forceJob([freeReserveSlots(IF job[j].status = "EXIT" THEN handleRequeueJob(State, j)
                                  ELSE State, j)
                   EXCEPT !.job[j].urgent = TRUE, !.job[j].reasons = {}],
                j, S, accepted)
    /\ IF accepted THEN onSbd(j) ELSE UNCHANGED sbd
    /\ UNCHANGED <<wire, scen>>

-----------------------------------------------------------------------------
(* Signals to started jobs. *)

inFlight(j, sig) == \E m \in wire : m.job = j /\ m.sig = sig

(* Whether the load and the resources let a suspended job go on is up to   *)
(* the hosts (can); the reasons it stays suspended for follow.             *)
shouldResume(s, j, sig, can) ==
    LET r == IF s.job[j].urgent /\ sig = "RESUME" THEN {"UR"} ELSE s.job[j].reasons
    IN  [s EXCEPT !.job[j].reasons =
            IF ~can THEN r \cup {"LOAD"}
            ELSE IF r \ {"LOCK", "LOAD"} # {} THEN r \ {"LOAD"} ELSE r]

(* Gives the reservation up, and takes it again if the job can go on. *)
reserveToResume(s, j, sig, can) ==
    setReserve(shouldResume(setReserve(s, j, FALSE), j, sig, can), j, can)

toResume(s, j, sig, can) ==
    IF sig = "RESUME" /\ "LOCK" \in s.job[j].reasons
    THEN reserveToResume(s, j, sig, can) ELSE s

signalReplyCode(s, j, sig, reply) ==
    IF reply = "ok" THEN [s EXCEPT !.job[j].sig = "NULL"]
    ELSE IF sig = "RLOAD" THEN s
    ELSE [s EXCEPT !.job[j].sig = sig]

(* The request goes out, or sbatchd cannot be reached. *)
sendSignal(s, j, sig, reached) ==
    /\ Become(signalReplyCode(s, j, sig, IF reached THEN "ok" ELSE "unreached"))
    /\ wire' = IF reached
               THEN wire \cup {[job |-> j, sig |-> sig, at |-> "request",
                                reasons |-> s.job[j].reasons]}
               ELSE wire

sigStartedJob(s, j, sig, can, reached) ==
    /\ Cardinality({m \in wire : m.job = j}) < MaxWire
    /\ sendSignal(toResume(s, j, sig, can), j, sig, reached)

(* A host is reached, and takes the job again, unless the workload says not. *)
outcome(can, reached) ==
    /\ can \/ "load" \in scen.does
    /\ reached \/ "lose" \in scen.does

signalStarted(j, sig, can, reached) ==
    /\ user(sig)
    /\ outcome(can, reached)
    /\ job[j].status \in Started
    /\ sigStartedJob(State, j, sig, can, reached)
    /\ UNCHANGED <<sbd, scen>>

(* Pending signals are tried again. *)
resigJobs1(j, can, reached) ==
    LET st == job[j].status
        sig == job[j].sig
        done == \/ st = "RUN" /\ sig = "RESUME"
                \/ st = "SSUSP" /\ "STOP" \in job[j].reasons /\ sig = "SUSP"
    IN  /\ sig # "NULL" /\ st # "EXIT"
        /\ outcome(can, reached)
        /\ IF st \in Started /\ ~done
           THEN sigStartedJob(State, j, sig, can, reached)
           ELSE /\ Become([(IF st \in Pending THEN sigPFjob(State, j, sig, TRUE) ELSE State)
                             EXCEPT !.job[j].sig = "NULL"])
                /\ UNCHANGED wire
        /\ UNCHANGED <<sbd, scen, left>>

(* sbatchd carries a signal out (or cannot, and asks to retry).  A locked  *)
(* job takes its reasons from mbatchd.                                     *)
jobSigStart(st, r, sig) ==
    IF sig = "SUSP" /\ st \in Started THEN [st |-> "USUSP", reasons |-> r \cup {"STOP"}]
    ELSE IF sig = "RESUME" /\ st \in Suspended /\ r \ {"LOCK", "STOP", "UR"} # {} THEN
            [st |-> "SSUSP",
             reasons |-> r \ (IF "LOCK" \in r THEN {"STOP", "UR"} ELSE {"STOP"})]
    ELSE IF sig \in {"RESUME", "RLOAD"} /\ st \in Suspended THEN [st |-> "RUN", reasons |-> {}]
    ELSE [st |-> st, reasons |-> r]

do_sigjob(m, works) ==
    LET c == sbd[m.job]
        r == IF "LOCK" \in m.reasons THEN m.reasons ELSE c.reasons
        ok == c.st = "EXIT" \/ (works /\ c.st # "PEND")
    IN  /\ m.at = "request"
        /\ works \/ "lose" \in scen.does
        /\ sbd' = [sbd EXCEPT ![m.job] = IF ok THEN jobSigStart(c.st, r, m.sig)
                                         ELSE [c EXCEPT !.reasons = r]]
        /\ wire' = (wire \ {m}) \cup {[m EXCEPT !.at = IF ok THEN "ok" ELSE "retry"]}
        /\ UNCHANGED <<job, books, scen, left>>

(* mbatchd learns that a signal was carried out. *)
resumeReasons(r) == IF r \subseteq {"LOCK"} THEN r \cup {"UR"} ELSE r

resumed(s, j) ==
    jStatusChange(
        setReserve([s EXCEPT !.job[j].reasons = resumeReasons(@ \ {"STOP"})], j, FALSE),
        j, "SSUSP", TRUE)

jobStatusSignal(s, j, sig) ==
    CASE sig = "SUSP" /\ s.job[j].status # "USUSP" ->
            jStatusChange([s EXCEPT !.job[j].reasons = @ \cup {"STOP", "LOCK"}],
                          j, "USUSP", TRUE)
      [] sig = "RESUME" /\ s.job[j].status = "USUSP" ->
            setReserve(resumed(s, j), j,
                       resumeReasons(s.job[j].reasons \ {"STOP"}) \subseteq {"UR", "LOCK"})
      [] OTHER -> s

addPendSigEvent(s, j, sig) ==
    IF s.job[j].sig = "NULL" THEN [s EXCEPT !.job[j].sig = sig] ELSE s

doSignalJobReply(m, exception) ==
    LET j == m.job
        st == job[j].status
        replied == signalReplyCode(State, j, m.sig, m.at)
    IN  /\ IF exception THEN "lose" \in scen.does ELSE m.at # "request"
        /\ wire' = wire \ {m}
        /\ Become(IF st = "EXIT" THEN State
                  ELSE IF st \in Pending THEN sigPFjob(State, j, m.sig, FALSE)
                  ELSE IF exception THEN addPendSigEvent(State, j, m.sig)
                  ELSE IF m.at = "ok" THEN jobStatusSignal(replied, j, m.sig)
                  ELSE addPendSigEvent(replied, j, m.sig))
        /\ UNCHANGED <<sbd, scen, left>>

(* A job suspended by the load, or resumed by its user, goes on when the   *)
(* hosts allow it; slots alone may be kept for it (send is FALSE).  The    *)
(* code skips a job it has signalled by a flag (found) that it never       *)
(* resets: more jobs may be skipped in a round, which is not to take the   *)
(* action.                                                                 *)
resumeOrKeep(s, j, sig, can, send, reached) ==
    IF send THEN sigStartedJob([s EXCEPT !.job[j].sendSig = TRUE], j, sig, can, reached)
    ELSE Become(s) /\ UNCHANGED wire

tryResume(j, can, send, reached) ==
    /\ job[j].status = "SSUSP" /\ "LOCK" \in job[j].reasons
    /\ ~(job[j].sendSig /\ \E m \in wire : m.job = j)
    /\ send => can
    /\ outcome(can, reached)
    /\ resumeOrKeep(reserveToResume(State, j, "NULL", can), j,
                 IF "LOAD" \in job[j].reasons THEN "RLOAD" ELSE "ZERO", can, send, reached)
    /\ UNCHANGED <<sbd, scen, left>>

-----------------------------------------------------------------------------
(* Reports of sbatchd. *)

(* What a report of a suspended job does to the reasons mbatchd has. *)
shouldLockJob(st) == st = "USUSP" \/ scen.lockLoad

reasonsReported(j) ==
    LET c == sbd[j]
    IN  IF c.st \notin Suspended \/ "LOCK" \in job[j].reasons THEN job[j].reasons
        ELSE IF "LOCK" \in c.reasons THEN c.reasons
        ELSE c.reasons \cup (IF shouldLockJob(c.st) THEN {"LOCK"} ELSE {})

dueAtPend(j, sig) == job[j].sig = sig \/ inFlight(j, sig)

(* The job is back: requeued by its exit value, failed to start, or failed *)
(* for the twentieth time.                                                 *)
statusAtPend(j, how) ==
    IF dueAtPend(j, "SUSP") THEN "PSUSP"
    ELSE IF how # "requeued" /\ dueAtPend(j, "TERM") THEN "EXIT"
    ELSE IF how = "again" THEN "PSUSP"
    ELSE "PEND"

(* The new status, by way of PEND for a job that is back. *)
newStatus(j, how) ==
    IF sbd[j].st = "PEND"
    THEN jStatusChange(jStatusChange(State, j, "PEND", TRUE), j, statusAtPend(j, how), TRUE)
    ELSE jStatusChange([State EXCEPT !.job[j].reasons = reasonsReported(j)],
                       j, sbd[j].st, TRUE)

statusJob(j, how) ==
    /\ job[j].status \in Started
    /\ how # "failed" => sbd[j].st = "PEND"
    /\ Become(newStatus(j, how))
    /\ IF sbd[j].st \in {"EXIT", "PEND"}
       THEN /\ sbd' = [sbd EXCEPT ![j] = [st |-> "NULL", reasons |-> {}]]
            /\ wire' = {m \in wire : m.job # j}
       ELSE /\ sbd' = [sbd EXCEPT ![j].reasons =
                  IF sbd[j].st \in Suspended /\ "LOCK" \in job'[j].reasons
                  THEN @ \cup {"LOCK"} ELSE @]
            /\ UNCHANGED wire
    /\ UNCHANGED <<scen, left>>

(* What happens to the job on its host. *)
atHost(j, from, to, r) ==
    /\ sbd[j].st \in from
    /\ sbd' = [sbd EXCEPT ![j] = [st |-> to, reasons |-> r]]
    /\ UNCHANGED <<job, books, wire, scen>>

shouldStop(j) == user("load") /\ atHost(j, {"RUN"}, "SSUSP", sbd[j].reasons \cup {"LOAD"})
job_resume(j) ==
    /\ sbd[j].reasons \cap {"LOCK", "STOP"} = {}
    /\ atHost(j, {"SSUSP"}, "RUN", {})
    /\ UNCHANGED left
job_finish(j) == atHost(j, Started, "EXIT", {}) /\ UNCHANGED left
jobBack(j) == user("fail") /\ atHost(j, {"RUN"}, "PEND", {})

(* The hosts of an exclusive job are closed to others. *)
closeHosts(s, j) ==
    IF s.job[j].status \in Started /\ s.job[j].bill.excl
    THEN [s EXCEPT !.books.exclusive = @ \cup s.job[j].hosts] ELSE s

recount(s, j) == closeHosts(updCounters(enterPend(s, j), j, "PEND"), j)

(* mbatchd restarts: the jobs are read back from the event log and counted *)
(* anew.  Reservations and requests under way are gone, and of the reasons *)
(* of a suspended job those last logged are left.                          *)
init_log ==
    LET back == [j \in Jobs |->
                    [job[j] EXCEPT !.reserve = FALSE, !.sendSig = FALSE,
                                   !.hosts = IF job[j].status \in Pending THEN {} ELSE @,
                                   !.reasons = job[j].logged]]
        replayed(s, j) == updJgrpCountByJStatus(s, "NULL", s.job[j].status)
        s1 == FoldSet(LAMBDA j, s : replayed(s, j), [job |-> back, books |-> EmptyBooks],
                      {j \in Jobs : job[j].status # "NULL"})
    IN  /\ user("restart")
        /\ Become(FoldSet(LAMBDA j, s : recount(s, j), s1,
                          {j \in Jobs : job[j].status \in Pending \cup Started}))
        /\ wire' = {}
        /\ UNCHANGED <<sbd, scen>>

-----------------------------------------------------------------------------
Bills == scen.bills

requests(j) ==
    \/ \E b \in Bills, hold \in BOOLEAN : handleNewJob(j, b, hold)
    \/ \E sig \in {"SUSP", "RESUME", "TERM"} :
          \/ signalPending(j, sig)
          \/ \E can, reached \in BOOLEAN : signalStarted(j, sig, can, reached)
    \/ \E q \in Queues : switchAJob(j, q)
    \/ \E b \in Bills : handleJParameters(j, b)
    \/ \E hold \in BOOLEAN : requeue(j, hold)
    \/ \E S \in SUBSET Hosts, accepted \in BOOLEAN : runJob(j, S, accepted)

scheduler(j) ==
    \/ scheduleAJob(j) \/ checkSlotReserve(j) \/ dispatchAJob(j) \/ reserveSlots(j)
    \/ \E can, reached \in BOOLEAN :
          \/ resigJobs1(j, can, reached)
          \/ \E send \in BOOLEAN : tryResume(j, can, send, reached)

reports(j) ==
    \/ \E how \in {"requeued", "failed", "again"} : statusJob(j, how)
    \/ shouldStop(j) \/ job_resume(j) \/ job_finish(j) \/ jobBack(j)

Next ==
    \/ \E j \in Jobs : requests(j) \/ scheduler(j) \/ reports(j)
    \/ \E m \in wire : \/ \E works \in BOOLEAN : do_sigjob(m, works)
                       \/ \E exception \in BOOLEAN : doSignalJobReply(m, exception)
    \/ init_log

Spec == Init /\ [][Next]_vars

-----------------------------------------------------------------------------
(* Properties. *)

Counters == [Kinds -> Nat]

(* Every counter is a natural number and every job is in a status mbatchd   *)
(* has; only started jobs and those that hold a reservation have hosts.     *)
TypeOK ==
    /\ books.queue \in [Queues -> Counters] /\ books.user \in Counters
    /\ books.host \in [Hosts -> Counters] /\ books.exclusive \subseteq Hosts
    /\ \A j \in Jobs :
         /\ job[j].status \in {"NULL", "EXIT"} \cup Pending \cup Started
         /\ job[j].sig \in Signals \cup {"NULL"} /\ job[j].reasons \subseteq Reasons
         /\ job[j].hosts \subseteq Hosts
         /\ job[j].status \in Pending => (job[j].hosts # {} => job[j].reserve)
         /\ job[j].status \in Started => job[j].hosts # {}

Alive == {j \in Jobs : job[j].status \in Pending \cup Started}
Total(S, share(_)) == [k \in Kinds |-> MapThenSumSet(LAMBDA j : share(j)[k], S)]

(* What a job should count for in its queue and for its user, and on each   *)
(* of its hosts.                                                            *)
Share(j) ==
    LET num == Cardinality(job[j].hosts)
        max == job[j].bill.max
        pending == job[j].status \in Pending
    IN  [k \in Kinds |->
            CASE k = "JOBS" -> IF pending THEN max ELSE num
              [] k = "PEND" -> IF pending THEN max - num ELSE 0
              [] k = "RESERVE" -> IF job[j].reserve THEN num ELSE 0
              [] OTHER -> IF job[j].status = k /\ ~job[j].reserve THEN num ELSE 0]

Slot(j) ==
    LET holds == IF job[j].reserve THEN "RESERVE" ELSE job[j].status
    IN  [k \in Kinds |-> IF k \in {"JOBS", holds} THEN 1 ELSE 0]

(* However the requests, reports, replies, reservations and restarts of the *)
(* jobs interleave, the counters of updQaccount, updUserData and            *)
(* updHostData are the sums of what the jobs hold: no slot is leaked and    *)
(* none is counted twice.                                                   *)
CountersExact ==
    /\ \A q \in Queues : books.queue[q] = Total({j \in Alive : job[j].bill.queue = q}, Share)
    /\ books.user = Total(Alive, Share)
    /\ \A h \in Hosts : books.host[h] = Total({j \in Alive : h \in job[j].hosts}, Slot)

(* The job groups (and bjgroup, and the dependency conditions that count    *)
(* jobs) see every job once, in the status it has.                          *)
GroupCounts ==
    \A st \in Statuses : books.group[st] = Cardinality({j \in Jobs : job[j].status = st})

Holders(h) == {j \in Alive : h \in job[j].hosts}

(* Without brun, no host has more jobs started on it or slots reserved than *)
(* it has slots, although slots are looked for in counters that are only    *)
(* ever adjusted.                                                           *)
NoOversell ==
    "brun" \notin scen.does => \A h \in Hosts : Cardinality(Holders(h)) <= scen.mxj

(* Without brun, an exclusive job shares its hosts with no other job,       *)
(* before and after a restart of mbatchd.                                   *)
ExclusiveAlone ==
    "brun" \notin scen.does =>
        \A h \in Hosts : \A j \in Holders(h) :
            job[j].status \in Started /\ job[j].bill.excl => Holders(h) = {j}

(* addValue never finds that a counter would become negative.               *)
NeverNegative == ~books.negative

(* No host has more jobs than slots, and a job that wants a host for itself *)
(* is alone there, as long as brun forces none (slotFree, closeHosts).      *)
SlotsSound == TypeOK /\ NoOversell /\ ExclusiveAlone
====
