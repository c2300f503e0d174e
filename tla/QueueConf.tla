----------------------------- MODULE QueueConf -----------------------------
(***************************************************************************)
(* lsb.params and lsb.queues: do_Param and do_Queues of lsb.conf.c, and    *)
(* what mbatchd makes of them at its start (setParams, addQData,           *)
(* readQueueConf, updQueueList of mbd.init.c).  One action reads the       *)
(* parameters, one reads a Queue section, one builds the queue list.       *)
(* A number in a file is an integer, or Bad for a word that is none.       *)
(***************************************************************************)
EXTENDS Integers, Sequences, SequencesExt, FiniteSets

CONSTANTS
    IntBits,        \* the width of an int
    QueuedJobs,     \* the jobs that may be submitted
    Factors         \* host models and hosts: name -> the CPU factor <<a, b>>, a/b

VARIABLES
    qfiles,         \* [params, versions, now, host]: lsb.params, the editions of lsb.queues
                    \* (sequences of sections), the one in place, a host's thresholds
    qnext,          \* the number of the Queue section to be read next
    qpar,           \* the parameters in force
    qconf,          \* queueConf: the sequence of the queues read
    qtab,           \* qDataList, in its order
    qjobs,          \* the logged jobs: job -> the queue of its JOB_NEW event
    qplace,         \* job -> the queue mbatchd has it in
    qstage          \* "params", "queues", "ready" or "crashed"

qvars == <<qfiles, qnext, qpar, qconf, qtab, qjobs, qplace, qstage>>

INFINIT_INT == 2 ^ (IntBits - 1) - 1
Bad == -(2 ^ (IntBits - 1)) - 1
wrap(x) == ((x + 2 ^ (IntBits - 1)) % 2 ^ IntBits) - 2 ^ (IntBits - 1)

(* my_atoi: INFINIT_INT stands for a word out of its bounds *)
my_atoi(w, up, bot) == IF w = Bad \/ w >= up \/ w <= bot THEN INFINIT_INT ELSE w
(* setValue keeps the old value for one that was not given *)
setValue(old, new) == IF new = INFINIT_INT THEN old ELSE new

(***************************************************************************)
(* Parameters                                                              *)
(***************************************************************************)
(* initParameterInfo and setDefaultParams: what a parameter is unless the  *)
(* file gives it a value                                                   *)
ParamDefaults ==
    [interval |-> 60, accept |-> 1, maxPriority |-> -1, jobPriority |-> <<-1, -1>>,
     arraySize |-> 1000, defaultQueues |-> <<>>, hostSpec |-> ""]

Given(p, k) == k \in DOMAIN p

(* do_Param for the counters (intervals, retries, ages), the ones that may *)
(* be zero, and the size of an array                                       *)
numberParam(p, k, bot, dflt) ==
    IF Given(p, k) THEN setValue(dflt, my_atoi(p[k], INFINIT_INT, bot)) ELSE dflt

arraySize(p, maxIdx) ==
    LET v == numberParam(p, "arraySize", 0, ParamDefaults.arraySize)
    IN IF v < 1 \/ v >= maxIdx THEN ParamDefaults.arraySize ELSE v

maxPriority(p) ==
    LET v == numberParam(p, "maxPriority", -1, -1) IN IF v > 0 THEN v ELSE -1

(* JOB_PRIORITY_OVER_TIME v/t: both parts, and only with MAX_USER_PRIORITY *)
jobPriority(p) ==
    IF ~Given(p, "jobPriority") \/ Len(p.jobPriority) # 2 \/ maxPriority(p) <= 0
    THEN <<-1, -1>>
    ELSE LET v == [i \in 1..2 |-> my_atoi(p.jobPriority[i], INFINIT_INT, 0)]
         IN IF INFINIT_INT \in Range(v) THEN <<-1, -1>> ELSE v

do_Param(p) ==
    [interval |-> numberParam(p, "interval", 0, ParamDefaults.interval),
     accept |-> numberParam(p, "accept", -1, ParamDefaults.accept),
     maxPriority |-> maxPriority(p),
     jobPriority |-> jobPriority(p),
     arraySize |-> arraySize(p, 2048),
     defaultQueues |-> IF Given(p, "defaultQueues") THEN p.defaultQueues ELSE <<>>,
     hostSpec |-> IF Given(p, "hostSpec") THEN p.hostSpec ELSE ""]

(***************************************************************************)
(* Limits of a queue                                                       *)
(***************************************************************************)
(* parseLimitAndSpec: [hour:]minute[/spec] in seconds; -1 when it is none *)
parseLimitAndSpec(w) ==
    LET up == INFINIT_INT \div 60 + 1
        first == my_atoi(w.t[1], up, -1)
        second == IF Len(w.t) = 2 THEN my_atoi(w.t[2], up, -1) ELSE 0
    IN IF first = INFINIT_INT \/ second = INFINIT_INT THEN -1
       ELSE IF Len(w.t) = 1 THEN first * 60
       ELSE wrap((first * 60 + second) * 60)

(* one of CPULIMIT and RUNLIMIT: [default] maximum.  A limit that is none  *)
(* stays infinite, and the default is brought down to the maximum.         *)
LimitOf(w) == IF parseLimitAndSpec(w) < 0 THEN INFINIT_INT ELSE parseLimitAndSpec(w)

timeLimit(ws) ==
    LET max == IF ws = <<>> THEN INFINIT_INT ELSE LimitOf(Last(ws))
        def == IF Len(ws) < 2 THEN INFINIT_INT ELSE LimitOf(ws[1])
    IN [max |-> max,
        def |-> IF def # INFINIT_INT /\ max # INFINIT_INT /\ def > max THEN max ELSE def]

(* the host specification the limits are for: the first one of the words,  *)
(* then the queue's and the cluster's; without one the fastest host        *)
Known(s) == s \in DOMAIN Factors
SpecsOf(ws) == SelectSeq([i \in DOMAIN ws |-> ws[i].spec], LAMBDA s : s # "")
fastest == CHOOSE h \in DOMAIN Factors :
               \A x \in DOMAIN Factors : Factors[x][1] * Factors[h][2] <= Factors[h][1] * Factors[x][2]

cpuFactor(sec, par) ==
    LET words == SpecsOf(sec.cpu) \o SpecsOf(sec.run)
        tried == (IF words = <<>> THEN <<>> ELSE <<words[1]>>) \o <<sec.spec, par.hostSpec>>
        valid == SelectSeq(tried, Known)
    IN IF valid = <<>> THEN Factors[fastest] ELSE Factors[valid[1]]

(* a limit on that host in seconds of the standard one, at least one *)
scaled(limit, f) ==
    IF limit <= 0 \/ limit = INFINIT_INT THEN limit
    ELSE IF limit * f[1] < f[2] THEN 1
    ELSE (2 * limit * f[1] + f[2]) \div (2 * f[2])

parseCpuAndRunLimit(sec, par) ==
    LET f == cpuFactor(sec, par)
        S(l) == [max |-> scaled(l.max, f), def |-> scaled(l.def, f)]
    IN [cpu |-> S(timeLimit(sec.cpu)), run |-> S(timeLimit(sec.run))]

(* DATALIMIT, MEMLIMIT, PROCESSLIMIT: [default] maximum *)
parseDefAndMaxLimits(ws) ==
    LET max == IF ws = <<>> THEN INFINIT_INT ELSE my_atoi(Last(ws), INFINIT_INT, 0)
        def == IF Len(ws) < 2 THEN INFINIT_INT ELSE my_atoi(ws[1], INFINIT_INT, 0)
    IN [max |-> max,
        def |-> IF def # INFINIT_INT /\ max # INFINIT_INT /\ def > max THEN max ELSE def]

(* PROCLIMIT: [minimum [default]] maximum; refused as a whole when wrong *)
parseProcLimit(ws) ==
    LET v == [i \in DOMAIN ws |-> my_atoi(ws[i], INFINIT_INT, 0)]
        none == [min |-> INFINIT_INT, def |-> INFINIT_INT, max |-> INFINIT_INT]
    IN IF ws = <<>> \/ Len(ws) > 3 \/ INFINIT_INT \in Range(v) THEN none
       ELSE IF \E i \in 1..(Len(v) - 1) : v[i] > v[i + 1] THEN none
       ELSE CASE Len(v) = 1 -> [min |-> 1, def |-> 1, max |-> v[1]]
              [] Len(v) = 2 -> [min |-> v[1], def |-> v[1], max |-> v[2]]
              [] OTHER -> [min |-> v[1], def |-> v[2], max |-> v[3]]

(***************************************************************************)
(* Load thresholds                                                         *)
(***************************************************************************)
(* An index is INCR (a high load is bad) or DECR; ut is in hundredths.  A  *)
(* threshold word is sched/stop; a part that is missing or no number       *)
(* leaves the index free.  A ut above 1 is a percentage; that of the stop  *)
(* part only when there is a sched part.                                   *)
Order(i) == IF i = "mem" THEN "DECR" ELSE "INCR"
Free(i) == IF Order(i) = "INCR" THEN INFINIT_INT ELSE -INFINIT_INT
thresholdPart(i, v) == IF v = Bad THEN Free(i) ELSE v
Percent(i, v) == IF i = "ut" /\ v > 100 /\ v < INFINIT_INT THEN v \div 100 ELSE v

wrongWay(i, s, t) == IF Order(i) = "INCR" THEN s > t ELSE t > s

getThresh(i, w) ==
    LET s == Percent(i, thresholdPart(i, w.sched))
        t == IF s < INFINIT_INT THEN Percent(i, thresholdPart(i, w.stop))
             ELSE thresholdPart(i, w.stop)
    IN IF w.stop # Bad /\ wrongWay(i, s, t) THEN [sched |-> t, stop |-> s]
       ELSE [sched |-> s, stop |-> t]

(* assignLoad: the thresholds of a job of a queue on a host *)
Tighter(i, a, b) ==
    IF Order(i) = "INCR" THEN (IF a < b THEN a ELSE b) ELSE (IF a > b THEN a ELSE b)
assignLoad(q, h) ==
    [i \in DOMAIN q |-> [sched |-> Tighter(i, q[i].sched, h[i].sched),
                         stop |-> Tighter(i, q[i].stop, h[i].stop)]]

(***************************************************************************)
(* A Queue section                                                         *)
(***************************************************************************)
(* checkRequeEValues: exit values 0..255, each once; words of another kind *)
(* are dropped and EXCLUDE( ... ) marks the ones a job must not go back on *)
RECURSIVE requeueValues(_, _, _)
requeueValues(ws, mode, acc) ==
    IF ws = <<>> THEN acc
    ELSE LET w == Head(ws)
             known == {a[1] : a \in Range(acc)}
         IN IF w.kind = "open" THEN requeueValues(Tail(ws), "exclude", acc)
            ELSE IF w.kind = "close" /\ mode = "exclude" THEN requeueValues(Tail(ws), "normal", acc)
            ELSE IF w.kind = "number" /\ my_atoi(w.v, 256, -1) # INFINIT_INT /\ w.v \notin known
            THEN requeueValues(Tail(ws), mode, Append(acc, <<w.v, mode>>))
            ELSE requeueValues(Tail(ws), mode, acc)

checkRequeEValues(ws) == requeueValues(ws, "normal", <<>>)

(* getReserve: BACKFILL counts only with a valid MAX_RESERVE_TIME *)
getReserve(r) ==
    LET hold == IF Given(r, "time") THEN my_atoi(r.time, INFINIT_INT, 0) ELSE INFINIT_INT
    IN [hold |-> hold,
        backfill |-> Given(r, "backfill") /\ hold # INFINIT_INT]

(* do_Queues gives a section up: no name, the reserved name, a name in     *)
(* use, a key of USERS or HOSTS that names nobody, a negative checkpoint   *)
(* period, a wrong JOB_CONTROLS or TERMINATE_WHEN, or a file that ends     *)
refused(sec, conf) ==
    \/ ~sec.ended
    \/ sec.name \in {"", "default"} \cup {q.name : q \in Range(conf)}
    \/ sec.users = "none" \/ sec.hosts \in {"none", "unknown"}
    \/ sec.period < 0 \/ sec.controls = "bad"

do_Queues(sec, par) ==
    LET limits == parseCpuAndRunLimit(sec, par) IN
    [name |-> sec.name,
     prio |-> IF sec.prio = <<>> THEN 1 ELSE my_atoi(sec.prio[1], INFINIT_INT, 0),
     cpu |-> limits.cpu, run |-> limits.run,
     mem |-> parseDefAndMaxLimits(sec.mem), proc |-> parseProcLimit(sec.proc),
     load |-> [i \in DOMAIN sec.load |-> getThresh(i, sec.load[i])],
     requeue |-> checkRequeEValues(sec.requeue), reserve |-> getReserve(sec.reserve),
     users |-> sec.users, accept |-> sec.accept]

(***************************************************************************)
(* mbatchd's queues                                                        *)
(***************************************************************************)
DEF_PRIO == 1
QueueData(q, par) ==
    [name |-> q.name, prio |-> setValue(DEF_PRIO, q.prio), default |-> FALSE,
     cpu |-> q.cpu, run |-> q.run, mem |-> q.mem, proc |-> q.proc, load |-> q.load,
     accept |-> IF my_atoi(q.accept, INFINIT_INT, -1) = INFINIT_INT THEN par.accept ELSE q.accept]
NoLimit == [max |-> INFINIT_INT, def |-> INFINIT_INT]
SystemQueue(name, default, accept) ==
    [name |-> name, prio |-> DEF_PRIO, default |-> default, cpu |-> NoLimit, run |-> NoLimit,
     mem |-> NoLimit, proc |-> [min |-> INFINIT_INT, def |-> INFINIT_INT, max |-> INFINIT_INT],
     load |-> [i \in {"ut", "mem"} |-> [sched |-> Free(i), stop |-> Free(i)]],
     accept |-> accept]

(* inQueueList: before the first queue of no lower priority *)
inQueueList(list, q) ==
    LET before == {i \in DOMAIN list : q.prio <= list[i].prio}
        at == IF before = {} THEN Len(list) + 1 ELSE CHOOSE i \in before : \A j \in before : i <= j
    IN SubSeq(list, 1, at - 1) \o <<q>> \o SubSeq(list, at, Len(list))

(* addQData: a queue whose USERS are a Unix group without known members is *)
(* left out by the first loop; the second one takes every queue of the     *)
(* file from the list and has none for it                                  *)
ignored(q) == q.users = "emptyUnixGroup"
addQData(conf, par) ==
    FoldLeft(LAMBDA list, q : IF ignored(q) THEN list ELSE inQueueList(list, QueueData(q, par)),
             <<>>, conf)
MissingQueueTouched(conf) == \E i \in DOMAIN conf : ignored(conf[i])

(* readQueueConf: the default queues the parameters name, or a queue of    *)
(* the system's own                                                        *)
createDefQueue(list, par) == inQueueList(list, SystemQueue("default", TRUE, par.accept))

readQueueConf(conf, par) ==
    LET list == addQData(conf, par)
        marked == [i \in DOMAIN list |->
                      [list[i] EXCEPT !.default = list[i].name \in Range(par.defaultQueues)]]
    IN IF \E i \in DOMAIN marked : marked[i].default THEN marked
       ELSE createDefQueue(marked, par)

(* updQueueList: ascending priority, a queue behind its equals *)
updQueueList(list) ==
    FoldLeft(LAMBDA acc, q :
                 LET before == {i \in DOMAIN acc : q.prio < acc[i].prio}
                     at == IF before = {} THEN Len(acc) + 1
                           ELSE CHOOSE i \in before : \A j \in before : i <= j
                 IN SubSeq(acc, 1, at - 1) \o <<q>> \o SubSeq(acc, at, Len(acc)),
             <<>>, list)

(* replay_jobdata: the logged queue of a job, or lost_and_found *)
LOST_AND_FOUND == "lost_and_found"
Names(list) == {q.name : q \in Range(list)}
Mut_queueOf(list, name) == IF name \in Names(list) THEN name ELSE "default"

queueOf(list, name) == IF name \in Names(list) THEN name ELSE LOST_AND_FOUND

lostFoundQueue(list, jobs) ==
    IF \A j \in DOMAIN jobs : jobs[j] \in Names(list) THEN list
    ELSE inQueueList(list, SystemQueue(LOST_AND_FOUND, FALSE, 1))

(***************************************************************************)
(* The start of mbatchd                                                    *)
(***************************************************************************)
Sections == qfiles.versions[qfiles.now]

QueueConfInit(sc) ==
    /\ qfiles = sc
    /\ qnext = 1 /\ qpar = ParamDefaults /\ qconf = <<>> /\ qtab = <<>>
    /\ qjobs = <<>> /\ qplace = <<>> /\ qstage = "params"

ReadParams ==
    /\ qstage = "params"
    /\ qpar' = do_Param(qfiles.params)
    /\ qstage' = "queues"
    /\ UNCHANGED <<qfiles, qnext, qconf, qtab, qjobs, qplace>>

(* lsb_readqueue: the next section *)
ReadQueue ==
    /\ qstage = "queues" /\ qnext <= Len(Sections)
    /\ qnext' = qnext + 1
    /\ qconf' = IF refused(Sections[qnext], qconf) THEN qconf
                ELSE Append(qconf, do_Queues(Sections[qnext], qpar))
    /\ UNCHANGED <<qfiles, qpar, qtab, qjobs, qplace, qstage>>

(* readQueueConf, updQueueList and the replay of the job log *)
BuildQueues ==
    /\ qstage = "queues" /\ qnext > Len(Sections) /\ ~MissingQueueTouched(qconf)
    /\ \E list \in {updQueueList(readQueueConf(qconf, qpar))} :
          /\ qplace' = [j \in DOMAIN qjobs |-> queueOf(list, qjobs[j])]
          /\ qtab' = lostFoundQueue(list, qjobs)
    /\ qstage' = "ready"
    /\ UNCHANGED <<qfiles, qnext, qpar, qconf, qjobs>>

(* addQData's second loop with a queue the first one left out *)
BuildFails ==
    /\ qstage = "queues" /\ qnext > Len(Sections) /\ MissingQueueTouched(qconf)
    /\ qstage' = "crashed"
    /\ UNCHANGED <<qfiles, qnext, qpar, qconf, qtab, qjobs, qplace>>

(* a job is submitted to a queue (lost_and_found is closed) *)
SubmitTo(j, q) ==
    /\ qstage = "ready" /\ j \notin DOMAIN qjobs
    /\ q \in Names(qtab) \ {LOST_AND_FOUND}
    /\ qjobs' = [i \in DOMAIN qjobs \cup {j} |-> IF i = j THEN q ELSE qjobs[i]]
    /\ qplace' = [i \in DOMAIN qplace \cup {j} |-> IF i = j THEN q ELSE qplace[i]]
    /\ UNCHANGED <<qfiles, qnext, qpar, qconf, qtab, qstage>>

(* lsb.queues is edited and mbatchd started again *)
StartAgain(v) ==
    /\ qstage \in {"ready", "crashed"} /\ v \in DOMAIN qfiles.versions \ {qfiles.now}
    /\ qfiles' = [qfiles EXCEPT !.now = v]
    /\ qnext' = 1 /\ qpar' = ParamDefaults /\ qconf' = <<>> /\ qtab' = <<>>
    /\ qplace' = <<>> /\ qstage' = "params" /\ UNCHANGED qjobs

QueueConfNext ==
    \/ ReadParams \/ ReadQueue \/ BuildQueues \/ BuildFails
    \/ \E j \in QueuedJobs : \E q \in Names(qtab) : SubmitTo(j, q)
    \/ \E v \in DOMAIN qfiles.versions : StartAgain(v)

(***************************************************************************)
(* Properties                                                              *)
(***************************************************************************)
(* The limits of a queue are in order: a default is never above its        *)
(* maximum, and a PROCLIMIT has minimum <= default <= maximum.  Both sides *)
(* come from different words, are clamped before they are scaled by a CPU  *)
(* factor, and each may be no number (parseCpuAndRunLimit,                 *)
(* parseDefAndMaxLimits, parseProcLimit).                                  *)
InOrder(l) == l.def = INFINIT_INT \/ l.def <= l.max
QueueLimitsOrdered ==
    \A q \in Range(qtab) :
        /\ InOrder(q.cpu) /\ InOrder(q.run) /\ InOrder(q.mem)
        /\ q.proc.min <= q.proc.def /\ q.proc.def <= q.proc.max

(* A time limit that can be written in the file never becomes zero or      *)
(* unlimited through the CPU factor of its host, and within a second it is *)
(* the time on that host (scaling in parseCpuAndRunLimit).                 *)
Section(q) ==
    LET good == {i \in DOMAIN Sections : Sections[i].name = q.name /\ ~refused(Sections[i], <<>>)}
    IN CHOOSE i \in good : \A k \in good : i <= k
Asked(ws) == IF ws # <<>> /\ parseLimitAndSpec(Last(ws)) > 0 THEN {parseLimitAndSpec(Last(ws))} ELSE {}
Keeps(limit, ws, f) ==
    \A a \in Asked(ws) :
        /\ limit.max >= 1
        /\ limit.max = 1 \/ 2 * (limit.max * f[2] - a * f[1]) \in (-f[2])..f[2]
TimeLimitsKept ==
    \A q \in Range(qconf) :
        LET sec == Sections[Section(q)] IN
            \A f \in {cpuFactor(sec, qpar)} : Keeps(q.cpu, sec.cpu, f) /\ Keeps(q.run, sec.run, f)

(* A load that lets a job start does not stop it at once: the thresholds a *)
(* job gets from its queue and its host keep sched on the safe side of     *)
(* stop, whatever the two files say (getThresh, assignLoad).               *)
LoadCannotStopStarter ==
    \A q \in Range(qtab) :
        LET t == assignLoad(q.load, [i \in DOMAIN q.load |-> getThresh(i, qfiles.host[i])])
        IN \A i \in DOMAIN t :
               IF Order(i) = "INCR" THEN t[i].sched <= t[i].stop ELSE t[i].stop <= t[i].sched

(* Once mbatchd runs, its list has every queue of the file that no rule    *)
(* refuses exactly once and by ascending priority, and a default queue for *)
(* jobs that name none (do_Queues, addQData, readQueueConf, updQueueList). *)
QueueListServes ==
    qstage = "ready" =>
        /\ \A i, k \in DOMAIN qtab : i < k => qtab[i].prio <= qtab[k].prio /\ qtab[i].name # qtab[k].name
        /\ {q.name : q \in Range(qconf)} \subseteq Names(qtab)
        /\ \E q \in Range(qtab) : q.default /\ q.name # LOST_AND_FOUND

(* A job is in the queue it was logged for, or in lost_and_found while the *)
(* file has no such queue, and goes back when the queue returns            *)
(* (replay_jobdata, lostFoundQueue).                                       *)
JobsHaveTheirQueue ==
    qstage = "ready" =>
        \A j \in DOMAIN qjobs :
            /\ qplace[j] \in Names(qtab)
            /\ qplace[j] = qjobs[j]
               \/ (qplace[j] = LOST_AND_FOUND /\ qjobs[j] \notin Names(qtab))

\* The queues of lsb.queues can be used: default limits are within the maximal
\* ones, times survive their scaling, a load that lets a job start does not
\* stop it, mbatchd's list has every queue that no rule refuses, and every job
\* is in its queue or in lost_and_found after a change of the file.
QueuesUsable ==
    /\ QueueLimitsOrdered /\ TimeLimitsKept /\ LoadCannotStopStarter
    /\ QueueListServes /\ JobsHaveTheirQueue
=============================================================================
