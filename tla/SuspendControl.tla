--------------------------- MODULE SuspendControl ---------------------------
(***************************************************************************)
(* Stopping, resuming and killing a started job.  Two daemons share the    *)
(* decision: sbatchd keeps the job card and acts on the run window, the    *)
(* load of the host, the run limit and the requests mbatchd sends;         *)
(* mbatchd keeps its own record of the job and, by the bit SUSP_MBD_LOCK,  *)
(* may reserve the decision to resume for itself (the user stopped the     *)
(* job, or the job gave up reserved resources when it was suspended).      *)
(*                                                                         *)
(* kc    the configuration: which job control commands the queue has,      *)
(*       whether the job reserves resources, is checkpointable, has a run  *)
(*       limit, and which events of the environment occur                  *)
(* kw    the world: card k, process group p, process a of the running      *)
(*       action, status file g (sbatchd); record m (mbatchd)               *)
(* knet  requests on their way to sbatchd and replies on their way back;   *)
(*       both daemons scan their connections oldest first, so neither       *)
(*       overtakes another                                                  *)
(* kenv  the run window, the load, the reserved resources, the run time    *)
(*                                                                         *)
(* A card that was given back to mbatchd has status "none".  Both daemons  *)
(* read the same window and load (each polls them by itself).  Signals are *)
(* delivered unless the process group is gone; fork does not fail.         *)
(***************************************************************************)
EXTENDS Integers, Sequences

CONSTANT MaxAsks      \* how often a user signals the job, a reply is lost or sbatchd restarts
ASSUME AsksAssumption == MaxAsks \in Nat

VARIABLES kc, kw, knet, kenv
kvars == <<kc, kw, knet, kenv>>

IsSusp(s) == s \in {"ususp", "ssusp"}
SuspendSigs == {"SUSP_USER", "SUSP_WINDOW", "SUSP_LOAD", "SUSP_OTHER"}
ResumeSigs == {"RESUME_USER", "RESUME_WINDOW", "RESUME_LOAD", "RESUME_OTHER"}
TermSigs == {"TERM_USER", "TERM_FORCE", "TERM_RUNLIMIT", "TERM_OTHER"}
Lock == "mbd_lock"
AllReasons == {"user", "window", "load", "limit", "reserve", "resume",
               "startup", Lock}

\* getDefSigValue_: a control action is a signal unless the queue names a command.
RunsCommand(sig) ==
    \/ sig \in SuspendSigs /\ kc.suspCmd
    \/ sig \in ResumeSigs /\ kc.resmCmd
    \/ sig \in TermSigs /\ kc.termCmd

\* jobsig: what a signal does to the process group; it fails when that is gone.
jobsig(w, s) ==
    IF w.p = "gone" THEN [w EXCEPT !.cc = -1]
    ELSE [w EXCEPT !.cc = 0,
                   !.p = IF w.p = "dying" THEN "dying"
                         ELSE CASE s = "KILL" -> "dying"
                                [] s = "STOP" -> "stop"
                                [] s = "CONT" -> "run"
                                [] OTHER -> w.p]

\* sbdlog_newstatus: the whole status file is rewritten from the card.
sbdlog_newstatus(w) ==
    [w EXCEPT !.g = <<[w.k EXCEPT !.rs = @ \ {"startup"}, !.nr = FALSE, !.miss = FALSE,
                                  !.exp = FALSE, !.force = FALSE]>>]

-----------------------------------------------------------------------------
(* A report: sbatchd calls mbatchd and waits for the answer. *)

\* shouldLockJob
shouldLockJob(st) == st = "ususp" \/ kc.res

\* The reasons mbatchd keeps after hearing that the job is suspended.
SuspReasons(k, m) ==
    IF Lock \in m.rs THEN m.rs
    ELSE IF Lock \notin k.rs /\ shouldLockJob(k.st) THEN k.rs \cup {Lock}
    ELSE k.rs

\* statusJob, for a job mbatchd takes as started.
statusJobSusp(k, m) ==
    IF m.st = "exit" THEN m
    ELSE LET act == CASE k.as = "start" -> TRUE
                      [] k.as \in {"done", "fail"} -> FALSE
                      [] OTHER -> m.act
             rs == IF IsSusp(k.st) THEN SuspReasons(k, m) ELSE m.rs
         IN [m EXCEPT !.act = act, !.st = k.st, !.sent = @ /\ (k.st = m.st \/ k.st # "run"),
                      !.rs = IF k.st # m.st /\ ~IsSusp(k.st) THEN {} ELSE rs]

\* status_job: up says whether mbatchd answers.
status_jobSusp(w, up) ==
    IF ~up THEN [w EXCEPT !.cc = -1]
    ELSE LET m == statusJobSusp(w.k, w.m)
         IN [w EXCEPT !.cc = 0, !.m = m,
                      !.k.rs = IF Lock \in m.rs /\ IsSusp(w.k.st)
                               THEN @ \cup {Lock} ELSE @]

\* jobSigLog
jobSigLog(w, up) ==
    LET r == status_jobSusp(w, up)
    IN IF r.cc < 0 THEN [r EXCEPT !.k.nr = TRUE]
       ELSE [r EXCEPT !.k.nr = FALSE, !.k.as = "no"]

-----------------------------------------------------------------------------
(* sbd.sig.c: starting a control action. *)

\* jobact: the action runs as a process of its own.
jobact(w, sig, up, log) ==
    LET v == [w EXCEPT !.cc = 0, !.k.act = sig, !.k.as = "start", !.a = "alive"]
    IN IF log THEN [jobSigLog(v, up) EXCEPT !.cc = 0] ELSE v

jRunSuspendAct(w, sig, st, rs, up, log) ==
    LET v == [w EXCEPT !.k.ar = rs, !.k.as = "no"]
        s == jobsig(v, "STOP")
    IN IF RunsCommand(sig) THEN jobact(v, sig, up, log)
       ELSE IF s.cc < 0 THEN s
       ELSE [s EXCEPT !.k.st = st, !.k.rs = @ \cup rs, !.k.nr = TRUE]

Mut_resumeJob(w, sig, up, log) ==
    LET v == [w EXCEPT !.k.as = "no"]
    IN IF RunsCommand(sig) THEN jobact(v, sig, up, log)
       ELSE IF v.p = "gone" THEN [v EXCEPT !.cc = -1]
       ELSE [v EXCEPT !.cc = 0, !.k.st = "run", !.k.rs = {}, !.k.nr = TRUE]

resumeJob(w, sig, up, log) ==
    LET v == [w EXCEPT !.k.as = "no"]
        s == jobsig(v, "CONT")
    IN IF RunsCommand(sig) THEN jobact(v, sig, up, log)
       ELSE IF s.cc < 0 THEN s
       ELSE [s EXCEPT !.k.st = "run", !.k.rs = {}, !.k.nr = TRUE]

\* jSuspResumeAct: susp is the reason the request takes back.
jSuspResumeAct(w, sig, susp, up, log) ==
    LET v == [w EXCEPT !.k.as = "no"]
        other == v.k.ar \ {Lock, "user", "resume", "startup"}
        left == v.k.rs \ (susp \cup {"resume", Lock})
    IN IF Lock \in v.k.rs
       THEN IF sig = "RESUME_USER" /\ other # {}
            THEN [v EXCEPT !.cc = 0, !.k.st = "ssusp",
                           !.k.rs = v.k.ar \ {"user", "resume"}]
            ELSE resumeJob(v, sig, up, log)
       ELSE IF left # {} /\ sig = "RESUME_USER"
            THEN [v EXCEPT !.cc = 0, !.k.st = "ssusp", !.k.rs = @ \ susp]
            ELSE resumeJob([v EXCEPT !.k.rs = IF left # {} THEN @ \ susp ELSE @],
                           sig, up, log)

\* terminateAct
terminateAct(w, sig, rs, up, log) ==
    LET v == [w EXCEPT !.k.force = @ \/ sig = "TERM_FORCE", !.k.ar = rs,
                       !.k.as = "no"]
    IN IF RunsCommand(sig) THEN jobact(v, sig, up, log) ELSE jobsig(v, "KILL")

TermReason(k, sig) ==
    CASE sig = "TERM_RUNLIMIT" -> {"limit"}
      [] sig = "TERM_OTHER" -> k.ar
      [] OTHER -> {"user"}
TakesBack(sig) ==
    CASE sig = "RESUME_USER" -> {"user"}
      [] sig = "RESUME_WINDOW" -> {"window"}
      [] sig = "RESUME_LOAD" -> {"load"}
      [] OTHER -> {"reserve"}
SuspendReason(k, sig) ==
    CASE sig = "SUSP_USER" -> {"user"}
      [] sig = "SUSP_WINDOW" -> {"window"}
      [] OTHER -> k.ar

SuspendState(sig) == IF sig = "SUSP_USER" THEN "ususp" ELSE "ssusp"
Checkpoint(w, mig, up, log) ==
    LET v == jobact([w EXCEPT !.k.as = "no"], "CHKPNT", up, log)
    IN [v EXCEPT !.k.mig = @ \/ mig]

\* jobSigStart on a job that runs, and on one that is suspended.
RunSigStart(w, sig, mig, up, log) ==
    CASE sig \in TermSigs -> terminateAct(w, sig, TermReason(w.k, sig), up, log)
      [] sig = "CHKPNT" -> Checkpoint(w, mig, up, log)
      [] sig \in SuspendSigs ->
            jRunSuspendAct(w, sig, SuspendState(sig), SuspendReason(w.k, sig), up, log)
      [] sig \in ResumeSigs ->
            IF RunsCommand(sig) THEN jobact(w, sig, up, log) ELSE jobsig(w, "CONT")
      [] OTHER -> jobsig(w, sig)
SuspSigStart(w, sig, mig, up, log) ==
    CASE sig \in TermSigs -> terminateAct(w, sig, TermReason(w.k, sig), up, log)
      [] sig = "CHKPNT" -> Checkpoint(w, mig, up, log)
      [] sig \in SuspendSigs ->
            [w EXCEPT !.cc = 0, !.k.rs = @ \cup SuspendReason(w.k, sig), !.k.nr = TRUE,
                      !.k.st = IF sig = "SUSP_USER" THEN "ususp" ELSE @]
      [] sig \in ResumeSigs -> jSuspResumeAct(w, sig, TakesBack(sig), up, log)
      [] OTHER -> jobsig(jobsig(w, "CONT"), sig)

\* jobSigStart: a finished job takes nothing; a job whose termination runs takes
\* nothing more; one with another action running takes only a termination.
jobSigStart(w, sig, mig, up, log) ==
    IF w.k.st \notin {"run", "ususp", "ssusp"} THEN [w EXCEPT !.cc = 0]
    ELSE IF w.k.act \in TermSigs THEN [w EXCEPT !.cc = -1]
    ELSE IF w.k.act # "no" \/ w.k.mig
         THEN IF sig \in TermSigs
              THEN terminateAct(w, sig, TermReason(w.k, sig), up, log)
              ELSE [w EXCEPT !.cc = -1]
    ELSE IF w.k.st = "run" THEN RunSigStart(w, sig, mig, up, log)
    ELSE SuspSigStart(w, sig, mig, up, log)

-----------------------------------------------------------------------------
(* sbd.policy.c: the end of an action and the periodic check. *)

ClearAct(w) == [w EXCEPT !.k.act = "no"]
LogEnd(w, up) == LET r == jobSigLog(w, up) IN IF r.cc = 0 THEN ClearAct(r) ELSE r

\* chkpntEnd: a job that checkpointed to migrate is given back as pending once
\* its process group is known to be gone; a report that fails is tried again.
chkpntEnd(w, ok, up) ==
    LET v == IF IsSusp(w.k.st) /\ ~w.k.mig THEN jobsig(w, "STOP") ELSE w
        e == IF ~v.k.mig THEN v
             ELSE IF ok THEN [v EXCEPT !.k.st = "pend"] ELSE [v EXCEPT !.k.mig = FALSE]
        r == status_jobSusp(e, up)
    IN CASE v.k.mig /\ ok /\ ~v.k.miss -> [v EXCEPT !.k.miss = TRUE]
         [] v.k.mig /\ ok /\ v.k.miss /\ ~v.k.nr -> v
         [] OTHER -> IF r.cc < 0
                     THEN [r EXCEPT !.k.st = v.k.st, !.k.mig = v.k.mig]
                     ELSE [ClearAct(r) EXCEPT !.k.as = "no",
                              !.k.st = IF v.k.mig /\ ok THEN "none" ELSE @]

\* suspendActEnd, resumeActEnd: the state changes whether the command worked or not.
suspendActEnd(w, up) ==
    LET st == IF w.k.act \in {"SUSP_USER", "TERM_USER"} THEN "ususp" ELSE "ssusp"
        v == [w EXCEPT !.k.st = st, !.k.rs = @ \cup (w.k.ar \ {"startup"}),
                       !.k.as = IF "startup" \in w.k.ar THEN "no" ELSE @]
    IN LogEnd(v, up)
resumeActEnd(w, up) == LogEnd([w EXCEPT !.k.st = "run", !.k.rs = {}], up)

\* sigActEnd: the exit file tells whether the command succeeded.
sigActEnd(w, up) ==
    LET v == [w EXCEPT !.k.as = IF w.a = "ok" THEN "done" ELSE "fail"]
        r == CASE v.k.act = "CHKPNT" -> chkpntEnd(v, w.a = "ok", up)
               [] v.k.act \in SuspendSigs \cup {"TERM_RUNLIMIT"} -> suspendActEnd(v, up)
               [] v.k.act \in ResumeSigs -> resumeActEnd(v, up)
               [] OTHER -> LogEnd(v, up)
    IN IF r.k.st = "none" THEN r ELSE sbdlog_newstatus(r)

\* jobGone: the first time the job is only marked missing.
jobGone(w) ==
    IF ~w.k.miss THEN [w EXCEPT !.k.miss = TRUE, !.k.nr = FALSE]
    ELSE LET v == [w EXCEPT !.k.nr = TRUE,
                            !.k.st = IF w.k.act = "no" THEN "exit" ELSE @]
         IN IF w.k.act = "no" THEN sbdlog_newstatus(v) ELSE v

\* checkFinish and job_finish; forced says that the grace of a forced kill is over.
checkFinishAct(w, up, forced) ==
    LET v == IF w.k.st \in {"run", "ususp", "ssusp"}
                /\ (w.p = "gone" \/ (w.k.force /\ forced)) THEN jobGone(w) ELSE w
        r == status_jobSusp(v, up)
    IN IF v.k.st = "none" THEN v
       ELSE IF v.k.act # "no" THEN IF v.a = "alive" THEN v ELSE sigActEnd(v, up)
       ELSE IF v.k.st \in {"exit", "pend"}
            THEN IF r.cc < 0 THEN [v EXCEPT !.k.nr = TRUE] ELSE [r EXCEPT !.k.st = "none"]
       ELSE v

\* jobResumeAction: sbatchd resumes no job that mbatchd has locked.
jobResumeAction(w, sig, reason, up) ==
    IF Lock \in w.k.rs THEN [w EXCEPT !.cc = -1]
    ELSE IF w.k.act # "no" THEN [w EXCEPT !.cc = 0]
    ELSE IF reason \notin w.k.rs THEN [w EXCEPT !.cc = -1]
    ELSE LET r == jobSigStart(w, sig, FALSE, up, TRUE)
         IN IF r.cc < 0 /\ r.p = "gone"
            THEN sbdlog_newstatus([r EXCEPT !.k.st = "exit"])
            ELSE [sbdlog_newstatus(r) EXCEPT !.cc = 0]

\* jobSuspendAction: it notes the reason of the action even when it starts none.
jobSuspendAction(w, sig, reason, up) ==
    LET v == [w EXCEPT !.k.ar = {reason}]
    IN IF v.k.st # "run" \/ v.k.act = sig THEN v
       ELSE sbdlog_newstatus(jobSigStart(v, sig, FALSE, up, TRUE))

\* The run limit: a warning first, the termination only after WARN_TIME more.
RunLimit(w, up) ==
    LET stopped == IsSusp(w.k.st) /\ "limit" \in w.k.rs
        term == sbdlog_newstatus(jobSigStart(w, "TERM_RUNLIMIT", FALSE, up, TRUE))
    IN IF kc.termCmd THEN IF stopped THEN w ELSE term
       ELSE IF kenv.time = "late" /\ w.k.exp
            THEN IF stopped \/ w.k.kill THEN w ELSE [term EXCEPT !.k.kill = TRUE]
       ELSE [w EXCEPT !.k.exp = TRUE]

\* The first half of job_checking, for one job.
CheckJob(w, up) ==
    IF w.k.st \notin {"run", "ususp", "ssusp"} THEN w
    ELSE IF kenv.time # "in" THEN RunLimit(w, up)
    ELSE IF ~kenv.win THEN jobSuspendAction(w, "SUSP_WINDOW", "window", up)
    ELSE jobResumeAction(w, "RESUME_WINDOW", "window", up)

\* The load against the thresholds loadSched and loadStop of queue and host.
checkResumeByLoad == kenv.load = "low"
shouldStop == kenv.load = "high"

Mut_tryResume(w, up) ==
    IF w.k.st # "ssusp" \/ w.k.act # "no" \/ w.k.rs \cap {"window", "user", Lock} # {}
    THEN w
    ELSE IF ~checkResumeByLoad THEN [w EXCEPT !.k.rs = {"load"}]
    ELSE w

\* shouldResume of sbatchd; a load that is too high replaces every other reason.
tryResume(w, up) ==
    IF w.k.st # "ssusp" \/ w.k.act # "no" \/ w.k.rs \cap {"window", "user", Lock} # {}
    THEN w
    ELSE IF ~checkResumeByLoad THEN [w EXCEPT !.k.rs = {"load"}]
    ELSE jobResumeAction(w, "RESUME_LOAD", "load", up)

tryStop(w, up) ==
    IF w.k.st = "run" /\ shouldStop
    THEN jobSuspendAction(w, "SUSP_LOAD", "load", up) ELSE w

tryChkpntMig(w, up) ==
    IF /\ kc.mig /\ ~w.k.miss /\ ~w.k.mig /\ w.k.st = "ssusp" /\ w.k.act = "no"
       /\ "window" \notin w.k.rs
    THEN sbdlog_newstatus(Checkpoint(w, TRUE, up, TRUE)) ELSE w

\* status_report follows job_checking in the loop of sbatchd.
status_report(w, up) ==
    IF ~w.k.nr \/ w.k.miss \/ w.k.st \notin {"run", "ususp", "ssusp"} THEN w
    ELSE LET r == status_jobSusp(w, up) IN IF r.cc < 0 THEN r ELSE [r EXCEPT !.k.nr = FALSE]

-----------------------------------------------------------------------------
(* mbatchd: deciding on a resume, sending requests, taking replies. *)

\* A reason that no longer holds is taken back unless it is the only one.
Without(rs, reason) == IF rs \subseteq {reason, Lock} THEN rs ELSE rs \ {reason}
shouldResumeByLoad(rs) == Without(rs, "load")
shouldResumeByRes(rs) == Without(rs, "reserve")

\* shouldResume of mbatchd: the record it leaves and the signal to send, "no"
\* when the job cannot be resumed now.
shouldResume(m) ==
    LET open == Without(m.rs, "window")
        low == shouldResumeByLoad(open)
        free == shouldResumeByRes(low)
        sig == IF "window" \in m.rs THEN "RESUME_WINDOW"
               ELSE IF "load" \in open THEN "RESUME_LOAD"
               ELSE IF "reserve" \in low THEN "RESUME_OTHER"
               ELSE "null"
    IN IF "limit" \in m.rs THEN [rs |-> m.rs, sig |-> "no"]
       ELSE IF ~kenv.win THEN [rs |-> m.rs \cup {"window"}, sig |-> "no"]
       ELSE IF ~checkResumeByLoad THEN [rs |-> {"load", Lock}, sig |-> "no"]
       ELSE IF kc.res /\ ~kenv.free THEN [rs |-> low \cup {"reserve"}, sig |-> "no"]
       ELSE [rs |-> IF kc.res THEN free ELSE low, sig |-> sig]

\* sigStartedJob: the request carries the reasons mbatchd has by then; a call
\* that cannot be made leaves the signal pending.
sigStartedJob(m, sig, sent) ==
    LET r == IF sig = "RESUME_USER" /\ Lock \in m.rs /\ IsSusp(m.st)
             THEN shouldResume(m).rs ELSE m.rs
    IN IF sent
       THEN /\ kw' = [kw EXCEPT !.m = [m EXCEPT !.rs = r, !.pend = "no"]]
            /\ knet' = [knet EXCEPT !.req = Append(@, [sig |-> sig, rs |-> r])]
       ELSE /\ kw' = [kw EXCEPT !.m = [m EXCEPT !.rs = r, !.pend = sig]]
            /\ UNCHANGED knet

Started(m) == m.st \in {"run", "ususp", "ssusp"}
Pointless(m, sig) ==
    \/ m.st = "run" /\ sig = "RESUME_USER"
    \/ m.st = "ssusp" /\ "user" \in m.rs /\ sig = "SUSP_USER"

\* signalJob: bstop, bresume, bkill, bkill -s of another signal.
signalJob(sig, sent) ==
    /\ sig \in kc.env /\ kenv.asks < MaxAsks /\ Started(kw.m) /\ ~Pointless(kw.m, sig)
    /\ sigStartedJob(kw.m, sig, sent)
    /\ kenv' = [kenv EXCEPT !.asks = @ + 1]
    /\ UNCHANGED kc

\* resigJobs1: the pending signal is sent again; a pass comes every MBD_SLEEP_TIME,
\* after the replies to earlier requests.
resigJobs1(sent) ==
    /\ knet.req = <<>> /\ knet.rep = <<>>
    /\ kw.m.pend # "no" /\ Started(kw.m)
    /\ IF Pointless(kw.m, kw.m.pend)
       THEN kw' = [kw EXCEPT !.m.pend = "no"] /\ UNCHANGED knet
       ELSE sigStartedJob(kw.m, kw.m.pend, sent)
    /\ UNCHANGED <<kc, kenv>>

\* The resume pass of mbatchd over the jobs it has locked.
mbdTryResume(sent) ==
    /\ kw.m.st = "ssusp" /\ Lock \in kw.m.rs /\ ~kw.m.act
    /\ kw.m.sent => knet.req = <<>> /\ knet.rep = <<>>
    /\ LET r == shouldResume(kw.m)
       IN IF r.sig = "no" THEN kw' = [kw EXCEPT !.m.rs = r.rs] /\ UNCHANGED knet
          ELSE sigStartedJob([kw.m EXCEPT !.rs = r.rs, !.sent = TRUE], r.sig, sent)
    /\ UNCHANGED <<kc, kenv>>

\* jobStatusSignal: what mbatchd makes of a successful reply.
jobStatusSignal(m, rep) ==
    LET b == [m EXCEPT !.act = rep.act, !.pend = "no"]
        left == m.rs \ {"user"}
        early == kc.resmCmd /\ ~(~rep.act /\ rep.st = "ssusp" /\ m.st = "ususp")
    IN CASE rep.sig = "SUSP_USER" /\ ~kc.suspCmd /\ m.st # "ususp" ->
                [b EXCEPT !.st = "ususp", !.rs = @ \cup {"user", Lock}]
         [] rep.sig = "RESUME_USER" /\ ~early /\ m.st = "ususp" ->
                [b EXCEPT !.st = "ssusp",
                          !.rs = IF left \subseteq {Lock} THEN left \cup {"resume"} ELSE left]
         [] OTHER -> b

\* signalReplyCode keeps these pending whatever was pending before.
UserSig(sig) == sig \notin {"RESUME_WINDOW", "RESUME_LOAD", "RESUME_OTHER"}

\* doSignalJobReply: a reply, an error reply, or a connection that broke.
doSignalJobReply(lost) ==
    /\ knet.rep # <<>>
    /\ lost => "lose" \in kc.env /\ kenv.asks < MaxAsks
    /\ kenv' = [kenv EXCEPT !.asks = IF lost THEN @ + 1 ELSE @]
    /\ knet' = [knet EXCEPT !.rep = Tail(@)]
    /\ LET rep == Head(knet.rep)
           m == kw.m
           broken == lost \/ rep.code = "LOST"
           pend == IF m.pend = "no" \/ (~broken /\ UserSig(rep.sig)) THEN rep.sig ELSE m.pend
       IN kw' = [kw EXCEPT !.m =
                IF ~Started(m) THEN m
                ELSE IF broken \/ rep.code = "RETRY" THEN [m EXCEPT !.pend = pend]
                ELSE IF rep.code = "NO_JOB" THEN [m EXCEPT !.st = "exit", !.rs = {}]
                ELSE jobStatusSignal(m, rep)]
    /\ UNCHANGED kc

\* do_sigjob: a request that carries the lock replaces the reasons on the card.
do_sigjob ==
    LET q == Head(knet.req)
        locked == Lock \in q.rs
        v == IF locked THEN [kw EXCEPT !.k.rs = q.rs, !.k.ar = q.rs] ELSE kw
        live == v.k.st \in {"run", "ususp", "ssusp"}
        r == jobSigStart(v, q.sig, FALSE, FALSE, FALSE)
        ok == ~live \/ r.cc = 0
        e == IF ~live THEN v
             ELSE IF ok THEN IF v.k.act # "no" \/ v.k.mig
                             THEN sbdlog_newstatus([r EXCEPT !.k.mig = FALSE])
                             ELSE sbdlog_newstatus(r)
             ELSE [sbdlog_newstatus(r) EXCEPT !.k.ar = IF locked THEN kw.k.ar ELSE @]
        code == IF kw.k.st = "none" THEN "NO_JOB"
                ELSE IF v.k.st = "pend" THEN "RETRY"
                ELSE IF ok THEN "OK"
                ELSE "RETRY"
    IN /\ knet.req # <<>>
       /\ kw' = IF kw.k.st = "none" THEN kw
                ELSE [e EXCEPT !.cc = 0, !.k.as = "no"]
       /\ knet' = [req |-> Tail(knet.req),
                   rep |-> Append(knet.rep, [sig |-> q.sig, code |-> code, st |-> e.k.st,
                                             act |-> code = "OK" /\ e.k.act # "no"])]
       /\ UNCHANGED <<kc, kenv>>

-----------------------------------------------------------------------------
(* The loop of sbatchd, its restart, and the environment. *)

\* job_checking and status_report: look says that the load step is due
\* (sbdSleepTime has passed), mig that the migration threshold is reached.
\* clientIO of mbatchd takes the replies of sbatchd before a report.
SbdLoop(up, forced, look, mig) ==
    /\ kw.k.st # "none"
    /\ up => knet.rep = <<>>
    /\ up \/ "down" \in kc.env
    /\ \E f \in {checkFinishAct(kw, up, forced)} :
       \E c \in {CheckJob(f, up)} :
       \E r \in {IF look THEN tryResume(c, up) ELSE c} :
       \E s \in {IF look THEN tryStop(r, up) ELSE r} :
       \E e \in {IF mig THEN tryChkpntMig(s, up) ELSE s} :
          kw' = [status_report(e, up) EXCEPT !.cc = 0]
    /\ UNCHANGED <<kc, knet, kenv>>

NewCard == [st |-> "run", rs |-> {}, ar |-> {}, act |-> "no", as |-> "no", mig |-> FALSE,
            kill |-> FALSE, force |-> FALSE, exp |-> FALSE, nr |-> FALSE, miss |-> FALSE]

\* sbdStartupStopJob
sbdStartupStopJob(w, rs) ==
    LET sig == IF "user" \in rs THEN "SUSP_USER"
               ELSE IF "window" \in rs THEN "SUSP_WINDOW"
               ELSE IF "load" \in rs THEN "SUSP_LOAD"
               ELSE IF "reserve" \in rs THEN "SUSP_OTHER"
               ELSE "no"
    IN IF sig = "no" THEN w
       ELSE jRunSuspendAct(w, sig, IF "user" \in rs THEN "ususp" ELSE "ssusp",
                           rs \cup {"startup"}, FALSE, FALSE)

\* renewJobStat: sbatchd comes up again, gets the job from mbatchd and takes the
\* rest of the card from its status file, or follows mbatchd when there is none.
renewJobStat(w) ==
    LET n == [w EXCEPT !.k = IF w.g = <<>> THEN [NewCard EXCEPT !.st = w.m.st, !.rs = w.m.rs]
                             ELSE w.g[1]]
    IN CASE n.k.act # "no" -> jobsig(n, "CONT")
         [] n.k.act = "no" /\ n.k.st = "run" ->
                IF w.g = <<>> THEN resumeJob(n, "RESUME_OTHER", FALSE, TRUE)
                ELSE [n EXCEPT !.k.nr = w.m.st # "run"]
         [] OTHER -> [sbdStartupStopJob(n, n.k.rs) EXCEPT
                         !.k.nr = @ \/ (w.g # <<>> /\ ~IsSusp(w.m.st))]

SbdRestart ==
    /\ "restart" \in kc.env /\ kenv.asks < MaxAsks /\ knet.rep = <<>>
    /\ kw.k.st \in {"run", "ususp", "ssusp"} /\ Started(kw.m)
    /\ kw' = LET r == renewJobStat(kw)
             IN [IF r.cc < 0 THEN jobGone(r) ELSE r EXCEPT !.cc = 0]
    /\ knet' = [req |-> <<>>,
                rep |-> [i \in DOMAIN knet.req |->
                           [sig |-> knet.req[i].sig, code |-> "LOST", st |-> kw.k.st,
                            act |-> FALSE]]]
    /\ kenv' = [kenv EXCEPT !.asks = @ + 1]
    /\ UNCHANGED kc

\* The process of a control command ends; a command that succeeds did its work.
ActionEnds(ok) ==
    /\ kw.a = "alive"
    /\ ok \/ "fail" \in kc.env
    /\ kw' = [kw EXCEPT !.a = IF ok THEN "ok" ELSE "fail",
                !.p = IF ~ok \/ @ \in {"gone", "dying"} THEN @
                      ELSE CASE kw.k.act \in SuspendSigs -> "stop"
                             [] kw.k.act \in ResumeSigs -> "run"
                             [] kw.k.act \in TermSigs -> "gone"
                             [] kw.k.act = "CHKPNT" /\ kw.k.mig -> "gone"
                             [] OTHER -> @]
    /\ UNCHANGED <<kc, knet, kenv>>

\* The process group ends: killed, or by itself while it runs.
ProcessEnds ==
    /\ kw.p = "dying" \/ (kw.p = "run" /\ "exit" \in kc.env)
    /\ kw' = [kw EXCEPT !.p = "gone"]
    /\ UNCHANGED <<kc, knet, kenv>>

EnvChanges ==
    /\ \/ /\ "window" \in kc.env
          /\ kenv' = [kenv EXCEPT !.win = ~@]
       \/ /\ "load" \in kc.env
          /\ \E l \in {"low", "mid", "high"} : kenv' = [kenv EXCEPT !.load = l]
       \/ /\ kc.res
          /\ kenv' = [kenv EXCEPT !.free = ~@]
       \/ /\ kc.limit /\ kw.k.st = "run"
          /\ kenv.time # "late"
          /\ kenv' = [kenv EXCEPT !.time = IF @ = "in" THEN "over" ELSE "late"]
    /\ UNCHANGED <<kc, kw, knet>>

SuspendInit(sc) ==
    /\ kc = sc
    /\ kw = [k |-> NewCard, p |-> "run", a |-> "no", g |-> <<>>, cc |-> 0,
             m |-> [st |-> "run", rs |-> {}, act |-> FALSE, pend |-> "no", sent |-> FALSE]]
    /\ knet = [req |-> <<>>, rep |-> <<>>]
    /\ kenv = [win |-> TRUE, load |-> "low", free |-> TRUE, time |-> "in", asks |-> 0]

Signals == {"SUSP_USER", "RESUME_USER", "TERM_USER", "TERM_FORCE", "USR1"}
SuspendNext ==
    \/ \E sig \in Signals, sent \in BOOLEAN : (sent \/ "down" \in kc.env) /\ signalJob(sig, sent)
    \/ \E sent \in BOOLEAN : (sent \/ "down" \in kc.env) /\ resigJobs1(sent)
    \/ \E sent \in BOOLEAN : (sent \/ "down" \in kc.env) /\ mbdTryResume(sent)
    \/ do_sigjob
    \/ \E lost \in BOOLEAN : doSignalJobReply(lost)
    \/ \E up, forced, look, mig \in BOOLEAN :
          (mig => kc.mig) /\ (forced => kw.k.force) /\ SbdLoop(up, forced, look, mig)
    \/ SbdRestart
    \/ \E ok \in BOOLEAN : ActionEnds(ok)
    \/ ProcessEnds
    \/ EnvChanges

-----------------------------------------------------------------------------
(* Properties. *)

\* Type invariant of the two daemons' views of the job.
SuspendTypeOK ==
    /\ kw.k.st \in {"run", "ususp", "ssusp", "exit", "pend", "none"}
    /\ kw.m.st \in {"run", "ususp", "ssusp", "exit", "pend"}
    /\ kw.k.rs \cup kw.k.ar \cup kw.m.rs \subseteq AllReasons
    /\ kw.p \in {"run", "stop", "dying", "gone"}
    /\ kw.k.st = "run" /\ kw.k.act = "no" => Lock \notin kw.m.rs \/ kw.m.st # "run"

\* A job whose card says that it runs is not left stopped: whenever no action
\* command is under way and none has failed, the processes of a running job run.
RunningIsNotStopped ==
    kw.k.st = "run" /\ kw.k.act = "no" /\ "fail" \notin kc.env => kw.p # "stop"

\* Once mbatchd has locked a suspended job, sbatchd does not resume it by itself:
\* the card goes back to RUN only by a request or by the end of a resume command.
LockHolds ==
    [][(Lock \in kw.k.rs /\ IsSusp(kw.k.st) /\ kw'.k.st = "run")
         => (knet'.req # knet.req \/ kw.k.act \in ResumeSigs)]_kvars

\* No job stays suspended because each daemon leaves the resume to the other:
\* when window, load and resources stay favourable, a job that no user has
\* signalled does not stay suspended (job_checking of sbatchd, tryResume of mbatchd).
Calm == kenv.win /\ kenv.load = "low" /\ kenv.free /\ kenv.time = "in"
NobodyWaits == <>[]Calm => []<>(kw.k.st # "ssusp" \/ kenv.asks > 0)

\* mbatchd learns the state of the job again and again.
MbdLearns == []<>(kw.m.st = kw.k.st \/ kw.k.st = "none")

\* A job past its run limit and the warning time ends.
OverLimitEnds == []<>(kenv.time = "late" => kw.p = "gone" \/ kw.k.st # "run")

\* A job that its card calls running is not left stopped, and one that mbatchd
\* has locked is resumed only on request (job_checking, tryResume, resumeJob,
\* jobResumeAction).
StopsHold == [](SuspendTypeOK /\ RunningIsNotStopped) /\ LockHolds
=============================================================================
