------------------------ MODULE SuspendControlProofs ------------------------
(***************************************************************************)
(* Proofs about stopping, resuming and killing a job: for every             *)
(* configuration of the queue, any number of signals, lost replies and      *)
(* restarts of sbatchd, a job whose card says that it runs is not left      *)
(* stopped, and one that mbatchd has locked is resumed only on request.     *)
(*                                                                          *)
(* The lemmas follow the code: what a report changes, what starting an      *)
(* action changes, what its end changes, what the loop of sbatchd does in   *)
(* one pass, and then one lemma for each action of SuspendNext.  A record   *)
(* update of the model is named (StopCard, RunCard, ...) where a lemma      *)
(* states what it keeps.                                                    *)
(***************************************************************************)
EXTENDS SuspendControl, TLAPS

(* The types of the card, of the record of mbatchd and of the world. *)
Live == {"run", "ususp", "ssusp"}
Acts == {"no", "CHKPNT"} \cup SuspendSigs \cup ResumeSigs \cup TermSigs
Asked == {"no", "null"} \cup Signals \cup ResumeSigs
Cards ==
  [st : Live \cup {"exit", "pend", "none"}, rs : SUBSET AllReasons, ar : SUBSET AllReasons,
   act : Acts, as : {"no", "start", "done", "fail"}, mig : BOOLEAN, kill : BOOLEAN,
   force : BOOLEAN, exp : BOOLEAN, nr : BOOLEAN, miss : BOOLEAN]
Records ==
  [st : Live \cup {"exit", "pend"}, rs : SUBSET AllReasons, act : BOOLEAN,
   pend : Asked, sent : BOOLEAN]
Worlds ==
  [k : Cards, p : {"run", "stop", "dying", "gone"}, a : {"no", "alive", "ok", "fail"},
   g : Seq(Cards), cc : {-1, 0}, m : Records]

(* mbatchd keeps reasons only for a job it takes as suspended (statusJob). *)
MbdReasons(w) == ~IsSusp(w.m.st) => w.m.rs = {}
(* The processes are not stopped while the card says RUN and no command that
   may stop or resume them is under way, nor after a resume command; after a
   termination command they are gone or dying (ActionEnds of a command that
   succeeds, jobsig). *)
StopsTrue(w) ==
  /\ w.k.st = "run" /\ w.k.act \in {"no", "CHKPNT"} => w.p # "stop"
  /\ w.k.act \in ResumeSigs /\ w.a # "alive" => w.p # "stop"
  /\ w.k.act \in TermSigs /\ w.a # "alive" => w.p \in {"dying", "gone"}
Sound(w) ==
  /\ w \in Worlds /\ MbdReasons(w) /\ ("fail" \notin kc.env => StopsTrue(w))
  /\ w.k.act # "no" => w.k.st \in Live
(* What jobResumeAction and tryResume leave alone. *)
Held(w) ==
  \/ w.k.st \notin Live
  \/ IsSusp(w.k.st) /\ Lock \in w.k.rs /\ w.k.act \notin ResumeSigs

(* The job as it was, though mbatchd may have heard of it. *)
SameJob(v, w) ==
  /\ v \in Worlds /\ MbdReasons(v)
  /\ v.k.st = w.k.st /\ v.k.act = w.k.act /\ w.k.rs \subseteq v.k.rs
  /\ v.p = w.p /\ v.a = w.a /\ v.g = w.g /\ v.m.st \in {w.m.st, w.k.st}

(* A signal changes only the process group: one that is gone or dying stays
   so, and only SIGSTOP stops it (jobsig). *)
LEMMA JobsigWorld ==
  ASSUME NEW w \in Worlds, NEW s
  PROVE  /\ jobsig(w, s) \in Worlds
         /\ jobsig(w, s).k = w.k /\ jobsig(w, s).g = w.g /\ jobsig(w, s).m = w.m
         /\ jobsig(w, s).a = w.a
         /\ w.p = "gone" => jobsig(w, s).p = "gone"
         /\ w.p = "dying" => jobsig(w, s).p = "dying"
         /\ w.p # "gone" => jobsig(w, s).cc = 0
         /\ s = "STOP" \/ jobsig(w, s).p # "stop" \/ w.p = "stop"
         /\ s \in {"CONT", "KILL"} => jobsig(w, s).p # "stop"
         /\ s = "KILL" => jobsig(w, s).p \in {"dying", "gone"}
BY DEF jobsig, Worlds

(* The record that mbatchd makes of a report has reasons only when it says
   that the job is suspended (statusJob). *)
LEMMA Heard ==
  ASSUME NEW k \in Cards, NEW m \in Records, ~IsSusp(m.st) => m.rs = {}, k.st # "none"
  PROVE  /\ statusJobSusp(k, m) \in Records
         /\ ~IsSusp(statusJobSusp(k, m).st) => statusJobSusp(k, m).rs = {}
         /\ statusJobSusp(k, m).st \in {m.st, k.st}
<1>1. SuspReasons(k, m) \in SUBSET AllReasons
  BY DEF SuspReasons, Cards, Records, AllReasons, Lock
<1> DEFINE act == CASE k.as = "start" -> TRUE [] k.as \in {"done", "fail"} -> FALSE
                     [] OTHER -> m.act
           sent == m.sent /\ (k.st = m.st \/ k.st # "run")
           rs == IF k.st # m.st /\ ~IsSusp(k.st) THEN {}
                 ELSE IF IsSusp(k.st) THEN SuspReasons(k, m) ELSE m.rs
           r == [m EXCEPT !.act = act, !.st = k.st, !.sent = sent, !.rs = rs]
<1>2. statusJobSusp(k, m) = m \/ statusJobSusp(k, m) = r
  BY Zenon DEF statusJobSusp
<1>3. act \in BOOLEAN /\ sent \in BOOLEAN
  BY DEF Cards, Records
<1>4. rs \in SUBSET AllReasons /\ (~IsSusp(k.st) => rs = {})
  BY <1>1 DEF Records, AllReasons
<1>5. k.st \in Live \cup {"exit", "pend"}
  BY DEF Cards
<1> HIDE DEF act, sent, rs
<1>6. r \in Records /\ r.st = k.st /\ r.rs = rs
  BY <1>3, <1>4, <1>5 DEF Records
<1> HIDE DEF r
<1> QED BY <1>2, <1>4, <1>6

(* A report leaves the job as it was; at most the card takes over the lock
   (status_job). *)
LEMMA Reported ==
  ASSUME NEW w \in Worlds, MbdReasons(w), w.k.st # "none", NEW up \in BOOLEAN
  PROVE  SameJob(status_jobSusp(w, up), w)
<1>1. w.k \in Cards /\ w.m \in Records
  BY DEF Worlds
<1> DEFINE m == statusJobSusp(w.k, w.m)
<1>2. m \in Records /\ (~IsSusp(m.st) => m.rs = {}) /\ m.st \in {w.m.st, w.k.st}
  BY <1>1, Heard DEF MbdReasons
<1> HIDE DEF m
<1>3. CASE ~up
  BY <1>1, <1>3 DEF status_jobSusp, SameJob, MbdReasons, Worlds
<1>4. CASE up
  BY <1>1, <1>2, <1>4 DEF status_jobSusp, SameJob, MbdReasons, Worlds, Cards, AllReasons, m
<1> QED BY <1>3, <1>4

(* So does a report that is noted on the card (jobSigLog). *)
LEMMA SigLogged ==
  ASSUME NEW w \in Worlds, MbdReasons(w), w.k.st # "none", NEW up \in BOOLEAN
  PROVE  SameJob(jobSigLog(w, up), w)
<1> DEFINE r == status_jobSusp(w, up)
<1>1. SameJob(r, w)
  BY Reported
<1> HIDE DEF r
<1>2. jobSigLog(w, up) = IF r.cc < 0 THEN [r EXCEPT !.k.nr = TRUE]
                         ELSE [r EXCEPT !.k.nr = FALSE, !.k.as = "no"]
  BY DEF jobSigLog, r
<1>3. ASSUME NEW v, v = [r EXCEPT !.k.nr = TRUE] \/ v = [r EXCEPT !.k.nr = FALSE, !.k.as = "no"]
      PROVE  /\ v \in Worlds /\ v.m = r.m /\ v.p = r.p /\ v.a = r.a /\ v.g = r.g
             /\ v.k.st = r.k.st /\ v.k.act = r.k.act /\ v.k.rs = r.k.rs
  <2>0. r \in Worlds
    BY <1>1 DEF SameJob
  <2>1. CASE v = [r EXCEPT !.k.nr = TRUE]
    BY <2>0, <2>1 DEF Worlds, Cards
  <2>2. CASE v = [r EXCEPT !.k.nr = FALSE, !.k.as = "no"]
    <3> DEFINE c == [r.k EXCEPT !.nr = FALSE, !.as = "no"]
    <3>1. v = [r EXCEPT !.k = c]
      BY <2>0, <2>2 DEF Worlds
    <3>2. r.k \in Cards
      BY <2>0 DEF Worlds
    <3>3. c \in Cards /\ c.st = r.k.st /\ c.act = r.k.act /\ c.rs = r.k.rs
      BY <3>2 DEF Cards
    <3> HIDE DEF c
    <3> QED BY <2>0, <3>1, <3>3 DEF Worlds
  <2> QED BY <1>3, <2>1, <2>2
<1>4. jobSigLog(w, up) = [r EXCEPT !.k.nr = TRUE]
      \/ jobSigLog(w, up) = [r EXCEPT !.k.nr = FALSE, !.k.as = "no"]
  BY <1>2
<1> QED BY <1>1, <1>3, <1>4 DEF SameJob, MbdReasons

(* Starting a command notes the action and leaves status, processes and file
   (jobact). *)
LEMMA ActionStarts ==
  ASSUME NEW w \in Worlds, MbdReasons(w), w.k.st # "none", NEW up \in BOOLEAN, NEW log \in BOOLEAN,
         NEW sig \in Acts
  PROVE  LET r == jobact(w, sig, up, log) IN
         /\ r \in Worlds /\ MbdReasons(r)
         /\ r.k.st = w.k.st /\ r.k.act = sig /\ w.k.rs \subseteq r.k.rs
         /\ r.p = w.p /\ r.a = "alive" /\ r.g = w.g /\ r.m.st \in {w.m.st, w.k.st} /\ r.cc = 0
<1> DEFINE v == [w EXCEPT !.cc = 0, !.k.act = sig, !.k.as = "start", !.a = "alive"]
<1>1. /\ v \in Worlds /\ MbdReasons(v) /\ v.k.st = w.k.st /\ v.k.act = sig /\ v.k.rs = w.k.rs
      /\ v.p = w.p /\ v.a = "alive" /\ v.g = w.g /\ v.m = w.m /\ v.cc = 0
  BY DEF Worlds, Cards, MbdReasons
<1>2. jobact(w, sig, up, log) = IF log THEN [jobSigLog(v, up) EXCEPT !.cc = 0] ELSE v
  BY DEF jobact
<1> HIDE DEF v
<1>3. CASE ~log
  BY <1>1, <1>2, <1>3
<1>4. CASE log
  <2> DEFINE l == jobSigLog(v, up)
  <2>1. SameJob(l, v)
    BY <1>1, SigLogged
  <2> HIDE DEF l
  <2>2. jobact(w, sig, up, log) = [l EXCEPT !.cc = 0]
    BY <1>2, <1>4 DEF l
  <2> QED BY <1>1, <2>1, <2>2 DEF SameJob, MbdReasons, Worlds
<1> QED BY <1>3, <1>4

StopCard(s, st, rs) == [s EXCEPT !.k.st = st, !.k.rs = @ \cup rs, !.k.nr = TRUE]

(* The card of a job that was stopped by a signal. *)
LEMMA StoppedCard ==
  ASSUME NEW s \in Worlds, NEW st \in {"ususp", "ssusp"}, NEW rs \in SUBSET AllReasons
  PROVE  LET r == StopCard(s, st, rs) IN
         /\ r \in Worlds /\ r.k.st = st /\ r.k.act = s.k.act /\ r.k.rs = s.k.rs \cup rs
         /\ r.m = s.m /\ r.g = s.g /\ r.a = s.a /\ r.cc = s.cc /\ r.p = s.p
BY DEF Worlds, Cards, Live, StopCard

(* The other changes of a card. *)
NoStatus(w) == [w EXCEPT !.k.as = "no"]
RunCard(s) == [s EXCEPT !.k.st = "run", !.k.rs = {}, !.k.nr = TRUE]
TermCard(w, sig, rs) ==
  [w EXCEPT !.k.force = @ \/ sig = "TERM_FORCE", !.k.ar = rs, !.k.as = "no"]
MigCard(w, mig) == [w EXCEPT !.k.mig = @ \/ mig]
BackCard(w, rs) == [w EXCEPT !.cc = 0, !.k.st = "ssusp", !.k.rs = rs]
ReasonCard(w, rs) == [w EXCEPT !.k.rs = rs]
AddCard(w, rs, sig) ==
  [w EXCEPT !.cc = 0, !.k.rs = @ \cup rs, !.k.nr = TRUE,
            !.k.st = IF sig = "SUSP_USER" THEN "ususp" ELSE @]
Result(w, cc) == [w EXCEPT !.cc = cc]

(* What is left as it was when only the card changes. *)
Around(r, w) == r \in Worlds /\ r.m = w.m /\ r.g = w.g /\ r.a = w.a /\ r.p = w.p

(* Clearing the status of the action changes nothing else. *)
LEMMA NoStatusFacts ==
  ASSUME NEW w \in Worlds
  PROVE  LET r == NoStatus(w) IN
         Around(r, w) /\ r.k.st = w.k.st /\ r.k.act = w.k.act /\ r.k.rs = w.k.rs
         /\ r.k.ar = w.k.ar /\ r.cc = w.cc
BY DEF NoStatus, Around, Worlds, Cards

(* A resumed card says RUN and keeps its action. *)
LEMMA RunCardFacts ==
  ASSUME NEW w \in Worlds
  PROVE  LET r == RunCard(w) IN
         Around(r, w) /\ r.k.st = "run" /\ r.k.act = w.k.act /\ r.cc = w.cc
BY DEF RunCard, Around, Worlds, Cards, Live

(* Noting a termination keeps status, action and reasons. *)
LEMMA TermCardFacts ==
  ASSUME NEW w \in Worlds, NEW sig, NEW rs \in SUBSET AllReasons
  PROVE  LET r == TermCard(w, sig, rs) IN
         Around(r, w) /\ r.k.st = w.k.st /\ r.k.act = w.k.act /\ r.k.rs = w.k.rs
BY DEF TermCard, Around, Worlds, Cards

(* Noting a migration keeps status, action and reasons. *)
LEMMA MigCardFacts ==
  ASSUME NEW w \in Worlds, NEW mig \in BOOLEAN
  PROVE  LET r == MigCard(w, mig) IN
         Around(r, w) /\ r.k.st = w.k.st /\ r.k.act = w.k.act /\ r.k.rs = w.k.rs /\ r.cc = w.cc
BY DEF MigCard, Around, Worlds, Cards

(* A job that other reasons keep suspended goes from USUSP to SSUSP. *)
LEMMA BackCardFacts ==
  ASSUME NEW w \in Worlds, NEW rs \in SUBSET AllReasons
  PROVE  LET r == BackCard(w, rs) IN
         Around(r, w) /\ r.k.st = "ssusp" /\ r.k.act = w.k.act /\ r.cc = 0
BY DEF BackCard, Around, Worlds, Cards, Live

(* Replacing the reasons keeps status and action. *)
LEMMA ReasonCardFacts ==
  ASSUME NEW w \in Worlds, NEW rs \in SUBSET AllReasons
  PROVE  LET r == ReasonCard(w, rs) IN
         Around(r, w) /\ r.k.st = w.k.st /\ r.k.act = w.k.act /\ r.k.rs = rs /\ r.cc = w.cc
BY DEF ReasonCard, Around, Worlds, Cards

(* A further reason to suspend keeps the ones there are. *)
LEMMA AddCardFacts ==
  ASSUME NEW w \in Worlds, NEW sig, NEW rs \in SUBSET AllReasons
  PROVE  LET r == AddCard(w, rs, sig) IN
         Around(r, w) /\ r.k.st = (IF sig = "SUSP_USER" THEN "ususp" ELSE w.k.st)
         /\ r.k.act = w.k.act /\ r.k.rs = w.k.rs \cup rs /\ r.cc = 0
BY DEF AddCard, Around, Worlds, Cards, Live

(* The result of a call is no part of the card. *)
LEMMA ResultFacts ==
  ASSUME NEW w \in Worlds, NEW cc \in {-1, 0}
  PROVE  LET r == Result(w, cc) IN
         Around(r, w) /\ r.k = w.k /\ r.cc = cc
BY DEF Result, Around, Worlds

(* What starting an action leaves: the file and, but for a report, mbatchd are
   as they were. *)
Acted(r, w) ==
  /\ Sound(r) /\ r.g = w.g /\ r.m.st \in {w.m.st, w.k.st} /\ r.k.st \in Live
  /\ r.cc < 0 => r.k.act = w.k.act

(* A suspension leaves the processes as the card says: signalled and
   suspended, or a command under way (jRunSuspendAct). *)
LEMMA SuspendActs ==
  ASSUME NEW w \in Worlds, MbdReasons(w), w.k.st \in Live, w.k.act = "no",
         NEW sig \in SuspendSigs, NEW st \in {"ususp", "ssusp"}, NEW rs \in SUBSET AllReasons,
         NEW up \in BOOLEAN, NEW log \in BOOLEAN
  PROVE  LET r == jRunSuspendAct(w, sig, st, rs, up, log) IN
         /\ Acted(r, w) /\ r.k.st \in {w.k.st, st} /\ r.k.act \in {"no", sig}
         /\ r.cc < 0 => r.p = "gone"
<1> DEFINE v == [w EXCEPT !.k.ar = rs, !.k.as = "no"]
           s == jobsig(v, "STOP")
           r == jRunSuspendAct(w, sig, st, rs, up, log)
<1>1. /\ v \in Worlds /\ v.k.st = w.k.st /\ v.k.act = "no" /\ v.m = w.m /\ v.g = w.g
      /\ v.p = w.p /\ v.a = w.a
  BY DEF Worlds, Cards
<1>2. r = IF RunsCommand(sig) THEN jobact(v, sig, up, log)
          ELSE IF s.cc < 0 THEN s
          ELSE [s EXCEPT !.k.st = st, !.k.rs = @ \cup rs, !.k.nr = TRUE]
  BY DEF jRunSuspendAct
<1>m. MbdReasons(v) /\ v.k.st # "none"
  BY <1>1 DEF MbdReasons, Live
<1> HIDE DEF v
<1>3. CASE RunsCommand(sig)
  <2>1. sig \in Acts
    BY DEF Acts
  <2> DEFINE l == jobact(v, sig, up, log)
  <2>2. /\ l \in Worlds /\ MbdReasons(l)
        /\ l.k.st = v.k.st /\ l.k.act = sig
        /\ l.a = "alive" /\ l.g = v.g /\ l.m.st \in {v.m.st, v.k.st} /\ l.cc = 0
    BY <1>1, <1>m, <2>1, ActionStarts
  <2>3. r = l
    BY <1>2, <1>3
  <2> HIDE DEF l
  <2>4. StopsTrue(l)
    BY <2>2 DEF StopsTrue, SuspendSigs, ResumeSigs, TermSigs
  <2> QED BY <1>1, <2>2, <2>3, <2>4 DEF Acted, Sound
<1>4. CASE ~RunsCommand(sig)
  <2>1. /\ s \in Worlds /\ s.k = v.k /\ s.g = v.g /\ s.m = v.m /\ s.a = v.a
        /\ v.p # "gone" => s.cc = 0
        /\ v.p = "gone" => s.p = "gone"
    BY <1>1, JobsigWorld
  <2>2. r = IF s.cc < 0 THEN s
            ELSE [s EXCEPT !.k.st = st, !.k.rs = @ \cup rs, !.k.nr = TRUE]
    BY <1>2, <1>4
  <2> HIDE DEF s
  <2>3. CASE s.cc < 0
    <3>1. r = s /\ s.p = "gone"
      BY <2>1, <2>2, <2>3
    <3>2. StopsTrue(s) /\ MbdReasons(s)
      BY <1>1, <1>m, <2>1, <3>1 DEF StopsTrue, MbdReasons, ResumeSigs, TermSigs
    <3> QED BY <1>1, <2>1, <3>1, <3>2 DEF Acted, Sound
  <2>4. CASE ~(s.cc < 0)
    <3>1. r = StopCard(s, st, rs)
      BY <2>2, <2>4 DEF StopCard
    <3>2. /\ r \in Worlds /\ r.k.st = st /\ r.k.act = s.k.act /\ r.m = s.m /\ r.g = s.g
          /\ r.a = s.a /\ r.cc = s.cc
      BY <2>1, <3>1, StoppedCard
    <3>3. StopsTrue(r) /\ MbdReasons(r)
      BY <1>1, <1>m, <2>1, <3>2 DEF StopsTrue, MbdReasons, ResumeSigs, TermSigs
    <3>4. st \in Live
      BY DEF Live
    <3> QED BY <1>1, <2>1, <2>4, <3>2, <3>3, <3>4 DEF Acted, Sound
  <2> QED BY <2>3, <2>4
<1> QED BY <1>3, <1>4

(* So does a resume: signalled and RUN, or a command under way (resumeJob). *)
LEMMA ResumeActs ==
  ASSUME NEW w \in Worlds, MbdReasons(w), w.k.st \in Live, w.k.act = "no",
         NEW sig \in ResumeSigs, NEW up \in BOOLEAN, NEW log \in BOOLEAN
  PROVE  LET r == resumeJob(w, sig, up, log) IN
         /\ Acted(r, w) /\ r.k.st \in {w.k.st, "run"} /\ r.k.act \in {"no", sig}
         /\ r.cc < 0 => r.p = "gone"
<1> DEFINE v == NoStatus(w)
           s == jobsig(v, "CONT")
           r == resumeJob(w, sig, up, log)
<1>1. Around(v, w) /\ v.k.st = w.k.st /\ v.k.act = "no"
  BY NoStatusFacts
<1>2. r = IF RunsCommand(sig) THEN jobact(v, sig, up, log)
          ELSE IF s.cc < 0 THEN s ELSE RunCard(s)
  BY DEF resumeJob, NoStatus, RunCard
<1>m. v \in Worlds /\ MbdReasons(v) /\ v.k.st # "none"
  BY <1>1 DEF MbdReasons, Live, Around
<1> HIDE DEF v
<1>3. CASE RunsCommand(sig)
  <2>1. sig \in Acts
    BY DEF Acts
  <2> DEFINE l == jobact(v, sig, up, log)
  <2>2. /\ l \in Worlds /\ MbdReasons(l)
        /\ l.k.st = v.k.st /\ l.k.act = sig
        /\ l.a = "alive" /\ l.g = v.g /\ l.m.st \in {v.m.st, v.k.st} /\ l.cc = 0
    BY <1>m, <2>1, ActionStarts
  <2>3. r = l
    BY <1>2, <1>3
  <2> HIDE DEF l
  <2>4. StopsTrue(l)
    BY <2>2 DEF StopsTrue, ResumeSigs, TermSigs
  <2> QED BY <1>1, <2>2, <2>3, <2>4 DEF Acted, Sound, Around
<1>4. CASE ~RunsCommand(sig)
  <2>1. /\ s \in Worlds /\ s.k = v.k /\ s.g = v.g /\ s.m = v.m /\ s.a = v.a
        /\ v.p # "gone" => s.cc = 0
        /\ s.p # "stop"
        /\ v.p = "gone" => s.p = "gone"
    BY <1>m, JobsigWorld
  <2>2. r = IF s.cc < 0 THEN s ELSE RunCard(s)
    BY <1>2, <1>4
  <2> HIDE DEF s
  <2>3. CASE s.cc < 0
    <3>1. r = s /\ s.p = "gone"
      BY <2>1, <2>2, <2>3
    <3>2. StopsTrue(s) /\ MbdReasons(s)
      BY <1>1, <1>m, <2>1, <3>1 DEF StopsTrue, MbdReasons, ResumeSigs, TermSigs
    <3> QED BY <1>1, <2>1, <3>1, <3>2 DEF Acted, Sound, Around
  <2>4. CASE ~(s.cc < 0)
    <3>1. r = RunCard(s)
      BY <2>2, <2>4
    <3>2. Around(r, s) /\ r.k.st = "run" /\ r.k.act = s.k.act /\ r.cc = s.cc
      BY <2>1, <3>1, RunCardFacts
    <3>3. StopsTrue(r) /\ MbdReasons(r)
      BY <1>1, <1>m, <2>1, <3>2 DEF StopsTrue, MbdReasons, ResumeSigs, TermSigs, Around
    <3>4. "run" \in Live
      BY DEF Live
    <3> QED BY <1>1, <2>1, <2>4, <3>2, <3>3, <3>4 DEF Acted, Sound, Around
  <2> QED BY <2>3, <2>4
<1> QED BY <1>3, <1>4

(* A termination leaves the card's status; a signal leaves dying processes
   (terminateAct). *)
LEMMA TerminateActs ==
  ASSUME NEW w \in Worlds, MbdReasons(w), w.k.st \in Live,
         NEW sig \in TermSigs, NEW rs \in SUBSET AllReasons, NEW up \in BOOLEAN, NEW log \in BOOLEAN
  PROVE  LET r == terminateAct(w, sig, rs, up, log) IN
         /\ Acted(r, w) /\ r.k.st = w.k.st /\ r.k.act \in {w.k.act, sig} /\ w.k.rs \subseteq r.k.rs
<1> DEFINE v == TermCard(w, sig, rs)
           s == jobsig(v, "KILL")
           r == terminateAct(w, sig, rs, up, log)
<1>1. Around(v, w) /\ v.k.st = w.k.st /\ v.k.act = w.k.act /\ v.k.rs = w.k.rs
  BY TermCardFacts
<1>2. r = IF RunsCommand(sig) THEN jobact(v, sig, up, log) ELSE s
  BY DEF terminateAct, TermCard
<1>m. v \in Worlds /\ MbdReasons(v) /\ v.k.st # "none"
  BY <1>1 DEF MbdReasons, Live, Around
<1> HIDE DEF v
<1>3. CASE RunsCommand(sig)
  <2>1. sig \in Acts
    BY DEF Acts
  <2> DEFINE l == jobact(v, sig, up, log)
  <2>2. /\ l \in Worlds /\ MbdReasons(l)
        /\ l.k.st = v.k.st /\ l.k.act = sig /\ v.k.rs \subseteq l.k.rs
        /\ l.a = "alive" /\ l.g = v.g /\ l.m.st \in {v.m.st, v.k.st} /\ l.cc = 0
    BY <1>m, <2>1, ActionStarts
  <2>3. r = l
    BY <1>2, <1>3
  <2> HIDE DEF l
  <2>4. StopsTrue(l)
    BY <2>2 DEF StopsTrue, ResumeSigs, TermSigs
  <2> QED BY <1>1, <2>2, <2>3, <2>4 DEF Acted, Sound, Around
<1>4. CASE ~RunsCommand(sig)
  <2>1. /\ s \in Worlds /\ s.k = v.k /\ s.g = v.g /\ s.m = v.m /\ s.a = v.a
        /\ s.p \in {"dying", "gone"}
    BY <1>m, JobsigWorld
  <2>2. r = s
    BY <1>2, <1>4
  <2> HIDE DEF s
  <2>3. StopsTrue(s) /\ MbdReasons(s)
    BY <1>m, <2>1 DEF StopsTrue, MbdReasons
  <2> QED BY <1>1, <2>1, <2>2, <2>3 DEF Acted, Sound, Around
<1> QED BY <1>3, <1>4

(* A checkpoint starts a command and leaves status and processes
   (jobSigStart for SIG_CHKPNT). *)
LEMMA CheckpointActs ==
  ASSUME NEW w, Sound(w), w.k.st \in Live, w.k.act = "no",
         NEW mig \in BOOLEAN, NEW up \in BOOLEAN, NEW log \in BOOLEAN
  PROVE  LET r == Checkpoint(w, mig, up, log) IN
         /\ Acted(r, w) /\ r.k.st = w.k.st /\ r.k.act = "CHKPNT" /\ w.k.rs \subseteq r.k.rs
<1> DEFINE v == NoStatus(w)
           l == jobact(v, "CHKPNT", up, log)
           r == Checkpoint(w, mig, up, log)
<1>0. w \in Worlds /\ MbdReasons(w)
  BY DEF Sound
<1>1. Around(v, w) /\ v.k.st = w.k.st /\ v.k.rs = w.k.rs
  BY <1>0, NoStatusFacts
<1>2. r = MigCard(l, mig)
  BY DEF Checkpoint, NoStatus, MigCard
<1>m. v \in Worlds /\ MbdReasons(v) /\ v.k.st # "none"
  BY <1>0, <1>1 DEF MbdReasons, Live, Around
<1> HIDE DEF v
<1>3. "CHKPNT" \in Acts
  BY DEF Acts
<1>4. /\ l \in Worlds /\ MbdReasons(l)
      /\ l.k.st = v.k.st /\ l.k.act = "CHKPNT" /\ v.k.rs \subseteq l.k.rs
      /\ l.p = v.p /\ l.g = v.g /\ l.m.st \in {v.m.st, v.k.st} /\ l.cc = 0
  BY <1>m, <1>3, ActionStarts
<1> HIDE DEF l
<1>5. Around(r, l) /\ r.k.st = l.k.st /\ r.k.act = l.k.act /\ r.k.rs = l.k.rs /\ r.cc = l.cc
  BY <1>2, <1>4, MigCardFacts
<1>6. MbdReasons(r)
  BY <1>4, <1>5 DEF MbdReasons, Around
<1>7. "fail" \notin kc.env => StopsTrue(r)
  BY <1>1, <1>4, <1>5 DEF Sound, StopsTrue, ResumeSigs, TermSigs, Around
<1> QED BY <1>1, <1>4, <1>5, <1>6, <1>7 DEF Acted, Sound, Around

(* A resume of a suspended job drops a reason, or resumes (jSuspResumeAct). *)
LEMMA SuspResumeActs ==
  ASSUME NEW w \in Worlds, MbdReasons(w), IsSusp(w.k.st), w.k.act = "no",
         NEW sig \in ResumeSigs, NEW susp \in SUBSET AllReasons,
         NEW up \in BOOLEAN, NEW log \in BOOLEAN
  PROVE  LET r == jSuspResumeAct(w, sig, susp, up, log) IN
         Acted(r, w) /\ r.k.st \in Live
<1> DEFINE v == NoStatus(w)
           other == v.k.ar \ {Lock, "user", "resume", "startup"}
           left == v.k.rs \ (susp \cup {"resume", Lock})
           b1 == BackCard(v, v.k.ar \ {"user", "resume"})
           b2 == BackCard(v, v.k.rs \ susp)
           c == IF left # {} THEN v.k.rs \ susp ELSE v.k.rs
           d == ReasonCard(v, c)
           r == jSuspResumeAct(w, sig, susp, up, log)
<1>1. Around(v, w) /\ v.k.st = w.k.st /\ v.k.act = "no"
  BY NoStatusFacts
<1>m. v \in Worlds /\ MbdReasons(v) /\ v.k.st \in Live
  BY <1>1 DEF MbdReasons, Live, Around, IsSusp
<1>r. v.k.rs \subseteq AllReasons /\ v.k.ar \subseteq AllReasons
  BY <1>m DEF Worlds, Cards
<1>2. \/ r = b1
      \/ r = resumeJob(v, sig, up, log)
      \/ r = b2
      \/ r = resumeJob(d, sig, up, log)
  BY DEF jSuspResumeAct, NoStatus, BackCard, ReasonCard
<1> HIDE DEF v
<1>3. CASE r = b1 \/ r = b2
  <2>0. v.k.ar \ {"user", "resume"} \in SUBSET AllReasons /\ v.k.rs \ susp \in SUBSET AllReasons
    BY <1>r
  <2>1. Around(r, v) /\ r.k.st = "ssusp" /\ r.k.act = "no"
    BY <1>1, <1>m, <1>3, <2>0, BackCardFacts
  <2>2. MbdReasons(r) /\ StopsTrue(r) /\ "ssusp" \in Live
    BY <1>m, <2>1 DEF MbdReasons, StopsTrue, Around, ResumeSigs, TermSigs, Live
  <2> QED BY <1>1, <2>1, <2>2 DEF Acted, Sound, Around
<1>4. CASE r = resumeJob(v, sig, up, log)
  <2>1. Acted(r, v) /\ r.k.st \in {v.k.st, "run"}
    BY <1>1, <1>m, <1>4, ResumeActs
  <2> QED BY <1>1, <2>1 DEF Acted, Around
<1>5. CASE r = resumeJob(d, sig, up, log)
  <2>0. c \in SUBSET AllReasons
    BY <1>r
  <2> HIDE DEF c
  <2>1. Around(d, v) /\ d.k.st = v.k.st /\ d.k.act = v.k.act
    BY <1>m, <2>0, ReasonCardFacts
  <2>2. d \in Worlds /\ MbdReasons(d) /\ d.k.st \in Live /\ d.k.act = "no"
    BY <1>1, <1>m, <2>1 DEF MbdReasons, Around
  <2> HIDE DEF d
  <2>3. Acted(r, d)
    BY <1>5, <2>2, ResumeActs
  <2> QED BY <1>1, <2>1, <2>3 DEF Acted, Around
<1> QED BY <1>2, <1>3, <1>4, <1>5

(* The reasons and the status that belong to a signal are reasons and a
   suspended status. *)
LEMMA ReasonTypes ==
  ASSUME NEW k \in Cards, NEW sig
  PROVE  /\ TermReason(k, sig) \in SUBSET AllReasons
         /\ SuspendReason(k, sig) \in SUBSET AllReasons
         /\ TakesBack(sig) \in SUBSET AllReasons
         /\ SuspendState(sig) \in {"ususp", "ssusp"}
BY DEF TermReason, SuspendReason, TakesBack, SuspendState, AllReasons, Cards

(* A signal other than SIGSTOP keeps the world sound (jobsig). *)
LEMMA JustSignal ==
  ASSUME NEW w, Sound(w), NEW s, s # "STOP"
  PROVE  /\ Sound(jobsig(w, s)) /\ jobsig(w, s).g = w.g /\ jobsig(w, s).m.st = w.m.st
         /\ jobsig(w, s).k = w.k
<1> DEFINE r == jobsig(w, s)
<1>0. w \in Worlds /\ MbdReasons(w) /\ ("fail" \notin kc.env => StopsTrue(w))
  BY DEF Sound
<1>1. /\ r \in Worlds /\ r.k = w.k /\ r.g = w.g /\ r.m = w.m /\ r.a = w.a
      /\ w.p = "gone" => r.p = "gone"
      /\ w.p = "dying" => r.p = "dying"
      /\ r.p # "stop" \/ w.p = "stop"
  BY <1>0, JobsigWorld
<1> HIDE DEF r
<1>2. MbdReasons(r)
  BY <1>0, <1>1 DEF MbdReasons
<1>3. "fail" \notin kc.env => StopsTrue(r)
  BY <1>0, <1>1 DEF StopsTrue
<1> QED BY <1>1, <1>2, <1>3 DEF Sound, r

(* A termination with the reason of its signal keeps the world sound
   (terminateAct). *)
LEMMA KilledInTime ==
  ASSUME NEW w, Sound(w), w.k.st \in Live, NEW sig \in TermSigs,
         NEW up \in BOOLEAN, NEW log \in BOOLEAN
  PROVE  LET r == terminateAct(w, sig, TermReason(w.k, sig), up, log) IN
         /\ Acted(r, w) /\ r.k.st = w.k.st /\ r.k.act \in {w.k.act, sig} /\ w.k.rs \subseteq r.k.rs
<1>1. w \in Worlds /\ MbdReasons(w) /\ w.k \in Cards
  BY DEF Sound, Worlds
<1>2. TermReason(w.k, sig) \in SUBSET AllReasons
  BY <1>1, ReasonTypes
<1> QED BY <1>1, <1>2, TerminateActs

(* Any signal to a running job keeps the world sound (jobSigStart). *)
LEMMA OnRunning ==
  ASSUME NEW w, Sound(w), w.k.st = "run", w.k.act = "no",
         NEW sig, sig # "STOP", NEW mig \in BOOLEAN, NEW up \in BOOLEAN, NEW log \in BOOLEAN
  PROVE  Acted(RunSigStart(w, sig, mig, up, log), w)
<1> DEFINE r == RunSigStart(w, sig, mig, up, log)
<1>0. w \in Worlds /\ MbdReasons(w) /\ w.k.st \in Live /\ w.k \in Cards
  BY DEF Sound, Live, Worlds
<1>1. CASE sig \in TermSigs
  <2>1. r = terminateAct(w, sig, TermReason(w.k, sig), up, log)
    BY <1>1 DEF RunSigStart, TermSigs, SuspendSigs, ResumeSigs
  <2>2. w.k.st \in Live
    BY DEF Live
  <2> QED BY <1>1, <2>1, <2>2, KilledInTime, Zenon
<1>2. CASE sig = "CHKPNT"
  <2>1. r = Checkpoint(w, mig, up, log)
    BY <1>2 DEF RunSigStart, TermSigs, SuspendSigs, ResumeSigs
  <2> QED BY <1>0, <2>1, CheckpointActs
<1>3. CASE sig \in SuspendSigs
  <2>1. r = jRunSuspendAct(w, sig, SuspendState(sig), SuspendReason(w.k, sig), up, log)
    BY <1>3 DEF RunSigStart, TermSigs, SuspendSigs, ResumeSigs
  <2>2. SuspendReason(w.k, sig) \in SUBSET AllReasons /\ SuspendState(sig) \in {"ususp", "ssusp"}
    BY <1>0, ReasonTypes
  <2> QED BY <1>0, <1>3, <2>1, <2>2, SuspendActs
<1>4. CASE sig \in ResumeSigs
  <2>1. r = IF RunsCommand(sig) THEN jobact(w, sig, up, log) ELSE jobsig(w, "CONT")
    BY <1>4 DEF RunSigStart, TermSigs, SuspendSigs, ResumeSigs
  <2>2. CASE RunsCommand(sig)
    <3>1. sig \in Acts /\ w.k.st # "none"
      BY <1>4 DEF Acts
    <3>2. /\ r \in Worlds /\ MbdReasons(r) /\ r.k.st = w.k.st /\ r.k.act = sig
          /\ r.a = "alive" /\ r.g = w.g /\ r.m.st \in {w.m.st, w.k.st} /\ r.cc = 0
      BY <1>0, <2>1, <2>2, <3>1, ActionStarts
    <3>3. StopsTrue(r)
      BY <1>4, <3>2 DEF StopsTrue, ResumeSigs, TermSigs
    <3> QED BY <1>0, <3>2, <3>3 DEF Acted, Sound
  <2>3. CASE ~RunsCommand(sig)
    BY <1>0, <2>1, <2>3, JustSignal DEF Acted
  <2> QED BY <2>2, <2>3
<1>5. CASE sig \notin TermSigs \cup {"CHKPNT"} \cup SuspendSigs \cup ResumeSigs
  <2>1. r = jobsig(w, sig)
    BY <1>5 DEF RunSigStart, TermSigs, SuspendSigs, ResumeSigs
  <2> QED BY <1>0, <2>1, JustSignal DEF Acted
<1> QED BY <1>1, <1>2, <1>3, <1>4, <1>5

(* Any signal to a suspended job keeps the world sound, and only a resume
   undoes the hold of the lock (jobSigStart). *)
LEMMA OnSuspended ==
  ASSUME NEW w, Sound(w), IsSusp(w.k.st), w.k.act = "no",
         NEW sig, sig # "STOP", NEW mig \in BOOLEAN, NEW up \in BOOLEAN, NEW log \in BOOLEAN
  PROVE  LET r == SuspSigStart(w, sig, mig, up, log) IN
         Acted(r, w) /\ (Held(w) /\ sig \notin ResumeSigs => Held(r))
<1> DEFINE r == SuspSigStart(w, sig, mig, up, log)
<1>0. w \in Worlds /\ MbdReasons(w) /\ w.k.st \in Live /\ w.k \in Cards
  BY DEF Sound, Live, Worlds, IsSusp
<1>1. CASE sig \in TermSigs
  <2>1. r = terminateAct(w, sig, TermReason(w.k, sig), up, log)
    BY <1>1 DEF SuspSigStart, TermSigs, SuspendSigs, ResumeSigs
  <2>3. Acted(r, w) /\ r.k.st = w.k.st /\ r.k.act \in {w.k.act, sig} /\ w.k.rs \subseteq r.k.rs
    BY <1>0, <1>1, <2>1, KilledInTime
  <2> QED BY <1>1, <2>3 DEF Held, TermSigs, ResumeSigs
<1>2. CASE sig = "CHKPNT"
  <2>1. r = Checkpoint(w, mig, up, log)
    BY <1>2 DEF SuspSigStart, TermSigs, SuspendSigs, ResumeSigs
  <2>2. Acted(r, w) /\ r.k.st = w.k.st /\ r.k.act = "CHKPNT" /\ w.k.rs \subseteq r.k.rs
    BY <1>0, <2>1, CheckpointActs
  <2> QED BY <2>2 DEF Held, ResumeSigs
<1>3. CASE sig \in SuspendSigs
  <2>1. r = AddCard(w, SuspendReason(w.k, sig), sig)
    BY <1>3 DEF SuspSigStart, TermSigs, SuspendSigs, ResumeSigs, AddCard
  <2>2. SuspendReason(w.k, sig) \in SUBSET AllReasons
    BY <1>0, ReasonTypes
  <2>3. /\ Around(r, w) /\ r.k.st = (IF sig = "SUSP_USER" THEN "ususp" ELSE w.k.st)
        /\ r.k.act = w.k.act /\ w.k.rs \subseteq r.k.rs
    BY <1>0, <2>1, <2>2, AddCardFacts
  <2>4. IsSusp(r.k.st) /\ r.k.st \in Live
    BY <2>3 DEF IsSusp, Live
  <2>5. MbdReasons(r) /\ StopsTrue(r)
    BY <1>0, <2>3, <2>4 DEF MbdReasons, StopsTrue, Around, IsSusp, ResumeSigs, TermSigs
  <2>6. Acted(r, w)
    BY <2>3, <2>4, <2>5 DEF Acted, Sound, Around
  <2> QED BY <1>0, <2>3, <2>4, <2>6 DEF Held
<1>4. CASE sig \in ResumeSigs
  <2>1. r = jSuspResumeAct(w, sig, TakesBack(sig), up, log)
    BY <1>4 DEF SuspSigStart, TermSigs, SuspendSigs, ResumeSigs
  <2>2. TakesBack(sig) \in SUBSET AllReasons
    BY <1>0, ReasonTypes
  <2> QED BY <1>0, <1>4, <2>1, <2>2, SuspResumeActs
<1>5. CASE sig \notin TermSigs \cup {"CHKPNT"} \cup SuspendSigs \cup ResumeSigs
  <2>1. r = jobsig(jobsig(w, "CONT"), sig)
    BY <1>5 DEF SuspSigStart
  <2> DEFINE v == jobsig(w, "CONT")
  <2>2. Sound(v) /\ v.g = w.g /\ v.m.st = w.m.st /\ v.k = w.k
    BY JustSignal
  <2> HIDE DEF v
  <2>3. Sound(r) /\ r.g = v.g /\ r.m.st = v.m.st /\ r.k = v.k
    BY <2>1, <2>2, JustSignal DEF v
  <2> QED BY <1>0, <2>2, <2>3 DEF Acted, Held
<1> QED BY <1>1, <1>2, <1>3, <1>4, <1>5

(* So for every job: jobSigStart keeps the world sound, leaves the file, and
   a finished job as it is. *)
LEMMA SigStarts ==
  ASSUME NEW w, Sound(w), NEW sig, sig # "STOP",
         NEW mig \in BOOLEAN, NEW up \in BOOLEAN, NEW log \in BOOLEAN
  PROVE  LET r == jobSigStart(w, sig, mig, up, log) IN
         /\ Sound(r) /\ r.g = w.g /\ r.m.st \in {w.m.st, w.k.st}
         /\ w.k.st \in Live => r.k.st \in Live
         /\ w.k.st \notin Live => r.k.st = w.k.st
         /\ r.cc < 0 => r.k.act = w.k.act
         /\ Held(w) /\ sig \notin ResumeSigs => Held(r)
<1> DEFINE r == jobSigStart(w, sig, mig, up, log)
<1>0. w \in Worlds /\ MbdReasons(w) /\ w.k \in Cards
  BY DEF Sound, Worlds
<1>1. \/ w.k.st \notin Live /\ r = Result(w, 0)
      \/ w.k.st \in Live /\ r = Result(w, -1)
      \/ w.k.st \in Live /\ sig \in TermSigs /\ r = terminateAct(w, sig, TermReason(w.k, sig), up, log)
      \/ w.k.st = "run" /\ w.k.act = "no" /\ r = RunSigStart(w, sig, mig, up, log)
      \/ IsSusp(w.k.st) /\ w.k.act = "no" /\ r = SuspSigStart(w, sig, mig, up, log)
  BY DEF jobSigStart, Result, Live, IsSusp
<1>2. ASSUME NEW cc \in {-1, 0}, r = Result(w, cc)
      PROVE  Sound(r) /\ r.g = w.g /\ r.m = w.m /\ r.k = w.k
  <2>1. Around(r, w) /\ r.k = w.k
    BY <1>0, <1>2, ResultFacts
  <2>2. MbdReasons(r) /\ ("fail" \notin kc.env => StopsTrue(r))
    BY <2>1 DEF Sound, MbdReasons, StopsTrue, Around
  <2> QED BY <2>1, <2>2 DEF Sound, Around
<1>3. CASE \E cc \in {-1, 0} : r = Result(w, cc)
  BY <1>2, <1>3 DEF Held
<1>4. CASE w.k.st \in Live /\ sig \in TermSigs /\ r = terminateAct(w, sig, TermReason(w.k, sig), up, log)
  <2>3. Acted(r, w) /\ r.k.st = w.k.st /\ r.k.act \in {w.k.act, sig} /\ w.k.rs \subseteq r.k.rs
    BY <1>4, KilledInTime
  <2> QED BY <1>4, <2>3 DEF Held, TermSigs, ResumeSigs, Acted
<1>5. CASE w.k.st = "run" /\ w.k.act = "no" /\ r = RunSigStart(w, sig, mig, up, log)
  <2>1. Acted(r, w)
    BY <1>5, OnRunning, Zenon
  <2>2. w.k.st \in Live /\ ~Held(w)
    BY <1>5 DEF Held, IsSusp, Live
  <2> QED BY <2>1, <2>2 DEF Acted
<1>6. CASE IsSusp(w.k.st) /\ w.k.act = "no" /\ r = SuspSigStart(w, sig, mig, up, log)
  <2>1. Acted(r, w) /\ (Held(w) /\ sig \notin ResumeSigs => Held(r))
    BY <1>6, OnSuspended, Zenon
  <2>2. w.k.st \in Live
    BY <1>6 DEF IsSusp, Live
  <2> QED BY <2>1, <2>2 DEF Acted
<1> QED BY <1>1, <1>3, <1>4, <1>5, <1>6

-----------------------------------------------------------------------------
(* The status file.  Before it is first written the job runs, for both daemons;
   later it holds the status and the action of the card, or the job is
   suspended in both and sbatchd stops it again since it came up. *)
FileTrue(w) ==
  /\ w.g = <<>> => w.k.st = "run" /\ w.k.act \in {"no"} \cup ResumeSigs /\ w.m.st = "run"
  /\ w.g # <<>> => \/ w.k.st = "none"
                   \/ w.k.st = w.g[1].st /\ w.k.act = w.g[1].act
                   \/ w.g[1].act = "no" /\ IsSusp(w.g[1].st) /\ IsSusp(w.k.st)
InStep(w) == Sound(w) /\ FileTrue(w)

(* The status file takes over the card and changes nothing else
   (sbdlog_newstatus). *)
LEMMA NewStatusFacts ==
  ASSUME NEW w \in Worlds
  PROVE  LET r == sbdlog_newstatus(w) IN
         /\ r \in Worlds /\ r.k = w.k /\ r.m = w.m /\ r.a = w.a /\ r.p = w.p /\ r.cc = w.cc
         /\ r.g # <<>> /\ r.g[1].st = w.k.st /\ r.g[1].act = w.k.act
<1> DEFINE c == [w.k EXCEPT !.rs = @ \ {"startup"}, !.nr = FALSE, !.miss = FALSE,
                            !.exp = FALSE, !.force = FALSE]
<1>0. w.k \in Cards
  BY DEF Worlds
<1>1. c \in Cards /\ c.st = w.k.st /\ c.act = w.k.act
  BY <1>0 DEF Cards
<1>2. sbdlog_newstatus(w) = [w EXCEPT !.g = <<c>>]
  BY DEF sbdlog_newstatus
<1> HIDE DEF c
<1>3. <<c>> \in Seq(Cards) /\ <<c>> # <<>> /\ <<c>>[1] = c
  BY <1>1
<1> DEFINE g == <<c>>
<1> HIDE DEF g
<1>4. g \in Seq(Cards) /\ sbdlog_newstatus(w) = [w EXCEPT !.g = g]
  BY <1>2, <1>3 DEF g
<1>5. LET r == sbdlog_newstatus(w) IN
      r \in Worlds /\ r.k = w.k /\ r.m = w.m /\ r.a = w.a /\ r.p = w.p /\ r.cc = w.cc /\ r.g = g
  BY <1>4 DEF Worlds
<1> QED BY <1>1, <1>3, <1>5 DEF g

(* After sbdlog_newstatus file and card agree. *)
LEMMA LoggedInStep ==
  ASSUME NEW w, Sound(w)
  PROVE  /\ InStep(sbdlog_newstatus(w)) /\ sbdlog_newstatus(w).k = w.k
         /\ sbdlog_newstatus(w).g # <<>>
         /\ Held(w) => Held(sbdlog_newstatus(w))
<1> DEFINE r == sbdlog_newstatus(w)
<1>0. w \in Worlds /\ MbdReasons(w) /\ ("fail" \notin kc.env => StopsTrue(w))
  BY DEF Sound
<1>1. /\ r \in Worlds /\ r.k = w.k /\ r.m = w.m /\ r.a = w.a /\ r.p = w.p
      /\ r.g # <<>> /\ r.g[1].st = w.k.st /\ r.g[1].act = w.k.act
  BY <1>0, NewStatusFacts
<1> HIDE DEF r
<1>2. MbdReasons(r) /\ ("fail" \notin kc.env => StopsTrue(r))
  BY <1>0, <1>1 DEF MbdReasons, StopsTrue
<1>3. FileTrue(r)
  BY <1>1 DEF FileTrue
<1>4. Held(w) => Held(r)
  BY <1>1 DEF Held
<1> QED BY <1>1, <1>2, <1>3, <1>4 DEF InStep, Sound, r

GoneOnce(w) == [w EXCEPT !.k.miss = TRUE, !.k.nr = FALSE]
GoneTwice(w) == [w EXCEPT !.k.nr = TRUE, !.k.st = IF w.k.act = "no" THEN "exit" ELSE @]

(* A job that is missed once keeps status, action and reasons (jobGone). *)
LEMMA GoneOnceFacts ==
  ASSUME NEW w \in Worlds
  PROVE  LET r == GoneOnce(w) IN
         Around(r, w) /\ r.k.st = w.k.st /\ r.k.act = w.k.act /\ r.k.rs = w.k.rs
BY DEF GoneOnce, Around, Worlds, Cards

(* A job that is missed twice has exited unless an action runs (jobGone). *)
LEMMA GoneTwiceFacts ==
  ASSUME NEW w \in Worlds
  PROVE  LET r == GoneTwice(w) IN
         Around(r, w) /\ r.k.st = (IF w.k.act = "no" THEN "exit" ELSE w.k.st)
         /\ r.k.act = w.k.act /\ r.k.rs = w.k.rs
BY DEF GoneTwice, Around, Worlds, Cards

(* A change of the card that leaves the status, the action and the reasons
   keeps the invariant and the lock. *)
LEMMA SideChange ==
  ASSUME NEW w, NEW r, Around(r, w), r.k.st = w.k.st, r.k.act = w.k.act, w.k.rs \subseteq r.k.rs
  PROVE  /\ Sound(w) => Sound(r)
         /\ InStep(w) => InStep(r)
         /\ Held(w) => Held(r)
<1>1. Sound(w) => Sound(r)
  BY DEF Sound, Around, MbdReasons, StopsTrue
<1>2. FileTrue(w) => FileTrue(r)
  BY DEF FileTrue, Around
<1>3. Held(w) => Held(r)
  BY DEF Held
<1> QED BY <1>1, <1>2, <1>3 DEF InStep

(* jobGone keeps file and card in step. *)
LEMMA JobGoneInStep ==
  ASSUME NEW w, InStep(w), w.k.st \in Live
  PROVE  /\ InStep(jobGone(w)) /\ (Held(w) => Held(jobGone(w)))
         /\ jobGone(w).k.st \in {w.k.st, "exit"} /\ (jobGone(w).g = <<>> => w.g = <<>>)
<1> DEFINE v == GoneTwice(w)
<1>0. w \in Worlds /\ Sound(w)
  BY DEF InStep, Sound
<1>1. jobGone(w) = IF ~w.k.miss THEN GoneOnce(w) ELSE IF w.k.act = "no" THEN sbdlog_newstatus(v) ELSE v
  BY DEF jobGone, GoneOnce, GoneTwice
<1>2. CASE jobGone(w) = GoneOnce(w)
  <2>1. Around(GoneOnce(w), w) /\ GoneOnce(w).k.st = w.k.st /\ GoneOnce(w).k.act = w.k.act
        /\ GoneOnce(w).k.rs = w.k.rs
    BY <1>0, GoneOnceFacts
  <2> QED BY <1>2, <2>1, SideChange DEF Around
<1>3. Around(v, w) /\ v.k.st = (IF w.k.act = "no" THEN "exit" ELSE w.k.st)
      /\ v.k.act = w.k.act /\ v.k.rs = w.k.rs
  BY <1>0, GoneTwiceFacts
<1> HIDE DEF v
<1>4. CASE w.k.act # "no" /\ jobGone(w) = v
  BY <1>3, <1>4, SideChange DEF Around
<1>5. CASE w.k.act = "no" /\ jobGone(w) = sbdlog_newstatus(v)
  <2>1. MbdReasons(v) /\ StopsTrue(v)
    BY <1>0, <1>3, <1>5 DEF Sound, Around, MbdReasons, StopsTrue, ResumeSigs, TermSigs
  <2>2. Sound(v)
    BY <1>3, <2>1 DEF Sound, Around
  <2>3. Held(v) /\ v.k.st = "exit"
    BY <1>3, <1>5 DEF Held, Live
  <2> QED BY <1>5, <2>2, <2>3, LoggedInStep
<1> QED BY <1>1, <1>2, <1>4, <1>5

-----------------------------------------------------------------------------
(* The end of an action. *)
(* Clearing the action keeps status and reasons. *)
LEMMA ClearActFacts ==
  ASSUME NEW w \in Worlds
  PROVE  LET r == ClearAct(w) IN
         Around(r, w) /\ r.k.st = w.k.st /\ r.k.act = "no" /\ r.k.rs = w.k.rs /\ r.k.as = w.k.as
BY DEF ClearAct, Around, Worlds, Cards, Acts

(* Reporting the end of an action clears it at most (jobSigLog, and after it
   actReasons). *)
LEMMA LogEndFacts ==
  ASSUME NEW w \in Worlds, MbdReasons(w), w.k.st # "none", NEW up \in BOOLEAN
  PROVE  LET r == LogEnd(w, up) IN
         /\ r \in Worlds /\ MbdReasons(r) /\ r.k.st = w.k.st /\ r.k.act \in {w.k.act, "no"}
         /\ w.k.rs \subseteq r.k.rs /\ r.p = w.p /\ r.a = w.a /\ r.g = w.g
<1> DEFINE l == jobSigLog(w, up)
<1>1. SameJob(l, w)
  BY SigLogged
<1>2. LogEnd(w, up) = IF l.cc = 0 THEN ClearAct(l) ELSE l
  BY DEF LogEnd
<1> HIDE DEF l
<1>3. CASE LogEnd(w, up) = l
  BY <1>1, <1>3 DEF SameJob
<1>4. CASE LogEnd(w, up) = ClearAct(l)
  <2>1. Around(ClearAct(l), l) /\ ClearAct(l).k.st = l.k.st /\ ClearAct(l).k.act = "no"
        /\ ClearAct(l).k.rs = l.k.rs
    BY <1>1, ClearActFacts DEF SameJob
  <2>2. MbdReasons(ClearAct(l))
    BY <1>1, <2>1 DEF SameJob, MbdReasons, Around
  <2> QED BY <1>1, <1>4, <2>1, <2>2 DEF SameJob, Around
<1> QED BY <1>2, <1>3, <1>4

SuspEnded(w, st, rs, as) == [w EXCEPT !.k.st = st, !.k.rs = @ \cup rs, !.k.as = as]
RunEnded(w) == [w EXCEPT !.k.st = "run", !.k.rs = {}]

(* The card at the end of a suspension. *)
LEMMA SuspEndedFacts ==
  ASSUME NEW w \in Worlds, NEW st \in {"ususp", "ssusp"}, NEW rs \in SUBSET AllReasons,
         NEW as \in {"no", "start", "done", "fail"}
  PROVE  LET r == SuspEnded(w, st, rs, as) IN
         Around(r, w) /\ r.k.st = st /\ r.k.act = w.k.act /\ w.k.rs \subseteq r.k.rs
BY DEF SuspEnded, Around, Worlds, Cards, Live

(* The card at the end of a resume. *)
LEMMA RunEndedFacts ==
  ASSUME NEW w \in Worlds
  PROVE  LET r == RunEnded(w) IN Around(r, w) /\ r.k.st = "run" /\ r.k.act = w.k.act
BY DEF RunEnded, Around, Worlds, Cards, Live

(* The end of a suspend command keeps the world sound and the lock held
   (suspendActEnd). *)
LEMMA SuspendEnds ==
  ASSUME NEW w, Sound(w), w.k.st # "none", w.k.act \in SuspendSigs \cup {"TERM_RUNLIMIT"},
         NEW up \in BOOLEAN
  PROVE  LET r == suspendActEnd(w, up) IN
         Sound(r) /\ r.k.st \in Live /\ (Held(w) => Held(r)) /\ r.k.st # "none"
<1> DEFINE st == IF w.k.act \in {"SUSP_USER", "TERM_USER"} THEN "ususp" ELSE "ssusp"
           rs == w.k.ar \ {"startup"}
           as == IF "startup" \in w.k.ar THEN "no" ELSE w.k.as
           v == SuspEnded(w, st, rs, as)
           r == suspendActEnd(w, up)
<1>0. w \in Worlds /\ MbdReasons(w) /\ w.k \in Cards
  BY DEF Sound, Worlds
<1>1. st \in {"ususp", "ssusp"} /\ rs \in SUBSET AllReasons /\ as \in {"no", "start", "done", "fail"}
  BY <1>0 DEF Cards
<1>2. r = LogEnd(v, up)
  BY DEF suspendActEnd, SuspEnded
<1> HIDE DEF st, rs, as
<1>3. Around(v, w) /\ v.k.st = st /\ v.k.act = w.k.act /\ w.k.rs \subseteq v.k.rs
  BY <1>0, <1>1, SuspEndedFacts
<1> HIDE DEF v
<1>4. v \in Worlds /\ MbdReasons(v) /\ v.k.st # "none"
  BY <1>0, <1>1, <1>3 DEF Around, MbdReasons
<1>5. /\ r \in Worlds /\ MbdReasons(r) /\ r.k.st = v.k.st /\ r.k.act \in {v.k.act, "no"}
      /\ v.k.rs \subseteq r.k.rs /\ r.p = v.p /\ r.a = v.a
  BY <1>2, <1>4, LogEndFacts
<1> HIDE DEF r
<1>6. "fail" \notin kc.env => StopsTrue(r)
  BY <1>1, <1>3, <1>5 DEF Sound, StopsTrue, Around, SuspendSigs, ResumeSigs, TermSigs
<1>7. Held(w) => Held(r)
  BY <1>1, <1>3, <1>5 DEF Held, IsSusp, Live, SuspendSigs, ResumeSigs, Sound, Worlds, Cards
<1> QED BY <1>1, <1>3, <1>5, <1>6, <1>7 DEF Sound, Live, r

(* After a resume command that succeeded the job runs and its processes too
   (resumeActEnd). *)
LEMMA ResumeEnds ==
  ASSUME NEW w, Sound(w), w.k.st # "none", w.k.act \in ResumeSigs, w.a # "alive", NEW up \in BOOLEAN
  PROVE  LET r == resumeActEnd(w, up) IN Sound(r) /\ r.k.st = "run"
<1> DEFINE v == RunEnded(w)
           r == resumeActEnd(w, up)
<1>0. w \in Worlds /\ MbdReasons(w)
  BY DEF Sound
<1>1. Around(v, w) /\ v.k.st = "run" /\ v.k.act = w.k.act
  BY <1>0, RunEndedFacts
<1>2. r = LogEnd(v, up)
  BY DEF resumeActEnd, RunEnded
<1> HIDE DEF v
<1>3. v \in Worlds /\ MbdReasons(v) /\ v.k.st # "none"
  BY <1>0, <1>1 DEF Around, MbdReasons
<1>4. /\ r \in Worlds /\ MbdReasons(r) /\ r.k.st = v.k.st /\ r.k.act \in {v.k.act, "no"}
      /\ r.p = v.p /\ r.a = v.a
  BY <1>2, <1>3, LogEndFacts
<1> HIDE DEF r
<1>5. "fail" \notin kc.env => StopsTrue(r)
  BY <1>1, <1>4 DEF Sound, StopsTrue, Around, ResumeSigs, TermSigs
<1>6. "run" \in Live
  BY DEF Live
<1> QED BY <1>1, <1>4, <1>5, <1>6 DEF Sound, r

(* The end of a termination command keeps the world sound and the lock held. *)
LEMMA OtherEnds ==
  ASSUME NEW w, Sound(w), w.k.st # "none", w.k.act \in TermSigs, w.a # "alive", NEW up \in BOOLEAN
  PROVE  LET r == LogEnd(w, up) IN Sound(r) /\ r.k.st = w.k.st /\ (Held(w) => Held(r))
<1> DEFINE r == LogEnd(w, up)
<1>0. w \in Worlds /\ MbdReasons(w)
  BY DEF Sound
<1>1. /\ r \in Worlds /\ MbdReasons(r) /\ r.k.st = w.k.st /\ r.k.act \in {w.k.act, "no"}
      /\ w.k.rs \subseteq r.k.rs /\ r.p = w.p /\ r.a = w.a
  BY <1>0, LogEndFacts
<1> HIDE DEF r
<1>2. "fail" \notin kc.env => StopsTrue(r)
  BY <1>1 DEF Sound, StopsTrue, ResumeSigs, TermSigs
<1>3. Held(w) => Held(r)
  BY <1>1 DEF Held, ResumeSigs, TermSigs
<1> QED BY <1>1, <1>2, <1>3 DEF Sound, r

PendCard(w) == [w EXCEPT !.k.st = "pend"]
StayCard(w) == [w EXCEPT !.k.mig = FALSE]
MissCard(w) == [w EXCEPT !.k.miss = TRUE]
AsBefore(w, st, mig) == [w EXCEPT !.k.st = st, !.k.mig = mig]
GivenBack(w) == [w EXCEPT !.k.as = "no", !.k.st = "none"]
Stayed(w) == [w EXCEPT !.k.as = "no", !.k.st = @]

(* The cards of a migration: given back as pending, staying here, missed
   once. *)
LEMMA MigrationCards ==
  ASSUME NEW w \in Worlds
  PROVE  /\ Around(PendCard(w), w) /\ PendCard(w).k.st = "pend" /\ PendCard(w).k.act = w.k.act
         /\ PendCard(w).k.rs = w.k.rs
         /\ Around(StayCard(w), w) /\ StayCard(w).k.st = w.k.st /\ StayCard(w).k.act = w.k.act
         /\ StayCard(w).k.rs = w.k.rs
         /\ Around(MissCard(w), w) /\ MissCard(w).k.st = w.k.st /\ MissCard(w).k.act = w.k.act
         /\ MissCard(w).k.rs = w.k.rs
         /\ Around(GivenBack(w), w) /\ GivenBack(w).k.st = "none" /\ GivenBack(w).k.act = w.k.act
         /\ GivenBack(w).k.rs = w.k.rs
         /\ Around(Stayed(w), w) /\ Stayed(w).k.st = w.k.st /\ Stayed(w).k.act = w.k.act
         /\ Stayed(w).k.rs = w.k.rs
<1>1. /\ Around(PendCard(w), w) /\ PendCard(w).k.st = "pend" /\ PendCard(w).k.act = w.k.act
      /\ PendCard(w).k.rs = w.k.rs
  BY DEF PendCard, Around, Worlds, Cards
<1>2. /\ Around(StayCard(w), w) /\ StayCard(w).k.st = w.k.st /\ StayCard(w).k.act = w.k.act
      /\ StayCard(w).k.rs = w.k.rs
  BY DEF StayCard, Around, Worlds, Cards
<1>3. /\ Around(MissCard(w), w) /\ MissCard(w).k.st = w.k.st /\ MissCard(w).k.act = w.k.act
      /\ MissCard(w).k.rs = w.k.rs
  BY DEF MissCard, Around, Worlds, Cards
<1>4. /\ Around(GivenBack(w), w) /\ GivenBack(w).k.st = "none" /\ GivenBack(w).k.act = w.k.act
      /\ GivenBack(w).k.rs = w.k.rs
  BY DEF GivenBack, Around, Worlds, Cards
<1>5. /\ Around(Stayed(w), w) /\ Stayed(w).k.st = w.k.st /\ Stayed(w).k.act = w.k.act
      /\ Stayed(w).k.rs = w.k.rs
  BY DEF Stayed, Around, Worlds, Cards
<1> QED BY <1>1, <1>2, <1>3, <1>4, <1>5

(* A report of a migration that failed puts status and mark back. *)
LEMMA AsBeforeFacts ==
  ASSUME NEW w \in Worlds, NEW st \in Live \cup {"exit", "pend", "none"}, NEW mig \in BOOLEAN
  PROVE  LET r == AsBefore(w, st, mig) IN
         Around(r, w) /\ r.k.st = st /\ r.k.act = w.k.act /\ r.k.rs = w.k.rs
BY DEF AsBefore, Around, Worlds, Cards

(* The end of a checkpoint keeps the world sound and the lock held; the card
   may be given back (chkpntEnd). *)
LEMMA CheckpointEnds ==
  ASSUME NEW w, Sound(w), w.k.st # "none", w.k.act = "CHKPNT", NEW ok \in BOOLEAN, NEW up \in BOOLEAN
  PROVE  LET r == chkpntEnd(w, ok, up) IN
         Sound(r) /\ r.k.st \in {w.k.st, "none"} /\ (Held(w) => Held(r)) /\ r.g = w.g
<1> DEFINE v == IF IsSusp(w.k.st) /\ ~w.k.mig THEN jobsig(w, "STOP") ELSE w
           e == IF ~v.k.mig THEN v ELSE IF ok THEN PendCard(v) ELSE StayCard(v)
           l == status_jobSusp(e, up)
           f == AsBefore(l, v.k.st, v.k.mig)
           d == IF v.k.mig /\ ok THEN GivenBack(ClearAct(l)) ELSE Stayed(ClearAct(l))
           r == chkpntEnd(w, ok, up)
<1>0. w \in Worlds /\ MbdReasons(w) /\ w.k.st \in Live
  BY DEF Sound
<1>1. Sound(v) /\ v.k = w.k /\ v.g = w.g
  <2>1. CASE v = jobsig(w, "STOP") /\ IsSusp(w.k.st)
    <3>1. v \in Worlds /\ v.k = w.k /\ v.g = w.g /\ v.m = w.m
      BY <1>0, <2>1, JobsigWorld
    <3>2. StopsTrue(v) /\ MbdReasons(v)
      BY <1>0, <2>1, <3>1 DEF StopsTrue, MbdReasons, IsSusp, ResumeSigs, TermSigs
    <3> QED BY <1>0, <3>1, <3>2 DEF Sound
  <2>2. CASE v = w
    BY <2>2
  <2> QED BY <2>1, <2>2
<1> DEFINE n == [ClearAct(l) EXCEPT !.k.as = "no", !.k.st = IF v.k.mig /\ ok THEN "none" ELSE @]
<1>n. r = CASE v.k.mig /\ ok /\ ~v.k.miss -> MissCard(v)
             [] v.k.mig /\ ok /\ v.k.miss /\ ~v.k.nr -> v
             [] OTHER -> IF l.cc < 0 THEN f ELSE n
  BY Zenon DEF chkpntEnd, PendCard, StayCard, MissCard, AsBefore
<1>c. n = d
  <2> DEFINE x == ClearAct(l)
  <2> HIDE DEF x
  <2>1. CASE v.k.mig /\ ok
    <3>1. n = [x EXCEPT !.k.as = "no", !.k.st = "none"]
      BY <2>1, Zenon DEF x
    <3> QED BY <2>1, <3>1 DEF GivenBack, x
  <2>2. CASE ~(v.k.mig /\ ok)
    <3>1. n = [x EXCEPT !.k.as = "no", !.k.st = @]
      BY <2>2, Zenon DEF x
    <3> QED BY <2>2, <3>1 DEF Stayed, x
  <2> QED BY <2>1, <2>2
<1>2. \/ r = MissCard(v) \/ r = v \/ r = f \/ r = d
  BY <1>n, <1>c, Zenon
<1> HIDE DEF v
<1>v. v \in Worlds /\ MbdReasons(v)
  BY <1>1 DEF Sound
<1>3. /\ Around(e, v) /\ e.k.act = v.k.act /\ e.k.rs = v.k.rs
      /\ e.k.st \in {v.k.st, "pend"}
      /\ ~(v.k.mig /\ ok) => e.k.st = v.k.st
  <2>1. CASE e = v
    BY <1>v, <2>1 DEF Around
  <2>2. CASE v.k.mig /\ ok /\ e = PendCard(v)
    BY <1>v, <2>2, MigrationCards
  <2>3. CASE e = StayCard(v)
    BY <1>v, <2>3, MigrationCards
  <2> QED BY <2>1, <2>2, <2>3
<1> HIDE DEF e
<1>4. e \in Worlds /\ MbdReasons(e) /\ e.k.st # "none"
  BY <1>0, <1>1, <1>v, <1>3 DEF Around, MbdReasons, Live
<1>5. SameJob(l, e)
  BY <1>4, Reported
<1> HIDE DEF l
<1>6. l \in Worlds /\ MbdReasons(l) /\ l.k.act = "CHKPNT" /\ v.k.rs \subseteq l.k.rs /\ l.g = v.g
      /\ l.p = v.p /\ l.k.st = e.k.st
  BY <1>1, <1>3, <1>5 DEF SameJob, Around
<1>7. CASE r = MissCard(v)
  <2>1. Around(r, v) /\ r.k.st = v.k.st /\ r.k.act = v.k.act /\ r.k.rs = v.k.rs
    BY <1>v, <1>7, MigrationCards
  <2>2. Sound(r) /\ (Held(v) => Held(r))
    BY <1>1, <2>1, SideChange
  <2> QED BY <1>1, <2>1, <2>2 DEF Around, Held
<1>8. CASE r = v
  BY <1>1, <1>8 DEF Held
<1>9. CASE r = f
  <2>0. v.k.st \in Live \cup {"exit", "pend", "none"} /\ v.k.mig \in BOOLEAN
    BY <1>v DEF Worlds, Cards
  <2>1. Around(r, l) /\ r.k.st = v.k.st /\ r.k.act = l.k.act /\ r.k.rs = l.k.rs
    BY <1>6, <1>9, <2>0, AsBeforeFacts
  <2>2. MbdReasons(r) /\ ("fail" \notin kc.env => StopsTrue(r))
    BY <1>1, <1>6, <2>1 DEF Sound, MbdReasons, StopsTrue, Around, ResumeSigs, TermSigs
  <2>3. Sound(r)
    BY <1>0, <1>1, <2>1, <2>2 DEF Sound, Around
  <2> QED BY <1>0, <1>1, <1>6, <2>1, <2>3 DEF Around, Held, ResumeSigs
<1>10. CASE r = d
  <2>3. Around(ClearAct(l), l) /\ ClearAct(l).k.act = "no" /\ ClearAct(l).k.rs = l.k.rs
        /\ ClearAct(l).k.st = l.k.st
    BY <1>6, ClearActFacts
  <2>4. ClearAct(l) \in Worlds
    BY <2>3 DEF Around
  <2> DEFINE c == ClearAct(l)
  <2> HIDE DEF c
  <2>5. /\ Around(r, c) /\ r.k.act = "no" /\ r.k.rs = l.k.rs
        /\ r.k.st = "none" \/ r.k.st = v.k.st
    <3>1. c \in Worlds /\ c.k.act = "no" /\ c.k.rs = l.k.rs /\ c.k.st = l.k.st
      BY <2>3, <2>4 DEF c
    <3>2. CASE r = GivenBack(c)
      BY <3>1, <3>2, MigrationCards
    <3>3. CASE ~(v.k.mig /\ ok) /\ r = Stayed(c)
      <4>1. Around(Stayed(c), c) /\ Stayed(c).k.st = c.k.st /\ Stayed(c).k.act = c.k.act
            /\ Stayed(c).k.rs = c.k.rs
        BY <3>1, MigrationCards
      <4>2. l.k.st = v.k.st
        BY <1>3, <1>6, <3>3
      <4> QED BY <3>1, <3>3, <4>1, <4>2
    <3> QED BY <1>10, <3>2, <3>3 DEF c
  <2>6. MbdReasons(r) /\ ("fail" \notin kc.env => StopsTrue(r))
    BY <1>1, <1>6, <2>3, <2>5 DEF Sound, MbdReasons, StopsTrue, Around, ResumeSigs, TermSigs, c
  <2>7. Sound(r)
    BY <2>5, <2>6 DEF Sound, Around
  <2> QED BY <1>0, <1>1, <1>6, <2>3, <2>5, <2>7 DEF Around, Held, ResumeSigs, Live, c
<1> QED BY <1>2, <1>7, <1>8, <1>9, <1>10

Outcome(w, as) == [w EXCEPT !.k.as = as]
Moved(w) == [w EXCEPT !.k.nr = TRUE]
NoCard(w) == [w EXCEPT !.k.st = "none"]
EndedCard(w) == [w EXCEPT !.k.st = "exit"]

(* Four updates of one field of the card. *)
LEMMA SmallCards ==
  ASSUME NEW w \in Worlds, NEW as \in {"no", "start", "done", "fail"}
  PROVE  /\ Around(Outcome(w, as), w) /\ Outcome(w, as).k.st = w.k.st
         /\ Outcome(w, as).k.act = w.k.act /\ Outcome(w, as).k.rs = w.k.rs
         /\ Around(Moved(w), w) /\ Moved(w).k.st = w.k.st
         /\ Moved(w).k.act = w.k.act /\ Moved(w).k.rs = w.k.rs
         /\ Around(NoCard(w), w) /\ NoCard(w).k.st = "none" /\ NoCard(w).k.act = w.k.act
         /\ Around(EndedCard(w), w) /\ EndedCard(w).k.st = "exit" /\ EndedCard(w).k.act = w.k.act
<1>1. /\ Around(Outcome(w, as), w) /\ Outcome(w, as).k.st = w.k.st
      /\ Outcome(w, as).k.act = w.k.act /\ Outcome(w, as).k.rs = w.k.rs
  BY DEF Outcome, Around, Worlds, Cards
<1>2. /\ Around(Moved(w), w) /\ Moved(w).k.st = w.k.st
      /\ Moved(w).k.act = w.k.act /\ Moved(w).k.rs = w.k.rs
  BY DEF Moved, Around, Worlds, Cards
<1>3. Around(NoCard(w), w) /\ NoCard(w).k.st = "none" /\ NoCard(w).k.act = w.k.act
  BY DEF NoCard, Around, Worlds, Cards
<1>4. Around(EndedCard(w), w) /\ EndedCard(w).k.st = "exit" /\ EndedCard(w).k.act = w.k.act
  BY DEF EndedCard, Around, Worlds, Cards
<1> QED BY <1>1, <1>2, <1>3, <1>4

(* A step of the loop of sbatchd that keeps the invariant and the lock. *)
Keeps(r, w) == InStep(r) /\ (Held(w) => Held(r)) /\ (r.g = <<>> => w.g = <<>>)

(* sigActEnd keeps the invariant and the lock. *)
LEMMA ActionOver ==
  ASSUME NEW w, InStep(w), w.k.act # "no", w.a # "alive", NEW up \in BOOLEAN
  PROVE  Keeps(sigActEnd(w, up), w)
<1> DEFINE as == IF w.a = "ok" THEN "done" ELSE "fail"
           ok == w.a = "ok"
           v == Outcome(w, as)
           c == chkpntEnd(v, ok, up)
           x == CASE v.k.act = "CHKPNT" -> c
                  [] v.k.act \in SuspendSigs \cup {"TERM_RUNLIMIT"} -> suspendActEnd(v, up)
                  [] v.k.act \in ResumeSigs -> resumeActEnd(v, up)
                  [] OTHER -> LogEnd(v, up)
           r == sigActEnd(w, up)
<1>0. w \in Worlds /\ as \in {"no", "start", "done", "fail"} /\ ok \in BOOLEAN
  BY DEF InStep, Sound
<1>1. r = IF x.k.st = "none" THEN x ELSE sbdlog_newstatus(x)
  BY Zenon DEF sigActEnd, Outcome
<1> HIDE DEF as, ok
<1>2. Around(v, w) /\ v.k.st = w.k.st /\ v.k.act = w.k.act /\ v.k.rs = w.k.rs
  BY <1>0, SmallCards
<1>3. InStep(v) /\ (Held(w) => Held(v)) /\ v.a # "alive"
  BY <1>2, SideChange DEF Around
<1> HIDE DEF v
<1>4. Sound(v) /\ v.k.st \in Live /\ v.k.st # "none" /\ v.k.act \in Acts \ {"no"}
  BY <1>2, <1>3 DEF InStep, Sound, Live, Worlds, Cards
<1>5. /\ Sound(x) /\ (Held(v) => Held(x))
      /\ x.k.st = "none" => x.g = v.g /\ v.k.act = "CHKPNT"
  <2>1. CASE v.k.act = "CHKPNT"
    <3>1. Sound(c) /\ c.k.st \in {v.k.st, "none"} /\ (Held(v) => Held(c)) /\ c.g = v.g
      BY <1>0, <1>4, <2>1, CheckpointEnds
    <3> HIDE DEF c
    <3>2. x = c
      BY <2>1 DEF SuspendSigs, ResumeSigs
    <3> QED BY <2>1, <3>1, <3>2
  <2>2. CASE v.k.act \in SuspendSigs \cup {"TERM_RUNLIMIT"}
    <3>1. x = suspendActEnd(v, up)
      BY <2>2 DEF SuspendSigs, ResumeSigs
    <3> HIDE DEF x
    <3> QED BY <1>4, <2>2, <3>1, SuspendEnds
  <2>3. CASE v.k.act \in ResumeSigs
    <3>1. x = resumeActEnd(v, up)
      BY <2>3 DEF SuspendSigs, ResumeSigs
    <3> HIDE DEF x
    <3>2. ~Held(v)
      BY <1>4, <2>3 DEF Held
    <3> QED BY <1>3, <1>4, <2>3, <3>1, <3>2, ResumeEnds
  <2>4. CASE v.k.act \in TermSigs \ {"TERM_RUNLIMIT"}
    <3>1. x = LogEnd(v, up)
      BY <2>4 DEF SuspendSigs, ResumeSigs, TermSigs
    <3> HIDE DEF x
    <3> QED BY <1>3, <1>4, <2>4, <3>1, OtherEnds
  <2> QED BY <1>4, <2>1, <2>2, <2>3, <2>4 DEF Acts
<1> HIDE DEF x
<1>6. CASE x.k.st = "none"
  <2>1. r = x
    BY <1>1, <1>6
  <2>2. v.g # <<>>
    BY <1>3, <1>5, <1>6 DEF InStep, FileTrue, ResumeSigs
  <2>3. FileTrue(x)
    BY <1>5, <1>6, <2>2 DEF FileTrue
  <2> QED BY <1>3, <1>5, <1>6, <2>1, <2>2, <2>3 DEF Keeps, InStep
<1>7. CASE x.k.st # "none"
  BY <1>1, <1>3, <1>5, <1>7, LoggedInStep DEF Keeps
<1> QED BY <1>6, <1>7

(* Steps that keep the invariant compose. *)
LEMMA KeepsTrans ==
  ASSUME NEW w, NEW v, NEW r, Keeps(v, w), Keeps(r, v)
  PROVE  Keeps(r, w)
BY DEF Keeps

(* checkFinish with job_finish keeps the invariant and the lock. *)
LEMMA FinishChecked ==
  ASSUME NEW w, InStep(w), NEW up \in BOOLEAN, NEW forced \in BOOLEAN
  PROVE  Keeps(checkFinishAct(w, up, forced), w)
<1> DEFINE v == IF w.k.st \in {"run", "ususp", "ssusp"}
                  /\ (w.p = "gone" \/ (w.k.force /\ forced)) THEN jobGone(w) ELSE w
           l == status_jobSusp(v, up)
           r == checkFinishAct(w, up, forced)
<1>1. \/ r = v
      \/ v.k.act # "no" /\ v.a # "alive" /\ r = sigActEnd(v, up)
      \/ v.k.st \in {"exit", "pend"} /\ v.k.act = "no" /\ r = Moved(v)
      \/ v.k.st \in {"exit", "pend"} /\ v.k.act = "no" /\ r = NoCard(l)
  BY Zenon DEF checkFinishAct, Moved, NoCard
<1>2. Keeps(v, w)
  <2>1. CASE v = w
    BY <2>1 DEF Keeps
  <2>2. CASE w.k.st \in Live /\ v = jobGone(w)
    BY <2>2, JobGoneInStep DEF Keeps
  <2> QED BY <2>1, <2>2 DEF Live
<1> HIDE DEF v
<1>3. InStep(v) /\ Sound(v) /\ v \in Worlds /\ MbdReasons(v)
  BY <1>2 DEF Keeps, InStep, Sound
<1>4. Keeps(r, v)
  <2>1. CASE r = v
    BY <1>3, <2>1 DEF Keeps
  <2>2. CASE v.k.act # "no" /\ v.a # "alive" /\ r = sigActEnd(v, up)
    BY <1>3, <2>2, ActionOver
  <2>3. CASE r = Moved(v)
    <3>1. Around(r, v) /\ r.k.st = v.k.st /\ r.k.act = v.k.act /\ r.k.rs = v.k.rs
      BY <1>3, <2>3, SmallCards
    <3> QED BY <1>3, <3>1, SideChange DEF Keeps, Around
  <2>4. CASE v.k.st \in {"exit", "pend"} /\ v.k.act = "no" /\ r = NoCard(l)
    <3>1. SameJob(l, v)
      BY <1>3, <2>4, Reported
    <3> HIDE DEF l
    <3>2. Around(r, l) /\ r.k.st = "none" /\ r.k.act = l.k.act
      BY <2>4, <3>1, SmallCards DEF SameJob
    <3>3. MbdReasons(r) /\ StopsTrue(r) /\ r \in Worlds
      BY <2>4, <3>1, <3>2 DEF SameJob, MbdReasons, StopsTrue, Around, ResumeSigs, TermSigs
    <3>4. r.g # <<>>
      BY <1>3, <2>4, <3>1, <3>2 DEF InStep, FileTrue, SameJob, Around
    <3> QED BY <2>4, <3>1, <3>2, <3>3, <3>4 DEF Keeps, InStep, Sound, FileTrue, Held, Live, SameJob
  <2> QED BY <1>1, <2>1, <2>2, <2>3, <2>4
<1> QED BY <1>2, <1>4, KeepsTrans

-----------------------------------------------------------------------------
(* The periodic check of sbatchd. *)
(* What leaves status and action keeps file and card in step. *)
LEMMA CardChange ==
  ASSUME NEW w, NEW r, Around(r, w), r.k.st = w.k.st, r.k.act = w.k.act, InStep(w)
  PROVE  InStep(r)
<1>1. Sound(r)
  BY DEF InStep, Sound, Around, MbdReasons, StopsTrue
<1>2. FileTrue(r)
  BY DEF InStep, FileTrue, Around
<1> QED BY <1>1, <1>2 DEF InStep

(* The result of a call does not matter. *)
LEMMA ResultKeeps ==
  ASSUME NEW w, InStep(w), NEW cc \in {-1, 0}
  PROVE  Keeps(Result(w, cc), w)
<1>1. w \in Worlds
  BY DEF InStep, Sound
<1>2. Around(Result(w, cc), w) /\ Result(w, cc).k = w.k
  BY <1>1, ResultFacts
<1> QED BY <1>2, SideChange DEF Keeps, Around

(* jobResumeAction does nothing to a locked job and keeps the invariant. *)
LEMMA ResumeActionKeeps ==
  ASSUME NEW w, InStep(w), NEW sig \in ResumeSigs, NEW reason, NEW up \in BOOLEAN
  PROVE  Keeps(jobResumeAction(w, sig, reason, up), w)
<1> DEFINE l == jobSigStart(w, sig, FALSE, up, TRUE)
           r == jobResumeAction(w, sig, reason, up)
<1>1. \/ r = Result(w, 0) \/ r = Result(w, -1)
      \/ /\ Lock \notin w.k.rs /\ w.k.act = "no"
         /\ \/ l.cc < 0 /\ r = sbdlog_newstatus(EndedCard(l))
            \/ r = Result(sbdlog_newstatus(l), 0)
  BY Zenon DEF jobResumeAction, Result, EndedCard
<1>2. CASE r = Result(w, 0) \/ r = Result(w, -1)
  BY <1>2, ResultKeeps
<1>3. CASE /\ Lock \notin w.k.rs /\ w.k.act = "no"
           /\ \/ l.cc < 0 /\ r = sbdlog_newstatus(EndedCard(l))
              \/ r = Result(sbdlog_newstatus(l), 0)
  <2>0. sig # "STOP" /\ Sound(w)
    BY DEF ResumeSigs, InStep
  <2>1. Sound(l) /\ (w.k.st \notin Live => l.k.st = w.k.st) /\ (l.cc < 0 => l.k.act = w.k.act)
    <3>1. Sound(l)
      BY <2>0, SigStarts
    <3>2. ASSUME w.k.st \notin Live PROVE l.k.st = w.k.st
      <4>1. l = Result(w, 0)
        BY <3>2 DEF jobSigStart, Result, Live
      <4>2. w \in Worlds
        BY <2>0 DEF Sound
      <4> QED BY <4>1, <4>2, ResultFacts
    <3>3. l.cc < 0 => l.k.act = w.k.act
      BY <2>0, SigStarts
    <3> QED BY <3>1, <3>2, <3>3
  <2> HIDE DEF l
  <2>2. Held(w) => Held(l)
    BY <1>3, <2>1 DEF Held
  <2>3. CASE r = Result(sbdlog_newstatus(l), 0)
    <3>1. Keeps(sbdlog_newstatus(l), w)
      BY <2>1, <2>2, LoggedInStep DEF Keeps
    <3>2. Keeps(r, sbdlog_newstatus(l))
      BY <2>3, <3>1, ResultKeeps DEF Keeps
    <3> QED BY <3>1, <3>2, KeepsTrans
  <2>4. CASE l.cc < 0 /\ r = sbdlog_newstatus(EndedCard(l))
    <3> DEFINE e == EndedCard(l)
    <3>1. l \in Worlds
      BY <2>1 DEF Sound
    <3>2. Around(e, l) /\ e.k.st = "exit" /\ e.k.act = l.k.act
      BY <3>1, SmallCards
    <3> HIDE DEF e
    <3>3. MbdReasons(e) /\ StopsTrue(e) /\ e.k.act = "no"
      BY <1>3, <2>1, <2>4, <3>2 DEF Sound, Around, MbdReasons, StopsTrue, ResumeSigs, TermSigs
    <3>4. Sound(e) /\ Held(e)
      BY <3>2, <3>3 DEF Sound, Around, Held, Live
    <3> QED BY <2>4, <3>4, LoggedInStep DEF Keeps, e
  <2> QED BY <1>3, <2>3, <2>4
<1> QED BY <1>1, <1>2, <1>3

(* A suspension or termination that is logged keeps the invariant and the
   lock. *)
LEMMA LoggedSignalKeeps ==
  ASSUME NEW w, InStep(w), NEW sig \in SuspendSigs \cup TermSigs, NEW up \in BOOLEAN
  PROVE  Keeps(sbdlog_newstatus(jobSigStart(w, sig, FALSE, up, TRUE)), w)
<1> DEFINE l == jobSigStart(w, sig, FALSE, up, TRUE)
<1>1. sig # "STOP" /\ Sound(w) /\ sig \notin ResumeSigs
  BY DEF SuspendSigs, TermSigs, ResumeSigs, InStep
<1>2. Sound(l) /\ (Held(w) => Held(l))
  BY <1>1, SigStarts
<1> HIDE DEF l
<1> QED BY <1>2, LoggedInStep DEF Keeps, l

Reason(w, reason) == [w EXCEPT !.k.ar = {reason}]
Killed(w) == [w EXCEPT !.k.kill = TRUE]
Warned(w) == [w EXCEPT !.k.exp = TRUE]
Told(w) == [w EXCEPT !.k.nr = FALSE]

(* Four more updates of one field of the card. *)
LEMMA MoreCards ==
  ASSUME NEW w \in Worlds, NEW reason \in AllReasons
  PROVE  /\ Around(Reason(w, reason), w) /\ Reason(w, reason).k.st = w.k.st
         /\ Reason(w, reason).k.act = w.k.act /\ Reason(w, reason).k.rs = w.k.rs
         /\ Around(Killed(w), w) /\ Killed(w).k.st = w.k.st
         /\ Killed(w).k.act = w.k.act /\ Killed(w).k.rs = w.k.rs
         /\ Around(Warned(w), w) /\ Warned(w).k.st = w.k.st
         /\ Warned(w).k.act = w.k.act /\ Warned(w).k.rs = w.k.rs
         /\ Around(Told(w), w) /\ Told(w).k.st = w.k.st
         /\ Told(w).k.act = w.k.act /\ Told(w).k.rs = w.k.rs
<1>1. /\ Around(Reason(w, reason), w) /\ Reason(w, reason).k.st = w.k.st
      /\ Reason(w, reason).k.act = w.k.act /\ Reason(w, reason).k.rs = w.k.rs
  BY DEF Reason, Around, Worlds, Cards
<1>2. /\ Around(Killed(w), w) /\ Killed(w).k.st = w.k.st
      /\ Killed(w).k.act = w.k.act /\ Killed(w).k.rs = w.k.rs
  BY DEF Killed, Around, Worlds, Cards
<1>3. /\ Around(Warned(w), w) /\ Warned(w).k.st = w.k.st
      /\ Warned(w).k.act = w.k.act /\ Warned(w).k.rs = w.k.rs
  BY DEF Warned, Around, Worlds, Cards
<1>4. /\ Around(Told(w), w) /\ Told(w).k.st = w.k.st
      /\ Told(w).k.act = w.k.act /\ Told(w).k.rs = w.k.rs
  BY DEF Told, Around, Worlds, Cards
<1> QED BY <1>1, <1>2, <1>3, <1>4

(* jobSuspendAction keeps the invariant and the lock. *)
LEMMA SuspendActionKeeps ==
  ASSUME NEW w, InStep(w), NEW sig \in SuspendSigs, NEW reason \in AllReasons, NEW up \in BOOLEAN
  PROVE  Keeps(jobSuspendAction(w, sig, reason, up), w)
<1> DEFINE v == Reason(w, reason)
           r == jobSuspendAction(w, sig, reason, up)
<1>1. r = v \/ r = sbdlog_newstatus(jobSigStart(v, sig, FALSE, up, TRUE))
  BY Zenon DEF jobSuspendAction, Reason
<1>2. w \in Worlds
  BY DEF InStep, Sound
<1>3. Around(v, w) /\ v.k.st = w.k.st /\ v.k.act = w.k.act /\ v.k.rs = w.k.rs
  BY <1>2, MoreCards
<1> HIDE DEF v
<1>4. Keeps(v, w) /\ InStep(v)
  BY <1>3, SideChange DEF Keeps, Around
<1>5. CASE r = v
  BY <1>4, <1>5
<1>6. CASE r = sbdlog_newstatus(jobSigStart(v, sig, FALSE, up, TRUE))
  BY <1>4, <1>6, LoggedSignalKeeps, KeepsTrans
<1> QED BY <1>1, <1>5, <1>6

(* The check of the run limit keeps the invariant and the lock
   (job_checking). *)
LEMMA RunLimitKeeps ==
  ASSUME NEW w, InStep(w), NEW up \in BOOLEAN
  PROVE  Keeps(RunLimit(w, up), w)
<1> DEFINE t == sbdlog_newstatus(jobSigStart(w, "TERM_RUNLIMIT", FALSE, up, TRUE))
           r == RunLimit(w, up)
<1>1. r = w \/ r = t \/ r = Killed(t) \/ r = Warned(w)
  BY Zenon DEF RunLimit, Killed, Warned
<1>2. "TERM_RUNLIMIT" \in SuspendSigs \cup TermSigs /\ "load" \in AllReasons
  BY DEF TermSigs, AllReasons
<1>3. Keeps(t, w)
  BY <1>2, LoggedSignalKeeps
<1> HIDE DEF t
<1>4. t \in Worlds /\ w \in Worlds /\ Keeps(w, w)
  BY <1>3 DEF Keeps, InStep, Sound
<1>5. CASE r = Killed(t)
  <2>1. Around(r, t) /\ r.k.st = t.k.st /\ r.k.act = t.k.act /\ r.k.rs = t.k.rs
    BY <1>2, <1>4, <1>5, MoreCards
  <2>2. Keeps(r, t)
    BY <1>3, <2>1, SideChange DEF Keeps, Around
  <2> QED BY <1>3, <2>2, KeepsTrans
<1>6. CASE r = Warned(w)
  <2>1. Around(r, w) /\ r.k.st = w.k.st /\ r.k.act = w.k.act /\ r.k.rs = w.k.rs
    BY <1>2, <1>4, <1>6, MoreCards
  <2> QED BY <2>1, SideChange DEF Keeps, Around
<1> QED BY <1>1, <1>3, <1>4, <1>5, <1>6

(* The check of run limit and window keeps the invariant and the lock
   (job_checking). *)
LEMMA CheckKeeps ==
  ASSUME NEW w, InStep(w), NEW up \in BOOLEAN
  PROVE  Keeps(CheckJob(w, up), w)
<1>1. \/ CheckJob(w, up) = w \/ CheckJob(w, up) = RunLimit(w, up)
      \/ CheckJob(w, up) = jobSuspendAction(w, "SUSP_WINDOW", "window", up)
      \/ CheckJob(w, up) = jobResumeAction(w, "RESUME_WINDOW", "window", up)
  BY Zenon DEF CheckJob
<1>2. /\ "SUSP_WINDOW" \in SuspendSigs /\ "RESUME_WINDOW" \in ResumeSigs
      /\ "window" \in AllReasons /\ Keeps(w, w)
  BY DEF SuspendSigs, ResumeSigs, AllReasons, Keeps
<1> QED BY <1>1, <1>2, RunLimitKeeps, SuspendActionKeeps, ResumeActionKeeps

(* So does the check of the load: tryResume passes by a locked job
   (tryResume, tryStop). *)
LEMMA LoadKeeps ==
  ASSUME NEW w, InStep(w), NEW up \in BOOLEAN
  PROVE  Keeps(tryResume(w, up), w) /\ Keeps(tryStop(w, up), w)
<1>1. \/ tryResume(w, up) = w
      \/ w.k.st = "ssusp" /\ Lock \notin w.k.rs /\ tryResume(w, up) = ReasonCard(w, {"load"})
      \/ tryResume(w, up) = jobResumeAction(w, "RESUME_LOAD", "load", up)
  BY DEF tryResume, ReasonCard
<1>2. tryStop(w, up) = w \/ tryStop(w, up) = jobSuspendAction(w, "SUSP_LOAD", "load", up)
  BY DEF tryStop
<1>3. /\ "SUSP_LOAD" \in SuspendSigs /\ "RESUME_LOAD" \in ResumeSigs
      /\ "load" \in AllReasons /\ Keeps(w, w) /\ w \in Worlds
  BY DEF SuspendSigs, ResumeSigs, AllReasons, Keeps, InStep, Sound
<1>4. CASE w.k.st = "ssusp" /\ Lock \notin w.k.rs /\ tryResume(w, up) = ReasonCard(w, {"load"})
  <2> DEFINE rs == {"load"}
             r == ReasonCard(w, rs)
  <2>1. rs \in SUBSET AllReasons
    BY <1>3
  <2> HIDE DEF rs
  <2>2. Around(r, w) /\ r.k.st = w.k.st /\ r.k.act = w.k.act
    BY <1>3, <2>1, ReasonCardFacts
  <2>3. InStep(r) /\ r.g = w.g
    BY <2>2, CardChange DEF Around
  <2>4. ~Held(w)
    BY <1>4 DEF Held, Live
  <2>5. Keeps(r, w)
    BY <2>3, <2>4 DEF Keeps
  <2>6. Keeps(tryResume(w, up), w)
    BY <1>4, <2>5 DEF rs
  <2> QED BY <1>2, <1>3, <2>6, SuspendActionKeeps
<1> QED BY <1>1, <1>2, <1>3, <1>4, SuspendActionKeeps, ResumeActionKeeps

(* So does the start of a migration (tryChkpntMig). *)
LEMMA MigrationKeeps ==
  ASSUME NEW w, InStep(w), NEW up \in BOOLEAN
  PROVE  Keeps(tryChkpntMig(w, up), w)
<1> DEFINE l == Checkpoint(w, TRUE, up, TRUE)
<1>1. \/ tryChkpntMig(w, up) = w
      \/ w.k.st = "ssusp" /\ w.k.act = "no" /\ tryChkpntMig(w, up) = sbdlog_newstatus(l)
  BY DEF tryChkpntMig
<1>2. CASE w.k.st = "ssusp" /\ w.k.act = "no" /\ tryChkpntMig(w, up) = sbdlog_newstatus(l)
  <2>1. Sound(w) /\ w.k.st \in Live
    BY <1>2 DEF InStep, Live
  <2>2. Acted(l, w) /\ l.k.st = w.k.st /\ l.k.act = "CHKPNT" /\ w.k.rs \subseteq l.k.rs
    BY <1>2, <2>1, CheckpointActs
  <2> HIDE DEF l
  <2>3. Sound(l) /\ (Held(w) => Held(l))
    BY <2>2 DEF Acted, Held, ResumeSigs
  <2> QED BY <1>2, <2>3, LoggedInStep DEF Keeps
<1> QED BY <1>1, <1>2 DEF Keeps

(* So does the report at the end of the loop (status_report). *)
LEMMA ReportKeeps ==
  ASSUME NEW w, InStep(w), NEW up \in BOOLEAN
  PROVE  Keeps(status_report(w, up), w)
<1> DEFINE l == status_jobSusp(w, up)
<1>1. \/ status_report(w, up) = w
      \/ w.k.st \in Live /\ (status_report(w, up) = l \/ status_report(w, up) = Told(l))
  BY Zenon DEF status_report, Told, Live
<1>2. CASE w.k.st \in Live /\ (status_report(w, up) = l \/ status_report(w, up) = Told(l))
  <2>0. w \in Worlds /\ MbdReasons(w) /\ w.k.st # "none" /\ "load" \in AllReasons
    BY <1>2 DEF InStep, Sound, Live, AllReasons
  <2>1. SameJob(l, w)
    BY <2>0, Reported
  <2> HIDE DEF l
  <2>2. Sound(l)
    BY <2>1 DEF InStep, Sound, SameJob, StopsTrue
  <2>3. FileTrue(l)
    BY <2>1 DEF InStep, FileTrue, SameJob
  <2>4. Keeps(l, w) /\ InStep(l) /\ l \in Worlds
    BY <2>1, <2>2, <2>3 DEF InStep, Keeps, Held, SameJob
  <2>5. Around(Told(l), l) /\ Told(l).k.st = l.k.st /\ Told(l).k.act = l.k.act
        /\ Told(l).k.rs = l.k.rs
    BY <2>0, <2>4, MoreCards
  <2>6. Keeps(Told(l), l)
    BY <2>4, <2>5, SideChange DEF Keeps, Around
  <2> QED BY <1>2, <2>4, <2>6, KeepsTrans
<1> QED BY <1>1, <1>2 DEF Keeps

-----------------------------------------------------------------------------
(* The requests and the replies under way. *)
Requests == [sig : Asked, rs : SUBSET AllReasons]
Replies ==
  [sig : Asked, code : {"OK", "RETRY", "NO_JOB", "LOST"},
   st : Live \cup {"exit", "pend", "none"}, act : BOOLEAN]
Nets == [req : Seq(Requests), rep : Seq(Replies)]
(* No answer but that of a broken connection precedes the status file. *)
NetTrue(n, g) == n \in Nets /\ (g = <<>> => \A i \in DOMAIN n.rep : n.rep[i].code = "LOST")

(* The inductive invariant, and the step that LockHolds is about. *)
StopInv == InStep(kw) /\ NetTrue(knet, kw.g)
LockStep ==
  (Lock \in kw.k.rs /\ IsSusp(kw.k.st) /\ kw'.k.st = "run")
     => (knet'.req # knet.req \/ kw.k.act \in ResumeSigs)

(* In a step the configuration stays, so the invariant of the next world is
   the next invariant. *)
LEMMA InStepNext ==
  ASSUME kc' = kc, InStep(kw')
  PROVE  InStep(kw)'
BY DEF InStep, Sound, FileTrue, MbdReasons, StopsTrue, Worlds, Cards, Records

(* What mbatchd changes in its record keeps the invariant, if reasons come
   only with a suspended status and, before the file is written, the status
   stays. *)
LEMMA RecordChange ==
  ASSUME NEW w, InStep(w), NEW m \in Records, ~IsSusp(m.st) => m.rs = {},
         w.g = <<>> => m.st = w.m.st
  PROVE  LET r == [w EXCEPT !.m = m] IN InStep(r) /\ r.k = w.k /\ r.g = w.g
<1> DEFINE r == [w EXCEPT !.m = m]
<1>0. w \in Worlds
  BY DEF InStep, Sound
<1>1. r \in Worlds /\ r.k = w.k /\ r.g = w.g /\ r.p = w.p /\ r.a = w.a /\ r.m = m
  BY <1>0 DEF Worlds
<1> HIDE DEF r
<1>2. Sound(r)
  BY <1>1 DEF InStep, Sound, MbdReasons, StopsTrue
<1>3. FileTrue(r)
  BY <1>1 DEF InStep, FileTrue
<1> QED BY <1>1, <1>2, <1>3 DEF InStep, r

(* What mbatchd decides about a resume are reasons and a signal
   (shouldResume). *)
LEMMA ResumeReasons ==
  ASSUME NEW m \in Records
  PROVE  shouldResume(m).rs \in SUBSET AllReasons /\ shouldResume(m).sig \in Asked
<1> DEFINE open == Without(m.rs, "window")
           low == shouldResumeByLoad(open)
           free == shouldResumeByRes(low)
<1>0. m.rs \in SUBSET AllReasons /\ {"load", "window", "reserve", Lock} \subseteq AllReasons
  BY DEF Records, AllReasons
<1>1. open \in SUBSET AllReasons
  BY <1>0 DEF Without
<1> HIDE DEF open
<1>2. low \in SUBSET AllReasons
  BY <1>1 DEF shouldResumeByLoad, Without
<1> HIDE DEF low
<1>3. free \in SUBSET AllReasons
  BY <1>2 DEF shouldResumeByRes, Without
<1> HIDE DEF free
<1>4. {"no", "null", "RESUME_WINDOW", "RESUME_LOAD", "RESUME_OTHER"} \subseteq Asked
  BY DEF Asked, ResumeSigs
<1> DEFINE sig == IF "window" \in m.rs THEN "RESUME_WINDOW"
                  ELSE IF "load" \in open THEN "RESUME_LOAD"
                  ELSE IF "reserve" \in low THEN "RESUME_OTHER"
                  ELSE "null"
<1>5. sig \in Asked
  BY <1>4
<1>6. shouldResume(m) = IF "limit" \in m.rs THEN [rs |-> m.rs, sig |-> "no"]
       ELSE IF ~kenv.win THEN [rs |-> m.rs \cup {"window"}, sig |-> "no"]
       ELSE IF ~checkResumeByLoad THEN [rs |-> {"load", Lock}, sig |-> "no"]
       ELSE IF kc.res /\ ~kenv.free THEN [rs |-> low \cup {"reserve"}, sig |-> "no"]
       ELSE [rs |-> IF kc.res THEN free ELSE low, sig |-> sig]
  BY Zenon DEF shouldResume, open, low, free
<1> HIDE DEF sig
<1> QED BY <1>0, <1>2, <1>3, <1>4, <1>5, <1>6

(* Sending a request changes the reasons and the pending signal of mbatchd
   only (sigStartedJob). *)
LEMMA RequestSent ==
  ASSUME StopInv, NEW m \in Records, m.st = kw.m.st, ~IsSusp(m.st) => m.rs = {},
         NEW sig \in Asked, NEW sent, sigStartedJob(m, sig, sent), kc' = kc
  PROVE  StopInv' /\ kw'.k = kw.k
<1> DEFINE rs == IF sig = "RESUME_USER" /\ Lock \in m.rs /\ IsSusp(m.st)
                 THEN shouldResume(m).rs ELSE m.rs
           pend == IF sent THEN "no" ELSE sig
           n == [m EXCEPT !.rs = rs, !.pend = pend]
           q == [sig |-> sig, rs |-> rs]
<1>0. InStep(kw) /\ knet \in Nets /\ NetTrue(knet, kw.g)
  BY DEF StopInv, NetTrue
<1>1. rs \in SUBSET AllReasons /\ (~IsSusp(m.st) => rs = {})
  BY ResumeReasons DEF Records
<1>2. /\ kw' = [kw EXCEPT !.m = n]
      /\ knet' = [knet EXCEPT !.req = Append(@, q)] \/ knet' = knet
  BY DEF sigStartedJob
<1>3. pend \in Asked
  BY DEF Asked
<1> HIDE DEF rs, pend
<1>4. n \in Records /\ n.st = m.st /\ n.rs = rs
  BY <1>1, <1>3 DEF Records
<1> HIDE DEF n
<1>5. InStep(kw') /\ kw'.k = kw.k /\ kw'.g = kw.g
  BY <1>0, <1>1, <1>2, <1>4, RecordChange
<1>6. q \in Requests
  BY <1>1 DEF Requests
<1> HIDE DEF q
<1>7. knet' \in Nets /\ knet'.rep = knet.rep
  <2>1. CASE knet' = knet
    BY <1>0, <2>1
  <2>2. CASE knet' = [knet EXCEPT !.req = Append(@, q)]
    <3>1. knet.req \in Seq(Requests)
      BY <1>0 DEF Nets
    <3>2. Append(knet.req, q) \in Seq(Requests)
      BY <1>6, <3>1
    <3> QED BY <1>0, <2>2, <3>2 DEF Nets
  <2> QED BY <1>2, <2>1, <2>2
<1>8. NetTrue(knet, kw.g)'
  BY <1>0, <1>5, <1>7 DEF NetTrue
<1> QED BY <1>5, <1>8, InStepNext DEF StopInv

(* A signal of a user leaves the card (signalJob). *)
LEMMA SignalStep ==
  ASSUME StopInv, NEW sig \in Signals, NEW sent, signalJob(sig, sent)
  PROVE  StopInv' /\ kw'.k = kw.k
<1>1. sigStartedJob(kw.m, sig, sent) /\ kc' = kc
  BY DEF signalJob
<1>2. kw.m \in Records /\ (~IsSusp(kw.m.st) => kw.m.rs = {}) /\ sig \in Asked
  BY DEF StopInv, InStep, Sound, MbdReasons, Worlds, Asked
<1> QED BY <1>1, <1>2, RequestSent

(* Sending a pending signal again leaves the card (resigJobs1). *)
LEMMA ResignalStep ==
  ASSUME StopInv, NEW sent, resigJobs1(sent)
  PROVE  StopInv' /\ kw'.k = kw.k
<1>0. InStep(kw) /\ kw \in Worlds /\ NetTrue(knet, kw.g)
  BY DEF StopInv, InStep, Sound
<1>1. kw.m \in Records /\ (~IsSusp(kw.m.st) => kw.m.rs = {}) /\ kw.m.pend \in Asked
  BY DEF StopInv, InStep, Sound, MbdReasons, Worlds, Records
<1>2. CASE sigStartedJob(kw.m, kw.m.pend, sent)
  BY <1>1, <1>2, RequestSent DEF resigJobs1
<1>3. CASE kw' = [kw EXCEPT !.m.pend = "no"] /\ knet' = knet
  <2> DEFINE n == [kw.m EXCEPT !.pend = "no"]
  <2>1. n \in Records /\ n.st = kw.m.st /\ n.rs = kw.m.rs
    BY <1>1 DEF Records, Asked
  <2>2. kw' = [kw EXCEPT !.m = n]
    BY <1>0, <1>3 DEF Worlds
  <2> HIDE DEF n
  <2>3. InStep(kw') /\ kw'.k = kw.k /\ kw'.g = kw.g
    BY <1>0, <1>1, <2>1, <2>2, RecordChange
  <2>4. NetTrue(knet, kw.g)'
    BY <1>0, <1>3, <2>3 DEF NetTrue
  <2> QED BY <2>3, <2>4, InStepNext DEF StopInv, resigJobs1
<1> QED BY <1>2, <1>3 DEF resigJobs1

(* The resume pass of mbatchd leaves the card (tryResume of mbatchd). *)
LEMMA MbdResumeStep ==
  ASSUME StopInv, NEW sent, mbdTryResume(sent)
  PROVE  StopInv' /\ kw'.k = kw.k
<1> DEFINE r == shouldResume(kw.m)
           rs == r.rs
           sig == r.sig
           n == [kw.m EXCEPT !.rs = rs, !.sent = TRUE]
           o == [kw.m EXCEPT !.rs = rs]
<1>0. InStep(kw) /\ kw \in Worlds /\ NetTrue(knet, kw.g) /\ kw.m \in Records
  BY DEF StopInv, InStep, Sound, Worlds
<1>1. rs \in SUBSET AllReasons /\ sig \in Asked
  BY <1>0, ResumeReasons
<1>2. /\ IsSusp(kw.m.st) /\ kc' = kc
      /\ \/ kw' = [kw EXCEPT !.m.rs = rs] /\ knet' = knet
         \/ sigStartedJob(n, sig, sent)
  BY DEF mbdTryResume, IsSusp
<1> HIDE DEF rs, sig
<1>3. n \in Records /\ n.st = kw.m.st /\ o \in Records /\ o.st = kw.m.st
  BY <1>0, <1>1 DEF Records
<1>4. CASE sigStartedJob(n, sig, sent)
  BY <1>1, <1>2, <1>3, <1>4, RequestSent
<1>5. CASE kw' = [kw EXCEPT !.m.rs = rs] /\ knet' = knet
  <2>1. kw' = [kw EXCEPT !.m = o]
    BY <1>0, <1>5 DEF Worlds
  <2> HIDE DEF o
  <2>3. InStep(kw') /\ kw'.k = kw.k /\ kw'.g = kw.g
    BY <1>0, <1>2, <1>3, <2>1, RecordChange
  <2>4. NetTrue(knet, kw.g)'
    BY <1>0, <1>5, <2>3 DEF NetTrue
  <2> QED BY <1>2, <2>3, <2>4, InStepNext DEF StopInv
<1> QED BY <1>2, <1>4, <1>5

(* jobStatusSignal keeps reasons only with a suspended status. *)
LEMMA AnswerTaken ==
  ASSUME NEW m \in Records, ~IsSusp(m.st) => m.rs = {}, NEW a \in Replies
  PROVE  LET r == jobStatusSignal(m, a) IN r \in Records /\ (~IsSusp(r.st) => r.rs = {})
<1> DEFINE b == [m EXCEPT !.act = a.act, !.pend = "no"]
           left == m.rs \ {"user"}
           rs1 == m.rs \cup {"user", Lock}
           rs2 == IF left \subseteq {Lock} THEN left \cup {"resume"} ELSE left
           stopped == [b EXCEPT !.st = "ususp", !.rs = rs1]
           r == jobStatusSignal(m, a)
<1>0. a.act \in BOOLEAN
  BY DEF Replies
<1>1. b \in Records /\ b.st = m.st /\ b.rs = m.rs
  BY <1>0 DEF Records, Asked
<1>2. rs1 \in SUBSET AllReasons /\ rs2 \in SUBSET AllReasons
  BY DEF Records, AllReasons
<1>3. \/ r = [b EXCEPT !.st = "ususp", !.rs = @ \cup {"user", Lock}]
      \/ r = [b EXCEPT !.st = "ssusp", !.rs = rs2]
      \/ r = b
  BY Zenon DEF jobStatusSignal
<1> HIDE DEF b, rs2
<1>4. CASE r = [b EXCEPT !.st = "ususp", !.rs = @ \cup {"user", Lock}]
  <2>1. r = stopped
    BY <1>1, <1>4 DEF Records
  <2> HIDE DEF rs1
  <2>2. stopped \in Records /\ stopped.st = "ususp"
    BY <1>1, <1>2 DEF Records, Live
  <2> QED BY <2>1, <2>2 DEF IsSusp
<1>5. CASE r = [b EXCEPT !.st = "ssusp", !.rs = rs2]
  BY <1>1, <1>2, <1>5 DEF Records, IsSusp, Live
<1>6. CASE r = b
  BY <1>1, <1>6
<1> QED BY <1>3, <1>4, <1>5, <1>6

(* A reply, an error or a broken connection leaves the card
   (doSignalJobReply). *)
LEMMA ReplyStep ==
  ASSUME StopInv, NEW lost, doSignalJobReply(lost)
  PROVE  StopInv' /\ kw'.k = kw.k
<1> DEFINE a == Head(knet.rep)
           broken == lost \/ a.code = "LOST"
           p == IF kw.m.pend = "no" \/ (~broken /\ UserSig(a.sig)) THEN a.sig ELSE kw.m.pend
           n1 == [kw.m EXCEPT !.pend = p]
           n2 == [kw.m EXCEPT !.st = "exit", !.rs = {}]
           n3 == jobStatusSignal(kw.m, a)
           n == IF ~Started(kw.m) THEN kw.m
                ELSE IF broken \/ a.code = "RETRY" THEN n1
                ELSE IF a.code = "NO_JOB" THEN n2
                ELSE n3
<1>0. /\ InStep(kw) /\ kw \in Worlds /\ NetTrue(knet, kw.g) /\ kw.m \in Records
      /\ knet \in Nets /\ knet.rep \in Seq(Replies) /\ (~IsSusp(kw.m.st) => kw.m.rs = {})
  BY DEF StopInv, InStep, Sound, Worlds, MbdReasons, NetTrue, Nets
<1>k. kc' = kc
  BY DEF doSignalJobReply
<1>1. kw' = [kw EXCEPT !.m = n]
  BY Zenon DEF doSignalJobReply
<1>2. knet.rep # <<>> /\ knet' = [knet EXCEPT !.rep = Tail(@)]
  BY DEF doSignalJobReply
<1>3. a \in Replies /\ (kw.g = <<>> => a.code = "LOST")
  BY <1>0, <1>2 DEF NetTrue
<1> HIDE DEF a
<1>4. p \in Asked
  BY <1>0, <1>3 DEF Replies, Records
<1> HIDE DEF p
<1>5. n1 \in Records /\ n1.st = kw.m.st /\ n1.rs = kw.m.rs
  BY <1>0, <1>4 DEF Records
<1>6. n2 \in Records /\ n2.st = "exit" /\ n2.rs = {}
  BY <1>0 DEF Records
<1>7. n3 \in Records /\ (~IsSusp(n3.st) => n3.rs = {})
  BY <1>0, <1>3, AnswerTaken
<1> HIDE DEF n1, n2, n3
<1>8. n \in Records /\ (~IsSusp(n.st) => n.rs = {}) /\ (kw.g = <<>> => n.st = kw.m.st)
  BY <1>0, <1>3, <1>5, <1>6, <1>7
<1> HIDE DEF n
<1>9. InStep(kw') /\ kw'.k = kw.k /\ kw'.g = kw.g
  BY <1>0, <1>1, <1>8, RecordChange
<1>10. knet' \in Nets
  <2>1. Tail(knet.rep) \in Seq(Replies)
    BY <1>0, <1>2
  <2> QED BY <1>0, <1>2, <2>1 DEF Nets
<1>11. ASSUME kw.g = <<>>, NEW i \in DOMAIN knet'.rep PROVE knet'.rep[i].code = "LOST"
  <2>1. knet'.rep = Tail(knet.rep)
    BY <1>0, <1>2 DEF Nets
  <2>2. i + 1 \in DOMAIN knet.rep /\ Tail(knet.rep)[i] = knet.rep[i + 1]
    BY <1>0, <1>2, <1>11, <2>1
  <2> QED BY <1>0, <1>11, <2>1, <2>2 DEF NetTrue
<1>12. NetTrue(knet, kw.g)'
  BY <1>9, <1>10, <1>11 DEF NetTrue
<1> QED BY <1>k, <1>9, <1>12, InStepNext DEF StopInv

-----------------------------------------------------------------------------
(* A request reaches sbatchd. *)
LockedCard(w, rs) == [w EXCEPT !.k.rs = rs, !.k.ar = rs]
ArCard(w, ar) == [w EXCEPT !.k.ar = ar]
RestCard(w) == [w EXCEPT !.cc = 0, !.k.as = "no"]

(* What a request with the lock replaces on the card, and the card at rest. *)
LEMMA RequestCards ==
  ASSUME NEW w \in Worlds, NEW rs \in SUBSET AllReasons
  PROVE  /\ Around(LockedCard(w, rs), w) /\ LockedCard(w, rs).k.st = w.k.st
         /\ LockedCard(w, rs).k.act = w.k.act
         /\ Around(ArCard(w, rs), w) /\ ArCard(w, rs).k.st = w.k.st
         /\ ArCard(w, rs).k.act = w.k.act /\ ArCard(w, rs).k.rs = w.k.rs
         /\ Around(RestCard(w), w) /\ RestCard(w).k.st = w.k.st
         /\ RestCard(w).k.act = w.k.act /\ RestCard(w).k.rs = w.k.rs
<1>1. /\ Around(LockedCard(w, rs), w) /\ LockedCard(w, rs).k.st = w.k.st
      /\ LockedCard(w, rs).k.act = w.k.act
  BY DEF LockedCard, Around, Worlds, Cards
<1>2. /\ Around(ArCard(w, rs), w) /\ ArCard(w, rs).k.st = w.k.st
      /\ ArCard(w, rs).k.act = w.k.act /\ ArCard(w, rs).k.rs = w.k.rs
  BY DEF ArCard, Around, Worlds, Cards
<1>3. /\ Around(RestCard(w), w) /\ RestCard(w).k.st = w.k.st
      /\ RestCard(w).k.act = w.k.act /\ RestCard(w).k.rs = w.k.rs
  BY DEF RestCard, Around, Worlds, Cards
<1> QED BY <1>1, <1>2, <1>3

(* do_sigjob logs the card it leaves, whether the signal was taken or
   refused. *)
LEMMA RequestTaken ==
  ASSUME StopInv, do_sigjob
  PROVE  StopInv' /\ knet'.req # knet.req
<1> DEFINE q == Head(knet.req)
           locked == Lock \in q.rs
           v == IF locked THEN LockedCard(kw, q.rs) ELSE kw
           live == v.k.st \in {"run", "ususp", "ssusp"}
           r == jobSigStart(v, q.sig, FALSE, FALSE, FALSE)
           ok == ~live \/ r.cc = 0
           ar == IF locked THEN kw.k.ar ELSE sbdlog_newstatus(r).k.ar
           e == IF ~live THEN v
                ELSE IF ok THEN IF v.k.act # "no" \/ v.k.mig
                                THEN sbdlog_newstatus(StayCard(r))
                                ELSE sbdlog_newstatus(r)
                ELSE [sbdlog_newstatus(r) EXCEPT !.k.ar = IF locked THEN kw.k.ar ELSE @]
           code == IF kw.k.st = "none" THEN "NO_JOB"
                   ELSE IF v.k.st = "pend" THEN "RETRY"
                   ELSE IF ok THEN "OK"
                   ELSE "RETRY"
           act == code = "OK" /\ e.k.act # "no"
           a == [sig |-> q.sig, code |-> code, st |-> e.k.st, act |-> act]
<1>0. InStep(kw) /\ kw \in Worlds /\ NetTrue(knet, kw.g) /\ knet \in Nets
  BY DEF StopInv, InStep, Sound, NetTrue
<1>1. /\ knet.req # <<>> /\ kc' = kc
      /\ kw' = IF kw.k.st = "none" THEN kw ELSE RestCard(e)
      /\ knet' = [req |-> Tail(knet.req), rep |-> Append(knet.rep, a)]
  BY Zenon DEF do_sigjob, RestCard, StayCard, LockedCard
<1>2. q \in Requests /\ knet.req \in Seq(Requests) /\ knet.req # <<>>
  <2>1. knet.req # <<>>
    BY <1>1
  <2>2. knet.req \in Seq(Requests)
    BY <1>0 DEF Nets
  <2> QED BY <2>1, <2>2
<1>3. q.sig \in Asked /\ q.sig # "STOP" /\ q.rs \in SUBSET AllReasons
  BY <1>2 DEF Requests, Asked, Signals, ResumeSigs
<1>4. act \in BOOLEAN /\ code \in {"OK", "RETRY", "NO_JOB", "LOST"}
  OBVIOUS
<1> HIDE DEF q, act, code
<1>5. InStep(v) /\ v.g = kw.g /\ v.k.st = kw.k.st
  <2>1. CASE v = kw
    BY <1>0, <2>1
  <2>2. CASE v = LockedCard(kw, q.rs)
    <3>1. Around(v, kw) /\ v.k.st = kw.k.st /\ v.k.act = kw.k.act
      BY <1>0, <1>3, <2>2, RequestCards
    <3> QED BY <1>0, <3>1, CardChange DEF Around
  <2> QED BY <2>1, <2>2
<1>r. Sound(r)
  <2>1. Sound(v)
    BY <1>5 DEF InStep
  <2> HIDE DEF v
  <2> QED BY <1>3, <2>1, SigStarts
<1> HIDE DEF r
<1>6. /\ InStep(e)
      /\ v.k.st \in Live => e.g # <<>>
      /\ v.k.st \notin Live => e = v
  <2> DEFINE l == sbdlog_newstatus(r)
             u == sbdlog_newstatus(StayCard(r))
  <2>0. r \in Worlds
    BY <1>r DEF Sound
  <2>1. InStep(l) /\ l.g # <<>>
    BY <1>r, LoggedInStep
  <2>2. InStep(u) /\ u.g # <<>>
    <3>1. Around(StayCard(r), r) /\ StayCard(r).k.st = r.k.st /\ StayCard(r).k.act = r.k.act
          /\ StayCard(r).k.rs = r.k.rs
      BY <2>0, MigrationCards
    <3>2. Sound(StayCard(r))
      BY <1>r, <3>1, SideChange
    <3> QED BY <3>2, LoggedInStep
  <2>3. /\ v.k.st \notin Live => e = v
        /\ v.k.st \in Live => e = l \/ e = u \/ e = [l EXCEPT !.k.ar = IF locked THEN kw.k.ar ELSE @]
    <3> HIDE DEF v, ok
    <3> QED BY Zenon DEF Live
  <2> HIDE DEF l, u
  <2>4. ASSUME e = [l EXCEPT !.k.ar = IF locked THEN kw.k.ar ELSE @]
        PROVE  InStep(e) /\ e.g # <<>>
    <3> DEFINE x == IF locked THEN kw.k.ar ELSE l.k.ar
    <3>1. x \in SUBSET AllReasons /\ l \in Worlds
      BY <1>0, <2>1 DEF InStep, Sound, Worlds, Cards
    <3>2. e = [l EXCEPT !.k.ar = x]
      BY <2>4, <3>1 DEF Worlds, Cards
    <3> HIDE DEF x, e
    <3>3. e = ArCard(l, x)
      BY <3>2 DEF ArCard
    <3>4. Around(e, l) /\ e.k.st = l.k.st /\ e.k.act = l.k.act /\ e.k.rs = l.k.rs
      BY <3>1, <3>3, RequestCards
    <3> QED BY <2>1, <3>4, SideChange DEF Around
  <2> QED BY <1>5, <2>1, <2>2, <2>3, <2>4
<1> HIDE DEF e, v, live
<1>7. /\ InStep(kw') /\ kw'.g # <<>>
  <2>1. CASE kw.k.st = "none"
    BY <1>0, <1>1, <2>1 DEF InStep, FileTrue
  <2>2. CASE kw.k.st # "none"
    <3>0. e \in Worlds /\ kw' = RestCard(e) /\ {} \in SUBSET AllReasons
      BY <1>1, <1>6, <2>2 DEF InStep, Sound
    <3>1. Around(kw', e) /\ kw'.k.st = e.k.st /\ kw'.k.act = e.k.act /\ kw'.k.rs = e.k.rs
      BY <3>0, RequestCards
    <3>2. InStep(kw')
      BY <1>6, <3>1, SideChange
    <3>3. e.g # <<>>
      BY <1>0, <1>5, <1>6 DEF InStep, FileTrue, Live
    <3> QED BY <3>1, <3>2, <3>3 DEF Around
  <2> QED BY <2>1, <2>2
<1>8. a \in Replies
  <2>1. e.k.st \in Live \cup {"exit", "pend", "none"}
    BY <1>6 DEF InStep, Sound, Worlds, Cards
  <2> QED BY <1>3, <1>4, <2>1 DEF Replies
<1> HIDE DEF a
<1>9. knet' \in Nets /\ knet'.req # knet.req
  <2>1. Tail(knet.req) \in Seq(Requests) /\ Tail(knet.req) # knet.req
    <3> DEFINE t == Tail(knet.req)
    <3>1. Len(t) = Len(knet.req) - 1 /\ t \in Seq(Requests)
      BY <1>2
    <3> HIDE DEF t
    <3>2. Len(knet.req) \in Nat
      BY <1>2
    <3>3. t # knet.req
      BY <3>1, <3>2
    <3> QED BY <3>1, <3>3 DEF t
  <2>2. knet.rep \in Seq(Replies)
    BY <1>0 DEF Nets
  <2>3. Append(knet.rep, a) \in Seq(Replies)
    BY <1>8, <2>2
  <2> QED BY <1>1, <2>1, <2>3 DEF Nets
<1>10. NetTrue(knet, kw.g)'
  BY <1>7, <1>9 DEF NetTrue
<1> QED BY <1>1, <1>7, <1>9, <1>10, InStepNext DEF StopInv

(* One pass of the loop of sbatchd keeps the invariant and resumes no locked
   job (job_checking, status_report). *)
LEMMA LoopStep ==
  ASSUME StopInv, NEW up \in BOOLEAN, NEW forced \in BOOLEAN, NEW look \in BOOLEAN,
         NEW mig \in BOOLEAN, SbdLoop(up, forced, look, mig)
  PROVE  StopInv' /\ LockStep
<1> DEFINE f == checkFinishAct(kw, up, forced)
           c == CheckJob(f, up)
           r == IF look THEN tryResume(c, up) ELSE c
           t == IF look THEN tryStop(r, up) ELSE r
           e == IF mig THEN tryChkpntMig(t, up) ELSE t
           z == status_report(e, up)
<1>0. InStep(kw) /\ NetTrue(knet, kw.g)
  BY DEF StopInv
<1>1. kw' = [z EXCEPT !.cc = 0] /\ knet' = knet /\ kc' = kc
  BY DEF SbdLoop
<1>2. Keeps(f, kw)
  BY <1>0, FinishChecked
<1> HIDE DEF f
<1>3. Keeps(c, kw)
  BY <1>2, CheckKeeps, KeepsTrans DEF Keeps
<1> HIDE DEF c
<1>4. Keeps(r, kw)
  <2>1. Keeps(tryResume(c, up), c)
    BY <1>3, LoadKeeps DEF Keeps
  <2> QED BY <1>3, <2>1, KeepsTrans
<1> HIDE DEF r
<1>5. Keeps(t, kw)
  <2>1. Keeps(tryStop(r, up), r)
    BY <1>4, LoadKeeps DEF Keeps
  <2> QED BY <1>4, <2>1, KeepsTrans
<1> HIDE DEF t
<1>6. Keeps(e, kw)
  <2>1. Keeps(tryChkpntMig(t, up), t)
    BY <1>5, MigrationKeeps DEF Keeps
  <2> QED BY <1>5, <2>1, KeepsTrans
<1> HIDE DEF e
<1>7. Keeps(z, kw)
  <2>1. Keeps(z, e)
    BY <1>6, ReportKeeps DEF Keeps
  <2> QED BY <1>6, <2>1, KeepsTrans
<1> HIDE DEF z
<1>8. Keeps(kw', kw)
  <2>1. kw' = Result(z, 0)
    BY <1>1 DEF Result
  <2>2. Keeps(kw', z)
    BY <1>7, <2>1, ResultKeeps DEF Keeps
  <2> QED BY <1>7, <2>2, KeepsTrans
<1>9. NetTrue(knet, kw.g)'
  BY <1>0, <1>1, <1>8 DEF NetTrue, Keeps
<1>10. LockStep
  BY <1>8 DEF LockStep, Keeps, Held, Live, IsSusp
<1> QED BY <1>1, <1>8, <1>9, <1>10, InStepNext DEF StopInv, Keeps

-----------------------------------------------------------------------------
(* sbatchd comes up again. *)
Restarted(w, k) == [w EXCEPT !.k = k]
Renewed(w, nr) == [w EXCEPT !.k.nr = nr]

(* The card at a restart. *)
LEMMA RestartCards ==
  ASSUME NEW w \in Worlds, NEW k \in Cards, NEW nr \in BOOLEAN
  PROVE  /\ Around(Restarted(w, k), w) /\ Restarted(w, k).k = k
         /\ Around(Renewed(w, nr), w) /\ Renewed(w, nr).k.st = w.k.st
         /\ Renewed(w, nr).k.act = w.k.act /\ Renewed(w, nr).k.rs = w.k.rs
<1>1. Around(Restarted(w, k), w) /\ Restarted(w, k).k = k
  BY DEF Restarted, Around, Worlds
<1>2. /\ Around(Renewed(w, nr), w) /\ Renewed(w, nr).k.st = w.k.st
      /\ Renewed(w, nr).k.act = w.k.act /\ Renewed(w, nr).k.rs = w.k.rs
  BY DEF Renewed, Around, Worlds, Cards
<1> QED BY <1>1, <1>2

(* A suspended job is stopped again and stays suspended (sbdStartupStopJob). *)
LEMMA StoppedAgain ==
  ASSUME NEW w, InStep(w), w.g # <<>>, w.g[1].act = "no", IsSusp(w.g[1].st),
         IsSusp(w.k.st), w.k.act = "no"
  PROVE  LET r == sbdStartupStopJob(w, w.k.rs) IN InStep(r) /\ IsSusp(r.k.st) /\ r.g = w.g
<1> DEFINE rs == w.k.rs \cup {"startup"}
           st == IF "user" \in w.k.rs THEN "ususp" ELSE "ssusp"
           sig == IF "user" \in w.k.rs THEN "SUSP_USER"
                  ELSE IF "window" \in w.k.rs THEN "SUSP_WINDOW"
                  ELSE IF "load" \in w.k.rs THEN "SUSP_LOAD"
                  ELSE IF "reserve" \in w.k.rs THEN "SUSP_OTHER"
                  ELSE "no"
           r == sbdStartupStopJob(w, w.k.rs)
<1>0. w \in Worlds /\ MbdReasons(w) /\ w.k.st \in Live
  BY DEF InStep, Sound, IsSusp, Live
<1>1. r = IF sig = "no" THEN w ELSE jRunSuspendAct(w, sig, st, rs, FALSE, FALSE)
  BY Zenon DEF sbdStartupStopJob
<1>2. sig = "no" \/ sig \in SuspendSigs
  BY DEF SuspendSigs
<1>3. st \in {"ususp", "ssusp"} /\ rs \in SUBSET AllReasons
  BY <1>0 DEF Worlds, Cards, AllReasons
<1> HIDE DEF sig, st, rs
<1>4. CASE r = w
  BY <1>4
<1>5. CASE sig \in SuspendSigs /\ r = jRunSuspendAct(w, sig, st, rs, FALSE, FALSE)
  <2> DEFINE d == jRunSuspendAct(w, sig, st, rs, FALSE, FALSE)
  <2>1. Acted(d, w) /\ d.k.st \in {w.k.st, st}
    <3>1. sig \in SuspendSigs
      BY <1>5
    <3>2. st \in {"ususp", "ssusp"}
      BY <1>3
    <3>3. rs \in SUBSET AllReasons
      BY <1>3
    <3>4. w \in Worlds /\ MbdReasons(w) /\ w.k.st \in Live /\ w.k.act = "no"
      BY <1>0
    <3> QED BY <3>1, <3>2, <3>3, <3>4, SuspendActs, ZenonT(60)
  <2>2. Acted(r, w) /\ r.k.st \in {w.k.st, st}
    BY <1>5, <2>1
  <2>3. FileTrue(r)
    BY <1>3, <2>2 DEF Acted, FileTrue, IsSusp
  <2> QED BY <1>3, <2>2, <2>3 DEF Acted, InStep, IsSusp
<1> QED BY <1>1, <1>2, <1>4, <1>5

(* The card a restarted sbatchd makes from its file, or from mbatchd, keeps
   the invariant, and a suspended job stays suspended (renewJobStat). *)
LEMMA CardRenewed ==
  ASSUME NEW w, InStep(w), w.k.st \in Live
  PROVE  LET r == renewJobStat(w) IN
         InStep(r) /\ r.k.st \in Live /\ r.g = w.g /\ (IsSusp(w.k.st) => IsSusp(r.k.st))
<1> DEFINE k == IF w.g = <<>> THEN [NewCard EXCEPT !.st = w.m.st, !.rs = w.m.rs] ELSE w.g[1]
           n == Restarted(w, k)
           t == sbdStartupStopJob(n, n.k.rs)
           x == w.m.st # "run"
           y == t.k.nr \/ (w.g # <<>> /\ ~IsSusp(w.m.st))
           r == renewJobStat(w)
<1>0. w \in Worlds /\ MbdReasons(w) /\ Sound(w) /\ FileTrue(w) /\ w.g \in Seq(Cards) /\ w.m \in Records
  BY DEF InStep, Sound, Worlds
<1>1. r = CASE n.k.act # "no" -> jobsig(n, "CONT")
             [] n.k.act = "no" /\ n.k.st = "run" ->
                  IF w.g = <<>> THEN resumeJob(n, "RESUME_OTHER", FALSE, TRUE)
                  ELSE [n EXCEPT !.k.nr = x]
             [] OTHER -> [t EXCEPT !.k.nr = @ \/ (w.g # <<>> /\ ~IsSusp(w.m.st))]
  BY Zenon DEF renewJobStat, Restarted
<1>2. /\ k \in Cards
      /\ w.g = <<>> => k.st = "run" /\ k.act = "no" /\ w.m.st = "run"
      /\ w.g # <<>> => k = w.g[1]
  <2>1. CASE w.g = <<>>
    BY <1>0, <2>1 DEF NewCard, Cards, Records, Live, Acts, FileTrue
  <2>2. CASE w.g # <<>>
    BY <1>0, <2>2
  <2> QED BY <2>1, <2>2
<1> HIDE DEF k
<1>3. Around(n, w) /\ n.k = k
  BY <1>0, <1>2, RestartCards
<1> HIDE DEF n
<1>4. n \in Worlds /\ MbdReasons(n) /\ n.g = w.g /\ n.m = w.m
  BY <1>0, <1>3 DEF Around, MbdReasons
<1>5. CASE w.g = <<>>
  <2> DEFINE d == resumeJob(n, "RESUME_OTHER", FALSE, TRUE)
  <2>0. n.k.st \in Live /\ n.k.st = "run" /\ n.k.act = "no" /\ "RESUME_OTHER" \in ResumeSigs
    BY <1>2, <1>3, <1>5 DEF Live, ResumeSigs
  <2>1. Acted(d, n) /\ d.k.st \in {n.k.st, "run"} /\ d.k.act \in {"no", "RESUME_OTHER"}
    BY <1>4, <2>0, ResumeActs, Zenon
  <2> HIDE DEF d
  <2>2. r = d
    BY <1>1, <1>5, <2>0 DEF d
  <2>3. FileTrue(r)
    BY <1>2, <1>4, <1>5, <2>0, <2>1, <2>2 DEF FileTrue, Acted
  <2>4. ~IsSusp(w.k.st)
    BY <1>0, <1>5 DEF FileTrue, IsSusp
  <2> QED BY <1>4, <2>1, <2>2, <2>3, <2>4 DEF Acted, InStep
<1>6. CASE w.g # <<>> /\ n.k.act # "no"
  <2>1. r = jobsig(n, "CONT")
    BY <1>1, <1>6, Zenon
  <2>2. n.k.st = w.k.st /\ n.k.act = w.k.act
    BY <1>0, <1>2, <1>3, <1>6 DEF FileTrue, Live
  <2>3. InStep(n) /\ Sound(n)
    BY <1>3, <2>2, CardChange DEF InStep
  <2>4. Sound(r) /\ r.g = n.g /\ r.m.st = n.m.st /\ r.k = n.k
    BY <2>1, <2>3, JustSignal
  <2>5. FileTrue(r)
    BY <2>3, <2>4 DEF InStep, FileTrue
  <2> QED BY <1>4, <2>2, <2>4, <2>5 DEF InStep
<1>7. CASE w.g # <<>> /\ n.k.act = "no" /\ n.k.st = "run"
  <2>1. r = [n EXCEPT !.k.nr = x]
    BY <1>1, <1>7, Zenon
  <2>2. x \in BOOLEAN
    OBVIOUS
  <2> HIDE DEF x
  <2>3. r = Renewed(n, x)
    BY <2>1, Zenon DEF Renewed
  <2> DEFINE z == Renewed(n, x)
  <2>4. Around(z, n) /\ z.k.st = n.k.st /\ z.k.act = n.k.act /\ z.k.rs = n.k.rs
    BY <1>4, <1>2, <2>2, RestartCards, Zenon
  <2> HIDE DEF z
  <2>5. n.k.st = w.k.st /\ n.k.act = w.k.act
    BY <1>0, <1>2, <1>3, <1>7 DEF FileTrue, Live, IsSusp
  <2>6. InStep(n)
    BY <1>3, <2>5, CardChange
  <2>7. InStep(z)
    BY <2>4, <2>6, CardChange
  <2>8. r = z
    BY <2>3 DEF z
  <2> QED BY <1>4, <2>4, <2>5, <2>7, <2>8 DEF Around
<1>8. CASE w.g # <<>> /\ n.k.act = "no" /\ n.k.st # "run"
  <2>1. r = [t EXCEPT !.k.nr = @ \/ (w.g # <<>> /\ ~IsSusp(w.m.st))]
    BY <1>1, <1>8, Zenon
  <2>2. IsSusp(n.k.st) /\ w.g[1].act = "no" /\ IsSusp(w.g[1].st)
    BY <1>0, <1>2, <1>3, <1>8 DEF FileTrue, Live, IsSusp
  <2>3. MbdReasons(n) /\ StopsTrue(n) /\ n.k.st \in Live
    BY <1>4, <1>8, <2>2 DEF StopsTrue, IsSusp, ResumeSigs, TermSigs, Live
  <2>4. InStep(n)
    BY <1>2, <1>3, <1>4, <1>8, <2>3 DEF InStep, Sound, FileTrue
  <2>5. InStep(t) /\ IsSusp(t.k.st) /\ t.g = n.g
    BY <1>4, <1>8, <2>2, <2>4, StoppedAgain
  <2> HIDE DEF t
  <2>6. t \in Worlds /\ t.k \in Cards
    BY <2>5 DEF InStep, Sound, Worlds
  <2>7. y \in BOOLEAN
    BY <2>6 DEF Cards
  <2>8. r = [t EXCEPT !.k.nr = y]
    BY <2>1, <2>6 DEF Worlds, Cards
  <2> HIDE DEF y
  <2> DEFINE z == Renewed(t, y)
  <2>9. r = z
    BY <2>8, Zenon DEF Renewed
  <2>10. Around(z, t) /\ z.k.st = t.k.st /\ z.k.act = t.k.act /\ z.k.rs = t.k.rs
    BY <2>6, <2>7, RestartCards, Zenon
  <2> HIDE DEF z
  <2>11. InStep(z)
    BY <2>5, <2>10, CardChange
  <2> QED BY <1>4, <2>5, <2>9, <2>10, <2>11 DEF Around, IsSusp, Live
<1> QED BY <1>5, <1>6, <1>7, <1>8

(* A restart keeps the invariant and resumes no locked job; every request
   under way is lost. *)
LEMMA RestartStep ==
  ASSUME StopInv, SbdRestart
  PROVE  StopInv' /\ LockStep
<1> DEFINE r == renewJobStat(kw)
           d == IF r.cc < 0 THEN jobGone(r) ELSE r
           lost == [i \in DOMAIN knet.req |->
                      [sig |-> knet.req[i].sig, code |-> "LOST", st |-> kw.k.st, act |-> FALSE]]
<1>0. InStep(kw) /\ kw \in Worlds /\ knet \in Nets
  BY DEF StopInv, InStep, Sound, NetTrue
<1>1. /\ kw.k.st \in Live /\ kc' = kc
      /\ kw' = [d EXCEPT !.cc = 0]
      /\ knet' = [req |-> <<>>, rep |-> lost]
  BY DEF SbdRestart, Live
<1>2. InStep(r) /\ r.k.st \in Live /\ r.g = kw.g /\ (IsSusp(kw.k.st) => IsSusp(r.k.st))
  BY <1>0, <1>1, CardRenewed
<1> HIDE DEF r
<1>3. InStep(d) /\ d.k.st \in {r.k.st, "exit"}
  BY <1>2, JobGoneInStep
<1> HIDE DEF d
<1>4. InStep(kw') /\ kw'.k = d.k
  <2>1. kw' = Result(d, 0) /\ d \in Worlds
    BY <1>1, <1>3 DEF Result, InStep, Sound
  <2> QED BY <1>3, <2>1, ResultKeeps, ResultFacts DEF Keeps
<1>5. lost \in Seq(Replies)
  <2>1. knet.req \in Seq(Requests)
    BY <1>0 DEF Nets
  <2>2. Len(knet.req) \in Nat /\ DOMAIN knet.req = 1..Len(knet.req)
    BY <2>1
  <2>3. ASSUME NEW i \in DOMAIN knet.req PROVE knet.req[i].sig \in Asked
    <3>1. knet.req[i] \in Requests
      BY <2>1, <2>2
    <3> QED BY <3>1 DEF Requests
  <2>4. kw.k.st \in Live \cup {"exit", "pend", "none"}
    BY <1>1
  <2>5. \A i \in DOMAIN knet.req : lost[i] \in Replies
    BY <2>3, <2>4 DEF Replies
  <2>6. lost \in [1..Len(knet.req) -> Replies]
    BY <2>2, <2>5
  <2> HIDE DEF lost
  <2> QED BY <2>2, <2>6
<1>6. \A i \in DOMAIN lost : lost[i].code = "LOST"
  OBVIOUS
<1> HIDE DEF lost
<1>7. NetTrue(knet, kw.g)'
  BY <1>1, <1>5, <1>6 DEF NetTrue, Nets
<1>8. LockStep
  BY <1>2, <1>3, <1>4 DEF LockStep, IsSusp
<1> QED BY <1>1, <1>4, <1>7, <1>8, InStepNext DEF StopInv

(* A change of processes and command alone. *)
LEMMA ProcessChange ==
  ASSUME StopInv, NEW a \in {"no", "alive", "ok", "fail"}, NEW p \in {"run", "stop", "dying", "gone"},
         kw' = [kw EXCEPT !.a = a, !.p = p], knet' = knet, kc' = kc,
         "fail" \notin kc.env => StopsTrue(kw')
  PROVE  StopInv' /\ kw'.k = kw.k
<1>0. InStep(kw) /\ kw \in Worlds /\ NetTrue(knet, kw.g)
  BY DEF StopInv, InStep, Sound
<1>1. kw' \in Worlds /\ kw'.k = kw.k /\ kw'.g = kw.g /\ kw'.m = kw.m
  BY <1>0 DEF Worlds
<1>2. Sound(kw') /\ FileTrue(kw')
  BY <1>0, <1>1 DEF InStep, Sound, FileTrue, MbdReasons
<1>3. NetTrue(knet, kw.g)'
  BY <1>0, <1>1 DEF NetTrue
<1> QED BY <1>1, <1>2, <1>3, InStepNext DEF StopInv, InStep

(* The end of a command or of the process group keeps the invariant. *)
LEMMA ProcessStep ==
  ASSUME StopInv, (\E ok \in BOOLEAN : ActionEnds(ok)) \/ ProcessEnds
  PROVE  StopInv' /\ kw'.k = kw.k
<1>0. InStep(kw) /\ kw \in Worlds /\ NetTrue(knet, kw.g)
  BY DEF StopInv, InStep, Sound
<1>2. ASSUME NEW ok \in BOOLEAN, ActionEnds(ok) PROVE StopInv' /\ kw'.k = kw.k
  <2> DEFINE a == IF ok THEN "ok" ELSE "fail"
             p == IF ~ok \/ kw.p \in {"gone", "dying"} THEN kw.p
                  ELSE CASE kw.k.act \in SuspendSigs -> "stop"
                         [] kw.k.act \in ResumeSigs -> "run"
                         [] kw.k.act \in TermSigs -> "gone"
                         [] kw.k.act = "CHKPNT" /\ kw.k.mig -> "gone"
                         [] OTHER -> kw.p
  <2>1. kw' = [kw EXCEPT !.a = a, !.p = p] /\ knet' = knet /\ kc' = kc
    BY <1>2 DEF ActionEnds
  <2>2. a \in {"no", "alive", "ok", "fail"} /\ kw.p \in {"run", "stop", "dying", "gone"}
    BY <1>0 DEF Worlds
  <2>3. /\ p \in {"run", "stop", "dying", "gone"}
        /\ kw.p \in {"gone", "dying"} => p = kw.p
        /\ ok /\ kw.p \notin {"gone", "dying"} =>
             /\ kw.k.act \in ResumeSigs => p = "run"
             /\ kw.k.act \in TermSigs => p = "gone"
             /\ kw.k.act \in {"no", "CHKPNT"} => p \in {kw.p, "gone"}
    BY <2>2 DEF SuspendSigs, ResumeSigs, TermSigs
  <2> HIDE DEF p
  <2>4. kw'.k = kw.k /\ kw'.p = p
    BY <1>0, <2>1 DEF Worlds
  <2>5. "fail" \notin kc.env => ok /\ StopsTrue(kw)
    BY <1>0, <1>2 DEF ActionEnds, InStep, Sound
  <2>6. "fail" \notin kc.env => StopsTrue(kw')
    BY <2>2, <2>3, <2>4, <2>5 DEF StopsTrue
  <2> HIDE DEF a
  <2> QED BY <2>1, <2>2, <2>3, <2>6, ProcessChange
<1>3. ASSUME ProcessEnds PROVE StopInv' /\ kw'.k = kw.k
  <2>1. kw' = [kw EXCEPT !.a = kw.a, !.p = "gone"] /\ knet' = knet /\ kc' = kc
    BY <1>0, <1>3 DEF ProcessEnds, Worlds
  <2>2. kw.a \in {"no", "alive", "ok", "fail"} /\ kw'.k = kw.k /\ kw'.p = "gone"
    BY <1>0, <2>1 DEF Worlds
  <2>3. StopsTrue(kw')
    BY <2>2 DEF StopsTrue
  <2> DEFINE p == "gone"
  <2>4. p \in {"run", "stop", "dying", "gone"} /\ kw' = [kw EXCEPT !.a = kw.a, !.p = p]
    BY <2>1
  <2> HIDE DEF p
  <2> QED BY <2>1, <2>2, <2>3, <2>4, ProcessChange
<1> QED BY <1>2, <1>3

(* Every step keeps the invariant and the lock: one case for each action. *)
LEMMA StopInvStep ==
  ASSUME StopInv, SuspendNext
  PROVE  StopInv' /\ LockStep
<1>0. ASSUME kw'.k = kw.k PROVE LockStep
  BY <1>0 DEF LockStep, IsSusp
<1>1. CASE \E sig \in Signals, sent \in BOOLEAN : signalJob(sig, sent)
  BY <1>0, <1>1, SignalStep
<1>2. CASE \E sent \in BOOLEAN : resigJobs1(sent)
  BY <1>0, <1>2, ResignalStep
<1>3. CASE \E sent \in BOOLEAN : mbdTryResume(sent)
  BY <1>0, <1>3, MbdResumeStep
<1>4. CASE do_sigjob
  BY <1>4, RequestTaken DEF LockStep
<1>5. CASE \E lost \in BOOLEAN : doSignalJobReply(lost)
  BY <1>0, <1>5, ReplyStep
<1>6. CASE \E up, forced, look, mig \in BOOLEAN : SbdLoop(up, forced, look, mig)
  BY <1>6, LoopStep
<1>7. CASE SbdRestart
  BY <1>7, RestartStep
<1>8. CASE (\E ok \in BOOLEAN : ActionEnds(ok)) \/ ProcessEnds
  BY <1>0, <1>8, ProcessStep
<1>9. CASE EnvChanges
  <2>1. kc' = kc /\ kw' = kw /\ knet' = knet
    BY <1>9 DEF EnvChanges
  <2>2. InStep(kw') /\ NetTrue(knet, kw.g)'
    BY <2>1 DEF StopInv, NetTrue
  <2> QED BY <1>0, <2>1, <2>2, InStepNext DEF StopInv
<1> QED BY <1>1, <1>2, <1>3, <1>4, <1>5, <1>6, <1>7, <1>8, <1>9 DEF SuspendNext

(* A step of the specification or a stuttering step keeps the invariant. *)
LEMMA StopInvStutters ==
  ASSUME StopInv, [SuspendNext]_kvars
  PROVE  StopInv'
<1>1. CASE SuspendNext
  BY <1>1, StopInvStep
<1>2. CASE UNCHANGED kvars
  <2>1. kc' = kc /\ kw' = kw /\ knet' = knet
    BY <1>2 DEF kvars
  <2>2. InStep(kw') /\ NetTrue(knet, kw.g)'
    BY <2>1 DEF StopInv, NetTrue
  <2> QED BY <2>1, <2>2, InStepNext DEF StopInv
<1> QED BY <1>1, <1>2

(* A job that has just started satisfies the invariant, whatever the
   configuration. *)
LEMMA StopInvInit ==
  ASSUME NEW sc, SuspendInit(sc)
  PROVE  StopInv
<1>1. kw \in Worlds
  <2>1. kw.k \in Cards
    BY DEF SuspendInit, NewCard, Cards, Live, Acts
  <2>2. kw.m \in Records
    BY DEF SuspendInit, Records, Live, Asked
  <2>3. <<>> \in Seq(Cards)
    OBVIOUS
  <2> QED BY <2>1, <2>2, <2>3 DEF SuspendInit, Worlds
<1>2. MbdReasons(kw) /\ StopsTrue(kw) /\ kw.k.act = "no" /\ kw.k.st = "run"
  BY DEF SuspendInit, NewCard, MbdReasons, StopsTrue, ResumeSigs, TermSigs
<1>3. FileTrue(kw)
  BY DEF SuspendInit, NewCard, FileTrue
<1>4. NetTrue(knet, kw.g)
  <2>1. <<>> \in Seq(Requests) /\ <<>> \in Seq(Replies)
    OBVIOUS
  <2>2. knet \in Nets
    BY <2>1 DEF SuspendInit, Nets
  <2>3. DOMAIN knet.rep = {}
    BY DEF SuspendInit
  <2> QED BY <2>2, <2>3 DEF NetTrue
<1> QED BY <1>1, <1>2, <1>3, <1>4 DEF StopInv, InStep, Sound

(* The invariant implies the type invariant, and that a running job is not
   left stopped. *)
LEMMA StopInvHolds ==
  ASSUME StopInv
  PROVE  SuspendTypeOK /\ RunningIsNotStopped
<1>1. SuspendTypeOK
  BY DEF StopInv, InStep, Sound, MbdReasons, SuspendTypeOK, Worlds, Cards, Records, Live, IsSusp
<1>2. RunningIsNotStopped
  BY DEF StopInv, InStep, Sound, StopsTrue, RunningIsNotStopped
<1> QED BY <1>1, <1>2

(* For every configuration: a job that its card calls running is not left
   stopped, and one that mbatchd has locked goes back to RUN only by a
   request or by the end of a resume command (resumeJob, jobResumeAction,
   job_checking, renewJobStat). *)
THEOREM StopsAlwaysHold ==
  ASSUME NEW CONSTANT sc
  PROVE  SuspendInit(sc) /\ [][SuspendNext]_kvars => StopsHold
<1>1. SuspendInit(sc) => StopInv
  BY StopInvInit
<1>2. StopInv /\ [SuspendNext]_kvars => StopInv'
  BY StopInvStutters
<1>3. StopInv /\ [SuspendNext]_kvars => [LockStep]_kvars
  BY StopInvStep
<1>4. StopInv => SuspendTypeOK /\ RunningIsNotStopped
  BY StopInvHolds
<1> QED BY <1>1, <1>2, <1>3, <1>4, PTL DEF StopsHold, LockHolds, LockStep

(* For every configuration a sbatchd that comes up again finds in its status
   file the status and the action its card had, or a job that is suspended in
   both; without a file the job runs and is not suspended for either daemon
   (sbdlog_newstatus, renewJobStat). *)
THEOREM FileMatchesCard ==
  ASSUME NEW CONSTANT sc
  PROVE  SuspendInit(sc) /\ [][SuspendNext]_kvars => []FileTrue(kw)
<1>1. SuspendInit(sc) => StopInv
  BY StopInvInit
<1>2. StopInv /\ [SuspendNext]_kvars => StopInv'
  BY StopInvStutters
<1>3. StopInv => FileTrue(kw)
  BY DEF StopInv, InStep
<1> QED BY <1>1, <1>2, <1>3, PTL
=============================================================================
