------------------------- MODULE HostPollingProofs -------------------------
(***************************************************************************)
(* What mbatchd believes of a host and its jobs follows what it heard, for *)
(* every value of MAX_SBD_FAIL and any order of polls, calls, reports,     *)
(* changes of the host and restarts.                                       *)
(*                                                                         *)
(* HostsTracked is not inductive.  Whether a job becomes UNKWN is decided  *)
(* from the count of failures and not from the state of the host, so that  *)
(* the count must be small while the host counts as reachable; a sbatchd   *)
(* that is cut off comes back without a word, so that the jobs must be on  *)
(* their way to it already then; and a count of two needs a poll or a call *)
(* that failed.                                                            *)
(***************************************************************************)
EXTENDS HostPolling, TLAPS

Lost(st) == "UNREACH" \in st \/ "UNAVAIL" \in st

\* The records a job may have: only a job on the host is UNKWN.
HJobRec ==
    {r \in [at : {"none", "host", "lost"}, unk : BOOLEAN, zom : BOOLEAN] : r.unk => r.at = "host"}

\* The jobs are known or not, as it should be.
JobsAre(lost, job) ==
    /\ job \in [HJobs -> HJobRec]
    /\ \A j \in HJobs : job[j].at = "host" => (job[j].unk <=> lost)

StatusIs(st) == st \subseteq {"UNREACH", "UNAVAIL", "NO_LIM"} /\ ~({"UNREACH", "UNAVAIL"} \subseteq st)

\* A state a handler may leave the host in, and one between two of its steps:
\* the count has been raised and is still to be looked at.
Consistent(s) ==
    /\ StatusIs(s.st) /\ JobsAre(Lost(s.st), s.job)
    /\ s.fail \in 0..FailBound /\ (~Lost(s.st) => s.fail <= 1)
Counted(s) ==
    /\ StatusIs(s.st) /\ JobsAre(Lost(s.st), s.job)
    /\ s.fail \in Nat /\ (~Lost(s.st) => s.fail <= 1)

Believes ==
    /\ StatusIs(hstat) /\ JobsAre(Lost(hstat), hjob)
    /\ hfail \in 0..FailBound /\ (~Lost(hstat) => hfail <= 1)

HostTypes ==
    /\ hscen \in HostScenarios
    /\ hlim \in {"ok", "sbddown", "unavail", "gone"} /\ (hlim = "gone" => "migrant" \in hscen)
    /\ hseen \in {"ok", "sbddown", "unavail", "none"}
    /\ hmiss \in Nat
JobsOnTheirWay == HIn /\ ~htold /\ hsbd # "refuse" => hneed \/ hprobe # "none" \/ hreg

HostInv ==
    /\ HostTypes
    /\ Believes
    /\ NoJobOnGoneHost
    /\ JobsOnTheirWay
    /\ hfail >= 2 => hmiss >= 1

-----------------------------------------------------------------------------
LEMMA FailBoundFacts == FailBound \in Nat /\ FailBound >= 3 /\ FailBound >= MaxSbdFail
BY HostAssumption DEF FailBound

LEMMA StateFields ==
    ASSUME NEW st, NEW fail, NEW job
    PROVE  /\ HState(st, fail, job).st = st /\ HState(st, fail, job).fail = fail
           /\ HState(st, fail, job).job = job
BY DEF HState

\* hostJobs, one transition after the other.
LEMMA JobsKnown ==
    ASSUME NEW job \in [HJobs -> HJobRec], NEW trans \in {"UNREACH_OK", "UNAVAIL_OK"}
    PROVE  /\ JobsAre(FALSE, hostJobs(trans, job))
           /\ \A j \in HJobs : hostJobs(trans, job)[j].at = job[j].at /\ hostJobs(trans, job)[j].zom = job[j].zom
BY DEF JobsAre, HJobRec, hostJobs

LEMMA JobsUnknown ==
    ASSUME NEW job \in [HJobs -> HJobRec]
    PROVE  /\ JobsAre(TRUE, hostJobs("OK_UNREACH", job))
           /\ \A j \in HJobs : /\ hostJobs("OK_UNREACH", job)[j].at = job[j].at
                               /\ hostJobs("OK_UNREACH", job)[j].zom = job[j].zom
<1>1. ASSUME NEW j \in HJobs
      PROVE  LET r == hostJobs("OK_UNREACH", job)[j] IN
             r \in HJobRec /\ r.at = job[j].at /\ r.zom = job[j].zom /\ (r.at = "host" => r.unk)
  <2>1. CASE job[j].at = "host"
    <3>1. hostJobs("OK_UNREACH", job)[j] = [job[j] EXCEPT !.unk = TRUE]
      BY <2>1 DEF hostJobs
    <3> QED
      BY <2>1, <3>1 DEF HJobRec
  <2>2. CASE job[j].at # "host"
    <3>1. hostJobs("OK_UNREACH", job)[j] = job[j]
      BY <2>2 DEF hostJobs
    <3> QED
      BY <2>2, <3>1 DEF HJobRec
  <2> QED
    BY <2>1, <2>2
<1>2. hostJobs("OK_UNREACH", job) = [j \in HJobs |-> hostJobs("OK_UNREACH", job)[j]]
  BY DEF hostJobs
<1> QED
  BY <1>1, <1>2 DEF JobsAre

LEMMA JobsGivenUp ==
    ASSUME NEW job, JobsAre(TRUE, job)
    PROVE  /\ JobsAre(TRUE, hostJobs("UNREACH_UNAVAIL", job))
           /\ \A j \in HJobs : hostJobs("UNREACH_UNAVAIL", job)[j].at = "host" => job[j].at = "host"
BY DEF JobsAre, HJobRec, hostJobs, HNowhere

\* No job comes to the host by a change of its status, and none is given up.
KeepsJobs(s, t) ==
    \A j \in HJobs : (t.job[j].at = "host" => s.job[j].at = "host") /\ t.job[j].zom = s.job[j].zom

\* Once nothing but NO_LIM is left of the status, no job may be unknown.
LEMMA Recovered ==
    ASSUME NEW t, t.st \subseteq {"NO_LIM"}, JobsAre(FALSE, t.job), t.fail = 0
    PROVE  Consistent(t)
<1>1. ~Lost(t.st) /\ StatusIs(t.st)
  BY DEF Lost, StatusIs
<1>2. JobsAre(Lost(t.st), t.job)
  BY <1>1 DEF JobsAre
<1> QED
  BY <1>1, <1>2, FailBoundFacts DEF Consistent

\* While the host is lost, any count does.
LEMMA StillLost ==
    ASSUME NEW t, StatusIs(t.st), Lost(t.st), JobsAre(TRUE, t.job), t.fail \in 0..FailBound
    PROVE  Consistent(t)
<1>1. JobsAre(Lost(t.st), t.job)
  BY DEF JobsAre
<1> QED
  BY <1>1 DEF Consistent

LEMMA ChangeToOk ==
    ASSUME NEW s, Consistent(s)
    PROVE  /\ Consistent(hStatChangeOk(s)) /\ KeepsJobs(s, hStatChangeOk(s))
           /\ hStatChangeOk(s).fail <= 1
<1> USE HostAssumption, FailBoundFacts
<1>0. s.job \in [HJobs -> HJobRec]
  BY DEF Consistent, JobsAre
<1>1. CASE "UNREACH" \in s.st
  <2> DEFINE job == hostJobs("UNREACH_OK", s.job)
             t == HState(s.st \ {"UNREACH"}, 0, job)
  <2>1. hStatChangeOk(s) = t /\ t.st = s.st \ {"UNREACH"} /\ t.fail = 0 /\ t.job = job
    BY <1>1, StateFields DEF hStatChangeOk
  <2>2. JobsAre(FALSE, job) /\ \A j \in HJobs : job[j].at = s.job[j].at /\ job[j].zom = s.job[j].zom
    BY <1>0, JobsKnown
  <2> HIDE DEF job, t
  <2>3. t.st \subseteq {"NO_LIM"}
    BY <1>1, <2>1 DEF Consistent, StatusIs
  <2>4. Consistent(t)
    BY <2>1, <2>2, <2>3, Recovered
  <2> QED
    BY <2>1, <2>2, <2>4 DEF KeepsJobs
<1>2. CASE "UNREACH" \notin s.st /\ "UNAVAIL" \in s.st
  <2> DEFINE job == hostJobs("UNAVAIL_OK", s.job)
             t == HState(s.st \ {"UNAVAIL"}, 0, job)
  <2>1. hStatChangeOk(s) = t /\ t.st = s.st \ {"UNAVAIL"} /\ t.fail = 0 /\ t.job = job
    BY <1>2, StateFields DEF hStatChangeOk
  <2>2. JobsAre(FALSE, job) /\ \A j \in HJobs : job[j].at = s.job[j].at /\ job[j].zom = s.job[j].zom
    BY <1>0, JobsKnown
  <2> HIDE DEF job, t
  <2>3. t.st \subseteq {"NO_LIM"}
    BY <1>2, <2>1 DEF Consistent, StatusIs
  <2>4. Consistent(t)
    BY <2>1, <2>2, <2>3, Recovered
  <2> QED
    BY <2>1, <2>2, <2>4 DEF KeepsJobs
<1>3. CASE ~Lost(s.st)
  BY <1>3 DEF hStatChangeOk, Lost, Consistent, KeepsJobs
<1> QED
  BY <1>1, <1>2, <1>3 DEF Lost

LEMMA RefusedType == ASSUME NEW err PROVE Refused(err) \in 0..1
BY DEF Refused

LEMMA ChangeToUnreach ==
    ASSUME NEW s, Consistent(s), NEW err
    PROVE  Consistent(hStatChangeUnreach(s, err)) /\ KeepsJobs(s, hStatChangeUnreach(s, err))
<1> USE HostAssumption, FailBoundFacts
<1> DEFINE n == s.fail + 1 + Refused(err)
           job == hostJobs("OK_UNREACH", s.job)
           lost == HState(s.st \cup {"UNREACH"}, n, job)
           still == HState(s.st, n, s.job)
<1>0. s.job \in [HJobs -> HJobRec] /\ s.fail \in Nat
  BY DEF Consistent, JobsAre
<1>1. CASE Lost(s.st)
  BY <1>1 DEF hStatChangeUnreach, Lost, KeepsJobs
<1>2. CASE ~Lost(s.st) /\ n > 1
  <2>1. hStatChangeUnreach(s, err) = lost /\ lost.st = s.st \cup {"UNREACH"} /\ lost.fail = n /\ lost.job = job
    BY <1>2, StateFields DEF hStatChangeUnreach, Lost
  <2>2. JobsAre(TRUE, job) /\ \A j \in HJobs : job[j].at = s.job[j].at /\ job[j].zom = s.job[j].zom
    BY <1>0, JobsUnknown
  <2>3. n \in 0..FailBound
    BY <1>0, <1>2, RefusedType DEF Consistent
  <2> HIDE DEF job, lost, n
  <2> QED
    BY <1>2, <2>1, <2>2, <2>3 DEF Consistent, StatusIs, Lost, KeepsJobs
<1>3. CASE ~Lost(s.st) /\ ~(n > 1)
  <2>1. hStatChangeUnreach(s, err) = still /\ still.st = s.st /\ still.fail = n /\ still.job = s.job
    BY <1>3, StateFields DEF hStatChangeUnreach, Lost
  <2>2. n \in 0..FailBound /\ n <= 1
    BY <1>0, <1>3, RefusedType
  <2> HIDE DEF still, n
  <2> QED
    BY <1>3, <2>1, <2>2 DEF Consistent, KeepsJobs
<1> QED
  BY <1>1, <1>2, <1>3

LEMMA PollAnswered ==
    ASSUME NEW s, StatusIs(s.st), JobsAre(Lost(s.st), s.job)
    PROVE  Consistent(pollOk(s)) /\ KeepsJobs(s, pollOk(s)) /\ pollOk(s).fail = 0
<1> USE HostAssumption, FailBoundFacts
<1> DEFINE a == IF "UNAVAIL" \in s.st THEN hostJobs("UNAVAIL_OK", s.job) ELSE s.job
           b == IF "UNREACH" \in s.st THEN hostJobs("UNREACH_OK", a) ELSE a
           t == HState(s.st \ {"UNAVAIL", "UNREACH"}, 0, b)
<1>0. s.job \in [HJobs -> HJobRec]
  BY DEF JobsAre
<1>1. /\ a \in [HJobs -> HJobRec] /\ ("UNAVAIL" \in s.st => JobsAre(FALSE, a))
      /\ ("UNAVAIL" \notin s.st => a = s.job)
      /\ \A j \in HJobs : a[j].at = s.job[j].at /\ a[j].zom = s.job[j].zom
  BY <1>0, JobsKnown DEF JobsAre
<1> HIDE DEF a
<1>2. /\ JobsAre(FALSE, b)
      /\ \A j \in HJobs : b[j].at = s.job[j].at /\ b[j].zom = s.job[j].zom
  <2>1. CASE "UNREACH" \in s.st
    BY <1>1, <2>1, JobsKnown
  <2>2. CASE "UNREACH" \notin s.st
    <3>1. "UNAVAIL" \notin s.st => JobsAre(FALSE, s.job)
      BY <2>2 DEF Lost, JobsAre
    <3> QED
      BY <1>1, <2>2, <3>1
  <2> QED
    BY <2>1, <2>2
<1>3. pollOk(s) = t /\ t.st = s.st \ {"UNAVAIL", "UNREACH"} /\ t.fail = 0 /\ t.job = b
  BY StateFields DEF pollOk, a
<1> HIDE DEF b, t
<1>4. t.st \subseteq {"NO_LIM"}
  BY <1>3 DEF StatusIs
<1>5. Consistent(t)
  BY <1>2, <1>3, <1>4, Recovered
<1> QED
  BY <1>2, <1>3, <1>5 DEF KeepsJobs

LEMMA PollFailed ==
    ASSUME NEW s, StatusIs(s.st), JobsAre(Lost(s.st), s.job), s.fail \in Nat
    PROVE  Counted(pollUnreach(s)) /\ KeepsJobs(s, pollUnreach(s)) /\ pollUnreach(s).fail = s.fail
<1> DEFINE job == hostJobs("OK_UNREACH", s.job)
           t == HState(s.st \cup {"UNREACH"}, s.fail, job)
<1>0. s.job \in [HJobs -> HJobRec]
  BY DEF JobsAre
<1>1. CASE s.fail > 1 /\ ~Lost(s.st)
  <2>1. pollUnreach(s) = t /\ t.st = s.st \cup {"UNREACH"} /\ t.fail = s.fail /\ t.job = job
    BY <1>1, StateFields DEF pollUnreach, Lost
  <2>2. JobsAre(TRUE, job) /\ \A j \in HJobs : job[j].at = s.job[j].at /\ job[j].zom = s.job[j].zom
    BY <1>0, JobsUnknown
  <2> HIDE DEF job, t
  <2> QED
    BY <1>1, <2>1, <2>2 DEF Counted, StatusIs, Lost, KeepsJobs
<1>2. CASE ~(s.fail > 1 /\ ~Lost(s.st))
  <2>1. pollUnreach(s) = s
    BY <1>2 DEF pollUnreach, Lost
  <2> QED
    BY <1>2, <2>1 DEF Counted, KeepsJobs
<1> QED
  BY <1>1, <1>2

\* pollGiveUp: the count is looked at.  A job becomes a zombie only if LIM has
\* called the host unavailable and the count has come to MaxSbdFail.
LEMMA CountLookedAt ==
    ASSUME NEW s, Counted(s)
    PROVE  /\ Consistent(pollGiveUp(s))
           /\ \A j \in HJobs : pollGiveUp(s).job[j].at = "host" => s.job[j].at = "host"
           /\ \A j \in HJobs : pollGiveUp(s).job[j].zom /\ ~s.job[j].zom => hseen = "unavail" /\ s.fail > 2
           /\ pollGiveUp(s).fail >= 2 => s.fail >= 2
<1> USE HostAssumption, FailBoundFacts
<1> DEFINE here == HState((s.st \cup {"UNREACH"}) \ {"UNAVAIL"}, 1, s.job)
           still == HState(s.st, MaxSbdFail, s.job)
           job == hostJobs("UNREACH_UNAVAIL", s.job)
           gone == HState((s.st \cup {"UNAVAIL"}) \ {"UNREACH"}, MaxSbdFail, job)
<1>0. s.fail \in Nat /\ StatusIs(s.st) /\ JobsAre(Lost(s.st), s.job)
  BY DEF Counted
<1>1. CASE s.fail <= 2
  BY <1>0, <1>1 DEF pollGiveUp, Counted, Consistent
<1>a. CASE s.fail > 2
  <2>0. Lost(s.st) /\ JobsAre(TRUE, s.job)
    BY <1>a DEF Counted, JobsAre
  <2>1. CASE hseen # "unavail"
    <3>1. pollGiveUp(s) = here /\ here.st = (s.st \cup {"UNREACH"}) \ {"UNAVAIL"} /\ here.fail = 1 /\ here.job = s.job
      BY <1>0, <1>a, <2>1, StateFields DEF pollGiveUp
    <3> HIDE DEF here
    <3>2. Lost(here.st) /\ StatusIs(here.st)
      BY <1>0, <3>1 DEF Lost, StatusIs
    <3>3. here.fail \in 0..FailBound /\ ~(here.fail >= 2)
      BY <3>1
    <3>4. Consistent(here)
      BY <2>0, <3>1, <3>2, <3>3, StillLost
    <3> QED
      BY <3>1, <3>3, <3>4
  <2>2. CASE hseen = "unavail" /\ s.fail < MaxSbdFail
    <3>1. pollGiveUp(s) = s
      BY <1>0, <1>a, <2>2 DEF pollGiveUp
    <3>2. s.fail \in 0..FailBound
      BY <1>0, <2>2
    <3>3. Consistent(s)
      BY <1>0, <2>0, <3>2, StillLost
    <3> QED
      BY <3>1, <3>3
  <2>3. CASE hseen = "unavail" /\ ~(s.fail < MaxSbdFail) /\ "UNAVAIL" \in s.st
    <3>1. pollGiveUp(s) = still /\ still.st = s.st /\ still.fail = MaxSbdFail /\ still.job = s.job
      BY <1>0, <1>a, <2>3, StateFields DEF pollGiveUp
    <3> HIDE DEF still
    <3>2. still.fail \in 0..FailBound /\ s.fail >= 2
      BY <1>0, <1>a, <3>1
    <3>3. Consistent(still)
      BY <1>0, <2>0, <3>1, <3>2, StillLost
    <3> QED
      BY <3>1, <3>2, <3>3
  <2>4. CASE hseen = "unavail" /\ ~(s.fail < MaxSbdFail) /\ "UNAVAIL" \notin s.st
    <3>1. pollGiveUp(s) = gone /\ gone.st = (s.st \cup {"UNAVAIL"}) \ {"UNREACH"} /\ gone.fail = MaxSbdFail /\ gone.job = job
      BY <1>0, <1>a, <2>4, StateFields DEF pollGiveUp
    <3>2. JobsAre(TRUE, job) /\ \A j \in HJobs : job[j].at = "host" => s.job[j].at = "host"
      BY <2>0, JobsGivenUp
    <3> HIDE DEF gone, job
    <3>3. Lost(gone.st) /\ StatusIs(gone.st)
      BY <1>0, <3>1 DEF Lost, StatusIs
    <3>4. gone.fail \in 0..FailBound /\ s.fail >= 2
      BY <1>0, <1>a, <3>1
    <3>5. Consistent(gone)
      BY <3>1, <3>2, <3>3, <3>4, StillLost
    <3> QED
      BY <1>a, <2>4, <3>1, <3>2, <3>4, <3>5
  <2> QED
    BY <2>1, <2>2, <2>3, <2>4
<1> QED
  BY <1>0, <1>1, <1>a

-----------------------------------------------------------------------------
LEMMA BelievedNow == Believes <=> Consistent(HNow)
BY StateFields DEF Believes, Consistent, HNow

LEMMA BelievesThen == ASSUME NEW s, Consistent(s), Became(s) PROVE Believes'
BY DEF Believes, Consistent, Became

\* What a step must do besides keeping the invariant.
NewZombie == \E j \in HJobs : hjob'[j].zom /\ ~hjob[j].zom
WithCause == NewZombie => hseen = "unavail" /\ hmiss' >= 2

\* A step that takes the host and its jobs to t, with jobs kept.
LEMMA BecameKept ==
    ASSUME NEW t, HostInv, Consistent(t), KeepsJobs(HNow, t), Became(t), hseen' = hseen
    PROVE  Believes' /\ NoJobOnGoneHost' /\ ~NewZombie
<1>1. Believes'
  BY BelievesThen
<1>2. hjob' = t.job /\ HNow.job = hjob
  BY StateFields DEF Became, HNow
<1>3. NoJobOnGoneHost' /\ ~NewZombie
  BY <1>2 DEF HostInv, NoJobOnGoneHost, HIn, NewZombie, KeepsJobs
<1> QED
  BY <1>1, <1>3

LEMMA HostInitInv == ASSUME NEW sc \in HostScenarios, HostInit(sc) PROVE HostInv
<1> USE HostAssumption, FailBoundFacts
<1>1. HNowhere \in HJobRec /\ HNowhere.at = "none"
  BY DEF HNowhere, HJobRec
<1>2. JobsAre(Lost(hstat), hjob) /\ StatusIs(hstat) /\ ~Lost(hstat) /\ NoJobOnGoneHost
  BY <1>1 DEF HostInit, JobsAre, StatusIs, Lost, NoJobOnGoneHost
<1>3. hfail \in 0..FailBound /\ hfail <= 1 /\ ~(hfail >= 2) /\ HostTypes
  BY DEF HostInit, HostTypes
<1> QED
  BY <1>2, <1>3 DEF HostInit, HostInv, Believes, JobsOnTheirWay, HIn

-----------------------------------------------------------------------------
(* The steps *)

LEMMA StepPollOk ==
    ASSUME HostInv, NEW err, pollSbatchds(err), PollResult(err) \notin {"ERR_UNREACH_SBD", "ERR_FAIL"}
    PROVE  HostInv' /\ WithCause
<1> USE HostAssumption, FailBoundFacts
<1> DEFINE s == HState(NoLim(hstat, PollResult(err)), hfail, hjob)
<1>1. s.st = NoLim(hstat, PollResult(err)) /\ s.fail = hfail /\ s.job = hjob
  BY StateFields
<1>2. Became(pollOk(s)) /\ hseen' = hseen /\ hsbd' = hsbd /\ htold' = htold /\ hreg' = hreg /\ HIn
  BY DEF pollSbatchds
<1> HIDE DEF s
<1>3. StatusIs(s.st) /\ (Lost(s.st) <=> Lost(hstat))
  BY <1>1 DEF HostInv, Believes, StatusIs, Lost, NoLim
<1>4. JobsAre(Lost(s.st), s.job)
  BY <1>1, <1>3 DEF HostInv, Believes, JobsAre
<1>5. Consistent(pollOk(s)) /\ KeepsJobs(s, pollOk(s)) /\ pollOk(s).fail = 0
  BY <1>3, <1>4, PollAnswered
<1>6. KeepsJobs(HNow, pollOk(s))
  BY <1>1, <1>5, StateFields DEF KeepsJobs, HNow
<1>7. Believes' /\ NoJobOnGoneHost' /\ ~NewZombie
  BY <1>2, <1>5, <1>6, BecameKept
<1>8. HostTypes' /\ hfail' = 0
  BY <1>2, <1>5 DEF HostInv, HostTypes, pollSbatchds, Became
<1>9. hneed => ProbeSent
  <2>1. hseen = "ok" => (hneed => ProbeSent)
    BY DEF ProbeSent
  <2>2. hseen \in {"unavail", "sbddown"} /\ ~ProbeSent => PollResult(err) = "ERR_UNREACH_SBD"
    BY DEF PollResult
  <2>3. hseen \in {"ok", "unavail", "sbddown"}
    BY <1>2 DEF HostInv, HostTypes, HIn
  <2> QED
    BY <2>1, <2>2, <2>3
<1>10. JobsOnTheirWay'
  BY <1>2, <1>9 DEF HostInv, JobsOnTheirWay, HIn, pollSbatchds
<1> QED
  BY <1>7, <1>8, <1>10 DEF HostInv, WithCause

LEMMA StepPollFailed ==
    ASSUME HostInv, NEW err, pollSbatchds(err), PollResult(err) \in {"ERR_UNREACH_SBD", "ERR_FAIL"}
    PROVE  HostInv' /\ WithCause
<1> USE HostAssumption, FailBoundFacts
<1> DEFINE s == HState(NoLim(hstat, PollResult(err)), hfail, hjob)
           n == hfail + 1 + Refused(PollErrno(err))
           c == HState(hstat, n, hjob)
           u == pollUnreach(c)
<1>1. NoLim(hstat, PollResult(err)) = hstat
  BY DEF NoLim
<1>2. [s EXCEPT !.fail = @ + 1 + Refused(PollErrno(err))] = c
  BY <1>1 DEF HState
<1>3. /\ Became(pollGiveUp(u)) /\ hseen' = hseen /\ hsbd' = hsbd /\ htold' = htold /\ hreg' = hreg /\ HIn
      /\ hneed' = (hneed /\ TRUE) /\ hprobe' = hprobe
      /\ hmiss' = hmiss + (IF hmiss > MaxSbdFail THEN 0 ELSE 1)
  BY <1>2 DEF pollSbatchds
<1>4. c.st = hstat /\ c.fail = n /\ c.job = hjob
  BY StateFields
<1>5. n \in Nat /\ hfail \in Nat /\ hmiss \in Nat
  BY RefusedType DEF HostInv, Believes, HostTypes
<1> HIDE DEF s, c
<1>6. Counted(u) /\ KeepsJobs(c, u) /\ u.fail = n
  BY <1>4, <1>5, PollFailed DEF HostInv, Believes
<1> HIDE DEF u
<1> DEFINE t == pollGiveUp(u)
<1>7. /\ Consistent(t)
      /\ \A j \in HJobs : t.job[j].at = "host" => u.job[j].at = "host"
      /\ \A j \in HJobs : t.job[j].zom /\ ~u.job[j].zom => hseen = "unavail" /\ u.fail > 2
      /\ t.fail >= 2 => u.fail >= 2
  BY <1>6, CountLookedAt
<1> HIDE DEF t
<1>8. Became(t)
  BY <1>3 DEF t
<1>9. Believes'
  BY <1>7, <1>8, BelievesThen
<1>10. NoJobOnGoneHost'
  BY <1>3, <1>4, <1>6, <1>7, <1>8 DEF NoJobOnGoneHost, HIn, Became, KeepsJobs, HostInv
<1>11. hmiss' \in Nat /\ hmiss' >= 1 /\ (hmiss >= 1 => hmiss' >= 2)
  BY <1>3, <1>5
<1>12. HostTypes' /\ JobsOnTheirWay'
  <2>1. HostTypes'
    BY <1>3, <1>11 DEF HostInv, HostTypes, pollSbatchds
  <2>2. JobsOnTheirWay'
    BY <1>3 DEF HostInv, JobsOnTheirWay, HIn
  <2> QED
    BY <2>1, <2>2
<1>13. NewZombie => hseen = "unavail" /\ n > 2
  BY <1>4, <1>6, <1>7, <1>8 DEF NewZombie, KeepsJobs, Became
<1>14. hseen = "unavail" /\ n > 2 => hfail >= 2
  <2>1. hseen = "unavail" /\ ~ProbeSent => Refused(PollErrno(err)) = 0
    BY DEF PollErrno, Refused
  <2>2. hseen = "unavail" /\ ProbeSent => hfail = 0
    BY DEF ProbeSent
  <2> QED
    BY <1>5, <2>1, <2>2, RefusedType
<1>15. WithCause
  BY <1>11, <1>13, <1>14 DEF WithCause, HostInv
<1> QED
  BY <1>9, <1>10, <1>11, <1>12, <1>15 DEF HostInv

LEMMA StepRequest ==
    ASSUME HostInv, NEW err, Request(err)
    PROVE  HostInv' /\ ~NewZombie
<1> USE HostAssumption, FailBoundFacts
<1> DEFINE t == CASE callSBD(err) = "ERR_NO_ERROR"    -> hStatChangeOk(HNow)
                  [] callSBD(err) = "ERR_UNREACH_SBD" -> hStatChangeUnreach(HNow, err)
                  [] OTHER -> HNow
<1>0. Consistent(HNow) /\ KeepsJobs(HNow, HNow) /\ HNow.fail = hfail
  BY BelievedNow, StateFields DEF HostInv, KeepsJobs, HNow
<1>1. Consistent(t) /\ KeepsJobs(HNow, t) /\ (callSBD(err) = "ERR_NO_ERROR" => t.fail <= 1)
  <2>1. CASE callSBD(err) = "ERR_NO_ERROR"
    BY <1>0, <2>1, ChangeToOk
  <2>2. CASE callSBD(err) = "ERR_UNREACH_SBD"
    BY <1>0, <2>2, ChangeToUnreach
  <2>3. CASE callSBD(err) \notin {"ERR_NO_ERROR", "ERR_UNREACH_SBD"}
    BY <1>0, <2>3
  <2> QED
    BY <2>1, <2>2, <2>3
<1>2. Became(t) /\ hseen' = hseen
  BY DEF Request
<1> HIDE DEF t
<1>3. Believes' /\ NoJobOnGoneHost' /\ ~NewZombie
  BY <1>1, <1>2, BecameKept
<1>4. HostTypes' /\ JobsOnTheirWay'
  BY DEF HostInv, HostTypes, JobsOnTheirWay, HIn, Request
<1>5. hfail' >= 2 => hmiss' >= 1
  <2>1. callSBD(err) # "ERR_NO_ERROR" => hmiss' >= 1
    BY DEF HostInv, HostTypes, Request
  <2>2. callSBD(err) = "ERR_NO_ERROR" => ~(hfail' >= 2)
    <3>1. hfail' = t.fail /\ hfail' \in Nat
      BY <1>2, <1>3 DEF Became, Believes
    <3> QED
      BY <1>1, <3>1
  <2> QED
    BY <2>1, <2>2
<1> QED
  BY <1>3, <1>4, <1>5 DEF HostInv

\* A word of sbatchd: the host is known to answer.
LEMMA StepHeard ==
    ASSUME HostInv, do_statusReq \/ do_restartReq
    PROVE  HostInv' /\ ~NewZombie
<1> DEFINE t == hStatChangeOk(HNow)
<1>0. Consistent(HNow)
  BY BelievedNow DEF HostInv
<1>1. Consistent(t) /\ KeepsJobs(HNow, t) /\ t.fail <= 1
  BY <1>0, ChangeToOk
<1>2. Became(t) /\ hseen' = hseen /\ hscen' = hscen /\ hlim' = hlim /\ hmiss' = 0
  BY DEF do_statusReq, do_restartReq
<1> HIDE DEF t
<1>3. Believes' /\ NoJobOnGoneHost' /\ ~NewZombie
  BY <1>1, <1>2, BecameKept
<1>4. HostTypes'
  BY <1>2 DEF HostInv, HostTypes
<1>5. JobsOnTheirWay'
  BY DEF HostInv, JobsOnTheirWay, HIn, do_statusReq, do_restartReq
<1>6. ~(hfail' >= 2)
  <2>1. hfail' = t.fail /\ hfail' \in Nat
    BY <1>2, <1>3 DEF Became, Believes
  <2> QED
    BY <1>1, <2>1
<1> QED
  BY <1>3, <1>4, <1>5, <1>6 DEF HostInv

LEMMA StepShutdown ==
    ASSUME HostInv, shutdownSbd
    PROVE  HostInv' /\ ~NewZombie
<1> DEFINE r == hStatChangeOk(HNow)
           t == hStatChangeUnreach(r, "NO_ERROR")
<1>0. Consistent(HNow)
  BY BelievedNow DEF HostInv
<1>1. Consistent(r) /\ KeepsJobs(HNow, r)
  BY <1>0, ChangeToOk
<1>2. Became(t) /\ hseen' = hseen
  BY DEF shutdownSbd
<1> HIDE DEF r
<1>3. Consistent(t) /\ KeepsJobs(r, t)
  BY <1>1, ChangeToUnreach
<1> HIDE DEF t
<1>4. KeepsJobs(HNow, t)
  BY <1>1, <1>3 DEF KeepsJobs
<1>5. Believes' /\ NoJobOnGoneHost' /\ ~NewZombie
  BY <1>2, <1>3, <1>4, BecameKept
<1>6. HostTypes' /\ JobsOnTheirWay' /\ hmiss' >= 1
  BY DEF HostInv, HostTypes, JobsOnTheirWay, shutdownSbd
<1> QED
  BY <1>5, <1>6 DEF HostInv

LEMMA StepProbeReply ==
    ASSUME HostInv, NEW ex \in BOOLEAN, doProbeReply(ex)
    PROVE  HostInv' /\ ~NewZombie
<1>1. hstat' = hstat /\ hfail' = hfail /\ hjob' = hjob /\ hseen' = hseen /\ hmiss' = hmiss
  BY DEF doProbeReply
<1>2. JobsOnTheirWay' /\ HostTypes'
  BY DEF HostInv, JobsOnTheirWay, HIn, HostTypes, doProbeReply
<1> QED
  BY <1>1, <1>2 DEF HostInv, Believes, NoJobOnGoneHost, HIn, NewZombie

LEMMA StepStart ==
    ASSUME HostInv, NEW j \in HJobs, StartHere(j)
    PROVE  HostInv' /\ ~NewZombie
<1>1. /\ hstat' = hstat /\ hfail' = hfail /\ hseen' = hseen /\ hmiss' = hmiss
      /\ hjob' = [hjob EXCEPT ![j].at = "host"] /\ HIn /\ hstat = {} /\ hjob[j].at = "none"
  BY DEF StartHere
<1>2. ~Lost(hstat)
  BY <1>1 DEF Lost
<1>3. hjob \in [HJobs -> HJobRec] /\ ~hjob[j].unk
  BY <1>1 DEF HostInv, Believes, JobsAre, HJobRec
<1>4. [hjob[j] EXCEPT !.at = "host"] \in HJobRec /\ ~[hjob[j] EXCEPT !.at = "host"].unk
  BY <1>3 DEF HJobRec
<1>5. hjob' \in [HJobs -> HJobRec] /\ hjob'[j] = [hjob[j] EXCEPT !.at = "host"]
  BY <1>1, <1>3, <1>4
<1>6. \A k \in HJobs : k # j => hjob'[k] = hjob[k]
  BY <1>1, <1>3
<1>7. JobsAre(Lost(hstat), hjob)'
  BY <1>1, <1>2, <1>4, <1>5, <1>6 DEF HostInv, Believes, JobsAre
<1>8. hjob'[j].zom = hjob[j].zom
  BY <1>3, <1>5 DEF HJobRec
<1>9. ~NewZombie
  BY <1>6, <1>8 DEF NewZombie
<1>10. NoJobOnGoneHost'
  BY <1>1 DEF NoJobOnGoneHost, HIn
<1>11. JobsOnTheirWay' /\ HostTypes'
  BY DEF HostInv, JobsOnTheirWay, HIn, HostTypes, StartHere
<1> QED
  BY <1>1, <1>7, <1>9, <1>10, <1>11 DEF HostInv, Believes

LEMMA StepLoad ==
    ASSUME HostInv, getLsbHostLoad
    PROVE  HostInv' /\ ~NewZombie
<1> USE HostAssumption, FailBoundFacts
<1>0. hjob \in [HJobs -> HJobRec] /\ HostTypes /\ hscen' = hscen /\ hlim' = hlim /\ hmiss' = hmiss
  BY DEF HostInv, Believes, JobsAre, getLsbHostLoad
<1>00. ~Lost({}) /\ StatusIs({}) /\ 0 \in 0..FailBound
  BY DEF Lost, StatusIs
<1>1. CASE hlim = "gone" /\ HIn
  <2>1. hseen' = "none" /\ hstat' = {} /\ hfail' = 0 /\ hjob' = migrantHostJobs(hjob)
    BY <1>1 DEF getLsbHostLoad
  <2>2. \A j \in HJobs : /\ migrantHostJobs(hjob)[j] \in HJobRec
                          /\ migrantHostJobs(hjob)[j].at # "host"
                          /\ (migrantHostJobs(hjob)[j].zom => hjob[j].zom)
    BY <1>0 DEF migrantHostJobs, HJobRec, HNowhere
  <2>3. migrantHostJobs(hjob) \in [HJobs -> HJobRec]
    BY <2>2 DEF migrantHostJobs
  <2>4. JobsAre(Lost(hstat), hjob)' /\ NoJobOnGoneHost' /\ ~NewZombie
    BY <2>1, <2>2, <2>3 DEF JobsAre, NoJobOnGoneHost, NewZombie
  <2>5. HostTypes' /\ JobsOnTheirWay'
    BY <1>0, <2>1 DEF HostTypes, JobsOnTheirWay, HIn
  <2> QED
    BY <1>00, <2>1, <2>4, <2>5 DEF HostInv, Believes
<1>2. CASE hlim # "gone" /\ ~HIn
  <2>1. hseen' = hlim /\ hstat' = {} /\ hfail' = 0 /\ hneed' = TRUE /\ hjob' = hjob
    BY <1>2 DEF getLsbHostLoad, addHost
  <2>2. JobsAre(Lost(hstat), hjob)' /\ NoJobOnGoneHost' /\ ~NewZombie
    BY <1>0, <1>2, <2>1 DEF HostInv, JobsAre, NoJobOnGoneHost, NewZombie
  <2>3. HostTypes' /\ JobsOnTheirWay'
    BY <1>0, <1>2, <2>1 DEF HostTypes, JobsOnTheirWay
  <2> QED
    BY <1>00, <2>1, <2>2, <2>3 DEF HostInv, Believes
<1>3. CASE hlim # "gone" /\ HIn
  <2>1. /\ hseen' = hlim /\ hstat' = (IF hlim # "unavail" THEN hstat \ {"NO_LIM"} ELSE hstat)
        /\ hfail' = hfail /\ hjob' = hjob /\ hneed' = hneed /\ hprobe' = hprobe /\ htold' = htold
        /\ hsbd' = hsbd /\ hreg' = hreg
    BY <1>3 DEF getLsbHostLoad
  <2>2. StatusIs(hstat') /\ (Lost(hstat') <=> Lost(hstat))
    BY <2>1 DEF HostInv, Believes, StatusIs, Lost
  <2>3. JobsAre(Lost(hstat'), hjob')
    BY <2>1, <2>2 DEF HostInv, Believes, JobsAre
  <2>4. HostTypes' /\ HIn'
    BY <1>0, <1>3, <2>1 DEF HostTypes, HIn
  <2>5. JobsOnTheirWay' /\ NoJobOnGoneHost' /\ ~NewZombie
    BY <1>3, <2>1, <2>4 DEF HostInv, JobsOnTheirWay, NoJobOnGoneHost, NewZombie
  <2> QED
    BY <1>0, <2>1, <2>2, <2>3, <2>4, <2>5 DEF HostInv, Believes
<1>4. CASE hlim = "gone" /\ ~HIn
  <2>1. UNCHANGED <<hseen, hstat, hfail, hneed, hjob, hprobe, htold, hsbd, hreg>>
    BY <1>4 DEF getLsbHostLoad
  <2> QED
    BY <1>0, <2>1 DEF HostInv, HostTypes, Believes, NoJobOnGoneHost, JobsOnTheirWay, HIn, NewZombie
<1> QED
  BY <1>1, <1>2, <1>3, <1>4

LEMMA StepHostChanges ==
    ASSUME HostInv, HostChanges
    PROVE  HostInv' /\ ~NewZombie
<1>1. UNCHANGED <<hscen, hstat, hfail, hneed, hseen, hjob, hmiss>>
  BY DEF HostChanges
<1>2. HostTypes'
  BY <1>1 DEF HostInv, HostTypes, HostChanges
<1>3. JobsOnTheirWay'
  <2>1. CASE hsbd' = hsbd /\ htold' = htold /\ hreg' = hreg /\ hprobe' = hprobe
    BY <1>1, <2>1 DEF HostInv, JobsOnTheirWay, HIn
  <2>2. CASE /\ hreg' = (IF hsbd = "refuse" THEN TRUE ELSE hreg /\ hsbd' # "refuse")
             /\ htold' = (htold /\ hsbd' # "refuse")
             /\ hprobe' = (IF hsbd' = "refuse" /\ hprobe = "sent" THEN "broken" ELSE hprobe)
    <3>1. CASE hsbd' # "refuse" /\ hsbd # "refuse"
      <4>1. (htold' <=> htold) /\ hprobe' = hprobe /\ (hreg => hreg')
        BY <2>2, <3>1
      <4> QED
        BY <1>1, <3>1, <4>1 DEF HostInv, JobsOnTheirWay, HIn
    <3>2. CASE hsbd' = "refuse" \/ hsbd = "refuse"
      BY <2>2, <3>2 DEF JobsOnTheirWay
    <3> QED
      BY <3>1, <3>2
  <2> QED
    BY <2>1, <2>2 DEF HostChanges
<1> QED
  BY <1>1, <1>2, <1>3 DEF HostInv, Believes, NoJobOnGoneHost, HIn, NewZombie

LEMMA StepRestart ==
    ASSUME HostInv, initHostStat
    PROVE  HostInv' /\ ~NewZombie
<1> USE HostAssumption, FailBoundFacts
<1>1. hjob' = hjob /\ hmiss' = 0 /\ hneed' = TRUE /\ hseen' = hlim
  BY DEF initHostStat, addHost
<1>2. HostTypes' /\ HIn' /\ JobsOnTheirWay' /\ NoJobOnGoneHost' /\ ~NewZombie
  BY <1>1 DEF HostInv, HostTypes, HIn, JobsOnTheirWay, NoJobOnGoneHost, NewZombie, initHostStat
<1>3. JobsAre(Lost(hstat), hjob)
  BY DEF HostInv, Believes
<1>4. CASE \E j \in HJobs : hjob[j].at = "host" /\ hjob[j].unk
  <2>1. hstat' = {"UNREACH"} /\ hfail' = 1
    BY <1>4 DEF initHostStat
  <2>2. JobsAre(TRUE, hjob)
    BY <1>3, <1>4 DEF JobsAre
  <2>3. Lost(hstat') /\ StatusIs(hstat')
    BY <2>1 DEF Lost, StatusIs
  <2>4. JobsAre(Lost(hstat'), hjob')
    BY <1>1, <2>2, <2>3 DEF JobsAre
  <2>5. hfail' \in 0..FailBound /\ ~(hfail' >= 2)
    BY <2>1
  <2> QED
    BY <1>2, <2>3, <2>4, <2>5 DEF HostInv, Believes
<1>5. CASE ~\E j \in HJobs : hjob[j].at = "host" /\ hjob[j].unk
  <2>1. hstat' = {} /\ hfail' = 0
    BY <1>5 DEF initHostStat, addHost
  <2>2. ~Lost(hstat') /\ StatusIs(hstat')
    BY <2>1 DEF Lost, StatusIs
  <2>3. JobsAre(Lost(hstat'), hjob')
    BY <1>1, <1>3, <1>5, <2>2 DEF JobsAre
  <2> QED
    BY <1>1, <1>2, <2>1, <2>2, <2>3 DEF HostInv, Believes
<1> QED
  BY <1>4, <1>5

-----------------------------------------------------------------------------
LEMMA HostStep ==
    ASSUME HostInv, [HostNext]_hvars
    PROVE  HostInv' /\ (WithCause \/ UNCHANGED hvars)
<1>1. CASE Poll
  BY <1>1, StepPollOk, StepPollFailed DEF Poll
<1>2. CASE \E ex \in BOOLEAN : doProbeReply(ex)
  BY <1>2, StepProbeReply DEF WithCause
<1>3. CASE \E err \in ConnectResults : Request(err)
  BY <1>3, StepRequest DEF WithCause
<1>4. CASE shutdownSbd \/ do_statusReq \/ do_restartReq
  BY <1>4, StepShutdown, StepHeard DEF WithCause
<1>5. CASE getLsbHostLoad
  BY <1>5, StepLoad DEF WithCause
<1>6. CASE \E j \in HJobs : StartHere(j)
  BY <1>6, StepStart DEF WithCause
<1>7. CASE HostChanges
  BY <1>7, StepHostChanges DEF WithCause
<1>8. CASE initHostStat
  BY <1>8, StepRestart DEF WithCause
<1>9. CASE UNCHANGED hvars
  BY <1>9 DEF hvars, HostInv, HostTypes, Believes, NoJobOnGoneHost, JobsOnTheirWay, HIn
<1> QED
  BY <1>1, <1>2, <1>3, <1>4, <1>5, <1>6, <1>7, <1>8, <1>9 DEF HostNext

\* The invariant behind the two theorems that follow: mbatchd's belief about
\* the host and its jobs, its count of failures and the polls that are due
\* stay consistent through every handler of mbd.host.c.
THEOREM HostInvariant == HostSpec => []HostInv
<1>1. (\E sc \in HostScenarios : HostInit(sc)) => HostInv
  BY HostInitInv
<1>2. HostInv /\ [HostNext]_hvars => HostInv'
  BY HostStep
<1> QED
  BY <1>1, <1>2, PTL DEF HostSpec

\* Whatever MAX_SBD_FAIL is, a job is UNKWN exactly while its host is held for
\* unreachable or unavailable, no job stays on a host that has left, and a
\* sbatchd that is up without its jobs is going to be sent them.
THEOREM BeliefFollows == HostSpec => []HostsTracked
<1>1. HostInv => HostsTracked
  <2> SUFFICES ASSUME HostInv PROVE HostsTracked
    OBVIOUS
  <2>1. HostTypeOK
    BY DEF HostInv, HostTypes, Believes, StatusIs, JobsAre, HJobRec, HostTypeOK
  <2>2. UnknownIffLost
    BY DEF HostInv, Believes, StatusIs, JobsAre, Lost, UnknownIffLost
  <2>3. NoJobOnGoneHost /\ JobsGetThere
    BY DEF HostInv, JobsOnTheirWay, JobsGetThere
  <2> QED
    BY <2>1, <2>2, <2>3 DEF HostsTracked
<1> QED
  BY <1>1, HostInvariant, PTL

\* A rerunnable job is given up, and may then run elsewhere, only after LIM
\* has called its host unavailable and sbatchd was not heard of in two polls
\* or calls (pollSbatchds): the count it is decided from is set to zero
\* whenever sbatchd is heard, and a count of two has seen a failure.
THEOREM NeverGivenUpHastily == HostSpec => GivenUpWithCause
<1>1. HostInv /\ [HostNext]_hvars => [WithCause]_hvars
  BY HostStep
<1>2. [WithCause]_hvars => [(\E j \in HJobs : hjob'[j].zom /\ ~hjob[j].zom) => hseen = "unavail" /\ hmiss' >= 2]_hvars
  BY DEF WithCause, NewZombie
<1> QED
  BY <1>1, <1>2, HostInvariant, PTL DEF HostSpec, GivenUpWithCause
=============================================================================
