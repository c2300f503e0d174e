----------------------------- MODULE HostPolling ------------------------------
(***************************************************************************)
(* What mbatchd believes about one server host: the polls of its sbatchd   *)
(* (pollSbatchds, mbd.host.c), the state changes that other calls and      *)
(* reports cause (callSBD, hStatChange), what becomes of its jobs          *)
(* (hostJobs), and migrant hosts, which come and go with LIM's list        *)
(* (getLsbHostLoad, addMigrantHost, rmMigrantHost).                        *)
(*                                                                         *)
(* "seq" is a job without and "rer" one with SUB_RERUNNABLE; both are on   *)
(* this host or on none, or, once a migrant host has gone, on "lost".      *)
(***************************************************************************)
EXTENDS Integers, FiniteSets

CONSTANTS
    HostScenarios,  \* what may happen: subsets of {"migrant", "fail"}
    MaxSbdFail      \* max_sbdFail (MAX_SBD_FAIL of lsb.params)

\* do_Param refuses a value that is not positive.
ASSUME HostAssumption == MaxSbdFail \in Nat \ {0}

VARIABLES
    hscen,      \* the scenario
    hsbd,       \* sbatchd: "up", "refuse" (host up, sbatchd down), "silent"
    hlim,       \* LIM's word: "ok", "sbddown", "unavail", or "gone"
    hstat,      \* hStatus: subset of {"UNREACH", "UNAVAIL", "NO_LIM"}
    hfail,      \* sbdFail
    hneed,      \* HOST_NEEDPOLL
    hseen,      \* limStatus, as of the last getLsbHostLoad; "none": not in hostTab
    hprobe,     \* the probe with the jobs: "none", "sent", or its connection is "broken"
    htold,      \* sbatchd has the jobs and parameters of this mbatchd
    hreg,       \* a sbatchd that started has yet to register
    hjob,       \* job -> [at, unk, zom]
    hmiss       \* history: calls and polls since sbatchd was last heard of

hvars == <<hscen, hsbd, hlim, hstat, hfail, hneed, hseen, hprobe, htold, hreg, hjob, hmiss>>

HJobs == {"seq", "rer"}
HNowhere == [at |-> "none", unk |-> FALSE, zom |-> FALSE]
HIn == hseen # "none"

(***************************************************************************)
(* hostJobs for a transition of the host: its jobs become UNKWN, or known  *)
(* again; when the host is given up, a rerunnable one becomes a zombie     *)
(* there and goes back to the pending list.                                *)
(***************************************************************************)
Mut_hostJobs(trans, job) ==
    [j \in HJobs |->
        IF job[j].at # "host" THEN job[j]
        ELSE CASE trans = "UNREACH_OK" -> [job[j] EXCEPT !.unk = FALSE]
               [] trans = "OK_UNREACH" -> [job[j] EXCEPT !.unk = TRUE]
               [] trans = "UNREACH_UNAVAIL" /\ j = "rer" -> [HNowhere EXCEPT !.zom = TRUE]
               [] OTHER -> job[j]]

hostJobs(trans, job) ==
    [j \in HJobs |->
        IF job[j].at # "host" THEN job[j]
        ELSE CASE trans \in {"UNREACH_OK", "UNAVAIL_OK"} -> [job[j] EXCEPT !.unk = FALSE]
               [] trans = "OK_UNREACH" -> [job[j] EXCEPT !.unk = TRUE]
               [] trans = "UNREACH_UNAVAIL" /\ j = "rer" -> [HNowhere EXCEPT !.zom = TRUE]
               [] OTHER -> job[j]]

\* A host and its jobs, as one value that the handlers transform.
HState(st, fail, job) == [st |-> st, fail |-> fail, job |-> job]
HNow == HState(hstat, hfail, hjob)

Refused(err) == IF err = "REFUSED" THEN 1 ELSE 0

(***************************************************************************)
(* hStatChange(hp, HOST_STAT_OK) and (hp, HOST_STAT_UNREACH).              *)
(***************************************************************************)
hStatChangeOk(s) ==
    CASE "UNREACH" \in s.st -> HState(s.st \ {"UNREACH"}, 0, hostJobs("UNREACH_OK", s.job))
      [] "UNREACH" \notin s.st /\ "UNAVAIL" \in s.st ->
            HState(s.st \ {"UNAVAIL"}, 0, hostJobs("UNAVAIL_OK", s.job))
      [] OTHER -> s

hStatChangeUnreach(s, err) ==
    LET n == s.fail + 1 + Refused(err)
    IN  IF s.st \cap {"UNREACH", "UNAVAIL"} # {} THEN s
        ELSE IF n > 1 THEN HState(s.st \cup {"UNREACH"}, n, hostJobs("OK_UNREACH", s.job))
        ELSE HState(s.st, n, s.job)

\* What a connection to sbatchd comes to: call_server's lsberrno.
ConnectResults ==
    (CASE hsbd = "up" -> {"NO_ERROR"} [] hsbd = "refuse" -> {"REFUSED"} [] OTHER -> {"TIMEOUT"})
        \cup (IF "fail" \in hscen THEN {"OTHER"} ELSE {})

\* The reply code for it: any other error than a refusal or a timeout is ERR_FAIL.
callSBD(err) == CASE err = "NO_ERROR" -> "ERR_NO_ERROR"
                  [] err = "OTHER"    -> "ERR_FAIL"
                  [] OTHER            -> "ERR_UNREACH_SBD"

-----------------------------------------------------------------------------
(***************************************************************************)
(* pollSbatchds(NORMAL_RUN) for this host.  A host whose LIM is down, or   *)
(* whose LIM says sbatchd is down, is probed once; then its failures are   *)
(* counted without another probe.  A host LIM calls fine is probed only    *)
(* when it failed before or has to be sent its jobs.                       *)
(***************************************************************************)
ProbeSent == CASE hseen \in {"unavail", "sbddown"} -> hfail = 0
               [] OTHER -> hfail > 0 \/ hneed

PollResult(err) ==
    CASE ~ProbeSent -> (IF hseen = "ok" THEN "ERR_NO_ERROR" ELSE "ERR_UNREACH_SBD")
      [] ProbeSent /\ hseen = "unavail" /\ callSBD(err) = "ERR_NO_ERROR" -> "ERR_NO_LIM"
      [] OTHER -> callSBD(err)

PollErrno(err) ==
    CASE ProbeSent -> err
      [] ~ProbeSent /\ hseen = "unavail" -> "TIMEOUT"
      [] OTHER -> "REFUSED"

NoLim(st, result) == CASE result = "ERR_NO_LIM" -> st \cup {"NO_LIM"}
                       [] result = "ERR_NO_ERROR" -> st \ {"NO_LIM"}
                       [] OTHER -> st

\* The sbatchd answered, or need not be asked.
pollOk(s) ==
    LET a == IF "UNAVAIL" \in s.st THEN hostJobs("UNAVAIL_OK", s.job) ELSE s.job
        b == IF "UNREACH" \in s.st THEN hostJobs("UNREACH_OK", a) ELSE a
    IN  HState(s.st \ {"UNAVAIL", "UNREACH"}, 0, b)

\* It did not: unreachable after one failure, unavailable after MaxSbdFail of
\* them while LIM is down too.
pollUnreach(s) ==
    IF s.fail > 1 /\ s.st \cap {"UNREACH", "UNAVAIL"} = {}
    THEN HState(s.st \cup {"UNREACH"}, s.fail, hostJobs("OK_UNREACH", s.job)) ELSE s

Mut_pollGiveUp(s) ==
    CASE s.fail < MaxSbdFail -> s
      [] s.fail >= MaxSbdFail /\ "UNAVAIL" \in s.st -> HState(s.st, MaxSbdFail, s.job)
      [] OTHER -> HState((s.st \cup {"UNAVAIL"}) \ {"UNREACH"}, MaxSbdFail,
                         hostJobs("UNREACH_UNAVAIL", s.job))

pollGiveUp(s) ==
    CASE s.fail <= 2 -> s
      [] s.fail > 2 /\ hseen # "unavail" ->
            HState((s.st \cup {"UNREACH"}) \ {"UNAVAIL"}, 1, s.job)
      [] s.fail > 2 /\ hseen = "unavail" /\ s.fail < MaxSbdFail -> s
      [] OTHER -> IF "UNAVAIL" \in s.st THEN HState(s.st, MaxSbdFail, s.job)
                  ELSE HState((s.st \cup {"UNAVAIL"}) \ {"UNREACH"}, MaxSbdFail,
                              hostJobs("UNREACH_UNAVAIL", s.job))

Became(s) == hstat' = s.st /\ hfail' = s.fail /\ hjob' = s.job

pollSbatchds(err) ==
    LET result == PollResult(err)
        ok == result \notin {"ERR_UNREACH_SBD", "ERR_FAIL"}
        s  == HState(NoLim(hstat, result), hfail, hjob)
    IN  /\ HIn
        /\ Became(IF ok THEN pollOk(s)
               ELSE pollGiveUp(pollUnreach([s EXCEPT !.fail = @ + 1 + Refused(PollErrno(err))])))
        /\ hprobe' = IF ProbeSent /\ ok /\ hneed THEN "sent" ELSE hprobe
        /\ hneed' = (hneed /\ ~ok)
        /\ hmiss' = IF ProbeSent /\ ok THEN 0 ELSE hmiss + (IF ok \/ hmiss > MaxSbdFail THEN 0 ELSE 1)
        /\ UNCHANGED <<hscen, hsbd, hlim, hseen, htold, hreg>>

Poll == \E err \in ConnectResults : pollSbatchds(err)

\* doProbeReply: the answer to a probe with the jobs, or its connection breaks.
doProbeReply(exception) ==
    /\ hprobe # "none"
    /\ exception \/ (hprobe = "sent" /\ hsbd = "up")
    /\ hprobe' = "none"
    /\ hneed' = (hneed \/ exception)
    /\ htold' = (htold \/ ~exception)
    /\ UNCHANGED <<hscen, hsbd, hlim, hstat, hfail, hseen, hreg, hjob, hmiss>>

-----------------------------------------------------------------------------
\* Any other request to the sbatchd (start, signal, switch a job).
Request(err) ==
    /\ HIn
    /\ Became(CASE callSBD(err) = "ERR_NO_ERROR"    -> hStatChangeOk(HNow)
             [] callSBD(err) = "ERR_UNREACH_SBD" -> hStatChangeUnreach(HNow, err)
             [] OTHER -> HNow)
    /\ hmiss' = IF callSBD(err) = "ERR_NO_ERROR" THEN 0 ELSE hmiss + (IF hmiss > MaxSbdFail THEN 0 ELSE 1)
    /\ UNCHANGED <<hscen, hsbd, hlim, hneed, hseen, hprobe, htold, hreg>>

\* badmin hshutdown through mbatchd.  The host counts as failed at once.
shutdownSbd ==
    /\ HIn /\ hsbd = "up"
    /\ Became(hStatChangeUnreach(hStatChangeOk(HNow), "NO_ERROR"))
    /\ hsbd' = "refuse" /\ htold' = FALSE /\ hreg' = FALSE /\ hmiss' = 1
    /\ hprobe' = IF hprobe = "sent" THEN "broken" ELSE hprobe
    /\ UNCHANGED <<hscen, hlim, hneed, hseen>>

\* A report of a job: do_statusReq.
do_statusReq ==
    /\ HIn /\ hsbd = "up"
    /\ Became(hStatChangeOk(HNow)) /\ hmiss' = 0
    /\ UNCHANGED <<hscen, hsbd, hlim, hneed, hseen, hprobe, htold, hreg>>

\* A sbatchd that starts asks mbatchd for its jobs; one that mbatchd does not
\* know has to try again.
do_restartReq ==
    /\ HIn /\ hsbd = "up" /\ hreg
    /\ Became(hStatChangeOk(HNow)) /\ hmiss' = 0
    /\ htold' = TRUE /\ hreg' = FALSE
    /\ UNCHANGED <<hscen, hsbd, hlim, hneed, hseen, hprobe>>

-----------------------------------------------------------------------------
\* addHost, for a host of the configuration or a migrant one.
addHost == [need |-> TRUE, st |-> {}, fail |-> 0, seen |-> "ok"]

\* migrantHostJobs: rerunnable jobs are requeued, without a zombie; the others
\* end, and point to lost_and_found from now on.
migrantHostJobs(job) ==
    [j \in HJobs |-> IF job[j].at # "host" THEN job[j]
                     ELSE IF j = "rer" THEN HNowhere ELSE [HNowhere EXCEPT !.at = "lost"]]

\* getLsbHostLoad: LIM's list is read; a host that is new in it is added, one
\* that is no longer in it is removed with its jobs.
getLsbHostLoad ==
    /\ CASE hlim = "gone" /\ HIn ->                          \* rmMigrantHost
              /\ hseen' = "none" /\ hstat' = {} /\ hfail' = 0 /\ hneed' = FALSE
              /\ hjob' = migrantHostJobs(hjob) /\ hprobe' = "none" /\ htold' = FALSE
         [] hlim # "gone" /\ ~HIn ->                         \* addMigrantHost
              /\ hseen' = hlim /\ hstat' = addHost.st /\ hfail' = addHost.fail
              /\ hneed' = addHost.need
              /\ UNCHANGED <<hjob, hprobe, htold>>
         [] hlim # "gone" /\ HIn ->
              /\ hseen' = hlim
              /\ hstat' = IF hlim # "unavail" THEN hstat \ {"NO_LIM"} ELSE hstat
              /\ UNCHANGED <<hfail, hneed, hjob, hprobe, htold>>
         [] OTHER -> UNCHANGED <<hseen, hstat, hfail, hneed, hjob, hprobe, htold>>
    /\ UNCHANGED <<hscen, hsbd, hlim, hreg, hmiss>>

\* A job starts here: not on a host that is down in any way.
StartHere(j) ==
    /\ HIn /\ hstat = {} /\ hseen = "ok" /\ hjob[j].at = "none" /\ ~hjob[j].zom
    /\ hjob' = [hjob EXCEPT ![j].at = "host"]
    /\ UNCHANGED <<hscen, hsbd, hlim, hstat, hfail, hneed, hseen, hprobe, htold, hreg, hmiss>>

\* The host: its sbatchd stops, starts or is cut off, and LIM notices later.
HostChanges ==
    /\ \/ /\ hsbd' \in {"up", "refuse", "silent"} \ {hsbd}
          /\ hreg' = IF hsbd = "refuse" THEN TRUE ELSE hreg /\ hsbd' # "refuse"
          /\ htold' = (htold /\ hsbd' # "refuse")
          /\ hprobe' = IF hsbd' = "refuse" /\ hprobe = "sent" THEN "broken" ELSE hprobe
          /\ UNCHANGED <<hlim, hmiss>>
       \/ /\ hlim' \in ({"ok", "sbddown", "unavail"}
                         \cup (IF "migrant" \in hscen THEN {"gone"} ELSE {})) \ {hlim}
          /\ UNCHANGED <<hsbd, htold, hreg, hprobe, hmiss>>
    /\ UNCHANGED <<hscen, hstat, hfail, hneed, hseen, hjob>>

\* mbatchd restarts: initHostStat makes the host of an UNKWN job unreachable.
initHostStat ==
    /\ "migrant" \notin hscen
    /\ IF \E j \in HJobs : hjob[j].at = "host" /\ hjob[j].unk
       THEN hstat' = {"UNREACH"} /\ hfail' = 1
       ELSE hstat' = addHost.st /\ hfail' = addHost.fail
    /\ hneed' = addHost.need /\ hprobe' = "none" /\ htold' = FALSE /\ hmiss' = 0
    /\ hseen' = hlim
    /\ UNCHANGED <<hscen, hsbd, hlim, hreg, hjob>>

-----------------------------------------------------------------------------
HostInit(sc) ==
    /\ hscen = sc
    /\ hsbd = "up" /\ hlim = "ok"
    /\ hstat = {} /\ hfail = 0 /\ hneed = TRUE /\ hseen = "ok"
    /\ hprobe = "none" /\ htold = FALSE /\ hreg = TRUE /\ hmiss = 0
    /\ hjob = [j \in HJobs |-> HNowhere]

HostNext ==
    \/ Poll
    \/ \E ex \in BOOLEAN : doProbeReply(ex)
    \/ \E err \in ConnectResults : Request(err)
    \/ shutdownSbd \/ do_statusReq \/ do_restartReq
    \/ getLsbHostLoad
    \/ \E j \in HJobs : StartHere(j)
    \/ HostChanges
    \/ initHostStat

HostSpec == (\E sc \in HostScenarios : HostInit(sc)) /\ [][HostNext]_hvars

-----------------------------------------------------------------------------
\* A call counts up to three before pollSbatchds looks at the count.
FailBound == IF MaxSbdFail > 3 THEN MaxSbdFail ELSE 3

HostTypeOK ==
    /\ hscen \in HostScenarios
    /\ hstat \subseteq {"UNREACH", "UNAVAIL", "NO_LIM"}
    /\ hfail \in 0..FailBound
    /\ \A j \in HJobs : hjob[j].at \in {"none", "host", "lost"}

(***************************************************************************)
(* A job of the host is UNKWN exactly while mbatchd holds the host for     *)
(* unreachable or unavailable, and the host is never both: no path through *)
(* polls, calls, reports and restarts leaves a job UNKWN on a host that    *)
(* answers, or counts a lost job as running.                               *)
(***************************************************************************)
UnknownIffLost ==
    /\ ~({"UNREACH", "UNAVAIL"} \subseteq hstat)
    /\ \A j \in HJobs : hjob[j].at = "host" =>
            (hjob[j].unk <=> hstat \cap {"UNREACH", "UNAVAIL"} # {})

(***************************************************************************)
(* A host is given up, and its rerunnable jobs are run elsewhere, only     *)
(* when LIM has called it unavailable and its sbatchd has not been heard   *)
(* of in at least two polls or calls.                                      *)
(***************************************************************************)
GivenUpWithCause ==
    [][(\E j \in HJobs : hjob'[j].zom /\ ~hjob[j].zom) => hseen = "unavail" /\ hmiss' >= 2]_hvars

(***************************************************************************)
(* A job never points to a host record that was freed: when a migrant host *)
(* leaves, its jobs are pending again or belong to lost_and_found.         *)
(***************************************************************************)
NoJobOnGoneHost == \A j \in HJobs : hjob[j].at = "host" => HIn

(***************************************************************************)
(* A sbatchd that is up and does not know the jobs of this mbatchd is      *)
(* asked for: the host needs a poll, or a probe with the jobs is on its    *)
(* way, or the sbatchd has just started and will register by itself.  A    *)
(* poll that fails must keep HOST_NEEDPOLL, and a probe whose connection   *)
(* breaks must set it again.                                               *)
(***************************************************************************)
JobsGetThere == HIn /\ ~htold /\ hsbd = "up" => hneed \/ hprobe # "none" \/ hreg

(***************************************************************************)
(* When the sbatchd stays up and LIM keeps calling the host fine, mbatchd  *)
(* sooner or later takes it for reachable again, and its jobs are known.   *)
(***************************************************************************)
HostRecovers ==
    <>[](hsbd = "up" /\ hlim = "ok" /\ "fail" \notin hscen) => <>[](hstat \cap {"UNREACH", "UNAVAIL"} = {})

\* What mbatchd believes of a host follows what it heard: jobs are unknown
\* just when their host is lost, no job stays on a host that is gone, and a
\* sbatchd that lacks the jobs of its host is sent them (hStatChange,
\* pollSbatchds).
HostsTracked == HostTypeOK /\ UnknownIffLost /\ NoJobOnGoneHost /\ JobsGetThere
=============================================================================
