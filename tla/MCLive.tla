------------------------------- MODULE MCLive -------------------------------
(* What must eventually happen, for TLC: one behaviour is that of one        *)
(* component, under the fairness its code justifies; the other components    *)
(* stay in an initial state in which nothing is asked of them.               *)
EXTENDS HostPolling, SuspendControl, ResTasks, NiosTasks, JobDeps, ConfTree, SchedSession, SlotHold

VARIABLE part

W == INSTANCE Workloads
LiveDeps == W!LiveDeps
LiveHosts == {{}}
condsAtStart == [c \in TreeConds |-> c \in {"a", "m"}]
twoFiles == {[files |-> <<f, g>>, env |-> condsAtStart, flips |-> 3] : f, g \in W!ConditionalFiles}
noFile == [files |-> <<>>, env |-> condsAtStart, flips |-> 0]
noDep == CHOOSE sc \in DepScenarios : TRUE
noJobs == [env |-> {}, hosts |-> <<>>, queues |-> <<>>, users |-> <<>>, jobs |-> <<>>]
noHolds == [hosts |-> <<>>, jobs |-> <<>>, kill |-> FALSE]

Pick(p, is, idle) == IF part = p THEN is ELSE idle

MCInit ==
    /\ part \in {"mbatchd", "sbatchd", "res", "nios", "deps", "conf", "session", "hold"}
    /\ HostInit({})
    /\ \E sc \in Pick("sbatchd", W!LiveSuspend, {W!plainJob}) : SuspendInit(sc)
    /\ \E sc \in Pick("res", W!LiveRes, {W!noTask}) : ResInit(sc)
    /\ \E sc \in Pick("nios", W!LiveNios, {W!noRtask}) : NiosInit(sc)
    /\ \E sc \in Pick("deps", DepScenarios, {noDep}) : DepsInit(sc)
    /\ \E sc \in Pick("conf", twoFiles, {noFile}) : TreeInit(sc)
    /\ \E sc \in Pick("session", W!LiveSessions, {noJobs}) : SessionInit(sc)
    /\ \E sc \in Pick("hold", W!LiveHolds, {noHolds}) : SlotHoldInit(sc)

(* A step of one part. *)
InMbatchd(A) == part = "mbatchd" /\ A /\ UNCHANGED <<part, kvars, xvars, nvars, dvars, wvars, svars, rvars>>
InSbatchd(A) == part = "sbatchd" /\ A /\ UNCHANGED <<part, hvars, xvars, nvars, dvars, wvars, svars, rvars>>
InRes(A) == part = "res" /\ A /\ UNCHANGED <<part, hvars, kvars, nvars, dvars, wvars, svars, rvars>>
InNios(A) == part = "nios" /\ A /\ UNCHANGED <<part, hvars, kvars, xvars, dvars, wvars, svars, rvars>>
InDeps(A) == part = "deps" /\ A /\ UNCHANGED <<part, hvars, kvars, xvars, nvars, wvars, svars, rvars>>
InConf(A) == part = "conf" /\ A /\ UNCHANGED <<part, hvars, kvars, xvars, nvars, dvars, svars, rvars>>
InSession(A) == part = "session" /\ A /\ UNCHANGED <<part, hvars, kvars, xvars, nvars, dvars, wvars, rvars>>
InHold(A) == part = "hold" /\ A /\ UNCHANGED <<part, hvars, kvars, xvars, nvars, dvars, wvars, svars>>

MCNext ==
    \/ InMbatchd(HostNext)
    \/ InSbatchd(SuspendNext)
    \/ InRes(ResNext)
    \/ InNios(NiosNext)
    \/ InDeps(DepsNext)
    \/ InConf(TreeNext)
    \/ InSession(SessionNext)
    \/ InHold(SlotHoldNext)

all == <<part, hvars, kvars, xvars, nvars, dvars, wvars, svars, rvars>>

(* Fairness.  mbatchd polls and asks LIM for the hosts; sbatchd's main loop  *)
(* comes round, mbatchd answers it and its timers run, a job that is dying   *)
(* ends; mbatchd's main loop looks at the dependencies and the conditions    *)
(* and schedules; started jobs and tasks go on and the other ends of the     *)
(* connections read.  A behaviour has one part, so fairness of a union with  *)
(* one action of each part is fairness of the action of the part at hand.    *)
StepFairness ==
    /\ SF_all(\/ InSbatchd(SbdLoop(TRUE, FALSE, TRUE, FALSE))
              \/ InConf(~wbusy /\ TreeCheck))
    /\ WF_all(\/ InMbatchd(Poll)
              \/ InSbatchd(do_sigjob)
              \/ InRes(NiosReads)
              \/ InDeps(DependencyPass)
              \/ InConf(TreeStart)
              \/ InSession(SessionStep)
              \/ InHold(StartSession \/ Offer))
    /\ WF_all(\/ InMbatchd(getLsbHostLoad)
              \/ InSbatchd(doSignalJobReply(FALSE))
              \/ InRes(TaskStep(1))
              \/ InConf(wbusy /\ TreeDispatch)
              \/ InSession(1 \in SessHosts /\ IntervalOver(1))
              \/ InHold(1 \in RJobs /\ JobEnds(1)))
    /\ WF_all(\/ InSbatchd(mbdTryResume(TRUE))
              \/ InRes(TaskStep(2))
              \/ InSession(2 \in SessHosts /\ IntervalOver(2))
              \/ InHold(2 \in RJobs /\ JobEnds(2)))
    /\ WF_all(\/ InSbatchd(resigJobs1(TRUE))
              \/ InRes(DetachedStep(1))
              \/ InHold(3 \in RJobs /\ JobEnds(3)))
    /\ WF_all(\/ InSbatchd(ActionEnds(TRUE))
              \/ InRes(DetachedStep(2)))
    /\ WF_all(InSbatchd(kw.p = "dying" /\ ProcessEnds))

(* RES and NIOS come back to their select and go on from it while there is   *)
(* something to do; so do the program, the other RES and the job.            *)
LoopFairness ==
    /\ []<>((part = "res" => xs.pc \in {"top", "exited"}) /\ (part = "nios" => ~NiosBusy))
    /\ []<>((part = "res" => xs.pc # "top") /\ (part = "nios" => ~ProgBusy))
    /\ []<>(part = "nios" => ~ResBusy) /\ []<>(part = "nios" => ~JobBusy)
    /\ []<>(part = "nios" => ~TimeBusy)

LiveSpec == MCInit /\ [][MCNext]_all /\ StepFairness /\ LoopFairness

\* No job that could start waits for ever: a satisfied condition is noticed, a
\* job that can run is dispatched, and one that waits for slots gets them.
WaitingJobsStart == SatisfiedBecomesReady /\ RunnableIsDispatched /\ EveryJobStarts

\* No job or host is left as it is for ever when there is a reason to change
\* it: a host that answers is used again, stopped jobs that nothing holds go
\* on, jobs over their limits end, mbatchd learns of it, and changed
\* conditions of the configuration are followed.
HeldJobsGoOn == HostRecovers /\ NobodyWaits /\ OverLimitEnds /\ MbdLearns /\ ConfFollowsConditions

\* Ends are told: of a task by RES, of a job by NIOS, and nothing of a task is
\* left behind.
EndsReported == TaskEndReported /\ NothingLeft /\ EndIsTold /\ JobEndSeen
=============================================================================
