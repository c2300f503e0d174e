------------------------------ MODULE MCMbatchd ------------------------------
(* mbatchd's own work for TLC: reading the configuration files, polling the  *)
(* sbatchd of a host, scheduling sessions, the choice of the hosts for a     *)
(* job, and holding slots for a job that needs more than are free.  One      *)
(* behaviour is that of one of them; the others keep their first state.      *)
EXTENDS ConfInputs, ConfTree, HostPolling, SchedSession, HostChoice, SlotHold

VARIABLE part

W == INSTANCE Workloads
HostKinds == {{}, {"migrant"}, {"fail"}}
noJobs == [env |-> {}, hosts |-> <<>>, queues |-> <<>>, users |-> <<>>, jobs |-> <<>>]
noHolds == [hosts |-> <<>>, jobs |-> <<>>, kill |-> FALSE]

-----------------------------------------------------------------------------
(* Files of #if lines: nested and unbalanced ones, and defined conditions    *)

condsAtStart == [c \in TreeConds |-> c \in {"a", "m"}]
numbered(f) == [i \in DOMAIN f |-> IF f[i][1] = "text" THEN <<"text", i, f[i][3]>> ELSE f[i]]
upTo(n, S) == UNION {[1..k -> S] : k \in 0..n}
line == <<"text", 1, "line">>
nestings == {<<"if", "a">>, <<"if", "b">>, <<"elif", "b">>, <<"else">>, <<"endif">>, line}
oddities ==
    {<<"if", "a">>, <<"if", "">>, <<"elif", "c">>, <<"elif", "">>, <<"else">>, <<"endif">>, line,
     <<"text", 2, "cont">>, <<"text", 3, "blank">>, <<"define", "n", "a">>, <<"define", "a", "b">>,
     <<"define", "m", "">>, <<"define", "m", "n">>, <<"if", "n">>, <<"if", "m">>}
conditionalFiles ==
    {[files |-> <<numbered(f)>>, env |-> [condsAtStart EXCEPT !["a"] = a, !["b"] = b], flips |-> 0] :
        f \in upTo(3, nestings) \cup {<<<<"if", "a">>>> \o g \o <<<<"endif">>>> : g \in upTo(4, nestings)},
        a, b \in BOOLEAN}
    \cup {[files |-> <<numbered(f)>>, env |-> condsAtStart, flips |-> 0] : f \in upTo(3, oddities)}
noFile == [files |-> <<>>, env |-> condsAtStart, flips |-> 0]

-----------------------------------------------------------------------------
(* Hosts, a queue and up to three jobs to place *)

slots(cpus, max, run, load) == [cpus |-> cpus, max |-> max, run |-> run, load |-> load, mem |-> 2, pre |-> 0]
asks(h, p) == [h |-> h, p |-> p]
anyHosts ==
    [max |-> Inf, hjl |-> Inf, tile |-> 0, one |-> FALSE, asked |-> <<>>, oth |-> -1, member |-> 1..3,
     pack |-> TRUE]
serial ==
    [np |-> 1, mp |-> 1, asked |-> <<>>, oth |-> -1, tile |-> 0, one |-> FALSE, xor |-> <<>>, sel |-> 1..3,
     mem |-> 0, excl |-> FALSE, hist |-> {}]
sized(p) == [serial EXCEPT !.np = p[1], !.mp = p[2]]

hostSets ==
    {<<slots(2, 2, r1, l1), slots(3, 3, r2, 2), slots(2, m3, 0, l3)>> :
        r1 \in {0, 2}, l1 \in {1, 3}, r2 \in {0, 2}, m3 \in 1..2, l3 \in {1, 2}}
fewHostSets == {<<slots(2, 2, 0, 1), [slots(2, 2, r, 1) EXCEPT !.pre = r], slots(2, 2, 1, 2)>> : r \in 0..1}

widths == {<<1, 1>>, <<1, 3>>, <<2, 2>>, <<2, 3>>, <<3, 3>>, <<4, 4>>}
wishes ==
    {<<<<>>, -1>>, <<<<asks(1, FIRST_HOST_PRIORITY), asks(2, 0)>>, -1>>, <<<<asks(3, 2), asks(1, 1)>>, -1>>,
     <<<<asks(3, 2), asks(1, 0)>>, 1>>, <<<<asks(2, 0)>>, 0>>, <<<<asks(2, 0), asks(3, 0)>>, -1>>}
oneJob ==
    {<<[sized(p) EXCEPT !.asked = a[1], !.oth = a[2], !.tile = s[1], !.one = s[2]]>> :
        p \in widths, a \in wishes, s \in {<<0, FALSE>>, <<1, FALSE>>, <<2, FALSE>>, <<0, TRUE>>}}
    \cup {<<[sized(p) EXCEPT !.xor = <<{1, 2}, {3}>>, !.tile = t]>> : p \in widths, t \in {0, 1}}
    \cup {<<[sized(p) EXCEPT !.mem = m, !.sel = {1, 2}]>> : p \in widths, m \in {1, 2}}
jobOfTwo ==
    {[sized(p) EXCEPT !.excl = e, !.one = e, !.asked = a, !.hist = hh] :
        p \in {<<1, 1>>, <<2, 2>>, <<2, 3>>}, e \in BOOLEAN,
        a \in {<<>>, <<asks(1, 0), asks(2, 0)>>}, hh \in {{}, {1}}}
limitedQueues == {anyHosts, [anyHosts EXCEPT !.max = 3, !.hjl = 1]}
choosyQueues ==
    {[anyHosts EXCEPT !.tile = 1], [anyHosts EXCEPT !.pack = FALSE], [anyHosts EXCEPT !.one = TRUE],
     [anyHosts EXCEPT !.asked = <<asks(1, 1)>>, !.oth = 0], [anyHosts EXCEPT !.member = {2, 3}]}

choices ==
    [hosts : hostSets, queue : {anyHosts}, jobs : oneJob]
    \cup [hosts : fewHostSets, queue : limitedQueues \cup choosyQueues, jobs : oneJob]
    \cup [hosts : fewHostSets, queue : limitedQueues, jobs : {<<j, k>> : j, k \in jobOfTwo}]
    \cup [hosts : fewHostSets, queue : {anyHosts}, jobs : {<<j, j, j>> : j \in {sized(p) : p \in widths}}]
noChoice == [hosts |-> <<slots(1, 1, 0, 1)>>, queue |-> anyHosts, jobs |-> <<>>]

(* The sessions start as the proofs about them suppose. *)
ASSUME SessionScenarios == \A sc \in W!Sessions \cup {noJobs} : SessionScenario(sc)

-----------------------------------------------------------------------------
Pick(p, is, idle) == IF part = p THEN is ELSE idle

MCInit ==
    /\ part \in {"batch", "queues", "conditions", "poll", "session", "choice", "hold"}
    /\ \E p \in Pick("batch", filePlans, {<<>>}) : BatchConfInit(p)
    /\ \E f \in Pick("queues", queueFiles, {once(<<>>, queue, noThresholds)}) : QueueConfInit(f)
    /\ \E sc \in Pick("conditions", conditionalFiles, {noFile}) : TreeInit(sc)
    /\ \E sc \in Pick("poll", HostScenarios, {{}}) : HostInit(sc)
    /\ \E sc \in Pick("session", W!Sessions, {noJobs}) : SessionInit(sc)
    /\ \E sc \in Pick("choice", choices, {noChoice}) : ChoiceInit(sc)
    /\ \E sc \in Pick("hold", W!Holds, {noHolds}) : SlotHoldInit(sc)

MCNext ==
    /\ UNCHANGED part
    /\ \/ part = "batch" /\ BatchConfNext /\ UNCHANGED <<qvars, wvars, hvars, svars, cvars, rvars>>
       \/ part = "queues" /\ QueueConfNext /\ UNCHANGED <<bvars, wvars, hvars, svars, cvars, rvars>>
       \/ part = "conditions" /\ TreeNext /\ UNCHANGED <<bvars, qvars, hvars, svars, cvars, rvars>>
       \/ part = "poll" /\ HostNext /\ UNCHANGED <<bvars, qvars, wvars, svars, cvars, rvars>>
       \/ part = "session" /\ SessionNext /\ UNCHANGED <<bvars, qvars, wvars, hvars, cvars, rvars>>
       \/ part = "choice" /\ ChoiceNext /\ UNCHANGED <<bvars, qvars, wvars, hvars, svars, rvars>>
       \/ part = "hold" /\ SlotHoldNext /\ UNCHANGED <<bvars, qvars, wvars, hvars, svars, cvars>>

MCSpec == MCInit /\ [][MCNext]_<<part, bvars, qvars, wvars, hvars, svars, cvars, rvars>>

\* Steps that take something away have their cause: a host is given up only
\* after polls that failed, a job reference that a session kept is harmless
\* after the job has gone, and held slots are yielded only to backfilling.
StepsJustified == GivenUpWithCause /\ StaleReferenceHarmless /\ YieldedOnlyToBackfill
=============================================================================
