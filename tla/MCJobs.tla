------------------------------- MODULE MCJobs -------------------------------
(* A job on its way, for TLC: the protocol of mbatchd and sbatchd, stopping  *)
(* and resuming, RES and NIOS that serve its tasks, the conditions it waits  *)
(* for.  One behaviour is that of one of them; the others keep their first   *)
(* state.                                                                    *)
EXTENDS JobProtocol, SuspendControl, ResTasks, NiosTasks, JobDeps, DepParse, TLC

VARIABLE part

W == INSTANCE Workloads
HostSymmetry == Permutations(Hosts)
DepWorkloads == W!DepWorkloads
DepExpressions == W!DepExpressions
noDep == CHOOSE sc \in DepScenarios : TRUE

Pick(p, is, idle) == IF part = p THEN is ELSE idle

MCInit ==
    /\ part \in {"protocol", "sbatchd", "res", "nios", "deps", "parse"}
    /\ Init
    /\ \E sc \in Pick("sbatchd", W!SuspendScenarios, {W!plainJob}) : SuspendInit(sc)
    /\ \E sc \in Pick("res", W!ResScenarios, {W!noTask}) : ResInit(sc)
    /\ \E sc \in Pick("nios", W!NiosScenarios, {W!noRtask}) : NiosInit(sc)
    /\ \E sc \in Pick("deps", DepScenarios, {noDep}) : DepsInit(sc)
    /\ \E i \in Pick("parse", DepInputs, {<<>>}) : DepParseInit(i)

MCNext ==
    /\ UNCHANGED part
    /\ \/ part = "protocol" /\ Next /\ UNCHANGED <<kvars, xvars, nvars, dvars, pvars>>
       \/ part = "sbatchd" /\ SuspendNext /\ UNCHANGED <<vars, xvars, nvars, dvars, pvars>>
       \/ part = "res" /\ ResNext /\ UNCHANGED <<vars, kvars, nvars, dvars, pvars>>
       \/ part = "nios" /\ NiosNext /\ UNCHANGED <<vars, kvars, xvars, dvars, pvars>>
       \/ part = "deps" /\ DepsNext /\ UNCHANGED <<vars, kvars, xvars, nvars, pvars>>
       \/ part = "parse" /\ DepParseNext /\ UNCHANGED <<vars, kvars, xvars, nvars, dvars>>

MCSpec == MCInit /\ [][MCNext]_<<part, vars, kvars, xvars, nvars, dvars, pvars>>
=============================================================================
