--------------------------- MODULE MCSlotCounters ---------------------------
(***************************************************************************)
(* SlotCounters with one-slot hosts and the workloads of the runs.         *)
(***************************************************************************)
EXTENDS SlotCounters, TLC

bill(q, min, max) == [queue |-> q, min |-> min, max |-> max, once |-> FALSE, excl |-> FALSE]
exclusiveBill(q) == [bill(q, 1, 1) EXCEPT !.excl = TRUE]
workload(ops, does, bills, lockLoad) ==
    [ops |-> ops, does |-> {"bsub"} \cup does, bills |-> bills, lockLoad |-> lockLoad,
     mxj |-> 1]

(* Load stops jobs and lets them go on, with bkill and bswitch. *)
Load == workload(5, {"load", "TERM", "bswitch", "fail"}, {bill("q1", 1, 1)}, TRUE)
(* bstop and bresume, with requests and replies that are lost. *)
StopResume == workload(4, {"SUSP", "RESUME", "bswitch", "lose", "fail"}, {bill("q1", 1, 1)}, FALSE)
(* Parallel jobs that reserve slots. *)
Reserving ==
    workload(5, {"reserve", "SUSP", "RESUME", "TERM", "bswitch", "bmod", "brequeue", "restart"},
             {bill("q1", 1, 1), bill("q1", 2, 2), bill("q2", 2, 2)}, FALSE)
(* An exclusive job on hosts with two slots. *)
Exclusive ==
    [workload(5, {"reserve", "SUSP", "RESUME", "TERM", "brequeue", "restart"},
              {bill("q1", 1, 1), bill("q1", 2, 2), exclusiveBill("q1")}, FALSE)
       EXCEPT !.mxj = 2]
(* Jobs forced to run by brun. *)
Forced == workload(5, {"brun", "TERM", "SUSP", "RESUME"}, {bill("q1", 1, 1)}, FALSE)

(* A pending job modified for one run. *)
Once == workload(3, {"bmod", "TERM"},
                 {bill("q1", 2, 2), [bill("q1", 1, 1) EXCEPT !.once = TRUE]}, FALSE)

MCScenarios == {Load, StopResume, Reserving, Exclusive, Forced}
MCOnce == {Once}

Symmetry == Permutations(Jobs) \cup Permutations(Hosts)
====
