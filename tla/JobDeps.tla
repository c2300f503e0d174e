------------------------------- MODULE JobDeps --------------------------------
(***************************************************************************)
(* Job dependencies in mbatchd: the evaluation of a parsed condition       *)
(* (evalDepCond, mbd.dep.c), the pass over the job tree that marks pending *)
(* jobs ready (checkJgrpDep, mbd.jgrp.c), and the lifetime of the records  *)
(* a condition points to: job records with numRef and JOB_STAT_VOID, and   *)
(* the array node with numRef and JGRP_VOID.                               *)
(*                                                                         *)
(* "A" is a plain job, "R" an array with the elements "R1" and "R2"; the   *)
(* job with the condition is "B", or the array "S" with "S1" and "S2".     *)
(* Every job is submitted at most once, so its name is its record.         *)
(***************************************************************************)
EXTENDS Integers, Sequences, FiniteSets, SequencesExt

CONSTANTS
    DepScenarios,   \* records [cond, on, dep, env]: the condition, the jobs it is
                    \* about ("A", "R"), the job that has it ("B" or "S"), and
                    \* what else may happen: "PRE" a pre-exec, "done" and "err"
                    \* a post-exec that ends, "brun" and "brequeue", "rename", "remove"
    MaxDepTime,     \* bound on the clock, in seconds
    MaxRequeues     \* bound on brequeue and brun

VARIABLES
    djob,       \* the job records (struct jData)
    dtree,      \* the children of groupRoot, left to right
    dcur,       \* treeObserverDep->entry
    dclock,     \* time(0)
    dshare,     \* numRef of the jShared that holds the condition; 0: freed
    dnode,      \* incarnations of R's array node: [st, ref]
    dnum,       \* the incarnation a num condition points to; 0: NULL
    dlist,      \* depJobList of a one-to-one condition
    drq,        \* requeues so far
    dsc,        \* the scenario
    dwasInv,    \* history: jobs found INVALID, nothing requeued since
    dwasTrue    \* history: jobs found TRUE since they were last (re)queued

dhist == <<dwasInv, dwasTrue>>
dvars == <<djob, dtree, dcur, dclock, dshare, dnode, dnum, dlist, drq, dsc, dhist>>

dcond == dsc.cond

Heads       == {"R", "S"}
ElemsOf     == [R |-> <<"R1", "R2">>, S |-> <<"S1", "S2">>]
Runnable    == {"A", "R1", "R2", "B", "S1", "S2"}
DepJobIds   == Runnable \cup Heads
Index       == [R1 |-> 1, R2 |-> 2, S1 |-> 1, S2 |-> 2, A |-> 0, B |-> 0]
HeadOf(j)   == CASE j \in {"R1", "R2"} -> "R" [] j \in {"S1", "S2"} -> "S" [] OTHER -> "none"
Dependents  == {"B", "S", "S1", "S2"}

NewRecord ==
    [st |-> "PEND", post |-> "no", code |-> 0, start |-> 0, end |-> 0, succ |-> FALSE,
     ready |-> FALSE, inval |-> FALSE, ref |-> 0, mem |-> "live"]
NoRecord == [NewRecord EXCEPT !.st = "none", !.mem = "none"]

IsPend(r)     == r.st = "PEND"
IsFinish(r)   == r.st \in {"DONE", "EXIT"}
KnownJobs(job, j) == job[j].mem = "live"        \* getJobData(j) finds it

-----------------------------------------------------------------------------
opExpr(op, a, b) ==
    CASE op = "LT" -> a < b [] op = "LE" -> a <= b [] op = "GT" -> a > b
      [] op = "GE" -> a >= b [] op = "EQ" -> a = b [] op = "NE" -> a # b
      [] OTHER -> TRUE

\* The test of one job r against a leaf of the condition of the job me.
evalJobDep(leaf, r, me) ==
    CASE leaf.type = "DONE" -> me.end < r.end /\ (r.st = "DONE" \/ (IsPend(r) /\ r.succ))
      [] leaf.type = "POST_DONE" -> me.end < r.end /\ r.st = "DONE" /\ r.post = "done"
      [] leaf.type = "POST_ERR"  -> me.end < r.end /\ r.st = "DONE" /\ r.post = "err"
      [] leaf.type = "EXIT" -> /\ me.end < r.end
                               /\ opExpr(leaf.cmp, r.code, leaf.n)
                               /\ r.st = "EXIT" \/ (IsPend(r) /\ ~r.succ)
      [] leaf.type = "ENDED" -> me.end < r.end /\ (IsFinish(r) \/ IsPend(r))
      [] OTHER -> r.start > 0 /\ me.end < r.start /\ r.st # "PRE"

getCounterOfDep(type, rs) ==
    LET count(S) == Cardinality({i \in DOMAIN rs : rs[i].st \in S})
    IN  CASE type = "NUMPEND"  -> count({"PEND"})
          [] type = "NUMRUN"   -> count({"PRE", "RUN"})
          [] type = "NUMEXIT"  -> count({"EXIT"})
          [] type = "NUMDONE"  -> count({"DONE"})
          [] type = "NUMSTART" -> Len(rs) - count({"PEND"})
          [] OTHER             -> count({"EXIT", "DONE"})

\* The records a job leaf tests for the job i: the job itself, the elements of
\* the array listed when the condition was parsed, or the element with the
\* index of the job: looked up in depJobList when it is not in the hash table,
\* where the search ends on some other element when the index is not listed.
TestedJobs(leaf, i) ==
    IF leaf.job \notin Heads THEN <<leaf.job>>
    ELSE IF leaf.oneToOne
         THEN <<CHOOSE e \in {"R1", "R2"} :
                    LET same == CHOOSE x \in {"R1", "R2"} : Index[x] = Index[i]
                    IN  IF KnownJobs(djob, same) \/ same \in dlist THEN e = same ELSE e \in dlist>>
         ELSE SelectSeq(ElemsOf[leaf.job], LAMBDA e : Index[e] \in leaf.idx)

\* The first tested job that is not satisfied decides; a void or a finished job
\* can no longer satisfy the leaf, except a DONE one whose post-exec goes on.
evalLeaf(leaf, i) ==
    LET bad == SelectSeq(TestedJobs(leaf, i),
                         LAMBDA t : ~evalJobDep(leaf, djob[t], djob[i]))
        hopeless(r) == \/ r.mem = "void"
                       \/ /\ IsFinish(r)
                          /\ ~(r.st = "DONE" /\ r.post = "no"
                               /\ leaf.type \in {"POST_DONE", "POST_ERR"})
    IN  IF bad = <<>> THEN "TRUE" ELSE IF hopeless(djob[Head(bad)]) THEN "INVALID" ELSE "FALSE"

LiveElems(h) == SelectSeq(ElemsOf[h], LAMBDA e : KnownJobs(djob, e))

evalNum(leaf) ==
    IF dnum = 0 THEN "INVALID"
    ELSE IF dnode[dnum].st = "void" THEN "INVALID"
    ELSE
        LET rs == [k \in 1..Len(LiveElems("R")) |-> djob[LiveElems("R")[k]]]
        IN  IF opExpr(leaf.cmp, getCounterOfDep(leaf.type, rs), leaf.n) THEN "TRUE" ELSE "FALSE"

\* evalDepCond for the job i: a value, and whether a num leaf was evaluated
\* (it drops its reference to a void array node).
RECURSIVE evalDepCond(_, _)
evalDepCond(c, i) ==
    LET L == evalDepCond(c.l, i)
        R == evalDepCond(c.r, i)
        both(v) == [v |-> v, num |-> L.num \/ R.num]
    IN  CASE c.op = "JOB" -> [v |-> evalLeaf(c, i), num |-> FALSE]
          [] c.op = "NUM" -> [v |-> evalNum(c), num |-> TRUE]
          [] c.op = "NOT" -> [L EXCEPT !.v = IF L.v = "TRUE" THEN "FALSE" ELSE "TRUE"]
          [] c.op = "OR"  -> CASE L.v = "TRUE"  -> L
                               [] L.v = "FALSE" -> both(IF R.v = "TRUE" THEN "TRUE" ELSE "FALSE")
                               [] OTHER         -> both(R.v)
          [] OTHER        -> CASE L.v = "INVALID" -> L
                               [] L.v = "FALSE"   -> both(IF R.v = "INVALID" THEN "INVALID"
                                                          ELSE "FALSE")
                               [] OTHER           -> both(R.v)

-----------------------------------------------------------------------------
\* The references a condition holds: newNode counts its job, and matchJobs
\* every element of an array it lists.
RECURSIVE Leafs(_)
Leafs(c) == CASE c.op \in {"JOB", "NUM"} -> <<c>>
              [] c.op = "NOT" -> Leafs(c.l)
              [] OTHER -> Leafs(c.l) \o Leafs(c.r)

JobLeafs == SelectSeq(Leafs(dcond), LAMBDA c : c.op = "JOB")
HasNum   == \E k \in DOMAIN Leafs(dcond) : Leafs(dcond)[k].op = "NUM"

Listed(leaf, list) ==
    IF leaf.job \notin Heads THEN {}
    ELSE IF leaf.oneToOne THEN list
    ELSE {e \in ToSet(ElemsOf[leaf.job]) : Index[e] \in leaf.idx}

RefsTo(j, list) ==
    Cardinality({k \in DOMAIN JobLeafs : JobLeafs[k].job = j})
        + Cardinality({k \in DOMAIN JobLeafs : j \in Listed(JobLeafs[k], list)})

\* destroyjDataRef, n times: a void record without references is freed.
destroyjDataRef(r, n) ==
    [r EXCEPT !.ref = @ - n,
              !.mem = IF @ = "void" /\ r.ref - n <= 0 /\ n > 0 THEN "freed" ELSE @]

\* freeJData drops the record's share of the condition first, and with the last
\* share the references of the condition; then the record is freed, or is void
\* as long as somebody points to it.
freeJData(job, share, j) ==
    LET last == j \in Dependents /\ share = 1
        dropped == [i \in DepJobIds |->
                      IF last THEN destroyjDataRef(job[i], RefsTo(i, dlist)) ELSE job[i]]
    IN  [job |-> [dropped EXCEPT ![j].mem = IF dropped[j].ref <= 0 THEN "freed" ELSE "void"],
         share |-> IF j \in Dependents THEN share - 1 ELSE share]

\* treeClip moves the cursor of the dependency pass off the clipped node, to
\* the next sibling, or to NULL when it is the last one.
treeNextSib(n) ==
    LET right == {k \in DOMAIN dtree : k > 1 /\ dtree[k - 1] = n}
    IN  IF right = {} THEN "null" ELSE dtree[CHOOSE k \in right : TRUE]

Mut_treeObserverEvalDep(n) == dcur

treeObserverEvalDep(n) == IF dcur = n THEN treeNextSib(n) ELSE dcur

treeClip(n) ==
    /\ dtree' = SelectSeq(dtree, LAMBDA m : m # n)
    /\ dcur' = treeObserverEvalDep(n)

\* freeJarray: the array node is freed, or is JGRP_VOID while a condition
\* refers to it.
freeJarray(node) == [node EXCEPT !.st = IF node.ref <= 0 THEN "freed" ELSE "void"]

-----------------------------------------------------------------------------
\* putOntoTree: a new last child of groupRoot that refers to the job; a job
\* without a condition is ready at once.
putOntoTree(r, ready) == [r EXCEPT !.ref = @ + 1, !.ready = ready]

\* A job without a condition: handleNewJob, handleNewJobArray.
SubmitPlain(n) ==
    /\ n \in dsc.on /\ djob[n].st = "none"
    /\ LET new == {n} \cup (IF n \in Heads THEN ToSet(ElemsOf[n]) ELSE {})
       IN  djob' = [j \in DepJobIds |->
                      IF j = n THEN putOntoTree(NewRecord, TRUE)
                      ELSE IF j \in new THEN [NewRecord EXCEPT !.ready = TRUE]
                      ELSE djob[j]]
    /\ dtree' = Append(dtree, n)
    /\ dnode' = IF n = "R" THEN <<[st |-> "active", ref |-> 0]>> ELSE dnode
    /\ UNCHANGED <<dcur, dclock, dshare, dnum, dlist, drq, dsc, dhist>>

\* A one-to-one condition lists the elements of the array there are.
OneToOneList == {e \in {"R1", "R2"} : KnownJobs(djob, e)}

\* The job with the condition.  matchJobs finds every job the condition names,
\* and every listed element, or the submission is refused.
SubmitDependent(n) ==
    /\ n = dsc.dep /\ djob[n].st = "none"
    /\ \A k \in DOMAIN JobLeafs :
            \A j \in {JobLeafs[k].job} \cup Listed(JobLeafs[k], {}) : KnownJobs(djob, j)
    /\ HasNum => KnownJobs(djob, "R")
    /\ dlist' = OneToOneList
    /\ LET elems == IF n \in Heads THEN ToSet(ElemsOf[n]) ELSE {}
           put(j) == IF j = n THEN putOntoTree(NewRecord, FALSE)
                     ELSE IF j \in elems THEN NewRecord ELSE djob[j]
       IN  /\ djob' = [j \in DepJobIds |-> [put(j) EXCEPT !.ref = @ + RefsTo(j, dlist')]]
           /\ dshare' = 1 + Cardinality(elems)
    /\ dtree' = Append(dtree, n)
    /\ dnum' = IF HasNum THEN Len(dnode) ELSE 0
    /\ dnode' = IF HasNum THEN [dnode EXCEPT ![Len(dnode)].ref = @ + 1] ELSE dnode
    /\ UNCHANGED <<dcur, dclock, drq, dsc, dhist>>

\* checkJgrpDep from the cursor over the next k nodes of the tree; the time
\* limit may stop it after any of them.
PassFrom == IF dcur \in {"root", "null"} THEN 1 ELSE CHOOSE p \in DOMAIN dtree : dtree[p] = dcur

NextEntry(p) == IF p <= Len(dtree) THEN dtree[p] ELSE "root"

\* The pending jobs of the next k nodes, and what their conditions evaluate to.
Mut_Visited(k) ==
    LET elems(n) == IF n \in Heads THEN ToSet(LiveElems(n)) ELSE {n}
    IN  {j \in UNION {elems(dtree[p]) : p \in PassFrom..PassFrom + k - 2} : IsPend(djob[j])}

Visited(k) ==
    LET elems(n) == IF n \in Heads THEN ToSet(LiveElems(n)) ELSE {n}
    IN  {j \in UNION {elems(dtree[p]) : p \in PassFrom..PassFrom + k - 1} : IsPend(djob[j])}

Verdicts(seen) ==
    [j \in seen |-> IF j \in Dependents THEN evalDepCond(dcond, j) ELSE [v |-> "TRUE", num |-> FALSE]]

Applied(val) ==
    LET found(v) == {j \in DOMAIN val : val[j].v = v}
        drops == \E j \in DOMAIN val : val[j].num /\ dnum > 0 /\ dnode[dnum].st = "void"
    IN  /\ djob' = [j \in DepJobIds |->
                      IF j \in DOMAIN val
                      THEN [djob[j] EXCEPT !.ready = val[j].v = "TRUE",
                                           !.inval = @ \/ val[j].v = "INVALID"]
                      ELSE djob[j]]
        /\ dnode' = IF drops THEN [dnode EXCEPT ![dnum].ref = @ - 1, ![dnum].st = "freed"]
                    ELSE dnode
        /\ dnum' = IF drops THEN 0 ELSE dnum
        /\ dwasInv' = dwasInv \cup found("INVALID")
        /\ dwasTrue' = dwasTrue \cup found("TRUE")

checkJgrpDep(k) ==
    /\ PassFrom + k - 1 <= Len(dtree)
    /\ Applied(Verdicts(Visited(k)))
    /\ dcur' = NextEntry(PassFrom + k)
    /\ UNCHANGED <<dtree, dclock, dshare, dlist, drq, dsc>>

-----------------------------------------------------------------------------
\* What happens to jobs meanwhile.  Only a ready job whose condition has not
\* been found invalid is dispatched (readyToDisp).
readyByDeps(j) == IsPend(djob[j]) /\ djob[j].ready /\ ~djob[j].inval

OnlyJob(j, r) ==
    /\ djob' = [djob EXCEPT ![j] = r]
    /\ UNCHANGED <<dtree, dcur, dclock, dshare, dnode, dnum, dlist, dsc>>

Dispatch(j, st) ==
    /\ st \in {"RUN"} \cup dsc.env
    /\ KnownJobs(djob, j) /\ readyByDeps(j)
    /\ OnlyJob(j, [djob[j] EXCEPT !.st = st, !.start = dclock])
    /\ UNCHANGED <<drq, dhist>>

PreExecDone(j) ==
    /\ KnownJobs(djob, j) /\ djob[j].st = "PRE"
    /\ OnlyJob(j, [djob[j] EXCEPT !.st = "RUN"])
    /\ UNCHANGED <<drq, dhist>>

\* log_newstatus stamps endTime.
Finish(j, st) ==
    /\ KnownJobs(djob, j) /\ djob[j].st \in {"PRE", "RUN"}
    /\ st = "DONE" => djob[j].st = "RUN"
    /\ OnlyJob(j, [djob[j] EXCEPT !.st = st, !.end = dclock, !.code = IF st = "EXIT" THEN 1 ELSE 0])
    /\ UNCHANGED <<drq, dhist>>

PostExec(j, res) ==
    /\ res \in dsc.env
    /\ KnownJobs(djob, j) /\ djob[j].st = "DONE" /\ djob[j].post = "no"
    /\ OnlyJob(j, [djob[j] EXCEPT !.post = res])
    /\ UNCHANGED <<drq, dhist>>

\* handleRequeueJob.  brequeue and REQUEUE_EXIT reset both times, brun of a
\* finished job does not.
handleRequeueJob(j, reset) ==
    /\ (IF reset THEN "brequeue" ELSE "brun") \in dsc.env
    /\ KnownJobs(djob, j) /\ IsFinish(djob[j]) /\ drq < MaxRequeues
    /\ OnlyJob(j, [djob[j] EXCEPT !.succ = djob[j].st = "DONE", !.st = "PEND", !.post = "no",
                                  !.ready = FALSE,
                                  !.start = IF reset THEN 0 ELSE @,
                                  !.end   = IF reset THEN 0 ELSE @])
    /\ drq' = drq + 1
    /\ dwasInv' = {}
    /\ dwasTrue' = dwasTrue \ {j}

\* clean removes a finished job; a DONE one only when its post-exec is over.
\* The last element takes the array with it.
removeJobDep(j) ==
    /\ "remove" \in dsc.env
    /\ KnownJobs(djob, j) /\ IsFinish(djob[j])
    /\ djob[j].st = "DONE" => djob[j].post # "no"
    /\ LET h == HeadOf(j)
           lastElem == h # "none" /\ LiveElems(h) = <<j>>
           gone == IF h = "none" THEN j ELSE h       \* whose tree node goes
           noHead == IF ~lastElem THEN [job |-> djob, share |-> dshare]
                     ELSE LET f == freeJData(djob, dshare, h)
                          IN  [f EXCEPT !.job[h] = destroyjDataRef(f.job[h], 1)]
           untied == IF h = "none" THEN [noHead EXCEPT !.job[j].ref = @ - 1] ELSE noHead
           end == freeJData(untied.job, untied.share, j)
           dropNum == end.share = 0 /\ dshare > 0 /\ dnum > 0
       IN  /\ djob' = end.job
           /\ dshare' = end.share
           /\ IF h = "none" \/ lastElem THEN treeClip(gone) ELSE UNCHANGED <<dtree, dcur>>
           /\ dnode' = IF lastElem /\ h = "R"
                       THEN [dnode EXCEPT ![Len(dnode)] = freeJarray(@)]
                       ELSE IF dropNum
                       THEN [dnode EXCEPT ![dnum] =
                                [@ EXCEPT !.ref = @ - 1, !.st = IF @ = "void" THEN "freed" ELSE @]]
                       ELSE dnode
           /\ dnum' = IF dropNum THEN 0 ELSE dnum
    /\ UNCHANGED <<dclock, dlist, drq, dsc, dhist>>

\* bmod -J: the node is clipped and freed, and a new one put at the end.
RenameNode(n) ==
    /\ "rename" \in dsc.env
    /\ n \in ToSet(dtree) \ Dependents /\ Len(dnode) < 2
    /\ djob' = [djob EXCEPT ![n].ref = @ - 1 + 1]
    /\ dtree' = Append(SelectSeq(dtree, LAMBDA m : m # n), n)
    /\ dcur' = treeObserverEvalDep(n)
    /\ dnode' = IF n = "R"
                THEN Append([dnode EXCEPT ![1] = freeJarray(@)], [st |-> "active", ref |-> 0])
                ELSE dnode
    /\ UNCHANGED <<dclock, dshare, dnum, dlist, drq, dsc, dhist>>

DepTick ==
    /\ dclock < MaxDepTime
    /\ dclock' = dclock + 1
    /\ UNCHANGED <<djob, dtree, dcur, dshare, dnode, dnum, dlist, drq, dsc, dhist>>

-----------------------------------------------------------------------------
DepsInit(sc) ==
    /\ dsc = sc
    /\ djob = [j \in DepJobIds |-> NoRecord]
    /\ dtree = <<>> /\ dcur = "root" /\ dclock = 1
    /\ dshare = 0 /\ dnode = <<>> /\ dnum = 0 /\ dlist = {} /\ drq = 0
    /\ dwasInv = {} /\ dwasTrue = {}

DependencyPass == \E k \in 1..Len(dtree) : checkJgrpDep(k)

DepsNext ==
    \/ \E n \in {"A", "R"} : SubmitPlain(n)
    \/ \E n \in {"B", "S"} : SubmitDependent(n)
    \/ DependencyPass
    \/ \E j \in Runnable :
        \/ \E st \in {"PRE", "RUN"} : Dispatch(j, st)
        \/ PreExecDone(j)
        \/ \E st \in {"DONE", "EXIT"} : Finish(j, st)
        \/ \E res \in {"done", "err"} : PostExec(j, res)
        \/ \E reset \in BOOLEAN : handleRequeueJob(j, reset)
        \/ removeJobDep(j)
    \/ \E n \in {"A", "R"} : RenameNode(n)
    \/ DepTick

-----------------------------------------------------------------------------
DepsTypeOK ==
    /\ \A j \in DepJobIds :
        /\ djob[j].st \in {"none", "PEND", "PRE", "RUN", "DONE", "EXIT"}
        /\ djob[j].mem \in {"none", "live", "void", "freed"}
        /\ djob[j].start \in 0..MaxDepTime /\ djob[j].end \in 0..MaxDepTime
    /\ ToSet(dtree) \subseteq {"A", "R", "B", "S"}
    /\ dclock \in 1..MaxDepTime /\ drq \in 0..MaxRequeues
    /\ dsc \in DepScenarios

(***************************************************************************)
(* numRef of a job record is exactly the number of tree nodes and of nodes *)
(* and lists of conditions that point to it, so evalDepCond never reads a  *)
(* freed record, a void record is kept just as long as a condition points  *)
(* to it, and the same for the array node of a num condition.              *)
(***************************************************************************)
DepRefsExact ==
    /\ \A j \in DepJobIds :
        LET held == IF dshare > 0 THEN RefsTo(j, dlist) ELSE 0
            node == IF j \in ToSet(dtree) THEN 1 ELSE 0
        IN  CASE djob[j].mem = "live" -> djob[j].ref = held + node
              [] djob[j].mem = "void" -> djob[j].ref = held /\ held > 0
              [] OTHER -> held + node = 0
    /\ dnum > 0 => dnode[dnum].st # "freed" /\ dnode[dnum].ref = 1

(***************************************************************************)
(* The cursor that checkJgrpDep keeps between two passes never points to a *)
(* node that has been taken off the tree, whatever is renamed or removed   *)
(* while the pass is suspended by its time limit.                          *)
(***************************************************************************)
CursorInTree == dcur \in {"root", "null"} \cup ToSet(dtree)

(***************************************************************************)
(* A verdict of DP_INVALID is final: as long as no job is requeued, a      *)
(* condition found invalid cannot become true, so the flag                 *)
(* JFLAG_DEPCOND_INVALID, which no later pass clears, loses nothing.       *)
(***************************************************************************)
InvalidIsFinal ==
    \A j \in dwasInv : KnownJobs(djob, j) /\ IsPend(djob[j]) => evalDepCond(dcond, j).v # "TRUE"

(***************************************************************************)
(* A job runs only on a verdict of TRUE reached since it was last put on   *)
(* the pending list, and never once its condition has been found invalid.  *)
(***************************************************************************)
StartsOnFreshVerdict ==
    \A j \in {"B", "S1", "S2"} : djob[j].st \in {"PRE", "RUN"} => j \in dwasTrue /\ ~djob[j].inval

\* The pending job j has a condition that holds now.
Satisfied(j) == KnownJobs(djob, j) /\ IsPend(djob[j]) /\ evalDepCond(dcond, j).v = "TRUE"

(***************************************************************************)
(* A pending job whose condition holds is marked ready, unless the         *)
(* condition stops to hold first: passes cut short by the time limit and   *)
(* nodes moved while a pass is suspended do not starve it.                 *)
(***************************************************************************)
SatisfiedBecomesReady == []<>(Satisfied("B") => djob["B"].ready)

\* Dependency conditions across every order of submissions, ends, requeues,
\* cleanings and evaluations: the reference counts of job data are exact, the
\* cursor of the incremental evaluation stays in the list it walks, a
\* condition found invalid stays so, and a job is started only on a verdict
\* that is still true (checkJobDependencies, freeJData, removeJob).
DependenciesSound ==
    DepsTypeOK /\ DepRefsExact /\ CursorInTree /\ InvalidIsFinal /\ StartsOnFreshVerdict
=============================================================================
