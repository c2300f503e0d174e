------------------------------- MODULE DepParse -------------------------------
(***************************************************************************)
(* parseDepCond (mbd.dep.c): the operator-precedence parser of a job's     *)
(* dependency condition.  What getToken returns is a token of an input in  *)
(* DepInputs: its kind, whether the arguments of a leaf parse and match    *)
(* jobs, and how many jobs a leaf matches.  A node of the tree remembers   *)
(* the position of its leaf, which is all its value depends on.            *)
(***************************************************************************)
EXTENDS Integers, Sequences, FiniteSets, SequencesExt

CONSTANT DepInputs      \* the token sequences a condition may be

VARIABLES
    ptoks,      \* the tokens of the condition
    ppos,       \* tokens consumed by getToken
    pops,       \* operatorStack, top last
    popnds,     \* operandStack, top last
    pstat       \* "scan", then "ok" or "error"

pvars == <<ptoks, ppos, pops, popnds, pstat>>

Operators == {"AND", "OR", "NOT"}
Leaves    == {"WINDOW", "JOB", "NAME", "NUM"}

Leaf(i)      == [op |-> "LEAF", at |-> i]
Node(op, ks) == [op |-> op, kids |-> ks]

(***************************************************************************)
(* preceTable has three entries, indexed by DPT_AND, DPT_OR and DPT_NOT.   *)
(* For a left parenthesis below the operator the code reads the byte after *)
(* the table, alignment padding before tokenTable, which is 0.             *)
(***************************************************************************)
Mut_preceTable ==
    [op \in {"AND", "OR", "NOT", "LEFT"} |->
        CASE op = "AND" -> 1 [] op = "OR" -> 1 [] op = "NOT" -> 3 [] OTHER -> 0]

preceTable ==
    [op \in {"AND", "OR", "NOT", "LEFT"} |->
        CASE op = "AND" -> 2 [] op = "OR" -> 1 [] op = "NOT" -> 3 [] OTHER -> 0]

Stacks(o, n, ok) == [ops |-> o, opnds |-> n, ok |-> ok]

\* mergeNode(MERGE_TOP): the top operator takes its operands; -1 changes
\* nothing.  The operand popped first becomes the left one.
mergeTop(s) ==
    LET need == IF s.ops # <<>> /\ Last(s.ops) = "NOT" THEN 1 ELSE 2
        n    == Len(s.opnds)
    IN  IF s.ops = <<>> \/ n < need
        THEN Stacks(s.ops, s.opnds, FALSE)
        ELSE Stacks(Front(s.ops),
                    Append(SubSeq(s.opnds, 1, n - need),
                           Node(Last(s.ops), Reverse(SubSeq(s.opnds, n - need + 1, n)))),
                    TRUE)

\* mergeNode(MERGE_LEFT): merge down to the left parenthesis, and drop it.
RECURSIVE mergeLeft(_)
mergeLeft(s) ==
    IF ~s.ok \/ s.ops = <<>> THEN Stacks(s.ops, s.opnds, FALSE)
    ELSE IF Last(s.ops) = "LEFT" THEN Stacks(Front(s.ops), s.opnds, TRUE)
    ELSE mergeLeft(mergeTop(s))

\* mergeNode(MERGE_ALL) stops at the first merge that fails.
RECURSIVE mergeAll(_)
mergeAll(s) ==
    LET m == mergeTop(s) IN IF m.ok THEN mergeAll(m) ELSE Stacks(m.ops, m.opnds, TRUE)

\* createMoreNodes: one node per matching job, joined by AND as they are
\* pushed; a single match pushes one node.
RECURSIVE createMoreNodes(_, _, _, _)
createMoreNodes(s, at, n, first) ==
    IF n = 0 THEN s
    ELSE LET pushed == Stacks(s.ops, Append(s.opnds, Leaf(at)), TRUE)
         IN  createMoreNodes(IF first THEN pushed
                             ELSE mergeTop(Stacks(Append(s.ops, "AND"), pushed.opnds, TRUE)),
                             at, n - 1, FALSE)

-----------------------------------------------------------------------------
\* Consume the current token, leaving the stacks s, or go to Error, where the
\* nodes of both stacks are freed.
Take(s) ==
    /\ ppos' = ppos + 1
    /\ pops' = IF s.ok THEN s.ops ELSE <<>>
    /\ popnds' = IF s.ok THEN s.opnds ELSE <<>>
    /\ pstat' = IF s.ok THEN "scan" ELSE "error"
    /\ UNCHANGED ptoks

Here  == Stacks(pops, popnds, TRUE)
Token(kinds) == pstat = "scan" /\ ppos < Len(ptoks) /\ ptoks[ppos + 1].kind \in kinds

\* case DPT_AND, DPT_OR, DPT_NOT: a stronger operator on top is merged first,
\* once, then the operator is pushed.
OperatorToken ==
    /\ Token(Operators)
    /\ LET op     == ptoks[ppos + 1].kind
           before == IF pops # <<>> /\ preceTable[Last(pops)] > preceTable[op]
                     THEN mergeTop(Here) ELSE Here
       IN  Take(Stacks(Append(before.ops, op), before.opnds, before.ok))

LeftToken ==
    /\ Token({"LEFT"})
    /\ Take(Stacks(Append(pops, "LEFT"), popnds, TRUE))

RightToken ==
    /\ Token({"RIGHT"})
    /\ Take(mergeLeft(Here))

\* time(...): one operand, or an error when a window does not parse.
WindowToken ==
    /\ Token({"WINDOW"})
    /\ Take(Stacks(pops, Append(popnds, Leaf(ppos + 1)), ptoks[ppos + 1].ok))

\* done(j), exit(j, op code), ...: an operand per matching job.
JobToken ==
    /\ Token({"JOB"})
    /\ LET t == ptoks[ppos + 1] IN
       Take(IF t.ok THEN createMoreNodes(Here, ppos + 1, t.n, TRUE)
            ELSE Stacks(pops, popnds, FALSE))

\* A bare name stands for done(name).
NameToken ==
    /\ Token({"NAME"})
    /\ LET t == ptoks[ppos + 1] IN
       Take(IF t.ok THEN createMoreNodes(Here, ppos + 1, t.n, TRUE)
            ELSE Stacks(pops, popnds, FALSE))

\* numdone(array, op n), ...: one operand, or an error when the job is not an
\* array or the comparison does not parse.
NumToken ==
    /\ Token({"NUM"})
    /\ Take(Stacks(pops, Append(popnds, Leaf(ppos + 1)), ptoks[ppos + 1].ok))

\* The end of the condition: everything is merged; exactly one operand and no
\* operator must be left, and that operand is the root.
EndOfInput ==
    /\ pstat = "scan" /\ ppos = Len(ptoks)
    /\ LET m == mergeAll(Here)
           ok == Len(m.opnds) = 1 /\ m.ops = <<>>
       IN  /\ pops' = <<>>
           /\ popnds' = IF ok THEN m.opnds ELSE <<>>
           /\ pstat' = IF ok THEN "ok" ELSE "error"
    /\ UNCHANGED <<ptoks, ppos>>

DepParseInit(in) ==
    /\ ptoks = in
    /\ ppos = 0 /\ pops = <<>> /\ popnds = <<>> /\ pstat = "scan"

DepParseNext ==
    \/ OperatorToken \/ LeftToken \/ RightToken
    \/ WindowToken \/ JobToken \/ NameToken \/ NumToken
    \/ EndOfInput

-----------------------------------------------------------------------------
(***************************************************************************)
(* The reference: the grammar of conditions, and their value by the usual  *)
(* precedence (! over && over ||).                                         *)
(***************************************************************************)
Splits(ts, op) == {i \in 2..Len(ts) - 1 : ts[i].kind = op}

RECURSIVE Grammar(_)
Grammar(ts) ==
    /\ ts # <<>>
    /\ \/ Len(ts) = 1 /\ ts[1].kind \in Leaves /\ ts[1].ok
       \/ ts[1].kind = "NOT" /\ Grammar(Tail(ts))
       \/ ts[1].kind = "LEFT" /\ Last(ts).kind = "RIGHT" /\ Grammar(SubSeq(ts, 2, Len(ts) - 1))
       \/ \E i \in Splits(ts, "AND") \cup Splits(ts, "OR") :
            Grammar(SubSeq(ts, 1, i - 1)) /\ Grammar(SubSeq(ts, i + 1, Len(ts)))

\* The value of the tokens lo..hi when the leaves at T are true.
RECURSIVE RefValue(_, _, _, _)
RefValue(ts, lo, hi, T) ==
    LET part(i, j) == SubSeq(ts, i, j)
        cuts(op) == {i \in lo + 1..hi - 1 : /\ ts[i].kind = op
                                            /\ Grammar(part(lo, i - 1))
                                            /\ Grammar(part(i + 1, hi))}
        cut(op) == CHOOSE i \in cuts(op) : \A k \in cuts(op) : i <= k
    IN  IF lo = hi THEN lo \in T
        ELSE IF cuts("OR") # {} THEN \/ RefValue(ts, lo, cut("OR") - 1, T)
                                     \/ RefValue(ts, cut("OR") + 1, hi, T)
        ELSE IF cuts("AND") # {} THEN /\ RefValue(ts, lo, cut("AND") - 1, T)
                                      /\ RefValue(ts, cut("AND") + 1, hi, T)
        ELSE IF ts[lo].kind = "NOT" THEN ~RefValue(ts, lo + 1, hi, T)
        ELSE RefValue(ts, lo + 1, hi - 1, T)

RECURSIVE TreeValue(_, _)
TreeValue(n, T) ==
    CASE n.op = "LEAF" -> n.at \in T
      [] n.op = "NOT"  -> ~TreeValue(n.kids[1], T)
      [] n.op = "AND"  -> \A k \in DOMAIN n.kids : TreeValue(n.kids[k], T)
      [] n.op = "OR"   -> \E k \in DOMAIN n.kids : TreeValue(n.kids[k], T)
      [] OTHER         -> FALSE

LeafPositions == {i \in DOMAIN ptoks : ptoks[i].kind \in Leaves}

(***************************************************************************)
(* Every condition of the grammar is accepted, whatever the order in which *)
(* parseDepCond happens to merge its operators: no legal condition leaves  *)
(* an operand or an operator on a stack when the input ends.               *)
(***************************************************************************)
LegalConditionAccepted ==
    pstat = "error" => ~Grammar(ptoks)

\* Every ! opens the condition, a parenthesis or a branch of ||.
PlainNots ==
    \A i \in DOMAIN ptoks : ptoks[i].kind = "NOT" => i = 1 \/ ptoks[i - 1].kind \in {"LEFT", "OR"}

Depth(i) ==
    Cardinality({k \in 1..i - 1 : ptoks[k].kind = "LEFT"})
        - Cardinality({k \in 1..i - 1 : ptoks[k].kind = "RIGHT"})

\* Every branch that an || ends holds at most one && of its own.
ShortBranches ==
    \A i \in DOMAIN ptoks : ptoks[i].kind = "OR" =>
        Cardinality({k \in 1..i - 1 :
            /\ ptoks[k].kind = "AND" /\ Depth(k) = Depth(i)
            /\ \A j \in k + 1..i - 1 :
                Depth(j) >= Depth(i) /\ (Depth(j) = Depth(i) => ptoks[j].kind # "OR")}) <= 1

(***************************************************************************)
(* The tree parseDepCond returns for a legal condition means what the      *)
(* usual precedence says, for every truth of its leaves, when each ! opens *)
(* the condition, a parenthesis or a branch of ||, and no && waits below   *)
(* another when an || comes.  (The operator case merges only once, so      *)
(* "a && b && c || d" becomes "a && (b && c || d)", "a && !b || c" becomes *)
(* "a && (!b || c)" and "!!a && b" becomes "!(!a && b)": the restrictions  *)
(* are needed.)                                                            *)
(***************************************************************************)
ParsedMeaning ==
    pstat = "ok" /\ PlainNots /\ ShortBranches /\ Grammar(ptoks) =>
        \A T \in SUBSET LeafPositions :
            TreeValue(popnds[1], T) = RefValue(ptoks, 1, Len(ptoks), T)

\* A condition is read as its grammar means it: what is legal is accepted,
\* and the tree has the value of the text, with && before || (parseDepCond).
ConditionsReadRight == LegalConditionAccepted /\ ParsedMeaning
=============================================================================
