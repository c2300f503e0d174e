------------------------------ MODULE ConfTree ------------------------------
(***************************************************************************)
(* The conditional configuration files of mbatchd (lib.wconf.c): lsb.hosts,*)
(* lsb.users, lsb.queues and lsb.params may hold #define, #if, #elif, #else*)
(* and #endif.  ls_getconf turns a file into a tree of condition nodes and *)
(* text nodes; readNextLine walks the tree, keeping tags in the nodes and  *)
(* a stack of the conditions it is inside of; mbatchd evaluates the        *)
(* conditions (mbd.init.c), looks at them again from time to time          *)
(* (periodicCheck in mbd.main.c) and restarts itself when one changed.     *)
(*                                                                         *)
(* A file is a sequence of lines: <<"if", c>>, <<"elif", c>>, <<"else">>,  *)
(* <<"endif">>, <<"define", n, c>> and <<"text", id, kind>>, kind "line",  *)
(* "cont" (it ends with a backslash) or "blank" (nothing but a comment).   *)
(* The condition "" stands for a directive without one.                    *)
(***************************************************************************)
EXTENDS Integers, Sequences, SequencesExt, FiniteSets

CONSTANTS
    TreeConds,      \* the texts conditions are given by
    BadConds        \* those parseDepCond refuses

VARIABLES
    wfile,      \* the files, in the order mbatchd reads them
    wenv,       \* condition -> whether it holds now
    wflips,     \* how often the conditions may still change
    wup,        \* "down", "up", or "fatal" when a file cannot be read
    wval,       \* per file: condition -> conf->values
    wstat,      \* condition -> condData.status, shared by the files
    wwin,       \* winConf of periodicCheck
    wbusy,      \* dispatch: a scheduling session is going on
    wread       \* per file: the lines its reader was given, with which values

wvars == <<wfile, wenv, wflips, wup, wval, wstat, wwin, wbusy, wread>>

NoLine == <<>>
NoCond == "-"

(***************************************************************************)
(* Building the tree                                                       *)
(***************************************************************************)
newNode == [cond |-> NoCond, left |-> 0, right |-> 0, fw |-> 0,
            lines |-> <<>>, tag |-> "none"]

(* linkNode: the first free pointer of prev that its tag still allows *)
Mut_linkNode(ns, prev, n) ==
    IF prev = 0 THEN ns
    ELSE LET p == ns[prev]
             slots == IF p.cond = NoCond \/ p.tag = "all" THEN <<"fw">>
                      ELSE <<"left", "right", "fw">>
             free == SelectSeq(slots, LAMBDA s : p[s] = 0)
         IN IF free = <<>> THEN ns ELSE [ns EXCEPT ![prev][Head(free)] = n]

linkNode(ns, prev, n) ==
    IF prev = 0 THEN ns
    ELSE LET p == ns[prev]
             slots == IF p.cond = NoCond \/ p.tag = "all" THEN <<"fw">>
                      ELSE IF p.tag = "left" THEN <<"right", "fw">>
                      ELSE <<"left", "right", "fw">>
             free == SelectSeq(slots, LAMBDA s : p[s] = 0)
         IN IF free = <<>> THEN ns ELSE [ns EXCEPT ![prev][Head(free)] = n]

(* a #define whose value names an earlier one takes its condition, and the  *)
(* first definition of a name is the one that is found                      *)
defined(defs, c) ==
    LET at == {i \in DOMAIN defs : defs[i][1] = c}
    IN IF at = {} THEN c ELSE defs[CHOOSE i \in at : \A k \in at : i <= k][2]

(* addCond: the conditions of a file, each once *)
addCond(conds, c) == IF c \in Range(conds) THEN conds ELSE Append(conds, c)

GetConfStart ==
    [ns |-> <<>>, prev |-> 0, block |-> <<>>, ptr |-> <<>>, defs |-> <<>>,
     conds |-> <<>>, open |-> FALSE, err |-> FALSE]

CondNode(p, c, prev, stack) ==
    LET cond == defined(p.defs, c)
        n == Len(p.ns) + 1
    IN [p EXCEPT !.ns = linkNode(Append(@, [newNode EXCEPT !.cond = cond]), prev, n),
                 !.prev = n, !.ptr = Append(stack, n),
                 !.conds = addCond(@, cond), !.open = FALSE]

getIf(p, c) ==
    IF c = "" THEN [p EXCEPT !.err = TRUE]
    ELSE LET q == CondNode(p, c, p.prev, p.ptr)
         IN [q EXCEPT !.block = Append(@, Len(q.ns))]

getElif(p, c) ==
    IF p.block = <<>> \/ c = "" THEN [p EXCEPT !.err = TRUE]
    ELSE LET prev == Last(p.ptr)
         IN CondNode([p EXCEPT !.ns[prev].tag = "left"], c, prev, Front(p.ptr))

getElse(p) ==
    IF p.block = <<>> THEN [p EXCEPT !.err = TRUE]
    ELSE LET prev == Last(p.ptr)
         IN [p EXCEPT !.ns[prev].tag = "left", !.prev = prev, !.open = FALSE]

getEndif(p) ==
    IF p.block = <<>> THEN [p EXCEPT !.err = TRUE]
    ELSE LET prev == Last(p.block)
         IN [p EXCEPT !.ns[prev].tag = "all", !.prev = prev, !.open = FALSE,
                      !.block = Front(@), !.ptr = Front(@)]

(* lines between two directives make one text node *)
getText(p, line) ==
    IF p.open THEN [p EXCEPT !.ns[p.prev].lines = Append(@, line)]
    ELSE LET n == Len(p.ns) + 1
         IN [p EXCEPT !.ns = linkNode(Append(@, [newNode EXCEPT !.lines = <<line>>]),
                                      p.prev, n),
                      !.prev = n, !.open = TRUE]

getDefine(p, n, c) ==
    IF c = "" THEN [p EXCEPT !.err = TRUE]
    ELSE [p EXCEPT !.defs = Append(@, <<n, defined(@, c)>>), !.open = FALSE]

GetLine(p, t) ==
    IF p.err THEN p
    ELSE CASE t[1] = "if" -> getIf(p, t[2])
           [] t[1] = "elif" -> getElif(p, t[2])
           [] t[1] = "else" -> getElse(p)
           [] t[1] = "endif" -> getEndif(p)
           [] t[1] = "define" -> getDefine(p, t[2], t[3])
           [] OTHER -> getText(p, t)

(* ls_getconf; an open block at the end of the file is an error too *)
RECURSIVE GetLines(_, _)
GetLines(p, f) ==
    IF f = <<>> THEN p
    ELSE CHOOSE r \in {GetLines(q, Tail(f)) : q \in {GetLine(p, Head(f))}} : TRUE

ls_getconf(f) ==
    LET p == GetLines(GetConfStart, f)
    IN [ok |-> ~p.err /\ p.block = <<>>, conds |-> p.conds,
        h |-> [ns |-> p.ns, cur |-> IF p.ns = <<>> THEN 0 ELSE 1,
               count |-> 0, stack |-> <<>>]]

(***************************************************************************)
(* Reading the tree                                                        *)
(***************************************************************************)
popStack(st) == IF st = <<>> THEN st ELSE Front(st)

checkCond(val, c) == IF c \in DOMAIN val THEN val[c] ELSE FALSE

(* The walk: a condition node is tagged and pushed while its branch is     *)
(* read, then left by its forward pointer; where that yields no line the   *)
(* walk goes back to the node on top of the stack.                         *)
Goes(h, n) == [h EXCEPT !.cur = n, !.count = 0]
Nothing(h) == [h |-> h, line |-> NoLine]

RECURSIVE readNextLine(_, _)
readNextLine(h, val) ==
    IF h.cur = 0 THEN Nothing(h)
    ELSE LET node == h.ns[h.cur]
             Then(r, More(_)) == IF r.line # NoLine THEN r
                                 ELSE CHOOSE m \in {More(g) : g \in {r.h}} : TRUE
             Back(g) == readNextLine(Goes(g, IF g.stack = <<>> THEN 0 ELSE Last(g.stack)), val)
             Onward(g) ==
                 CHOOSE m \in {Then(r, Back) : r \in {readNextLine(Goes(g, node.fw), val)}} : TRUE
             Inside(g) ==
                 readNextLine(Goes([g EXCEPT !.ns[h.cur].tag = "passed",
                                             !.stack = Append(@, h.cur)],
                                   IF checkCond(val, node.cond) THEN node.left ELSE node.right),
                              val)
             Leave(g) == Onward([g EXCEPT !.ns[h.cur].tag = "none", !.stack = popStack(@)])
         IN IF node.cond = NoCond
            THEN IF h.count < Len(node.lines)
                 THEN [h |-> [h EXCEPT !.count = @ + 1], line |-> node.lines[h.count + 1]]
                 ELSE Onward(h)
            ELSE IF node.tag = "passed" THEN Leave(h)
                 ELSE CHOOSE m \in {Then(r, Leave) : r \in {Inside(h)}} : TRUE

(* getNextLineC_conf: blank lines are passed over, continued ones joined;   *)
(* a continuation that runs into the end of the file is lost                *)
RECURSIVE getNextLineC_conf(_, _, _)
getNextLineC_conf(h, val, long) ==
    CHOOSE m \in
      {LET new == IF r.line = NoLine \/ r.line[3] = "blank" THEN long
                  ELSE Append(long, r.line[2])
       IN CASE r.line = NoLine -> Nothing(r.h)
            [] r.line # NoLine /\ (r.line[3] = "cont" \/ new = <<>>) ->
                  getNextLineC_conf(r.h, val, new)
            [] OTHER -> [h |-> r.h, line |-> new]
       : r \in {readNextLine(h, val)}} : TRUE

(* every line a reader of the file is given *)
RECURSIVE ReadAll(_, _)
ReadAll(h, val) ==
    CHOOSE m \in {IF r.line = NoLine THEN <<>> ELSE <<r.line>> \o ReadAll(r.h, val)
                  : r \in {getNextLineC_conf(h, val, <<>>)}} : TRUE

(***************************************************************************)
(* mbatchd                                                                 *)
(***************************************************************************)
(* evalDepCond of a condition; one that does not parse is never true *)
evalCond(c, env) == c \notin BadConds /\ env[c]

(* updCondData for one file: its values are set, and it asks for a restart *)
(* when the status the files share has changed                             *)
updCondData(conf, u, env) ==
    [val |-> Append(u.val, [c \in Range(conf.conds) |-> evalCond(c, env)]),
     stat |-> [c \in DOMAIN u.stat |->
                 IF c \in Range(conf.conds) THEN evalCond(c, env) ELSE u.stat[c]],
     again |-> u.again \/ \E c \in Range(conf.conds) : evalCond(c, env) # u.stat[c]]

updAllConfCond(confs, stat, env) ==
    FoldLeft(LAMBDA u, conf : updCondData(conf, u, env),
             [val |-> <<>>, stat |-> stat, again |-> FALSE], confs)

TreeInit(sc) ==
    /\ wfile = sc.files
    /\ wenv = sc.env
    /\ wflips = sc.flips
    /\ wup = "down"
    /\ wval = <<>>
    /\ wstat = [c \in TreeConds |-> FALSE]
    /\ wwin = FALSE
    /\ wbusy = FALSE
    /\ wread = <<>>

(* A new mbatchd: getFileConf and the reader of every file.  A file that    *)
(* cannot be parsed is fatal.                                               *)
TreeStart ==
    /\ wup = "down"
    /\ \E confs \in {[i \in DOMAIN wfile |-> ls_getconf(wfile[i])]} :
       \E u \in {updAllConfCond(confs, [c \in TreeConds |-> FALSE], wenv)} :
          IF \A i \in DOMAIN wfile : confs[i].ok
          THEN /\ wup' = "up"
               /\ wval' = u.val
               /\ wstat' = u.stat
               /\ wread' = [i \in DOMAIN wfile |->
                              [with |-> u.val[i], lines |-> ReadAll(confs[i].h, u.val[i])]]
          ELSE wup' = "fatal" /\ UNCHANGED <<wval, wstat, wread>>
    /\ wwin' = FALSE
    /\ wbusy' = FALSE
    /\ UNCHANGED <<wfile, wenv, wflips>>

(* periodicCheck: the conditions are evaluated until one changed; between   *)
(* two scheduling sessions mbatchd then makes room for a new one            *)
TreeCheck ==
    /\ wup = "up"
    /\ IF wwin THEN UNCHANGED <<wval, wstat, wwin>>
       ELSE \E confs \in {[i \in DOMAIN wfile |-> ls_getconf(wfile[i])]} :
            \E u \in {updAllConfCond(confs, wstat, wenv)} :
               wval' = u.val /\ wstat' = u.stat /\ wwin' = u.again
    /\ wup' = IF wwin' /\ ~wbusy THEN "down" ELSE "up"
    /\ UNCHANGED <<wfile, wenv, wflips, wbusy, wread>>

TreeDispatch ==
    /\ wup = "up"
    /\ wbusy' = ~wbusy
    /\ UNCHANGED <<wfile, wenv, wflips, wup, wval, wstat, wwin, wread>>

(* a time window opens or closes *)
TreeEnv(c) ==
    /\ wflips > 0
    /\ wflips' = wflips - 1
    /\ wenv' = [wenv EXCEPT ![c] = ~@]
    /\ UNCHANGED <<wfile, wup, wval, wstat, wwin, wbusy, wread>>

TreeNext == TreeStart \/ TreeCheck \/ TreeDispatch \/ \E c \in TreeConds : TreeEnv(c)

(* the main loop never stops, and a scheduling session ends *)
TreeFairness ==
    /\ WF_wvars(TreeStart)
    /\ WF_wvars(wbusy /\ TreeDispatch)
    /\ SF_wvars(~wbusy /\ TreeCheck)

(***************************************************************************)
(* What the directives mean                                                *)
(***************************************************************************)
(* blocks are balanced, and an #else is the last branch of its block *)
RECURSIVE Balanced(_, _)
Balanced(f, open) ==
    IF f = <<>> THEN open = <<>>
    ELSE LET t == Head(f)
             ok == /\ t[1] \in {"elif", "else", "endif"} => open # <<>>
                   /\ t[1] \in {"elif", "else"} => Last(open) # "else"
                   /\ t[1] \in {"if", "elif"} => t[2] # ""
                   /\ t[1] = "define" => t[3] # ""
         IN ok /\ Balanced(Tail(f), CASE t[1] = "if" -> Append(open, "if")
                                      [] t[1] = "else" -> Append(Front(open), "else")
                                      [] t[1] = "endif" -> Front(open)
                                      [] OTHER -> open)
WellFormed(f) == Balanced(f, <<>>)

(* the condition meant in line i: the first #define of the name before it, *)
(* itself read where it stands                                             *)
RECURSIVE Meaning(_, _, _)
Meaning(f, i, c) ==
    LET defs == {k \in 1 .. (i - 1) : f[k][1] = "define" /\ f[k][2] = c}
    IN IF defs = {} THEN c
       ELSE LET k == CHOOSE k \in defs : \A m \in defs : k <= m
            IN Meaning(f, k, f[k][3])

(* the lines of the branches that are taken: of a block, the first one      *)
(* whose condition holds.  st: per open block, whether its present branch   *)
(* is taken and whether one has been.                                       *)
RECURSIVE Active(_, _, _, _)
Active(f, i, st, env) ==
    IF i > Len(f) THEN <<>>
    ELSE LET t == f[i]
             now == t[1] \in {"if", "elif"} /\ evalCond(Meaning(f, i, t[2]), env)
             top == Last(st)
             Rest(next) == Active(f, i + 1, CHOOSE n \in {next} : TRUE, env)
         IN CASE t[1] = "if" -> Rest(Append(st, [on |-> now, done |-> now]))
              [] t[1] = "elif" -> Rest(Append(Front(st), [on |-> ~top.done /\ now,
                                                          done |-> top.done \/ now]))
              [] t[1] = "else" -> Rest(Append(Front(st), [on |-> ~top.done, done |-> TRUE]))
              [] t[1] = "endif" -> Rest(Front(st))
              [] t[1] = "text" /\ (\A k \in DOMAIN st : st[k].on) -> <<t>> \o Rest(st)
              [] OTHER -> Rest(st)

(* joined at their backslashes, the unfinished one at the end dropped *)
RECURSIVE Joined(_, _)
Joined(ls, long) ==
    IF ls = <<>> THEN <<>>
    ELSE LET t == Head(ls)
             new == IF t[3] = "blank" THEN long ELSE Append(long, t[2])
         IN IF t[3] = "cont" \/ new = <<>> THEN Joined(Tail(ls), new)
            ELSE <<new>> \o Joined(Tail(ls), <<>>)

ActiveText(f, env) == Joined(Active(f, 1, <<>>, env), <<>>)

(***************************************************************************)
(* The reader of a well-formed file is given the lines of the branches     *)
(* whose conditions held when mbatchd started, each once, in order, and    *)
(* nothing else, however the blocks nest and whichever branches are empty: *)
(* linkNode hangs every node in the right place and readNextLine comes     *)
(* back from every branch.                                                 *)
(***************************************************************************)
ActiveLinesRead ==
    wup = "up" =>
        \A i \in DOMAIN wfile :
            WellFormed(wfile[i]) =>
                wread[i].lines =
                    ActiveText(wfile[i], [c \in TreeConds |-> checkCond(wread[i].with, c)])

(***************************************************************************)
(* mbatchd never starts with a file whose blocks are not balanced: every   *)
(* #elif, #else and #endif has its #if and every #if its #endif.           *)
(***************************************************************************)
UnbalancedRefused ==
    wup = "up" =>
        \A i \in DOMAIN wfile :
            LET Depth(n) == Cardinality({k \in 1 .. n : wfile[i][k][1] = "if"})
                            - Cardinality({k \in 1 .. n : wfile[i][k][1] = "endif"})
            IN /\ Depth(Len(wfile[i])) = 0
               /\ \A n \in 1 .. Len(wfile[i]) :
                     /\ Depth(n) >= 0
                     /\ wfile[i][n][1] \in {"elif", "else"} => Depth(n) > 0

(***************************************************************************)
(* When the conditions stay as they are mbatchd ends up running with the   *)
(* lines they select, in every file: a change seen by the check of one     *)
(* file is not lost because the status is shared with another.             *)
(***************************************************************************)
ConfFollowsConditions ==
    <>[](wup = "fatal" \/
         \A i \in DOMAIN wfile :
             WellFormed(wfile[i]) =>
                 i \in DOMAIN wread /\ wread[i].lines = ActiveText(wfile[i], wenv))

\* #if, #elif, #else and #endif select what is read: the lines of the branches
\* whose conditions hold, in order; and what does not balance is refused.
ActiveTextRead == ActiveLinesRead /\ UnbalancedRefused
=============================================================================
