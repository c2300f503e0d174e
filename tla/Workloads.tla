----------------------------- MODULE Workloads -----------------------------
(* What the components are run with: the scenarios of SuspendControl,        *)
(* ResTasks, NiosTasks, JobDeps, DepParse, SchedSession and SlotHold.  For   *)
(* the components with liveness properties the sets named Live... are those  *)
(* of the run that checks them.                                              *)
EXTENDS Naturals, Integers, Sequences, TLC

(* Workloads of sbatchd: which actions are commands, how the job is         *)
(* configured and what may happen.                                          *)
plainJob == [suspCmd |-> FALSE, resmCmd |-> FALSE, termCmd |-> FALSE, res |-> FALSE,
             mig |-> FALSE, limit |-> FALSE, env |-> {}]
withCommands == [plainJob EXCEPT !.suspCmd = TRUE, !.resmCmd = TRUE, !.termCmd = TRUE]
stopAndResume == {"SUSP_USER", "RESUME_USER"}
LiveSuspend ==
    {[plainJob EXCEPT !.env = stopAndResume \cup {"load", "lose"}],
     [plainJob EXCEPT !.res = TRUE, !.env = {"window", "down"}],
     [withCommands EXCEPT !.env = stopAndResume \cup {"window"}],
     [plainJob EXCEPT !.mig = TRUE, !.env = {"load", "TERM_USER", "fail"}],
     [plainJob EXCEPT !.limit = TRUE, !.env = {"SUSP_USER", "TERM_USER", "window"}],
     [plainJob EXCEPT !.env = stopAndResume \cup {"window", "restart"}],
     [plainJob EXCEPT !.env = {"SUSP_USER", "TERM_FORCE", "USR1", "exit", "down"}]}
SuspendScenarios ==
    LiveSuspend
    \cup {[plainJob EXCEPT !.env = stopAndResume \cup {"window", "load"}],
          [plainJob EXCEPT !.res = TRUE, !.env = {"SUSP_USER", "window"}],
          [withCommands EXCEPT !.limit = TRUE, !.env = {"SUSP_USER", "TERM_FORCE", "window"}]}

(* Workloads of RES: what the tasks write, what NIOS and the client ask.     *)
run(t) == [k |-> "exec", t |-> t]
input(t, d) == [k |-> "stdin", t |-> t, d |-> d]
ask(k, t) == [k |-> k, t |-> t]
hangUp == [k |-> "close"]
oneTask == [mode |-> "client", script |-> <<<<"x">>, <<"x">>>>, det |-> <<<<>>, <<>>>>, info |-> FALSE,
            err |-> FALSE, slow |-> FALSE, split |-> FALSE, quits |-> FALSE, say |-> <<>>,
            asks |-> <<run(1), hangUp>>, conts |-> 0]
noTask == [oneTask EXCEPT !.asks = <<>>]
LiveRes ==
    {f @@ oneTask : f \in {
     [script |-> <<<<"o", "n", "o", "x", "n">>, <<"x">>>>, split |-> TRUE, info |-> TRUE, quits |-> TRUE],
     [script |-> <<<<"n", "e", "x", "o">>, <<"x">>>>, err |-> TRUE, split |-> TRUE],
     [script |-> <<<<"o", "x">>, <<"x">>>>, det |-> <<<<"n", "o">>, <<>>>>],
     [script |-> <<<<"x">>, <<"o", "x">>>>, asks |-> <<ask("fail", 1), run(2), ask("KILL", 2), hangUp>>],
     [script |-> <<<<"w", "x">>, <<"x">>>>, quits |-> TRUE, info |-> TRUE],
     [script |-> <<<<"w", "x">>, <<"x">>>>, say |-> <<ask("STOP", 0), ask("CONT", 1), ask("KILL", 0)>>],
     [script |-> <<<<"n", "n", "n", "x">>, <<"x">>>>, slow |-> TRUE],
     [mode |-> "batch", script |-> <<<<"o", "w", "x">>, <<"x">>>>, asks |-> <<>>, quits |-> TRUE,
      slow |-> TRUE]}}
ResScenarios ==
    LiveRes \cup {f @@ oneTask : f \in {
     [script |-> <<<<"n", "o", "x">>, <<"n", "x">>>>, asks |-> <<run(1), run(2), hangUp>>,
      info |-> TRUE, split |-> TRUE],
     [script |-> <<<<"o", "x">>, <<"x">>>>, split |-> TRUE,
      say |-> <<input(0, <<1, 2>>), input(1, <<3>>), ask("eof", 0)>>],
     [script |-> <<<<"w", "x">>, <<"x">>>>, asks |-> <<run(1), run(2), hangUp>>,
      say |-> <<input(0, <<1>>), input(2, <<2>>), input(0, <<3>>), ask("eof", 1), ask("KILL", 0)>>],
     [mode |-> "batch", script |-> <<<<"o", "o", "x">>, <<"x">>>>, asks |-> <<>>, conts |-> 1,
      split |-> TRUE, say |-> <<ask("STOP", 1)>>]}}

(* Workloads of NIOS: the program's calls, what each RES sends, what fails.  *)
op(o, t) == [op |-> o, t |-> t]
setStdin(on, t) == [op |-> "stdin", t |-> t, on |-> on]
outputOf(d) == [k |-> "out", d |-> d]
eof == [k |-> "eof"]
status(s) == [k |-> "status", st |-> s]
rtask(t) == <<op("start", t), op("task", t)>>
rwaitFor(t) == <<op("wait", t)>>
plainTask == <<outputOf(1), eof, status("3")>>
oneRemote == [mode |-> "tasks", prog |-> rtask(1) \o rwaitFor(1), host |-> <<"h", "h", "g">>,
              script |-> <<plainTask, plainTask, plainTask>>, again |-> <<>>, late |-> {}, deaf |-> {},
              lose |-> {}, slow |-> {}, lines |-> -1, sigs |-> <<>>, block |-> TRUE, interval |-> FALSE,
              verbose |-> TRUE, killed |-> FALSE, forgets |-> FALSE]
noRtask == [oneRemote EXCEPT !.prog = <<>>]
interactive == [oneRemote EXCEPT !.mode = "alone", !.prog = <<>>]
LiveNios ==
    {f @@ oneRemote : f \in {
     [prog |-> rtask(1) \o rtask(3) \o rwaitFor(1) \o rwaitFor(3), deaf |-> {"g"}, late |-> {"g"},
      block |-> FALSE],
     [prog |-> rtask(1) \o rtask(2)
               \o <<setStdin(TRUE, 2), setStdin(FALSE, 0), setStdin(FALSE, 2), setStdin(TRUE, 0), op("exit", 0)>>,
      lines |-> 1, script |-> <<<<status("3")>>, <<status("3")>>, plainTask>>]}}
    \cup {f @@ interactive : f \in {
     [lines |-> 2, slow |-> {"h"}, sigs |-> <<"INT", "TERM">>,
      script |-> <<<<outputOf(1), status("3"), outputOf(2), eof>>, plainTask, plainTask>>],
     [lose |-> {"h"}, interval |-> TRUE, forgets |-> TRUE],
     [lose |-> {"h"}, killed |-> TRUE],
     [interval |-> TRUE, verbose |-> FALSE, killed |-> TRUE],
     [script |-> <<<<outputOf(1), [k |-> "requeue"]>>, plainTask, plainTask>>,
      again |-> <<outputOf(2), status("stop"), eof, status("6")>>]}}
NiosScenarios ==
    LiveNios \cup {f @@ oneRemote : f \in {
     [prog |-> rtask(1) \o rtask(2) \o rtask(3) \o rwaitFor(0) \o rwaitFor(0) \o rwaitFor(0),
      script |-> <<<<status("3"), eof>>, <<outputOf(1), eof, status("4")>>, <<status("fatal")>>>>],
     [prog |-> rtask(1) \o rtask(3) \o rwaitFor(3) \o rwaitFor(1), lose |-> {"h"},
      script |-> <<<<outputOf(1), status("0"), outputOf(2), eof>>, plainTask, <<eof, status("5")>>>>],
     [prog |-> rtask(1) \o rtask(2) \o rwaitFor(1) \o rwaitFor(2), lose |-> {"h"}],
     [prog |-> rtask(1) \o rtask(3) \o rwaitFor(3), late |-> {"g", "h"}, block |-> FALSE],
     [prog |-> rtask(1) \o rtask(3) \o rwaitFor(3), slow |-> {"h"}, lines |-> 1, sigs |-> <<"INT">>,
      script |-> <<<<status("3")>>, plainTask, <<eof, status("9")>>>>]}}

(* Dependency conditions: a leaf on jobs, on the counts of an array, and     *)
(* what may happen to the jobs it names.                                     *)
leaf(t, j, idx, oneToOne, cmp, n) ==
    [op |-> "JOB", type |-> t, job |-> j, idx |-> idx, oneToOne |-> oneToOne, cmp |-> cmp, n |-> n]
dependsOn(t, j) == leaf(t, j, {1, 2}, FALSE, "TRUE", 0)
count(t, cmp, n) == [op |-> "NUM", type |-> t, cmp |-> cmp, n |-> n]
both(l, r) == [op |-> "AND", l |-> l, r |-> r]
either(l, r) == [op |-> "OR", l |-> l, r |-> r]
not(l) == [op |-> "NOT", l |-> l]
condition(c, on, dep, env) == [cond |-> c, on |-> on, dep |-> dep, env |-> env]
onJob(c, env) == condition(c, {"A"}, "B", env)
onArray(c, env) == condition(c, {"R"}, "B", env)
LiveDeps ==
    {onJob(dependsOn("DONE", "A"), {"done", "brun", "brequeue", "rename", "remove"}),
     onJob(dependsOn("STARTED", "A"), {"done", "PRE", "brequeue", "remove"}),
     onArray(both(count("NUMDONE", "GE", 1), dependsOn("DONE", "R")), {"done"})}
DepWorkloads ==
    LiveDeps
    \cup {onJob(dependsOn("ENDED", "A"), {"done", "brun", "remove"}),
          onJob(dependsOn("POST_DONE", "A"), {"done", "err", "remove"}),
          onJob(dependsOn("POST_ERR", "A"), {"done", "err", "brequeue"})}
    \cup {onJob(leaf("EXIT", "A", {}, FALSE, c, 1), {"brun"}) :
            c \in {"TRUE", "EQ", "NE", "LT", "LE", "GT", "GE"}}
    \cup {onJob(either(both(dependsOn("DONE", "A"), not(dependsOn("EXIT", "A"))), dependsOn("EXIT", "A")),
                {"brequeue"}),
          onJob(both(dependsOn("STARTED", "A"), either(dependsOn("DONE", "A"), dependsOn("ENDED", "A"))),
                {"PRE", "done", "remove"}),
          onArray(leaf("ENDED", "R", {2}, FALSE, "TRUE", 0), {"done", "remove"}),
          onArray(both(count("NUMDONE", "GE", 1), dependsOn("DONE", "R")), {"done", "rename"}),
          onArray(both(count("NUMEXIT", "GE", 1), count("NUMPEND", "GE", 1)), {}),
          onArray(either(count("NUMRUN", "GT", 1),
                         both(count("NUMSTART", "GE", 2), count("NUMENDED", "GE", 2))), {}),
          condition(leaf("DONE", "R", {}, TRUE, "TRUE", 0), {"R"}, "S", {"done"})}

(* Dependency expressions as token sequences: all short ones over the core   *)
(* tokens, all of three tokens, and longer ones with parentheses.            *)
token(k, ok, n) == [kind |-> k, ok |-> ok, n |-> n]
aJob == token("JOB", TRUE, 1)
opening == token("LEFT", TRUE, 0)
closing == token("RIGHT", TRUE, 0)
binary == {token("AND", TRUE, 0), token("OR", TRUE, 0)}
coreTokens == binary \cup {token("NOT", TRUE, 0), opening, closing, aJob}
allTokens ==
    coreTokens \cup {token(k, FALSE, 0) : k \in {"JOB", "NAME", "NUM", "WINDOW"}}
    \cup {token("JOB", TRUE, 2), token("NAME", TRUE, 2), token("NUM", TRUE, 1), token("WINDOW", TRUE, 1)}
nested == {<<opening, aJob, o, aJob, closing, p, aJob>> : o \in binary, p \in binary}
          \cup {<<aJob, o, opening, aJob, p, aJob, closing>> : o \in binary, p \in binary}
          \cup {<<aJob, o, aJob, p, aJob, q, aJob>> : o \in binary, p \in binary, q \in binary}
DepExpressions == UNION {[1..n -> coreTokens] : n \in 0..5} \cup [1..3 -> allTokens] \cup nested

(* Scheduling sessions: two hosts, a queue with its limits and a second one  *)
(* on the first host only, three jobs, and what happens between the calls.   *)
queue(prio, max, hjl, accept, rr, member) ==
    [prio |-> prio, max |-> max, hjl |-> hjl, accept |-> accept, rr |-> rr, member |-> member]
pending(q, u, st) == [queue |-> q, user |-> u, st |-> st]
session(accept, rr, third, queueMax, userMax, user2, env) ==
    [env |-> env, hosts |-> <<1, 2>>, users |-> <<userMax, 3>>,
     queues |-> <<queue(2, queueMax, 1, accept, rr, {1, 2}), queue(1, 3, 3, FALSE, FALSE, {1})>>,
     jobs |-> <<pending(1, 1, "pend"), pending(1, user2, "pend"), pending(2, 1, third)>>]
LiveSessions ==
    {session(TRUE, FALSE, "pend", 3, 1, 2, {"finish"}),
     session(FALSE, TRUE, "new", 3, 1, 1, {"new", "kill"})}
Sessions ==
    LiveSessions
    \cup {session(FALSE, TRUE, "pend", 3, 3, 2, {"finish"}),
          session(FALSE, FALSE, "pend", 1, 3, 2, {"finish", "closed"}),
          session(TRUE, FALSE, "pend", 3, 3, 1, {"down"}),
          session(TRUE, TRUE, "pend", 3, 3, 1, {"kill", "stop"}),
          session(FALSE, FALSE, "pend", 3, 3, 2, {"suspend"}),
          session(FALSE, FALSE, "new", 1, 1, 1, {"new", "finish"}),
          session(FALSE, FALSE, "pend", 0, 3, 2, {"finish"}),
          session(FALSE, FALSE, "pend", 3, 0, 2, {"finish"})}

(* Reservations: running jobs, a big job that holds slots and small jobs     *)
(* that may fill in.                                                         *)
host(max, cf) == [max |-> max, cf |-> cf]
job(n, lim, hold, bf, que, hjl, on) ==
    [n |-> n, lim |-> lim, hold |-> hold, bf |-> bf, que |-> que, hjl |-> hjl, on |-> on]
big(n, hold) == job(n, 0, hold, FALSE, 1, 9, 0)
small(n, lim, hjl) == job(n, lim, 0, TRUE, 2, hjl, 0)
holding(n, lim, hjl) == job(n, lim, 2, TRUE, 2, hjl, 0)
running(n, lim, on) == job(n, lim, 0, FALSE, 3, 9, on)
holds(hosts, jobs) == [hosts |-> hosts, jobs |-> jobs, kill |-> Len(jobs) = 3]
LiveHolds ==
    {holds(<<host(2, 1), host(1, 1)>>, <<running(1, 4, 1), big(3, 1), small(1, 2, 1)>>),
     holds(<<host(2, 1), host(1, 1)>>, <<running(1, 0, 1), big(3, 2), small(1, 1, 9)>>)}
Holds ==
    LiveHolds
    \cup {holds(<<host(2, 2), host(2, 1)>>, <<running(1, 4, 2), big(4, 1), small(2, 2, 9)>>),
          holds(<<host(3, 1)>>, <<big(3, 2), running(1, 4, 1), small(2, 1, 9)>>),
          holds(<<host(2, 1), host(1, 1)>>,
                <<running(1, 3, 1), big(3, 1), holding(2, 1, 9), small(1, 1, 9)>>),
          holds(<<host(3, 1)>>, <<running(1, 4, 1), big(3, 1), small(1, 2, 1), small(1, 2, 1)>>)}

(* Conditional files: two that follow conditions which change.               *)
text(i) == <<"text", i, "line">>
ConditionalFiles ==
    {<<<<"if", "a">>, text(1), <<"else">>, text(2), <<"endif">>>>,
     <<text(3), <<"if", "b">>, text(1), <<"elif", "a">>, text(2), <<"endif">>, text(4)>>,
     <<text(3)>>,
     <<<<"if", "b">>, text(3)>>}
=============================================================================
