----------------------------- MODULE ConfInputs -----------------------------
(* Configuration files for TLC: lsb.hosts and lsb.users for BatchConf,       *)
(* lsb.params and lsb.queues for QueueConf.  Every set holds correct rows    *)
(* and rows the readers refuse.                                              *)
EXTENDS BatchConf, QueueConf

-----------------------------------------------------------------------------
(* lsb.hosts and lsb.users: words, lists, and how many rows of which section *)

plus(w) == <<"+", w>>
minus(w) == <<"~", w>>
wordLists(P, Q) == {<<plus(w)>> : w \in P} \cup {<<plus(w), minus(v)>> : w \in P, v \in Q}

site ==
    [official |-> [h1 |-> "h1", h2 |-> "h2", h3 |-> "h3", h2a |-> "h2", c1 |-> "c1", x |-> "x"],
     servers |-> {"h1", "h2", "h3"},
     type |-> [h1 |-> "T", h2 |-> "T", h3 |-> "S", c1 |-> "T"],
     model |-> [h1 |-> "M", h2 |-> "K", h3 |-> "M", c1 |-> "K"],
     users |-> {"u1", "u2"},
     unix |-> [ux |-> {"u1"}, uy |-> {"zz"}],
     hostWords |-> {"h1", "h2", "h2a", "c1", "x", "T", "M", "default", "zz"},
     userWords |-> {"u1", "g1", "g2", "ux", "uy"},
     ugroups |-> {"g1", "g2", "u1"},
     ulists |-> wordLists({"u1", "g1", "g2", "all"}, {})
                \cup {<<plus("u1"), plus("g1")>>, <<plus("g2"), plus("u1")>>,
                      <<plus("g1"), plus("g2")>>, <<plus("ux"), plus("zz")>>},
     hgroups |-> {"m1", "m2", "h1"},
     hlists |-> wordLists({"h2a", "m1", "all"}, {"h2", "m1", "zz", ""})
                \cup {<<plus("c1")>>, <<plus("m2")>>, <<plus("h1"), plus("m1")>>, <<plus("all"), plus("h1")>>}]

filePlans ==
    {<<<<"host", 3>>>>, <<<<"host", 2>>, <<"host", 1>>>>, <<<<"ugroup", 3>>>>,
     <<<<"ugroup", 2>>, <<"user", 2>>>>, <<<<"ugroup", 1>>, <<"user", 3>>>>,
     <<<<"user", 1>>, <<"ugroup", 2>>>>, <<<<"host", 1>>, <<"hgroup", 2>>>>,
     <<<<"user", 2>>, <<"user", 1>>>>}

-----------------------------------------------------------------------------
(* lsb.params and lsb.queues *)

limitWord(t, spec) == [t |-> t, spec |-> spec]
number(v) == [kind |-> "number", v |-> v]
keyword(k) == [kind |-> k, v |-> 0]
threshold(a, b) == [sched |-> a, stop |-> b]
noThresholds == [ut |-> threshold(Bad, Bad), mem |-> threshold(Bad, Bad)]

queue ==
    [ended |-> TRUE, name |-> "q", prio |-> <<>>, cpu |-> <<>>, run |-> <<>>, spec |-> "", mem |-> <<>>,
     proc |-> <<>>, users |-> "known", hosts |-> "known", period |-> 0, controls |-> "ok", accept |-> Bad,
     requeue |-> <<>>, reserve |-> <<>>, load |-> noThresholds]
named(n) == [queue EXCEPT !.name = n]

factors == [slow |-> <<1, 200>>, half |-> <<1, 2>>, fast |-> <<3, 2>>]

upToTwo(S) == {<<>>} \cup {<<a>> : a \in S} \cup {<<a, b>> : a, b \in S}

timeWords ==
    {limitWord(<<0>>, ""), limitWord(<<1>>, ""), limitWord(<<5>>, ""), limitWord(<<Bad>>, ""),
     limitWord(<<1, 30>>, ""), limitWord(<<2>>, "slow"), limitWord(<<2>>, "nosuch"), limitWord(<<7>>, "half")}
timeQueues ==
    {[queue EXCEPT !.cpu = c, !.run = r, !.spec = s] :
        c \in upToTwo(timeWords),
        r \in {<<>>, <<limitWord(<<9>>, "fast")>>, <<limitWord(<<3>>, ""), limitWord(<<2>>, "")>>},
        s \in {"", "half", "nosuch"}}

sizes == {Bad, 0, 1, 3}
requeueList == <<number(1), keyword("open"), number(2), number(300), keyword("close"), number(1)>>
sizeQueues ==
    {[queue EXCEPT !.mem = m, !.proc = p, !.requeue = requeueList] :
        m \in upToTwo(sizes),
        p \in upToTwo(sizes) \cup {<<a, b, c>> : a, b, c \in sizes} \cup {<<1, 1, 1, 1>>}}

loads == {Bad, -1, 0, 50, 90, 5000, 9000}
loadQueues ==
    {[queue EXCEPT !.load = [ut |-> threshold(a, b), mem |-> threshold(c, d)],
                   !.reserve = IF a = Bad THEN [backfill |-> TRUE] ELSE [time |-> a, backfill |-> TRUE]] :
        a, b \in loads, c, d \in {Bad, 0, 50}}
hostThresholds ==
    {[ut |-> threshold(a, b), mem |-> threshold(b, a)] : a \in {Bad, 50, 9000}, b \in {Bad, 90, 60}}

rereadQueues ==
    {[named(n) EXCEPT !.prio = p, !.hosts = h] :
        n \in {"a", "b", "default", ""}, p \in {<<>>, <<Bad>>}, h \in {"known", "unknown"}}
    \cup {[named("a") EXCEPT !.users = "emptyUnixGroup"], [named("b") EXCEPT !.controls = "bad"],
          [named("a") EXCEPT !.ended = FALSE], [named("b") EXCEPT !.users = "none"],
          [named("b") EXCEPT !.period = -1]}
laterQueues == {named("a"), [named("b") EXCEPT !.prio = <<3>>], named("default"), [named("a") EXCEPT !.prio = <<7>>]}

once(params, q, h) == [params |-> params, versions |-> <<<<q>>>>, now |-> 1, host |-> h]
queueFiles ==
    {once(p, q, noThresholds) : p \in {<<>>, [hostSpec |-> "fast", accept |-> 0]}, q \in timeQueues}
    \cup {once([interval |-> 0, maxPriority |-> 3, jobPriority |-> <<1, 2>>, arraySize |-> 5000], q, noThresholds) :
              q \in sizeQueues}
    \cup {once(<<>>, q, h) : q \in loadQueues, h \in hostThresholds}
    \cup {[params |-> [defaultQueues |-> d, jobPriority |-> <<1, 2>>], versions |-> <<<<a, b>>, <<c, b>>>>,
           now |-> 1, host |-> noThresholds] :
              a, b \in rereadQueues, c \in laterQueues, d \in {<<>>, <<"x", "b">>}}
=============================================================================
