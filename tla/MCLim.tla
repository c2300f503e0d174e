-------------------------------- MODULE MCLim --------------------------------
(* LIM and the libraries for TLC: the election of the master, the reading of *)
(* lsf.shared and lsf.cluster, the messages of the daemons and the sets of   *)
(* intlib.  One behaviour is that of one of them; the others keep their      *)
(* first state.  An election has one fault: a LIM stops, or a datagram is    *)
(* lost.                                                                     *)
EXTENDS LimElection, LimConf, Messages, Bitset

VARIABLES part, lfile

-----------------------------------------------------------------------------
(* lsf.shared *)

builtin(n, t, o, f) == [name |-> n, type |-> t, order |-> o, flags |-> f \cup {"glob", "builtin"}]
builtins ==
    <<builtin("ut", "num", "incr", {"dyn"}), builtin("mem", "num", "decr", {"dyn"}),
      builtin("ncpus", "num", "decr", {}), builtin("type", "str", "na", {})>>

index(n, o) == [k |-> "index", name |-> n, incr |-> o, digit |-> FALSE]
resource(n, t, i, o, rel) ==
    [k |-> "res", name |-> n, type |-> t, intv |-> i, incr |-> o, rel |-> rel, digit |-> FALSE]
model(n, archs) == [k |-> "model", name |-> n, archs |-> archs, factor |-> 2, digit |-> FALSE]
hostType(n, digit) == [k |-> "type", name |-> n, digit |-> digit]

indexes ==
    {<<>>, <<index("a", "incr")>>, <<index("mem", "incr")>>,
     <<index("a", "decr"), index("a", "incr")>>, <<index("a", "incr"), index("b", "decr")>>}

resources ==
    {<<resource("b", "num", "ok", "decr", ""), resource("c", "bool", "", "", "")>>,
     <<resource("s", "str", "", "", ""), resource("b", "num", "", "incr", "no"),
       resource("c", "num", "ok", "incr", "yes")>>,
     <<resource("mem", "num", "", "decr", ""), resource("c", "", "ok", "", ""),
       resource("b", "num", "bad", "incr", "")>>,
     <<resource("b", "num", "ok", "", "")>>,
     <<resource("e", "!", "", "", ""), resource("c", "bool", "", "", "yes"),
       resource("b", "num", "ok", "incr", "")>>,
     <<resource("b", "bad", "", "", ""), resource("s", "str", "", "", ""),
       [resource("9", "num", "ok", "incr", "") EXCEPT !.digit = TRUE], resource("c", "num", "", "decr", "")>>}

typesAndModels ==
    <<hostType("lin", FALSE), hostType("9x", TRUE), hostType("DEFAULT", FALSE), model("pc", <<"x1", "x2">>),
      model("pd", <<"x2">>), model("pc", <<>>), [k |-> "endshared"]>>

-----------------------------------------------------------------------------
(* lsf.cluster *)

administrators(sec, us) == [k |-> "admins", sec |-> sec, users |-> us]
host(n, sv, t, m, g) ==
    [k |-> "host", name |-> n, server |-> sv, model |-> m, type |-> t, given |-> g, words |-> {"s", "c"}]
adminsAndHosts ==
    {<<administrators("clusteradmins", <<"u", "v">>),
       host("h1", TRUE, "lin", "pc", {"a", "mem"}), host("h2", TRUE, "!", "pd", {"a", "b"}),
       host("h3", FALSE, "lin", "pc", {}), [k |-> "endhosts"]>>,
     <<administrators("clustermanager", <<"v">>), administrators("clusteradmins", <<"u", "v">>),
       host("h1", TRUE, "sun", "pc", {}), host("h2", TRUE, "lin", "pc", {"b", "c"}),
       host("h3", TRUE, "lin", "DEFAULT", {"c"}), host("h2", TRUE, "lin", "pc", {"a"}),
       host("hx", TRUE, "lin", "pc", {}), host("h1", TRUE, "lin", "pc", {"ut"}), [k |-> "endhosts"]>>,
     <<administrators("clusteradmins", <<"u">>), administrators("clusteradmins", <<"v">>),
       host("h3", FALSE, "lin", "pc", {}), [k |-> "endhosts"]>>}

inst(v, hs) == [val |-> v, hosts |-> hs, neg |-> {}]
map(n, is) == [k |-> "map", name |-> n, insts |-> is, ext |-> FALSE]
locations ==
    {<<inst("", <<"default">>)>>, <<inst("", <<"h1">>), inst("", <<"others">>)>>, <<inst("5", <<"all">>)>>,
     <<inst("5", <<"pc", "h1">>), inst("", <<"default">>)>>,
     <<inst("5", <<"lin">>), inst("word", <<"h2">>)>>, <<inst("5", <<"h9">>)>>,
     <<inst("5", <<"h1">>), inst("5", <<"h2">>), inst("5", <<"default">>)>>,
     <<[inst("5", <<"all">>) EXCEPT !.neg = {"h1"}], inst("5", <<"all">>), inst("5", <<"h1", "h2">>)>>}
twoLocations == {<<inst("", <<"default">>)>>, <<inst("5", <<"lin">>), inst("word", <<"h2">>)>>}
resourceMaps ==
    {<<>>}
    \cup {<<map("b", x)>> : x \in locations}
    \cup {<<map("b", x), map("c", y)>> : x \in locations, y \in twoLocations}
    \cup {<<map("a", x), map("b", x)>> : x \in locations}
    \cup {<<map("e", <<inst("", <<"h1">>)>>), [map("e", <<>>) EXCEPT !.ext = TRUE],
            map("mem", <<inst("", <<"h1">>)>>), map("zz", <<inst("", <<"h1">>)>>),
            map("b", <<inst("5", <<"h2">>)>>), map("b", <<inst("5", <<"all">>), inst("5", <<"lin">>)>>)>>}

clusterFiles ==
    {i \o r \o typesAndModels \o ah \o m :
        i \in indexes, r \in resources, ah \in adminsAndHosts, m \in resourceMaps}

\* The files whose hosts are also added and removed at run time.
withEvents(f) == f # <<>> /\ f[1].k = "index" /\ f[1].name = "mem"

-----------------------------------------------------------------------------
(* Messages: the filters with present and absent parts; the buffers that are *)
(* reckoned beforehand; loads in 16 bits; types and models in one word       *)

present(S) ==
    IF Cardinality(S) > 4
    THEN {[f \in S |-> IF f \in T THEN 2 ELSE 0] : T \in {S} \cup {S \ {f} : f \in S} \cup {{f} : f \in S}}
    ELSE [S -> {0, 2}]
inBuffer(S) == {[f \in S |-> IF f \in T THEN n ELSE 1] : T \in {S, {}} \cup {{f} : f \in S}, n \in {0, 20}}

\* Strings up to the length of a name; status reports name no execution host.
Ordinary(b, c, str, var) ==
    /\ b = "do_resourceInfoReq" => var < 40
    /\ b \in {"status_job", "sendUnreportedStatus"} => c["hosts"] = 0

loadValues == {0, 1, 2, 3, 5, 100, 1023, 1024, 1025, 2047, 2048, 2049, 4095, 4097, 8191, 8193, 65535, 65537,
               524287, 1048575, 1048576}
classes == {-1, 0, 1, 127, 128, 129, 1023, 1025}

message(c, str, var, id, new) == [cnt |-> c, str |-> str, var |-> var, id |-> id, new |-> new]
onWire ==
    UNION {{[kind |-> "wire", fmt |-> fmt, m |-> message(c, s[1], s[2], id, new)] :
               c \in present(Counts(Filters[fmt])), s \in {<<0, 0>>, <<5, 6>>}, new \in {0, 1}, id \in {2, 7}} :
           fmt \in DOMAIN Filters}
buffered(b) ==
    {[kind |-> "buffer", buf |-> b, m |-> message(c, str, var, 0, 0)] :
        c \in inBuffer(Counts(Buffers[b])), str \in {0, 1, 2, 3, 39, 60}, var \in {0, 1, 2, 3, 37, 57, 200}}
messages ==
    onWire
    \cup UNION {{x \in buffered(b) : Ordinary(b, x.m.cnt, x.m.str, x.m.var)} : b \in DOMAIN Buffers}
    \cup {[kind |-> "load", x |-> x, y |-> y] : x, y \in loadValues}
    \cup {[kind |-> "host", h |-> [type |-> t, model |-> mo, windows |-> wi]] :
            t, mo \in classes, wi \in BOOLEAN}

-----------------------------------------------------------------------------
MCInit ==
    /\ part \in {"election", "conf", "messages", "sets"}
    /\ Init
    /\ lfile \in IF part = "conf" THEN clusterFiles ELSE {<<>>}
    /\ LimConfInit(lfile)
    /\ \E in \in IF part = "messages" THEN messages ELSE {[kind |-> "load", x |-> 0, y |-> 0]} : MessagesInit(in)
    /\ BitsetInit /\ (part # "sets" => iter.set = 1)

OneFault == crashes + losses <= 1

MCNext ==
    /\ UNCHANGED <<part, lfile>>
    /\ \/ part = "election" /\ Next /\ OneFault' /\ UNCHANGED <<lvars, mvars, bsvars>>
       \/ part = "conf" /\ LimConfNext /\ UNCHANGED <<vars, mvars, bsvars>>
       \/ part = "messages" /\ MessagesNext /\ UNCHANGED <<vars, lvars, bsvars>>
       \/ part = "sets" /\ BitsetNext /\ UNCHANGED <<vars, lvars, mvars>>

\* Fairness of the election, where there is one.
MCFairness ==
    /\ \A h \in Hosts : WF_vars(part = "election" /\ periodic(h))
    /\ WF_vars(part = "election" /\ \E m \in net : receive(m))

MCSpec == MCInit /\ [][MCNext]_<<part, lfile, vars, lvars, mvars, bsvars>> /\ MCFairness

\* Hosts come and go at run time with some of the files only.
EventsBound == withEvents(lfile) \/ lasked = 0

\* ReadersAgree and HostNumbersInOrder for the file at hand.
FilesReadAlike == ReadersAgree(lfile)
ServersNumberedInOrder == HostNumbersInOrder(lfile)

\* The cluster file gives LIM and the library the same tables: resources have
\* one index everywhere, one instance of a resource per host, and hosts are
\* numbered in the order of the file (lim.conf.c, lib.conf.c).
ConfSound == IndexTablesAligned /\ OneInstancePerHost /\ FilesReadAlike /\ ServersNumberedInOrder
=============================================================================
