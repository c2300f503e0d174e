------------------------------- MODULE LimConf -------------------------------
(***************************************************************************)
(* lsf.shared and lsf.cluster, as the LIM reads them (lim.conf.c) and as   *)
(* the library reads the same two files for lsadmin (lib.conf.c), and the  *)
(* hosts added to and removed from a running cluster, with their log       *)
(* lim.events (lim.misc.c).                                                *)
(*                                                                         *)
(* A file is a sequence of rows; one step reads one row, in the LIM and in *)
(* the library.  A resource, a host, a model or a type is a name; the      *)
(* value in a threshold column is the name of that column, so that a       *)
(* threshold says which index it was written for.  Rows that the parser    *)
(* of sections drops (a wrong number of words) are not rows here.          *)
(***************************************************************************)
EXTENDS Integers, Sequences, FiniteSets, SequencesExt

CONSTANTS
  Builtin,      \* builtInRes, the load indices first: [name, type, order, flags]
  NBUILTINDEX,  \* how many of them are load indices
  Resolvable,   \* the names Gethostbyname_ knows
  MaxLimEvents, \* events in lim.events above which logInit renames it
  MaxMigrants   \* bound on hosts added and removed and on restarts

ASSUME LimConfAssumption ==
  /\ NBUILTINDEX \in 1..Len(Builtin)
  /\ \A i \in 1..Len(Builtin) :
       (i <= NBUILTINDEX) <=> ("dyn" \in Builtin[i].flags)

VARIABLES
  lrows,   \* the rows still to be read
  llim,    \* the LIM's tables: allInfo, li, shortInfo, the cluster node
  llib,    \* the library's tables: lsinfo, cConf
  lstage,  \* "reading", "up", "failed"
  lconf,   \* the LIM's tables as the configuration files alone make them
  levents, \* lim.events: sequence of [ev, host]
  lasked   \* hosts added or removed and restarts so far

lvars == <<lrows, llim, llib, lstage, lconf, levents, lasked>>

Nobody == "-"
Has(s, n) == \E i \in DOMAIN s : s[i].name = n
At(s, n) == CHOOSE i \in DOMAIN s : s[i].name = n /\ \A j \in 1..(i - 1) : s[j].name # n
Shift(s, i) == RemoveAt(s, i)

-----------------------------------------------------------------------------
(* lsf.shared: the resource table *)

\* A user-defined item before its columns are read (initResItem).
initResItem(n) == [name |-> n, type |-> "bool", order |-> "na", flags |-> {"glob"}]

IndexItem(row) ==
  [name |-> row.name, type |-> "num", order |-> row.incr, flags |-> {"dyn", "glob"}]

\* setIndex keeps li[].increasing in step when a builtin index is redefined.
liIncreasing(li, row) ==
  [i \in DOMAIN li |-> IF li[i].name = row.name THEN [li[i] EXCEPT !.order = row.incr] ELSE li[i]]

\* The LIM's NewIndex row: a user index may not be defined twice, a builtin
\* one may be redefined once and is then no longer builtin.
setIndex(t, row) ==
  IF row.digit THEN t
  ELSE IF ~Has(t.res, row.name)
    THEN [t EXCEPT !.res = Append(@, IndexItem(row)), !.nusr = @ + 1,
                   !.li = Append(@, [name |-> row.name, order |-> row.incr])]
  ELSE LET i == At(t.res, row.name) IN
    IF {"dyn", "builtin"} \subseteq t.res[i].flags
    THEN [t EXCEPT !.res[i] = IndexItem(row), !.li = liIncreasing(@, row)]
    ELSE t

Mut_libSetIndex(t, row) ==
  IF Has(t.res, row.name) THEN t
  ELSE [t EXCEPT !.res = Append(@, IndexItem(row)), !.nidx = @ + 1]

\* The library's setIndex overwrites any dynamic resource of that name.
libSetIndex(t, row) ==
  IF ~Has(t.res, row.name)
  THEN [t EXCEPT !.res = Append(@, IndexItem(row)), !.nidx = @ + 1]
  ELSE LET i == At(t.res, row.name) IN
    IF "dyn" \in t.res[i].flags THEN [t EXCEPT !.res[i] = IndexItem(row)] ELSE t

\* The columns of a Resource row that both readers refuse: a type they do
\* not know, an interval that is not positive, a numeric resource without
\* INCREASING, RELEASE on a resource that is not numeric.
badColumns(row, ty) ==
  \/ ty \notin {"num", "bool", "str"}
  \/ row.intv = "bad"
  \/ ty = "num" /\ row.incr \notin {"incr", "decr"}
  \/ row.rel # "" /\ (ty # "num" \/ row.rel = "bad")

typeOf(row) == IF row.type = "" THEN "bool" ELSE row.type

\* The item a good row makes; dyn: the row's interval makes it dynamic.
resItem(row, ty, dyn) ==
  [initResItem(row.name) EXCEPT
     !.type = ty, !.order = IF ty = "num" THEN row.incr ELSE "na",
     !.flags = @ \union (IF dyn THEN {"dyn"} ELSE {})
                 \union (IF ty = "num" /\ row.rel # "no" THEN {"release"} ELSE {})]

\* A Resource row that names a resource the LIM has: a builtin index given
\* with its own type and order stops being builtin, nothing else happens.
redefined(t, row) ==
  LET i == At(t.res, row.name) IN
  IF /\ {"dyn", "builtin"} \subseteq t.res[i].flags
     /\ row.type = t.res[i].type
     /\ t.res[i].order = (IF row.incr = "decr" THEN "decr" ELSE "incr")
  THEN [t EXCEPT !.res[i].flags = @ \ {"builtin"}] ELSE t

\* The LIM's Resource row.  Type "!" makes an external string resource
\* (setExtResourcesDef); an interval makes a resource of any type dynamic,
\* and a numeric one a load index as well.
doresources(t, row) ==
  LET ty == typeOf(row)
      index == ty = "num" /\ row.intv = "ok"
  IN IF Has(t.res, row.name) THEN redefined(t, row)
     ELSE IF row.digit THEN t
     ELSE IF row.type = "!"
       THEN [t EXCEPT !.res = Append(@, [initResItem(row.name) EXCEPT
                                           !.type = "str", !.flags = @ \union {"dyn", "ext"}])]
     ELSE IF badColumns(row, ty) THEN t
     ELSE [t EXCEPT !.res = Append(@, resItem(row, ty, row.intv = "ok")),
                    !.nusr = @ + (IF index THEN 1 ELSE 0),
                    !.li = IF index THEN Append(@, [name |-> row.name, order |-> row.incr]) ELSE @]

\* The library's: "!" is no type, and only a numeric resource is dynamic.
do_Resources(t, row) ==
  LET ty == typeOf(row)
      index == ty = "num" /\ row.intv = "ok"
  IN IF Has(t.res, row.name) \/ row.digit \/ badColumns(row, ty) THEN t
     ELSE [t EXCEPT !.res = Append(@, resItem(row, ty, index)), !.nidx = @ + (IF index THEN 1 ELSE 0)]

isIndex(r) == r.type = "num" /\ {"dyn", "glob"} \subseteq r.flags

\* The order of reCheckRes: load indices, other numeric ones, booleans, strings.
inOrder(res) ==
  SelectSeq(res, isIndex) \o SelectSeq(res, LAMBDA r : r.type = "num" /\ ~isIndex(r))
    \o SelectSeq(res, LAMBDA r : r.type = "bool") \o SelectSeq(res, LAMBDA r : r.type = "str")

\* After lsf.shared the LIM sorts its table, counts the indices again and
\* lists the booleans and strings that hosts may have (shortInfo.resName).
reCheckRes(t) ==
  LET short == SelectSeq(inOrder(t.res), LAMBDA r : "builtin" \notin r.flags /\ r.type \in {"bool", "str"})
  IN [t EXCEPT !.res = inOrder(@), !.nidx = Len(SelectSeq(t.res, isIndex)),
               !.short = [i \in DOMAIN short |-> short[i].name]]

-----------------------------------------------------------------------------
(* lsf.shared: host types and models *)

\* The LIM's table starts with UNKNOWN_AUTO_DETECT and DEFAULT; a row may
\* give DEFAULT once more.
addHostType(t, row) ==
  LET known == row.name \in ToSet(t.types)
      again == known /\ row.name = "DEFAULT"
  IN [t EXCEPT !.ndefault = @ + (IF again THEN 1 ELSE 0),
               !.types = IF ~known \/ (again /\ t.ndefault = 0) THEN Append(@, row.name) ELSE @]

\* A HostType row: no name that begins with a digit.
dotypelist(t, row) == IF row.digit THEN t ELSE addHostType(t, row)

\* One architecture of a model row ("": none); an architecture belongs to
\* the first model that names it.
oneModel(t, row, arch) ==
  IF row.name = "DEFAULT" THEN [t EXCEPT !.models[2].arch = arch, !.models[2].factor = row.factor]
  ELSE IF \E i \in DOMAIN t.models :
            IF arch = "" THEN t.models[i].name = row.name ELSE t.models[i].arch = arch
    THEN t
  ELSE [t EXCEPT !.models = Append(@, [name |-> row.name, arch |-> arch, factor |-> row.factor])]

addHostModel(t, row) ==
  IF row.factor <= 0 \/ row.digit THEN t
  ELSE IF row.archs = <<>> THEN oneModel(t, row, "")
  ELSE FoldLeft(LAMBDA u, a : oneModel(u, row, a), t, row.archs)

-----------------------------------------------------------------------------
(* lsf.cluster: the administrators *)

\* setAdmins: the manager's names come first, however the sections are ordered.
merged(old, new, mode) ==
  CASE mode = "M_THEN_A" -> old \o SelectSeq(new, LAMBDA u : u \notin ToSet(old))
    [] mode = "A_THEN_M" -> new \o SelectSeq(old, LAMBDA u : u \notin ToSet(new))
    [] OTHER -> new

adminMode(last, sec) ==
  IF sec = "clustermanager" /\ last = "clusteradmins" THEN "A_THEN_M"
  ELSE IF last = "clustermanager" /\ sec = "clusteradmins" THEN "M_THEN_A"
  ELSE "M_OR_A"

\* The LIM skips ClusterManager, and a second ClusterAdmins is an error.
getClusAdmins(t, row) ==
  IF row.sec = "clustermanager" THEN t
  ELSE IF t.lastsec = row.sec \/ row.users = <<>> THEN [t EXCEPT !.error = TRUE]
  ELSE [t EXCEPT !.lastsec = row.sec, !.admins = merged(@, row.users, adminMode(t.lastsec, row.sec))]

libClusAdmins(t, row) ==
  IF row.users = <<>> THEN t
  ELSE [t EXCEPT !.lastsec = row.sec, !.admins = merged(@, row.users, adminMode(t.lastsec, row.sec))]

-----------------------------------------------------------------------------
(* lsf.cluster: the hosts *)

Never(order) == IF order = "incr" THEN "+inf" ELSE "-inf"

\* The threshold of the i-th index: the value of its own column, or one that
\* never makes the host busy.  A builtin index keeps the direction it was
\* built with; the order of another one is looked up at position i of res.
putThreshold(res, i, name, given) ==
  IF name \in given THEN name
  ELSE Never(IF i <= NBUILTINDEX THEN Builtin[i].order ELSE res[i].order)

thresholds(t, row) == [i \in 1..t.nidx |-> putThreshold(t.res, i, t.res[i].name, row.given)]

\* lsaddhost sends a threshold for the builtin indices only, the same for all;
\* what addHost_ copies for the others is past the end of its array.
sentThresholds(t) == [i \in 1..t.nidx |-> IF i <= NBUILTINDEX THEN "+inf" ELSE "undefined"]

findHost(hs, n) == \E i \in DOMAIN hs : hs[i].name = n

\* The list is built at its head, where the last number given is.
nextHostNo(hs) == IF hs = <<>> THEN 0 ELSE hs[1].no + 1

\* The words of RESOURCES that hosts may have, as positions of shortInfo.
resBits(t, row) == {i \in DOMAIN t.short : t.short[i] \in row.words}

\* addHost_: a name that does not resolve, a model or a type that lsf.shared
\* does not define refuses the host; a second row for a host is ignored.
addHost(t, row, migrant) ==
  LET list == IF row.server THEN t.hosts ELSE t.clients
      node == [name |-> row.name, no |-> nextHostNo(list), thr |-> IF migrant THEN sentThresholds(t) ELSE thresholds(t, row),
               bits |-> resBits(t, row), type |-> row.type, model |-> row.model, migrant |-> migrant]
  IN IF \/ row.name \notin Resolvable
        \/ row.model # "!" /\ ~Has(t.models, row.model)
        \/ row.type # "!" /\ row.type \notin ToSet(t.types)
        \/ findHost(t.hosts, row.name) \/ findHost(t.clients, row.name)
     THEN t
     ELSE IF row.server THEN [t EXCEPT !.hosts = <<node>> \o @]
     ELSE [t EXCEPT !.clients = <<node>> \o @]

\* A host row of a section that has not ended.
dohosts(t, row) == addHost(t, row, FALSE)

\* End Host: both lists are turned round.
endHosts(t) == [t EXCEPT !.hosts = Reverse(@), !.clients = Reverse(@)]

\* The library takes every host that resolves, with whatever model and type.
\* Its columns are its dynamic resources in table order, but the default of a
\* user index comes from the order of the i-th resource of its own table,
\* which it does not sort.
libThresholds(t, row) ==
  LET keys == SelectSeq(t.res, LAMBDA r : "dyn" \in r.flags)
  IN [i \in 1..t.nidx |-> putThreshold(t.res, i, keys[i].name, row.given)]

libHost(t, row) ==
  LET node == [name |-> row.name, server |-> row.server, thr |-> libThresholds(t, row)]
  IN IF row.name \notin Resolvable \/ findHost(t.hosts, row.name) THEN t
     ELSE [t EXCEPT !.hosts = Append(@, node)]

-----------------------------------------------------------------------------
(* lsf.cluster: where the shared resources are *)

Words == {"all", "others", "default"}
ConfNames(hs) == [i \in DOMAIN hs |-> hs[i].name]

validLocationHost(t, w) ==
  IF w \in Words THEN TRUE
  ELSE IF w \in Resolvable THEN findHost(t.hosts, w)
  ELSE w \in ToSet(Tail(t.types)) \/ Has(Tail(t.models), w)

isInHostList(insts, h) == \E i \in DOMAIN insts : h \in ToSet(insts[i])

\* The hosts a word of an instance stands for, without those that an earlier
\* instance of the resource has.
getValidHosts(t, insts, w) ==
  LET free(P(_)) == ConfNames(SelectSeq(t.hosts, LAMBDA h : P(h) /\ ~isInHostList(insts, h.name)))
  IN IF w = "all" /\ insts # <<>> THEN <<>>
     ELSE IF w \in {"all", "others"} THEN free(LAMBDA h : TRUE)
     ELSE IF w \in Resolvable THEN free(LAMBDA h : h.name = w)
     ELSE IF w \in ToSet(Tail(t.types)) THEN free(LAMBDA h : h.type = w)
     ELSE free(LAMBDA h : h.model = w)

\* addHostInstance: the hosts of all its words, each once; an instance that
\* no host is left for is not added.
addHostInstance(t, insts, words) ==
  LET add(hs, w) == hs \o SelectSeq(getValidHosts(t, insts, w), LAMBDA h : h \notin ToSet(hs))
      hosts == FoldLeft(add, <<>>, words)
  IN IF hosts = <<>> THEN insts ELSE Append(insts, hosts)

\* "all ~h": convertNegNotation_ writes the list of the other hosts.
expandNeg(t, inst) ==
  IF inst.neg = {} THEN inst.hosts
  ELSE SelectSeq(ConfNames(t.hosts), LAMBDA h : h \notin inst.neg)

\* One value@[hosts] of a row, over m = [insts, def, stop, bad]: a numeric
\* resource needs a number, a static one a value; [default] makes an instance
\* of every host, unless the resource already has several, and none at all
\* for a load index that has no instance yet.
oneInstance(t, r, m, inst) ==
  LET words == SelectSeq(expandNeg(t, inst), LAMBDA w : validLocationHost(t, w))
      default == "default" \in ToSet(words)
      dyn == "dyn" \in r.flags
      each(is, h) == IF is = <<>> /\ dyn /\ r.type = "num" THEN is ELSE addHostInstance(t, is, <<h>>)
  IN IF m.stop THEN m
     ELSE IF inst.val = "word" /\ r.type = "num" THEN [m EXCEPT !.stop = TRUE, !.bad = TRUE]
     ELSE IF (inst.val = "" /\ ~dyn) \/ words = <<>> THEN m
     ELSE IF default /\ Len(m.insts) > 1 THEN [m EXCEPT !.def = TRUE, !.stop = TRUE]
     ELSE IF default THEN [m EXCEPT !.def = TRUE, !.insts = FoldLeft(each, @, ConfNames(t.hosts))]
     ELSE [m EXCEPT !.insts = addHostInstance(t, @, words)]

\* Where an external resource is, when nothing else says so.
extLocation == <<[val |-> "", hosts |-> <<"default">>, neg |-> {}]>>

addResourceMap(t, r, row) ==
  FoldLeft(LAMBDA m, inst : oneInstance(t, r, m, inst),
           [insts |-> IF Has(t.shared, r.name) THEN t.shared[At(t.shared, r.name)].insts ELSE <<>>,
            def |-> FALSE, stop |-> FALSE, bad |-> FALSE],
           IF row.ext THEN extLocation ELSE row.insts)

\* hostResources gets an entry with the first instance (addResource).
withInstances(shared, n, insts) ==
  IF Has(shared, n) THEN [shared EXCEPT ![At(shared, n)].insts = insts]
  ELSE IF insts = <<>> THEN shared
  ELSE Append(shared, [name |-> n, insts |-> insts])

\* A ResourceMap row.  A refused row keeps the instances read before its bad
\* one, but the resource stays what it was; a row that adds no instance still
\* makes the resource shared.  Location "!" of an external resource is [default].
doresourcemap(t, row) ==
  IF ~Has(t.res, row.name) \/ At(t.res, row.name) <= NBUILTINDEX THEN t
  ELSE LET i == At(t.res, row.name)
           r == t.res[i]
           m == addResourceMap(t, r, row)
           u == [t EXCEPT !.shared = withInstances(@, r.name, m.insts),
                          !.res[i].flags = IF row.ext THEN @ \union {"ext"} ELSE @]
           keeps == m.def /\ "dyn" \in r.flags /\ r.type = "num"
       IN IF m.bad THEN u
          ELSE [u EXCEPT !.res[i].flags =
                  (IF keeps THEN @ ELSE (@ \ {"glob"}) \union {"shared"})
                    \union (IF "builtin" \in @ \/ row.ext THEN {} ELSE {"map"})]

\* The library keeps the words of every row as an entry of its own.
libAddMap(shared, row) == Append(shared, [name |-> row.name, insts |-> row.insts])

libResourceMap(t, row) ==
  IF ~Has(t.res, row.name) THEN t
  ELSE [t EXCEPT !.shared = libAddMap(@, row),
                 !.res[At(t.res, row.name)].flags = (@ \ {"glob"}) \union {"shared"}]

\* adjIndx takes the entry of that name out of li.
dropLi(t, n) ==
  IF Has(SubSeq(t.li, NBUILTINDEX + 1, Len(t.li)), n)
  THEN Shift(t.li, NBUILTINDEX + At(SubSeq(t.li, NBUILTINDEX + 1, Len(t.li)), n)) ELSE t.li

\* A shared numeric resource goes to the end of the table and into shortInfo;
\* a dynamic one stops being a load index of every host.
oneAdj(t, s) ==
  LET i == At(t.res, s.name)
      r == t.res[i]
      u == [t EXCEPT !.res = Append(Shift(@, i), r), !.short = Append(@, r.name)]
  IN IF r.type # "num" \/ "shared" \notin r.flags THEN t
     ELSE IF "dyn" \notin r.flags THEN u
     ELSE [u EXCEPT !.li = dropLi(t, r.name), !.nusr = @ - 1, !.nidx = @ - 1,
                    !.hosts = [h \in DOMAIN @ |-> [@[h] EXCEPT !.thr = Shift(@, i)]]]

adjIndx(t) == FoldLeft(oneAdj, t, t.shared)

-----------------------------------------------------------------------------
(* The steps *)

EmptyLim ==
  [res |-> Builtin, nidx |-> NBUILTINDEX, nusr |-> 0, short |-> <<>>,
   li |-> [i \in 1..NBUILTINDEX |-> [name |-> Builtin[i].name, order |-> Builtin[i].order]],
   types |-> <<"UNKNOWN_AUTO_DETECT", "DEFAULT">>, ndefault |-> 0,
   models |-> <<[name |-> "UNKNOWN_AUTO_DETECT", arch |-> "UNKNOWN_AUTO_DETECT", factor |-> 1],
                [name |-> "DEFAULT", arch |-> "", factor |-> 1]>>,
   admins |-> <<>>, lastsec |-> "", error |-> FALSE,
   hosts |-> <<>>, clients |-> <<>>, shared |-> <<>>]

EmptyLib ==
  [res |-> Builtin, nidx |-> NBUILTINDEX, admins |-> <<>>, lastsec |-> "", hosts |-> <<>>, shared |-> <<>>]

LimConfInit(rows) ==
  /\ lrows = rows /\ llim = EmptyLim /\ llib = EmptyLib
  /\ lstage = "reading" /\ lconf = EmptyLim /\ levents = <<>> /\ lasked = 0

SharedKinds == {"index", "res", "type", "model", "endshared"}

\* The rows of lsf.shared and lsf.cluster in the LIM ...
limShared(t, row) ==
  CASE row.k = "index" -> setIndex(t, row)
    [] row.k = "res" -> doresources(t, row)
    [] row.k = "type" -> dotypelist(t, row)
    [] row.k = "model" -> addHostModel(t, row)
    [] row.k = "endshared" -> reCheckRes(t)

limCluster(t, row) ==
  CASE row.k = "admins" -> getClusAdmins(t, row)
    [] row.k = "host" -> dohosts(t, row)
    [] row.k = "endhosts" -> endHosts(t)
    [] row.k = "map" -> doresourcemap(t, row)

\* ... and in the library.
libShared(t, row) ==
  CASE row.k = "index" -> libSetIndex(t, row)
    [] row.k = "res" -> do_Resources(t, row)
    [] OTHER -> t

libCluster(t, row) ==
  CASE row.k = "admins" -> libClusAdmins(t, row)
    [] row.k = "host" -> libHost(t, row)
    [] row.k = "map" -> libResourceMap(t, row)
    [] OTHER -> t

ReadRow ==
  /\ lstage = "reading" /\ lrows # <<>>
  /\ IF Head(lrows).k \in SharedKinds
     THEN llim' = limShared(llim, Head(lrows)) /\ llib' = libShared(llib, Head(lrows))
     ELSE llim' = limCluster(llim, Head(lrows)) /\ llib' = libCluster(llib, Head(lrows))
  /\ lrows' = Tail(lrows)
  /\ UNCHANGED <<lstage, lconf, levents, lasked>>

\* End of lsf.cluster: without a server host, or after an error, the LIM exits.
EndCluster ==
  /\ lstage = "reading" /\ lrows = <<>>
  /\ IF llim.hosts = <<>> \/ llim.error
     THEN lstage' = "failed" /\ UNCHANGED <<llim, lconf>>
     ELSE /\ lstage' = "up"
          /\ llim' = adjIndx(llim)
          /\ lconf' = adjIndx(llim)
  /\ UNCHANGED <<lrows, llib, levents, lasked>>

\* The nodes that addMigrantHost and addHostByTab mark: addHost_ returns the
\* node a client of that name has.
AddedRow(h) ==
  [k |-> "host", name |-> h, server |-> TRUE, model |-> "DEFAULT", type |-> "DEFAULT",
   given |-> {}, words |-> {}]
migrantNode(t, h) ==
  IF findHost(t.clients, h)
  THEN [t EXCEPT !.clients[At(t.clients, h)].migrant = TRUE]
  ELSE addHost(t, AddedRow(h), TRUE)

\* A host the log names that the configuration has as well is the same node.
markMigrant(t, h) ==
  IF findHost(t.hosts, h) THEN [t EXCEPT !.hosts[At(t.hosts, h)].migrant = TRUE]
  ELSE migrantNode(t, h)

\* lsaddhost on the master.
addMigrantHost(h) ==
  /\ lstage = "up" /\ lasked < MaxMigrants
  /\ ~findHost(llim.hosts, h) /\ h \in Resolvable
  /\ llim' = migrantNode(llim, h)
  /\ levents' = Append(levents, [ev |-> "add", host |-> h])
  /\ lasked' = lasked + 1
  /\ UNCHANGED <<lrows, llib, lstage, lconf>>

\* lsrmhost: only a migrant server can be removed.
rmMigrantHost(h) ==
  /\ lstage = "up" /\ lasked < MaxMigrants
  /\ \E i \in DOMAIN llim.hosts :
       /\ llim.hosts[i].name = h /\ llim.hosts[i].migrant
       /\ llim' = [llim EXCEPT !.hosts = Shift(@, i)]
  /\ levents' = Append(levents, [ev |-> "remove", host |-> h])
  /\ lasked' = lasked + 1
  /\ UNCHANGED <<lrows, llib, lstage, lconf>>

afterEvent(hs, e) == IF e.ev = "add" THEN hs \union {e.host} ELSE IF e.ev = "remove" THEN hs \ {e.host} ELSE hs

\* loadEvents: the hosts added and not removed, in the order of its table.
Logged(es) == FoldLeft(afterEvent, {}, es)
addHostByTab(t, order) == FoldLeft(markMigrant, t, order)

\* A new LIM: the configuration, then lim.events, which logInit moves away
\* when it has grown too long.
Restart ==
  /\ lstage = "up" /\ lasked < MaxMigrants
  /\ \E order \in SetToSeqs(Logged(levents)) : llim' = addHostByTab(lconf, order)
  /\ levents' = IF Len(levents) > MaxLimEvents THEN <<[ev |-> "start", host |-> Nobody]>>
                ELSE Append(levents, [ev |-> "start", host |-> Nobody])
  /\ lasked' = lasked + 1
  /\ UNCHANGED <<lrows, llib, lstage, lconf>>

LimConfNext ==
  \/ ReadRow
  \/ EndCluster
  \/ \E h \in Resolvable : addMigrantHost(h)
  \/ \E h \in Resolvable : rmMigrantHost(h)
  \/ Restart

-----------------------------------------------------------------------------
(* Properties *)

\* The three tables a load index is looked up in by number agree once the
\* files are read: li[i] and resTable[i] are the same index with the same
\* direction, the first numIndx resources are load indices, and the i-th
\* threshold of a configured host was written for the i-th index (setIndex,
\* doresources, reCheckRes, dohosts, adjIndx).
IndexTablesAligned ==
  lstage = "up" =>
    /\ llim.nidx = Len(llim.li) /\ llim.nidx = NBUILTINDEX + llim.nusr
    /\ \A i \in 1..llim.nidx :
         LET r == llim.res[i] IN
         /\ r.name = llim.li[i].name /\ r.order = llim.li[i].order
         /\ r.type = "num" /\ "dyn" \in r.flags
         /\ \A h \in DOMAIN llim.hosts :
              llim.hosts[h].migrant
                \/ llim.hosts[h].thr[i] \in {r.name} \union (IF i <= NBUILTINDEX THEN {"+inf", "-inf"} ELSE {Never(r.order)})

\* A host has at most one instance of a shared resource, whatever words,
\* types, models and negations the rows of ResourceMap use (getValidHosts,
\* addHostInstance), and an instance has hosts.
OneInstancePerHost ==
  \A s \in DOMAIN llim.shared :
    LET is == llim.shared[s].insts IN
    /\ is # <<>>
    /\ \A i, j \in DOMAIN is :
         /\ is[i] # <<>> /\ Cardinality(ToSet(is[i])) = Len(is[i])
         /\ (i # j) => (ToSet(is[i]) \cap ToSet(is[j]) = {})

\* What both readers make of a resource the files define once.
Seen(res, n) == {[type |-> r.type, order |-> r.order, dyn |-> "dyn" \in r.flags] : r \in {x \in ToSet(res) : x.name = n}}
SharedRows(rows, n) == {i \in DOMAIN rows : rows[i].k \in {"index", "res"} /\ rows[i].name = n}
Common(row) == ~row.digit /\ (row.k = "res" => row.type # "!" /\ (row.intv # "ok" \/ row.type = "num"))

\* The LIM and the library, which lsadmin uses to find the hosts it starts
\* daemons on, read the same resources, servers and administrators from files
\* without the rows they are known to treat differently (the second of two
\* rows of one name, names that begin with a digit, external types, intervals
\* of resources that are not numeric, hosts of unknown type or model).
ReadersAgree(rows) ==
  lstage = "up" =>
    /\ \A i \in DOMAIN rows :
         (rows[i].k \in {"index", "res"} /\ SharedRows(rows, rows[i].name) = {i} /\ Common(rows[i]))
           => Seen(llim.res, rows[i].name) = Seen(llib.res, rows[i].name)
    /\ \A i \in DOMAIN lconf.hosts :
         \E j \in DOMAIN llib.hosts : llib.hosts[j].name = lconf.hosts[i].name /\ llib.hosts[j].server
    /\ \A j \in DOMAIN llib.hosts :
         findHost(lconf.hosts, llib.hosts[j].name) \/ findHost(lconf.clients, llib.hosts[j].name)
           \/ \E i \in DOMAIN rows : /\ rows[i].k = "host" /\ rows[i].name = llib.hosts[j].name
                                    /\ \/ ~Has(lconf.models, rows[i].model)
                                       \/ rows[i].type \notin ToSet(lconf.types)
    /\ (\A i \in DOMAIN rows : rows[i].k = "admins" => rows[i].sec = "clusteradmins")
         => llim.admins = llib.admins

\* The configured servers are numbered 0, 1, ... in the order of the file:
\* the number decides who becomes master and how long a LIM waits (addHost_,
\* dohosts).  One Host section is assumed; a second one starts again at 1.
HostNumbersInOrder(rows) ==
  lstage = "up" =>
    LET firsts == SelectSeq(rows, LAMBDA r : r.k = "host" /\ findHost(lconf.hosts, r.name)
                                           /\ (r.type = "!" \/ r.type \in ToSet(lconf.types))
                                           /\ (r.model = "!" \/ Has(lconf.models, r.model))) IN
    \A i \in DOMAIN lconf.hosts :
      /\ lconf.hosts[i].no = i - 1
      /\ \E j \in DOMAIN firsts :
           /\ firsts[j].name = lconf.hosts[i].name
           /\ Cardinality({firsts[k].name : k \in 1..j}) = i

Migrants(t) == {t.hosts[i].name : i \in {j \in DOMAIN t.hosts : t.hosts[j].migrant}}

\* A host that was removed from the running cluster does not come back when
\* the LIM starts again and reads lim.events (loadEvents, addHostByTab).
RemovedStaysRemoved ==
  [][(lstage = "up" /\ llim' # llim /\ (Len(levents') = 0 \/ levents'[Len(levents')].ev = "start"))
       => Migrants(llim') \subseteq Migrants(llim)]_lvars
=============================================================================
