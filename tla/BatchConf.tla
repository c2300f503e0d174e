----------------------------- MODULE BatchConf -----------------------------
(***************************************************************************)
(* The hosts, host groups, users and user groups of lsb.hosts and          *)
(* lsb.users, as lsb.conf.c reads them for mbatchd (option CONF_CHECK).    *)
(* One action per row of a section; the rows come in any order, so that    *)
(* what must not depend on the order is checked for every order.           *)
(***************************************************************************)
EXTENDS Integers, Sequences, SequencesExt, FiniteSets

CONSTANT
    Site        \* the cluster: names, servers, types, models, users, Unix groups

(* No user group is given the name of a Unix group: a member addMember takes *)
(* for the Unix group could then become the group it is a member of.         *)
ASSUME SiteAssumption == Site.ugroups \cap DOMAIN Site.unix = {}

VARIABLES
    bplan,      \* the sections still to come, each with the rows it may have
    bsec,       \* the section being read
    bleft,      \* how many rows it may still have
    brows,      \* the rows read so far, with what became of group lists
    bhosts,     \* hosts: host -> the number of the row its data comes from
    bhgrp,      \* hostgroups: name -> its memberList
    busers,     \* users: name -> the number of the row its limits come from
    bugrp,      \* usergroups: name -> its memberList
    bunk,       \* unknownUsers
    btmp,       \* tmpHosts, tmpUsers: names this section has had
    bnon        \* nonOverridableHosts, nonOverridableUsers

bvars == <<bplan, bsec, bleft, brows, bhosts, bhgrp, busers, bugrp, bunk, btmp, bnon>>

Empty == [x \in {} |-> 0]
Put(f, x, v) == [y \in DOMAIN f \cup {x} |-> IF y = x THEN v ELSE f[y]]
Reserved == {"all", "default", "others"}

(* Gethostbyname_: the official name of a name that resolves *)
Resolves(w) == w \in DOMAIN Site.official
Official(w) == IF Resolves(w) THEN Site.official[w] ELSE w
ClusterHosts == DOMAIN Site.type
isServerHost(w) == Official(w) \in Site.servers
isHostName(w) == Resolves(w) \/ Official(w) \in DOMAIN bhosts

(***************************************************************************)
(* Groups                                                                  *)
(***************************************************************************)
(* expandGrp: the members behind a word; "all" swallows the others *)
RECURSIVE expandGrp(_, _)
expandGrp(tab, w) ==
    IF w \notin DOMAIN tab THEN {w}
    ELSE IF tab[w] = {"all"} THEN {"all"}
    ELSE LET below == UNION {expandGrp(tab, m) : m \in tab[w]}
         IN IF \E m \in tab[w] \cap DOMAIN tab : expandGrp(tab, m) = {"all"}
            THEN {"all"} ELSE below

(* isInGrp: word w below the group whose members are mem *)
RECURSIVE isInGrp(_, _, _, _)
isInGrp(tab, w, mem, checkAll) ==
    \/ checkAll /\ mem = {"all"}
    \/ \E m \in mem :
          \/ Official(m) = Official(w)
          \/ m \in DOMAIN tab /\ isInGrp(tab, w, tab[m], FALSE)

(* addMember for a user group: a word that is neither a group, a user nor a *)
(* Unix group is remembered as an unknown user, and stays a member          *)
addUserMember(g, st, w) ==
    LET tab == Put(bugrp, g, st.mem)
        unknown == /\ w # "all" /\ w \notin DOMAIN tab
                   /\ w \notin Site.users \cup DOMAIN Site.unix
    IN IF w = g THEN st
       ELSE [mem |-> IF isInGrp(tab, w, st.mem, TRUE) THEN st.mem ELSE st.mem \cup {w},
             unk |-> IF unknown THEN st.unk \cup {w} ELSE st.unk]

(* addMember for a host group: only configured servers and groups *)
addHostMember(g, st, w) ==
    LET tab == Put(bhgrp, g, st.mem)
        known == \/ w = "all"
                 \/ w \in DOMAIN tab
                 \/ /\ Resolves(w)
                    /\ DOMAIN bhosts = {} \/ Official(w) \in DOMAIN bhosts
                    /\ isServerHost(w)
    IN IF w = g \/ ~known \/ isInGrp(tab, w, st.mem, TRUE) THEN st
       ELSE [st EXCEPT !.mem = @ \cup {w}]

RECURSIVE AddMembers(_, _, _, _)
AddMembers(kind, g, st, words) ==
    IF words = <<>> THEN st
    ELSE CHOOSE r \in {AddMembers(kind, g, n, Tail(words)) :
                       n \in {IF kind = "ugroup" THEN addUserMember(g, st, Head(words))
                              ELSE addHostMember(g, st, Head(words))}} : TRUE

(***************************************************************************)
(* Negated hosts: a word <<"~", w>> takes hosts out of the list            *)
(***************************************************************************)
Negated(words) == {words[i][2] : i \in {k \in DOMAIN words : words[k][1] = "~"}}
Plain(words) == SelectSeq(words, LAMBDA w : w[1] # "~")

AllHosts == IF DOMAIN bhosts # {} THEN DOMAIN bhosts ELSE ClusterHosts

(* the hosts a word puts into the list *)
expandWord(w) ==
    IF isHostName(w) THEN {w}
    ELSE LET m == expandGrp(bhgrp, w)
         IN IF m = {"all"} THEN AllHosts ELSE m

(* the hosts a negated word takes out: an unknown one is passed over *)
takenOut(w) ==
    IF isHostName(w) THEN {w}
    ELSE LET m == expandGrp(bhgrp, w) IN IF m = {w} /\ w # "all" THEN {} ELSE m

(* the comparison is by official name, so that an alias takes its host out *)
remaining(in, out) == {h \in in : Official(h) \notin {Official(x) : x \in out}}

resolveBatchNegHosts(words) ==
    LET in == UNION {expandWord(w[2]) : w \in Range(Plain(words))}
        out == UNION {takenOut(w) : w \in Negated(words)}
        left == remaining(in, out)
    IN IF "" \in Negated(words) \/ "all" \in out \/ left = {} THEN [ok |-> FALSE, words |-> <<>>]
       ELSE [ok |-> TRUE,
             words |-> IF left = in THEN [i \in DOMAIN Plain(words) |-> Plain(words)[i][2]]
                       ELSE SetToSeq(left)]

(* what do_Groups hands to addMember, one word at a time *)
GroupWords(kind, words) ==
    LET r == IF kind = "hgroup" /\ Negated(words) # {} THEN resolveBatchNegHosts(words)
             ELSE [ok |-> TRUE, words |-> [i \in DOMAIN words |-> words[i][2]]]
    IN IF r.ok /\ "all" \in Range(r.words) THEN [r EXCEPT !.words = <<"all">>] ELSE r

(* do_Groups: the names that are refused, and an empty group that is dropped *)
Mut_refusedName(kind, g) ==
    \/ g \in Reserved
    \/ kind = "ugroup" /\ (g \in Site.users \/ g \in DOMAIN bugrp)
    \/ kind = "hgroup" /\ (isHostName(g) \/ g \in DOMAIN bhgrp)

refusedName(kind, g) ==
    \/ g \in Reserved
    \/ kind = "ugroup" /\ (g \in Site.users \/ g \in bunk \/ g \in DOMAIN bugrp)
    \/ kind = "hgroup" /\ (isHostName(g) \/ g \in DOMAIN bhgrp)

do_Groups(kind, g, words) ==
    /\ bsec = kind
    /\ LET r == GroupWords(kind, words)
           st == AddMembers(kind, g, [mem |-> {}, unk |-> bunk], r.words)
       IN IF refusedName(kind, g) \/ ~r.ok
          THEN /\ brows' = Append(brows, [sec |-> kind, name |-> g, words |-> words,
                                          mem |-> {}])
               /\ UNCHANGED <<bugrp, bhgrp, bunk>>
          ELSE /\ brows' = Append(brows, [sec |-> kind, name |-> g, words |-> words,
                                          mem |-> st.mem])
               /\ bunk' = st.unk
               /\ bugrp' = IF kind = "ugroup" /\ st.mem # {} THEN Put(bugrp, g, st.mem) ELSE bugrp
               /\ bhgrp' = IF kind = "hgroup" /\ st.mem # {} THEN Put(bhgrp, g, st.mem) ELSE bhgrp
    /\ UNCHANGED <<bplan, bsec, bhosts, busers, btmp, bnon>>

(***************************************************************************)
(* Hosts                                                                   *)
(***************************************************************************)
(* addHost and addUser: new data, or data in the place of the old one *)
addEntry(tab, xs, row, override) ==
    [x \in DOMAIN tab \cup xs |->
        IF x \in xs /\ (override \/ x \notin DOMAIN tab) THEN row ELSE tab[x]]

OfTypeOrModel(w) == {h \in Site.servers : Site.type[h] = w \/ Site.model[h] = w}

(* the hosts a type or model row is for: those without a row of their own *)
typeHosts(w) == OfTypeOrModel(w) \ bnon

(* do_Hosts, one row: for a host, for a type or a model, or for "default". *)
(* A host the cluster does not have, or a client, is passed over.          *)
do_Hosts(w) ==
    /\ bsec = "host"
    /\ LET row == Len(brows) + 1
           known == w = "default" \/ Resolves(w) \/ OfTypeOrModel(w) # {}
           byType == w # "default" /\ ~Resolves(w)
           name == Official(w)
       IN /\ brows' = Append(brows, [sec |-> "host", name |-> w])
          /\ btmp' = IF known THEN btmp \cup {name} ELSE btmp
          /\ IF ~known \/ name \in btmp THEN UNCHANGED <<bhosts, bnon>>
             ELSE /\ bhosts' = IF w = "default" THEN addEntry(bhosts, Site.servers, row, FALSE)
                               ELSE IF byType THEN addEntry(bhosts, typeHosts(w), row, TRUE)
                               ELSE addEntry(bhosts, {name} \cap Site.servers, row, TRUE)
                  /\ bnon' = IF byType \/ w = "default" THEN bnon
                             ELSE bnon \cup ({name} \cap Site.servers)
    /\ UNCHANGED <<bplan, bsec, bhgrp, busers, bugrp, bunk>>

(***************************************************************************)
(* Users                                                                   *)
(***************************************************************************)
(* the members a "group@" row is for: those without a row of their own *)
eachMember(mem) == mem \ bnon

(* do_Users, one row: a name, or "group@" for each of its members.  A Unix *)
(* group becomes a group of its own; the members of an "all" group are not *)
(* known and the row has no effect.                                        *)
do_Users(w, at) ==
    /\ bsec = "user"
    /\ LET row == Len(brows) + 1
           key == <<w, at>>
           ux == w \notin DOMAIN bugrp \cup Site.users \cup {"default"} /\ w \in DOMAIN Site.unix
           mem0 == IF ux THEN Site.unix[w] \cap Site.users ELSE {}
           tab == IF ux THEN Put(bugrp, w, mem0) ELSE bugrp
           each == at /\ w \in DOMAIN tab
           name == IF at /\ ~each THEN w \o "@" ELSE w
           mem == expandGrp(tab, w)
       IN /\ brows' = Append(brows, [sec |-> "user", name |-> name, at |-> each, mem |-> mem])
          /\ btmp' = btmp \cup {key}
          /\ IF key \in btmp \/ (ux /\ mem0 = {}) THEN UNCHANGED <<bugrp, busers, bnon>>
             ELSE /\ bugrp' = tab
                  /\ IF each
                     THEN /\ busers' = IF mem = {"all"} THEN busers
                                       ELSE addEntry(busers, eachMember(mem), row, TRUE)
                          /\ UNCHANGED bnon
                     ELSE /\ busers' = addEntry(busers, {name}, row, TRUE)
                          /\ bnon' = bnon \cup {name}
    /\ UNCHANGED <<bplan, bsec, bhosts, bhgrp, bunk>>

(***************************************************************************)
(* The files                                                               *)
(***************************************************************************)
BatchConfInit(plan) ==
    /\ bplan = plan
    /\ bsec = "none"
    /\ bleft = 0
    /\ brows = <<>>
    /\ bhosts = Empty
    /\ bhgrp = Empty
    /\ busers = Empty
    /\ bugrp = Empty
    /\ bunk = {}
    /\ btmp = {}
    /\ bnon = {}

(* Begin: the tables of a section start empty *)
BeginSection ==
    /\ bplan # <<>>
    /\ bplan' = Tail(bplan)
    /\ bsec' = Head(bplan)[1]
    /\ bleft' = Head(bplan)[2]
    /\ btmp' = {}
    /\ bnon' = {}
    /\ brows' = Append(brows, [sec |-> "begin", name |-> bsec'])
    /\ UNCHANGED <<bhosts, bhgrp, busers, bugrp, bunk>>

Row ==
    /\ bleft > 0
    /\ bleft' = bleft - 1
    /\ \/ \E w \in Site.hostWords : do_Hosts(w)
       \/ \E w \in Site.userWords, at \in BOOLEAN : do_Users(w, at)
       \/ \E g \in Site.ugroups, ws \in Site.ulists : do_Groups("ugroup", g, ws)
       \/ \E g \in Site.hgroups, ws \in Site.hlists : do_Groups("hgroup", g, ws)

BatchConfNext == BeginSection \/ Row

(***************************************************************************)
(* What the files say                                                      *)
(***************************************************************************)
RowsOf(s) == {i \in DOMAIN brows : brows[i].sec = s}
FirstOf(S) == CHOOSE i \in S : \A k \in S : i <= k
LastOf(S) == CHOOSE i \in S : \A k \in S : i >= k
(* a later row with the name of an earlier one does not count *)
Counted(s, Key(_)) == {i \in RowsOf(s) : \A k \in RowsOf(s) : k < i => Key(k) # Key(i)}

OneSection(s) == Cardinality({i \in RowsOf("begin") : brows[i].name = s}) <= 1

HostKey(i) == Official(brows[i].name)
HostRows(h) == {i \in Counted("host", HostKey) : brows[i].name # "default" /\ HostKey(i) = h}
TypeRows(h) == {i \in Counted("host", HostKey) :
                   ~Resolves(brows[i].name) /\ h \in OfTypeOrModel(brows[i].name)}
DefaultRows == {i \in Counted("host", HostKey) : brows[i].name = "default"}
Governs(h) == IF HostRows(h) # {} THEN FirstOf(HostRows(h))
              ELSE IF TypeRows(h) # {} THEN LastOf(TypeRows(h))
              ELSE IF DefaultRows # {} THEN FirstOf(DefaultRows) ELSE 0

(***************************************************************************)
(* The data of a server come from the row that names it; without one from  *)
(* the last row for its type or model; without one from "default"; and     *)
(* that in whatever order the rows of the section stand.  A host with none *)
(* of them, and a client, is not a batch host.                             *)
(***************************************************************************)
HostRowsGovern ==
    OneSection("host") =>
    \A h \in ClusterHosts :
        IF h \in Site.servers /\ Governs(h) # 0
        THEN h \in DOMAIN bhosts /\ bhosts[h] = Governs(h)
        ELSE h \notin DOMAIN bhosts

UserKey(i) == <<brows[i].name, brows[i].at>>
UserRows(u) == {i \in Counted("user", UserKey) : ~brows[i].at /\ brows[i].name = u}
EachRows(u) == {i \in Counted("user", UserKey) : brows[i].at /\ u \in brows[i].mem}

(***************************************************************************)
(* The limits of a user come from the row that names it; without one from  *)
(* the last "group@" row of a group it is in, directly or through others,  *)
(* in whatever order the rows stand: a group's limit never replaces the    *)
(* one the administrator gave the user.                                    *)
(***************************************************************************)
UserRowsGovern ==
    OneSection("user") =>
    \A u \in Site.users :
        CASE UserRows(u) # {} -> u \in DOMAIN busers /\ busers[u] = FirstOf(UserRows(u))
          [] UserRows(u) = {} /\ EachRows(u) # {} ->
                u \in DOMAIN busers /\ busers[u] = LastOf(EachRows(u))
          [] OTHER -> u \notin DOMAIN busers

(* the names below a group, in n steps *)
RECURSIVE Below(_, _, _)
Below(tab, S, n) ==
    IF n = 0 THEN S
    ELSE Below(tab, S \cup UNION {tab[g] : g \in S \cap DOMAIN tab}, n - 1)

(***************************************************************************)
(* No group is, through other groups, a member of itself, so that          *)
(* expandGrp and isInGrp come to an end: a word that is not yet a group    *)
(* when it is used can never become one.                                   *)
(***************************************************************************)
GroupsWellFounded ==
    /\ \A g \in DOMAIN bhgrp : g \notin Below(bhgrp, bhgrp[g], Cardinality(DOMAIN bhgrp))
    /\ \A g \in DOMAIN bugrp : g \notin Below(bugrp, bugrp[g], Cardinality(DOMAIN bugrp))

(* the configured servers a set of words stands for, with the groups tab *)
Denotes(tab, ws) ==
    LET names == UNION {IF isHostName(w) THEN {w} ELSE expandGrp(tab, w) : w \in ws}
    IN {Official(h) : h \in IF "all" \in names THEN AllHosts ELSE names}
       \cap Site.servers \cap AllHosts

(***************************************************************************)
(* A host group written with negations has as members exactly the hosts of *)
(* its plain words less those of its negated ones, whether these name      *)
(* hosts, aliases, groups or groups of groups; a list that leaves nothing  *)
(* makes no group.                                                         *)
(***************************************************************************)
NegationExact ==
    LET row == Last(brows)
        before == [g \in DOMAIN bhgrp \ {row.name} |-> bhgrp[g]]
    IN (bsec = "hgroup" /\ row.sec = "hgroup" /\ Negated(row.words) # {} /\ row.mem # {}) =>
          Denotes(before, row.mem) =
              Denotes(before, {w[2] : w \in Range(Plain(row.words))})
              \ Denotes(before, Negated(row.words))

\* lsb.hosts and lsb.users govern: every host and every user has the limits of
\* the row that names it most closely, groups are well-founded, and a name
\* that a list takes out is out (addHostData, addMember, getHGrpData).
RowsGovern == HostRowsGovern /\ UserRowsGovern /\ GroupsWellFounded /\ NegationExact
=============================================================================
