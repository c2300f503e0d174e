----------------------------- MODULE LimElection -----------------------------
(***************************************************************************)
(* The choice of the master LIM of a cluster and the exchange of load      *)
(* between the master and the slaves (lim.internal.c, lim.load.c).         *)
(*                                                                         *)
(* The LIMs are numbered by their place in the cluster file (hostNo).  The *)
(* master announces itself to every host in turn.  A slave counts exchange *)
(* intervals without an announcement, and takes over when the count passes *)
(* a limit that grows with hostNo and the last master does not accept a    *)
(* TCP connection.  A LIM gives in to announcements of lower numbers only, *)
(* and answers one of a would-be master with the name of its own.          *)
(*                                                                         *)
(* Datagrams may be lost and reordered.  exchIntvl = sampleIntvl, so that  *)
(* each run of periodic() is one exchange interval.                        *)
(***************************************************************************)
EXTENDS Integers, FiniteSets

CONSTANTS
    NumHosts,               \* LIMs, numbered from 0
    NoHost,                 \* a NULL host pointer
    ComputeOnly,            \* hosts configured with LIM_COMPUTE_ONLY
    HostInactivityLimit,    \* intervals without a word before suspicion
    MasterInactivityLimit,  \* further intervals per hostNo before a takeover
    RetryLimit,             \* intervals of probing a silent peer
    CountCap, CountWrap,    \* hostInactivityCount above the cap is set back
    MaxCrash, MaxLoss,      \* bounds: crashes, lost datagrams
    MaxLate                 \* bound: datagrams that are late at an alarm

Hosts == 0..(NumHosts - 1)

\* The last conjunct holds of the default limits (2 and 2); the configuration
\* file may set others.  Without it host 1 may probe a master that it has not
\* forgotten, and put back a prevMasterPtr that is NULL.
ASSUME ElectionAssumption ==
    /\ NumHosts \in Nat \ {0}
    /\ NoHost \notin Nat
    /\ ComputeOnly \subseteq Hosts
    /\ HostInactivityLimit \in Nat /\ HostInactivityLimit >= 2
    /\ MasterInactivityLimit \in Nat
    /\ RetryLimit \in Nat
    /\ CountCap \in Nat /\ CountWrap \in Nat
    /\ HostInactivityLimit + RetryLimit < CountWrap /\ CountWrap <= CountCap
    /\ MaxCrash \in Nat /\ MaxLoss \in Nat /\ MaxLate \in Nat
    /\ RetryLimit <= MasterInactivityLimit

VARIABLES
    up,           \* LIMs that run
    masterMe,     \* LIMs that act as the master
    masterKnown,  \* LIMs with a master
    masterPtr,    \* that master
    prevMaster,   \* prevMasterPtr
    masterCount,  \* masterInactivityCount
    mustSend,     \* mustSendLoad
    noSend,       \* noSendCount
    cnt,          \* announceMaster's place in its round of hosts
    infoValid,    \* for each LIM, the hosts whose static data it has
    unavail,      \* for each LIM, the hosts it holds to be LIM_UNAVAIL
    hostCount,    \* for each LIM, hostInactivityCount of each host
    net,          \* datagrams under way
    ticked,       \* hosts whose current interval has begun
    crashes, losses

election == <<masterMe, masterKnown, masterPtr, prevMaster, masterCount>>
exchange == <<mustSend, noSend, cnt, infoValid, unavail, hostCount>>
env      == <<up, ticked, crashes, losses>>
vars     == <<election, exchange, net, env>>

\* announceMaster visits every host once in this many intervals.
periods == HostInactivityLimit - 1

\* Every comparison with masterInactivityCount is decided from here on.
CountBound == HostInactivityLimit + RetryLimit + NumHosts * MasterInactivityLimit + 1

\* An announcement names the sender's master; ask is SEND_CONF_INFO or
\* SEND_LOAD_INFO.  A load vector may ask for an announcement.
Ann  == [t : {"ann"}, from : Hosts, to : Hosts, name : Hosts,
         ask : {"none", "conf", "load"}]
Conf == [t : {"conf"}, from : Hosts, to : Hosts]
Load == [t : {"load"}, from : Hosts, to : Hosts, ask : {"none", "ann"}]

TypeOK ==
    /\ up \subseteq Hosts
    /\ masterMe \subseteq Hosts
    /\ masterKnown \subseteq Hosts
    /\ masterPtr \in [Hosts -> Hosts \cup {NoHost}]
    /\ prevMaster \in [Hosts -> Hosts \cup {NoHost}]
    /\ masterCount \in [Hosts -> 0..CountBound]
    /\ mustSend \subseteq Hosts
    /\ noSend \in [Hosts -> 0..HostInactivityLimit]
    /\ cnt \in [Hosts -> 0..(periods - 1)]
    /\ infoValid \in [Hosts -> SUBSET Hosts]
    /\ unavail \in [Hosts -> SUBSET Hosts]
    /\ hostCount \in [Hosts -> [Hosts -> 0..CountCap]]
    /\ net \subseteq Ann \cup Conf \cup Load
    /\ ticked \subseteq Hosts
    /\ crashes \in 0..MaxCrash
    /\ losses \in 0..MaxLoss

\* Nothing has been started yet.  The variables of a LIM are as main leaves
\* them, readLoad having run once.
Init ==
    /\ up = {}
    /\ masterMe = {}
    /\ masterKnown = {}
    /\ masterPtr = [h \in Hosts |-> NoHost]
    /\ prevMaster = [h \in Hosts |-> NoHost]
    /\ masterCount = [h \in Hosts |-> 1]
    /\ mustSend = Hosts
    /\ noSend = [h \in Hosts |-> 0]
    /\ cnt = [h \in Hosts |-> 0]
    /\ infoValid = [h \in Hosts |-> {}]
    /\ unavail = [h \in Hosts |-> {}]
    /\ hostCount = [h \in Hosts |-> [k \in Hosts |-> 0]]
    /\ net = {}
    /\ ticked = {}
    /\ crashes = 0
    /\ losses = 0

-----------------------------------------------------------------------------
(* Messages *)

ann(h, to, name, ask) ==
    [t |-> "ann", from |-> h, to |-> to, name |-> name, ask |-> ask]

\* Datagrams to a host that is down are lost at once.
sent(msgs) == {m \in msgs : m.to \in up}

\* Mutant: static data that is missing is not asked for.
Mut_announceMaster(h, to, valid) == {ann(h, k, h, "none") : k \in to \ {h}}

\* announceMaster to a set of hosts: those whose static data is missing are
\* asked for it.
announceMaster(h, to, valid) ==
    {ann(h, k, h, IF k \in valid THEN "none" ELSE "conf") : k \in to \ {h}}

\* The hosts announceMaster visits at place c of its round; the last place
\* takes the remainder.
inIntvl == IF NumHosts \div periods = 0 THEN 1 ELSE NumHosts \div periods
slice(c) ==
    {k \in Hosts : /\ k >= c * inIntvl
                   /\ c = periods - 1 \/ k < (c + 1) * inIntvl}

-----------------------------------------------------------------------------
(* periodic: sendLoad, then the master announces itself *)

\* initNewMaster: all other hosts are unavailable until they are heard of.
initNewMaster(h, old) ==
    /\ masterMe' = masterMe \cup {h}
    /\ masterKnown' = masterKnown \cup {h}
    /\ masterPtr' = [masterPtr EXCEPT ![h] = h]
    /\ prevMaster' = [prevMaster EXCEPT ![h] = old]
    /\ masterCount' = [masterCount EXCEPT ![h] = 0]
    /\ infoValid' = [infoValid EXCEPT ![h] = @ \cap {h}]
    /\ unavail' = [unavail EXCEPT ![h] = Hosts \ {h}]
    /\ hostCount' = [hostCount EXCEPT ![h] = [k \in Hosts |-> 0]]
    /\ mustSend' = mustSend \cup {h}

\* Mutant: the load may be held back for two intervals more.
Mut_skipsNow(h, must) ==
    /\ ~must
    /\ noSend[h] < HostInactivityLimit
    /\ noSend' = [noSend EXCEPT ![h] = @ + 1]
    /\ UNCHANGED mustSend

\* sendLoad: whether the load is sent in this interval, because it must be,
\* because an index has changed enough (free here), or because it was not for
\* HostInactivityLimit - 2 intervals.
sendsNow(h) ==
    /\ noSend' = [noSend EXCEPT ![h] = 0]
    /\ mustSend' = mustSend \ {h}

skipsNow(h, must) ==
    /\ ~must
    /\ noSend[h] < HostInactivityLimit - 2
    /\ noSend' = [noSend EXCEPT ![h] = @ + 1]
    /\ UNCHANGED mustSend

\* The next place in the round of announcements.
nextCnt(h) == (cnt[h] + 1) % periods

bumped(n) == IF n + 1 > CountCap THEN CountWrap ELSE n + 1

\* sendLoad of the master: count, ask the silent hosts, give up the dead.
\* (noSendCount says nothing to a master, and masterRegister sets mustSendLoad
\* when it gives in, so the tail of sendLoad is taken to be reached.)
masterPeriodic(h) ==
    LET count == [k \in Hosts |-> IF k = h THEN hostCount[h][k]
                                  ELSE bumped(hostCount[h][k])]
        dead  == {k \in Hosts \ (unavail[h] \cup {h}) :
                     count[k] > HostInactivityLimit + RetryLimit}
        quiet == {k \in Hosts \ (unavail[h] \cup {h}) :
                     /\ count[k] > HostInactivityLimit
                     /\ count[k] <= HostInactivityLimit + RetryLimit}
    IN /\ h \in masterMe
       /\ hostCount' = [hostCount EXCEPT ![h] = count]
       /\ unavail' = [unavail EXCEPT ![h] = @ \cup dead]
       /\ infoValid' = [infoValid EXCEPT ![h] = @ \ dead]
       /\ cnt' = [cnt EXCEPT ![h] = nextCnt(h)]
       /\ net' = net \cup sent(
             {ann(h, k, masterPtr[h], "load") : k \in quiet}
             \cup announceMaster(h, slice(nextCnt(h)), infoValid[h] \ dead))
       /\ sendsNow(h)
       /\ UNCHANGED election

\* What a slave has counted after this interval.
counted(h) == IF masterCount[h] < CountBound THEN masterCount[h] + 1 ELSE CountBound

\* sendLoad of a slave, in the interval in which it gives its master up.
forgets(h) == h \in masterKnown /\ counted(h) > HostInactivityLimit + RetryLimit

\* A silent master is first asked for an announcement.
probing(h) ==
    /\ h \in masterKnown
    /\ counted(h) > HostInactivityLimit
    /\ counted(h) <= HostInactivityLimit + RetryLimit

\* The master pointers once a master that is given up is forgotten.
ptrNow(h)  == IF forgets(h) THEN NoHost ELSE masterPtr[h]
prevNow(h) == IF forgets(h) THEN masterPtr[h] ELSE prevMaster[h]

\* The host that probeMasterTcp connects to.
probed(h) == IF ptrNow(h) # NoHost THEN ptrNow(h) ELSE prevNow(h)

\* Mutant: the limit does not include hostInactivityLimit.
Mut_mayTakeOver(h) ==
    /\ h \notin ComputeOnly
    /\ counted(h) > h * MasterInactivityLimit

mayTakeOver(h) ==
    /\ h \notin ComputeOnly
    /\ counted(h) > HostInactivityLimit + h * MasterInactivityLimit

\* The last master does not accept a connection, or there is none to probe.
takeOver(h) ==
    /\ h \notin masterMe
    /\ mayTakeOver(h)
    /\ probed(h) \notin up \ {h}
    /\ initNewMaster(h, ptrNow(h))
    /\ cnt' = [cnt EXCEPT ![h] = nextCnt(h)]
    /\ net' = net \cup sent(announceMaster(h, Hosts, {}))
    /\ UNCHANGED noSend

\* The tail of sendLoad in a slave: the load vector goes to the master p.
sendVector(h, p, ask) ==
    \/ /\ sendsNow(h)
       /\ net' = net \cup sent({[t |-> "load", from |-> h, to |-> p,
                                 ask |-> IF ask THEN "ann" ELSE "none"]})
    \/ skipsNow(h, h \in mustSend \/ ask) /\ UNCHANGED net

\* The last master accepts the connection: it is taken for the master again.
keepOld(h) ==
    /\ h \notin masterMe
    /\ mayTakeOver(h)
    /\ probed(h) \in up \ {h}
    /\ masterCount' = [masterCount EXCEPT ![h] = 0]
    /\ masterKnown' = masterKnown \cup {h}
    /\ masterPtr' = [masterPtr EXCEPT ![h] = prevNow(h)]
    /\ prevMaster' = [prevMaster EXCEPT ![h] = prevNow(h)]
    /\ sendVector(h, prevNow(h), probing(h))
    /\ UNCHANGED <<masterMe, cnt, infoValid, unavail, hostCount>>

\* Neither: a master that is probed is asked for an announcement, one that is
\* given up is forgotten and gets no load.
slavePeriodic(h) ==
    /\ h \notin masterMe
    /\ ~mayTakeOver(h)
    /\ masterCount' = [masterCount EXCEPT ![h] = counted(h)]
    /\ masterPtr' = [masterPtr EXCEPT ![h] = ptrNow(h)]
    /\ prevMaster' = [prevMaster EXCEPT ![h] = prevNow(h)]
    /\ \/ /\ h \in masterKnown /\ ~forgets(h)
          /\ sendVector(h, masterPtr[h], probing(h))
          /\ UNCHANGED masterKnown
       \/ /\ h \notin masterKnown \/ forgets(h)
          /\ masterKnown' = masterKnown \ {h}
          /\ UNCHANGED <<mustSend, noSend, net>>
    /\ UNCHANGED <<masterMe, cnt, infoValid, unavail, hostCount>>

\* The clocks of the hosts run alike: nobody begins an interval before all
\* have begun the last one, nor with a datagram to it unread; at most MaxLate
\* datagrams to others are then under way.
periodic(h) ==
    /\ h \in up \ ticked
    /\ \A m \in net : m.to # h
    /\ Cardinality(net) <= MaxLate
    /\ masterPeriodic(h) \/ takeOver(h) \/ keepOld(h) \/ slavePeriodic(h)
    /\ ticked' = IF ticked \cup {h} = up THEN {} ELSE ticked \cup {h}
    /\ UNCHANGED <<up, crashes, losses>>

-----------------------------------------------------------------------------
(* Datagrams received *)

\* masterRegister: the regular announcement of this LIM's master.
annRegular(h, m) ==
    /\ h \in masterKnown /\ m.name = masterPtr[h]
    /\ masterCount' = [masterCount EXCEPT ![h] = 0]
    /\ mustSend' = IF m.ask = "load" THEN mustSend \cup {h} ELSE mustSend
    /\ net' = (net \ {m}) \cup
              (IF m.ask = "conf" THEN sent({[t |-> "conf", from |-> h, to |-> m.from]})
                                 ELSE {})
    /\ UNCHANGED <<masterMe, masterKnown, masterPtr, prevMaster, noSend, cnt,
                   infoValid, unavail, hostCount>>

\* This LIM has a better master that it has heard of lately.
hasBetter(h, n) ==
    /\ h \in masterKnown
    /\ n < h
    /\ masterPtr[h] < n
    /\ masterCount[h] <= HostInactivityLimit

\* Mutant: the LIM goes on as a master after it has given in.
Mut_annAccept(h, m) ==
    /\ ~(h \in masterKnown /\ m.name = masterPtr[h])
    /\ ~hasBetter(h, m.name)
    /\ m.name < h
    /\ prevMaster' = [prevMaster EXCEPT ![h] = masterPtr[h]]
    /\ masterPtr' = [masterPtr EXCEPT ![h] = m.name]
    /\ masterKnown' = masterKnown \cup {h}
    /\ masterCount' = [masterCount EXCEPT ![h] = 0]
    /\ mustSend' = mustSend \cup {h}
    /\ net' = (net \ {m}) \cup sent({[t |-> "conf", from |-> h, to |-> m.from]})
    /\ UNCHANGED <<masterMe, noSend, cnt, infoValid, unavail, hostCount>>

\* A lower number has the right to be the master.
annAccept(h, m) ==
    /\ ~(h \in masterKnown /\ m.name = masterPtr[h])
    /\ ~hasBetter(h, m.name)
    /\ m.name < h
    /\ prevMaster' = [prevMaster EXCEPT ![h] = masterPtr[h]]
    /\ masterPtr' = [masterPtr EXCEPT ![h] = m.name]
    /\ masterMe' = masterMe \ {h}
    /\ masterKnown' = masterKnown \cup {h}
    /\ masterCount' = [masterCount EXCEPT ![h] = 0]
    /\ mustSend' = mustSend \cup {h}
    /\ net' = (net \ {m}) \cup sent({[t |-> "conf", from |-> h, to |-> m.from]})
    /\ UNCHANGED <<noSend, cnt, infoValid, unavail, hostCount>>

\* Not accepted: the host that is named is told who the master is, if known.
annReject(h, m) ==
    /\ ~(h \in masterKnown /\ m.name = masterPtr[h])
    /\ m.name # h
    /\ hasBetter(h, m.name) \/ m.name > h
    /\ net' = (net \ {m}) \cup
              (IF \/ hasBetter(h, m.name)
                  \/ h \in masterKnown /\ masterCount[h] < HostInactivityLimit
               THEN sent({ann(h, m.name, masterPtr[h], "none")}) ELSE {})
    /\ UNCHANGED <<election, exchange>>

\* An announcement that names the receiver itself is ignored.
masterRegister(h, m) ==
    /\ m.t = "ann"
    /\ IF m.name = h
       THEN net' = net \ {m} /\ UNCHANGED <<election, exchange>>
       ELSE annRegular(h, m) \/ annAccept(h, m) \/ annReject(h, m)

rcvConfInfo(h, m) ==
    /\ m.t = "conf"
    /\ infoValid' = [infoValid EXCEPT ![h] = IF h \in masterMe THEN @ \cup {m.from} ELSE @]
    /\ net' = net \ {m}
    /\ UNCHANGED <<election, mustSend, noSend, cnt, unavail, hostCount>>

\* Load of a host whose static data is missing is dropped.
rcvLoadVector(h, m) ==
    /\ m.t = "load"
    /\ \/ /\ h \in masterMe /\ m.from \in infoValid[h]
          /\ hostCount' = [hostCount EXCEPT ![h][m.from] = 0]
          /\ unavail' = [unavail EXCEPT ![h] = @ \ {m.from}]
          /\ net' = (net \ {m}) \cup
                    (IF m.ask = "ann" THEN sent({ann(h, m.from, masterPtr[h], "none")})
                                      ELSE {})
       \/ /\ h \notin masterMe \/ m.from \notin infoValid[h]
          /\ net' = net \ {m}
          /\ UNCHANGED <<hostCount, unavail>>
    /\ UNCHANGED <<election, mustSend, noSend, cnt, infoValid>>

receive(m) ==
    /\ \/ masterRegister(m.to, m)
       \/ rcvConfInfo(m.to, m)
       \/ rcvLoadVector(m.to, m)
    /\ UNCHANGED env

-----------------------------------------------------------------------------
(* The environment *)

\* main: host 0 starts as the master, any other without one.
start(h) ==
    /\ h \notin up
    /\ up' = up \cup {h}
    /\ ticked' = IF up \subseteq ticked THEN {} ELSE ticked \cup {h}
    /\ \/ /\ h = 0
          /\ initNewMaster(h, NoHost)
          /\ net' = net \cup sent(announceMaster(h, Hosts, {}))
          /\ UNCHANGED <<noSend, cnt>>
       \/ h # 0 /\ UNCHANGED <<election, exchange, net>>
    /\ UNCHANGED <<crashes, losses>>

\* A LIM dies: what it knew is gone, and so are the datagrams to it.
crash(h) ==
    /\ crashes < MaxCrash
    /\ crashes' = crashes + 1
    /\ h \in up
    /\ up' = up \ {h}
    /\ ticked' = IF up \ {h} \subseteq ticked THEN {} ELSE ticked \ {h}
    /\ net' = {m \in net : m.to # h}
    /\ masterMe' = masterMe \ {h}
    /\ masterKnown' = masterKnown \ {h}
    /\ masterPtr' = [masterPtr EXCEPT ![h] = NoHost]
    /\ prevMaster' = [prevMaster EXCEPT ![h] = NoHost]
    /\ masterCount' = [masterCount EXCEPT ![h] = 1]
    /\ mustSend' = mustSend \cup {h}
    /\ noSend' = [noSend EXCEPT ![h] = 0]
    /\ cnt' = [cnt EXCEPT ![h] = 0]
    /\ infoValid' = [infoValid EXCEPT ![h] = {}]
    /\ unavail' = [unavail EXCEPT ![h] = {}]
    /\ hostCount' = [hostCount EXCEPT ![h] = [k \in Hosts |-> 0]]
    /\ UNCHANGED losses

lose(m) ==
    /\ losses < MaxLoss
    /\ losses' = losses + 1
    /\ net' = net \ {m}
    /\ UNCHANGED <<election, exchange, up, ticked, crashes>>

Next ==
    \/ \E h \in Hosts : periodic(h) \/ start(h) \/ crash(h)
    \/ \E m \in net : receive(m) \/ lose(m)

Spec == Init /\ [][Next]_vars

\* The alarm of a LIM keeps ringing and its main loop reads every datagram.
Fairness ==
    /\ \A h \in Hosts : WF_vars(periodic(h))
    /\ WF_vars(\E m \in net : receive(m))

LiveSpec == Spec /\ Fairness

-----------------------------------------------------------------------------
(* Properties *)

\* A LIM that acts as the master has itself for its master, and a LIM with a
\* master has a pointer to it, of a number not above its own: sendLoad and
\* announceMasterToHost follow masterPtr whenever masterKnown is set.  (The
\* pointer put back after a successful probe is prevMasterPtr, which is set
\* only if the master has been forgotten by then.)
PointersAgree ==
    /\ \A h \in masterMe : h \in masterKnown /\ masterPtr[h] = h
    /\ \A h \in Hosts : IF h \in masterKnown THEN masterPtr[h] \in 0..h
                                              ELSE masterPtr[h] = NoHost

\* Nobody takes over while a master of a lower number is up, unless datagrams
\* are lost: announceMaster comes round to every host before the host's own
\* count has passed its limit, whoever was started when.
TakeOverStep ==
    \A h \in masterMe' \ masterMe :
        h \in up /\ losses = 0 => \A k \in masterMe : k > h

LiveMasterKept == [][TakeOverStep]_vars

\* A slave in touch with its master is not even suspected as long as nothing
\* is lost: it sends its load at least every HostInactivityLimit - 1 intervals.
NotSuspected ==
    \A h \in masterMe, k \in up :
        /\ crashes = 0 /\ losses = 0
        /\ k \in infoValid[h] \ unavail[h] /\ masterPtr[k] = h
        => hostCount[h][k] <= HostInactivityLimit

candidates == {h \in up : h = 0 \/ h \notin ComputeOnly}

agreedOn(b) ==
    /\ \A k \in candidates : b <= k
    /\ masterMe = {b}
    /\ \A h \in up : h > b => masterPtr[h] = b /\ h \notin unavail[b]

\* However masters die, restart and compete, and whatever is lost on the way,
\* in the end all hosts behind the first candidate that is up have it for their
\* master, and it has their load.
Agreement == <>[](candidates # {} => \E b \in candidates : agreedOn(b))
=============================================================================
