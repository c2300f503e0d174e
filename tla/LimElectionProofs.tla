-------------------------- MODULE LimElectionProofs --------------------------
(***************************************************************************)
(* The master pointers of the LIMs agree with their flags, for any number  *)
(* of hosts and any limits with RetryLimit <= MasterInactivityLimit, with   *)
(* any crashes and losses.                                                 *)
(*                                                                         *)
(* PointersAgree is not inductive: a probe that succeeds puts prevMasterPtr *)
(* back.  PtrInv adds what makes that sound: prevMasterPtr is NULL or of a  *)
(* number not above the LIM's own, host 0 is the master whenever it runs,   *)
(* and announcements name hosts.                                           *)
(***************************************************************************)
EXTENDS LimElection, TLAPS

\* The types that the argument needs.
PtrTypes ==
    /\ up \subseteq Hosts
    /\ masterMe \subseteq Hosts
    /\ masterKnown \subseteq Hosts
    /\ masterPtr \in [Hosts -> Hosts \cup {NoHost}]
    /\ prevMaster \in [Hosts -> Hosts \cup {NoHost}]
    /\ masterCount \in [Hosts -> Nat]

MsgTypes == \A m \in net : m.to \in Hosts /\ (m.t = "ann" => m.name \in Hosts)

PrevBelow == \A h \in Hosts : prevMaster[h] = NoHost \/ prevMaster[h] \in 0..h

FirstIsMaster == 0 \in up => 0 \in masterMe

PtrInv == PtrTypes /\ MsgTypes /\ PointersAgree /\ PrevBelow /\ FirstIsMaster

-----------------------------------------------------------------------------

\* The hosts are the naturals below NumHosts.
LEMMA HostFacts == /\ Hosts \subseteq Nat
                   /\ NoHost \notin Hosts
                   /\ \A h \in Hosts : NoHost \notin 0..h
                   /\ \A h \in Hosts : h \in 0..h
BY ElectionAssumption DEF Hosts

\* What is sent names hosts.
LEMMA SentTypes ==
    ASSUME PtrTypes, MsgTypes, NEW msgs,
           \A m \in msgs : m.to \in Hosts /\ (m.t = "ann" => m.name \in Hosts),
           NEW gone, net' = (net \ gone) \cup sent(msgs)
    PROVE  MsgTypes'
BY DEF MsgTypes, sent

\* The same for a LIM that only adds datagrams.
LEMMA AddTypes ==
    ASSUME PtrTypes, MsgTypes, NEW msgs,
           \A m \in msgs : m.to \in Hosts /\ (m.t = "ann" => m.name \in Hosts),
           net' = net \cup sent(msgs)
    PROVE  MsgTypes'
BY DEF MsgTypes, sent

LEMMA PtrInit == Init => PtrInv
BY HostFacts DEF Init, PtrInv, PtrTypes, MsgTypes, PointersAgree, PrevBelow, FirstIsMaster

\* A step that leaves the pointers, flags and running hosts alone.
LEMMA PtrKeep ==
    ASSUME PtrInv, UNCHANGED <<masterMe, masterKnown, masterPtr, prevMaster, up>>,
           masterCount' \in [Hosts -> Nat], MsgTypes'
    PROVE  PtrInv'
BY DEF PtrInv, PtrTypes, PointersAgree, PrevBelow, FirstIsMaster

\* initNewMaster, by a host that is up or is coming up.
LEMMA PtrNewMaster ==
    ASSUME PtrInv, NEW h \in Hosts, NEW old \in Hosts \cup {NoHost},
           old = NoHost \/ old \in 0..h,
           initNewMaster(h, old), up' = up \cup {h}, MsgTypes'
    PROVE  PtrInv'
<1>1. PtrTypes'
  BY DEF PtrInv, PtrTypes, initNewMaster
<1>2. PointersAgree'
  BY HostFacts DEF PtrInv, PtrTypes, PointersAgree, initNewMaster
<1>3. PrevBelow'
  BY HostFacts DEF PtrInv, PtrTypes, PrevBelow, initNewMaster
<1>4. FirstIsMaster'
  BY DEF PtrInv, FirstIsMaster, initNewMaster
<1> QED
  BY <1>1, <1>2, <1>3, <1>4 DEF PtrInv

\* The count of a slave.
LEMMA CountType ==
    ASSUME PtrTypes, NEW h \in Hosts
    PROVE  counted(h) \in Nat /\ CountBound \in Nat
<1>1. CountBound \in Nat
  BY ElectionAssumption DEF CountBound
<1> QED
  BY <1>1 DEF PtrTypes, counted

\* A slave that may take over has forgotten its master, whatever its number.
LEMMA ForgottenFirst ==
    ASSUME PtrInv, NEW h \in Hosts, h \in up, h \notin masterMe, mayTakeOver(h),
           h \in masterKnown
    PROVE  forgets(h)
<1>1. h >= 1
  BY HostFacts DEF PtrInv, FirstIsMaster
<1>2. /\ MasterInactivityLimit \in Nat /\ RetryLimit \in Nat /\ h \in Nat
      /\ HostInactivityLimit \in Nat /\ RetryLimit <= MasterInactivityLimit
  BY ElectionAssumption, HostFacts
<1>3. h * MasterInactivityLimit >= MasterInactivityLimit
  BY <1>1, <1>2
<1>4. h * MasterInactivityLimit \in Nat
  BY <1>2
<1>5. counted(h) \in Nat
  BY CountType DEF PtrInv
<1>6. counted(h) > HostInactivityLimit + h * MasterInactivityLimit
  BY DEF mayTakeOver
<1>7. counted(h) > HostInactivityLimit + RetryLimit
  BY <1>2, <1>3, <1>4, <1>5, <1>6
<1> QED
  BY <1>7 DEF forgets

\* The pointers once a master that is given up is forgotten.
LEMMA NowTypes ==
    ASSUME PtrInv, NEW h \in Hosts
    PROVE  /\ ptrNow(h) = NoHost \/ ptrNow(h) \in 0..h
           /\ prevNow(h) = NoHost \/ prevNow(h) \in 0..h
           /\ ptrNow(h) \in Hosts \cup {NoHost}
           /\ prevNow(h) \in Hosts \cup {NoHost}
BY DEF PtrInv, PtrTypes, PointersAgree, PrevBelow, ptrNow, prevNow, forgets

\* The tail of sendLoad.
LEMMA VectorTypes ==
    ASSUME PtrInv, NEW h \in Hosts, NEW p \in Hosts, NEW ask, sendVector(h, p, ask)
    PROVE  MsgTypes'
<1>1. ASSUME UNCHANGED net
      PROVE  MsgTypes'
  BY <1>1 DEF PtrInv, MsgTypes
<1>2. ASSUME net' = net \cup sent({[t |-> "load", from |-> h, to |-> p,
                                    ask |-> IF ask THEN "ann" ELSE "none"]})
      PROVE  MsgTypes'
  BY <1>2, AddTypes DEF PtrInv
<1> QED
  BY <1>1, <1>2 DEF sendVector

-----------------------------------------------------------------------------

LEMMA PtrPeriodic ==
    ASSUME PtrInv, NEW h \in Hosts, periodic(h)
    PROVE  PtrInv'
<1>0. h \in up /\ up' = up
  BY DEF periodic
<1>1. CASE masterPeriodic(h)
  <2> DEFINE count == [k \in Hosts |-> IF k = h THEN hostCount[h][k]
                                       ELSE bumped(hostCount[h][k])]
             dead == {k \in Hosts \ (unavail[h] \cup {h}) :
                        count[k] > HostInactivityLimit + RetryLimit}
             quiet == {k \in Hosts \ (unavail[h] \cup {h}) :
                        /\ count[k] > HostInactivityLimit
                        /\ count[k] <= HostInactivityLimit + RetryLimit}
             msgs == {ann(h, k, masterPtr[h], "load") : k \in quiet}
                     \cup announceMaster(h, slice(nextCnt(h)), infoValid[h] \ dead)
  <2>1. masterPtr[h] = h
    BY <1>1 DEF masterPeriodic, PtrInv, PointersAgree
  <2>2. net' = net \cup sent(msgs)
    BY <1>1 DEF masterPeriodic
  <2>3. \A m \in msgs : m.to \in Hosts /\ (m.t = "ann" => m.name \in Hosts)
    <3>1. \A m \in {ann(h, k, masterPtr[h], "load") : k \in quiet} :
             m.to \in Hosts /\ (m.t = "ann" => m.name \in Hosts)
      <4> HIDE DEF count
      <4>1. quiet \subseteq Hosts
        OBVIOUS
      <4> HIDE DEF quiet
      <4> QED
        BY <2>1, <4>1 DEF ann
    <3>2. \A m \in announceMaster(h, slice(nextCnt(h)), infoValid[h] \ dead) :
             m.to \in Hosts /\ (m.t = "ann" => m.name \in Hosts)
      <4> HIDE DEF dead
      <4> QED
        BY DEF ann, announceMaster, slice
    <3> HIDE DEF quiet, dead
    <3> QED
      BY <3>1, <3>2
  <2>4. MsgTypes'
    <3> HIDE DEF msgs
    <3> QED
      BY <2>2, <2>3, AddTypes DEF PtrInv
  <2> QED
    BY <1>0, <1>1, <2>4, PtrKeep DEF masterPeriodic, election, PtrInv, PtrTypes
<1>2. CASE takeOver(h)
  <2>1. initNewMaster(h, ptrNow(h)) /\ net' = net \cup sent(announceMaster(h, Hosts, {}))
    BY <1>2 DEF takeOver
  <2>2. \A m \in announceMaster(h, Hosts, {}) :
           m.to \in Hosts /\ (m.t = "ann" => m.name \in Hosts)
    BY DEF announceMaster, ann
  <2>3. MsgTypes'
    BY <2>1, <2>2, AddTypes DEF PtrInv
  <2>4. up' = up \cup {h}
    BY <1>0
  <2> QED
    BY <2>1, <2>3, <2>4, NowTypes, PtrNewMaster
<1>3. CASE keepOld(h)
  <2>1. /\ h \notin masterMe /\ mayTakeOver(h)
        /\ probed(h) \in up \ {h}
        /\ masterCount' = [masterCount EXCEPT ![h] = 0]
        /\ masterKnown' = masterKnown \cup {h}
        /\ masterPtr' = [masterPtr EXCEPT ![h] = prevNow(h)]
        /\ prevMaster' = [prevMaster EXCEPT ![h] = prevNow(h)]
        /\ masterMe' = masterMe
        /\ sendVector(h, prevNow(h), probing(h))
    BY <1>3 DEF keepOld
  <2>2. ptrNow(h) = NoHost
    <3>1. CASE h \in masterKnown
      BY <3>1, <1>0, <2>1, ForgottenFirst DEF ptrNow
    <3>2. CASE h \notin masterKnown
      BY <3>2 DEF PtrInv, PointersAgree, ptrNow
    <3> QED
      BY <3>1, <3>2
  <2>3. prevNow(h) \in 0..h /\ prevNow(h) \in Hosts
    <3>1. probed(h) = prevNow(h)
      BY <2>2 DEF probed
    <3>2. prevNow(h) # NoHost
      BY <2>1, <3>1, HostFacts DEF PtrInv, PtrTypes
    <3> QED
      BY <3>2, NowTypes
  <2>4. MsgTypes'
    BY <2>1, <2>3, VectorTypes
  <2>5. PtrTypes'
    BY <1>0, <2>1, <2>3 DEF PtrInv, PtrTypes
  <2>6. PointersAgree'
    BY <2>1, <2>3, HostFacts DEF PtrInv, PtrTypes, PointersAgree
  <2>7. PrevBelow'
    BY <2>1, <2>3 DEF PtrInv, PtrTypes, PrevBelow
  <2>8. FirstIsMaster'
    BY <1>0, <2>1 DEF PtrInv, FirstIsMaster
  <2> QED
    BY <2>4, <2>5, <2>6, <2>7, <2>8 DEF PtrInv
<1>4. CASE slavePeriodic(h)
  <2>1. /\ h \notin masterMe
        /\ masterCount' = [masterCount EXCEPT ![h] = counted(h)]
        /\ masterPtr' = [masterPtr EXCEPT ![h] = ptrNow(h)]
        /\ prevMaster' = [prevMaster EXCEPT ![h] = prevNow(h)]
        /\ masterMe' = masterMe
    BY <1>4 DEF slavePeriodic
  <2>2. /\ masterKnown' = IF forgets(h) THEN masterKnown \ {h} ELSE masterKnown
        /\ MsgTypes'
    <3>1. CASE h \in masterKnown /\ ~forgets(h)
      <4>1. sendVector(h, masterPtr[h], probing(h)) /\ masterKnown' = masterKnown
        BY <3>1, <1>4 DEF slavePeriodic
      <4>2. masterPtr[h] \in Hosts
        BY <3>1, HostFacts DEF PtrInv, PtrTypes, PointersAgree
      <4> QED
        BY <3>1, <4>1, <4>2, VectorTypes
    <3>2. CASE h \notin masterKnown \/ forgets(h)
      <4>1. masterKnown' = masterKnown \ {h} /\ net' = net
        BY <3>2, <1>4 DEF slavePeriodic
      <4>2. MsgTypes'
        BY <4>1 DEF PtrInv, MsgTypes
      <4> QED
        BY <3>2, <4>1, <4>2 DEF forgets
    <3> QED
      BY <3>1, <3>2
  <2>3. PtrTypes'
    BY <1>0, <2>1, <2>2, CountType, NowTypes DEF PtrInv, PtrTypes
  <2>4. PointersAgree'
    BY <2>1, <2>2, HostFacts DEF PtrInv, PtrTypes, PointersAgree, ptrNow, forgets
  <2>5. PrevBelow'
    BY <2>1, NowTypes DEF PtrInv, PtrTypes, PrevBelow
  <2>6. FirstIsMaster'
    BY <1>0, <2>1 DEF PtrInv, FirstIsMaster
  <2> QED
    BY <2>2, <2>3, <2>4, <2>5, <2>6 DEF PtrInv
<1> QED
  BY <1>1, <1>2, <1>3, <1>4 DEF periodic

LEMMA PtrReceive ==
    ASSUME PtrInv, NEW m \in net, receive(m)
    PROVE  PtrInv'
<1> DEFINE h == m.to
<1>0. h \in Hosts /\ up' = up /\ (m.t = "ann" => m.name \in Hosts)
  BY DEF PtrInv, MsgTypes, receive, env
<1> HIDE DEF h
<1>1. ASSUME NEW msgs, net' = (net \ {m}) \cup sent(msgs),
             \A k \in msgs : k.to \in Hosts /\ (k.t = "ann" => k.name \in Hosts)
      PROVE  MsgTypes'
  BY <1>1, SentTypes DEF PtrInv
<1>2. ASSUME net' = net \ {m}
      PROVE  MsgTypes'
  BY <1>2 DEF PtrInv, MsgTypes
<1>3. CASE masterRegister(h, m)
  <2>0. m.t = "ann" /\ m.name \in Hosts
    BY <1>0, <1>3 DEF masterRegister
  <2>1. CASE m.name = h
    <3>1. net' = net \ {m} /\ UNCHANGED election
      BY <2>1, <1>3 DEF masterRegister
    <3> QED
      BY <3>1, <1>0, <1>2, PtrKeep DEF election, PtrInv, PtrTypes
  <2>2. CASE annRegular(h, m)
    <3>1. MsgTypes'
      <4>1. CASE m.ask = "conf"
        <5> DEFINE msgs == {[t |-> "conf", from |-> h, to |-> m.from]}
        <5>1. net' = (net \ {m}) \cup sent(msgs)
          BY <2>2, <4>1 DEF annRegular
        <5>2. CASE m.from \in Hosts
          BY <5>1, <5>2, <1>1
        <5>3. CASE m.from \notin Hosts
          BY <5>1, <5>3 DEF sent, PtrInv, PtrTypes, MsgTypes
        <5> QED
          BY <5>2, <5>3
      <4>2. CASE m.ask # "conf"
        BY <2>2, <4>2, <1>2 DEF annRegular
      <4> QED
        BY <4>1, <4>2
    <3> QED
      BY <3>1, <2>2, <1>0, PtrKeep DEF annRegular, PtrInv, PtrTypes
  <2>3. CASE annAccept(h, m)
    <3>1. /\ m.name < h
          /\ prevMaster' = [prevMaster EXCEPT ![h] = masterPtr[h]]
          /\ masterPtr' = [masterPtr EXCEPT ![h] = m.name]
          /\ masterMe' = masterMe \ {h}
          /\ masterKnown' = masterKnown \cup {h}
          /\ masterCount' = [masterCount EXCEPT ![h] = 0]
          /\ net' = (net \ {m}) \cup sent({[t |-> "conf", from |-> h, to |-> m.from]})
      BY <2>3 DEF annAccept
    <3>2. MsgTypes'
      <4>1. \A k \in sent({[t |-> "conf", from |-> h, to |-> m.from]}) :
               k.to \in Hosts /\ k.t = "conf"
        BY DEF sent, PtrInv, PtrTypes
      <4> QED
        BY <3>1, <4>1, "conf" # "ann" DEF PtrInv, MsgTypes
    <3>3. m.name \in 0..h /\ h # 0
      <4>1. m.name \in Nat /\ h \in Nat
        BY <1>0, <2>0, HostFacts
      <4> QED
        BY <3>1, <4>1
    <3>4. PtrTypes'
      BY <1>0, <2>0, <3>1 DEF PtrInv, PtrTypes
    <3>5. PointersAgree'
      BY <1>0, <2>0, <3>1, <3>3, HostFacts DEF PtrInv, PtrTypes, PointersAgree
    <3>6. PrevBelow'
      BY <1>0, <3>1 DEF PtrInv, PtrTypes, PrevBelow, PointersAgree
    <3>7. FirstIsMaster'
      BY <1>0, <3>1, <3>3 DEF PtrInv, FirstIsMaster
    <3> QED
      BY <3>2, <3>4, <3>5, <3>6, <3>7 DEF PtrInv
  <2>4. CASE annReject(h, m)
    <3> DEFINE told == \/ hasBetter(h, m.name)
                       \/ h \in masterKnown /\ masterCount[h] < HostInactivityLimit
               msgs == {ann(h, m.name, masterPtr[h], "none")}
    <3>1. CASE told
      <4>1. net' = (net \ {m}) \cup sent(msgs)
        BY <2>4, <3>1 DEF annReject
      <4>2. h \in masterKnown
        BY <3>1 DEF hasBetter
      <4>3. masterPtr[h] \in Hosts
        BY <4>2, <1>0, HostFacts DEF PtrInv, PtrTypes, PointersAgree
      <4>4. \A k \in msgs : k.to \in Hosts /\ (k.t = "ann" => k.name \in Hosts)
        BY <4>3, <2>0 DEF ann
      <4> QED
        <5>1. MsgTypes'
          <6> HIDE DEF msgs
          <6> QED
            BY <4>1, <4>4, <1>1
        <5> QED
          BY <5>1, <2>4, <1>0, PtrKeep DEF annReject, election, PtrInv, PtrTypes
    <3>2. CASE ~told
      <4>1. net' = net \ {m}
        BY <2>4, <3>2 DEF annReject
      <4> QED
        BY <4>1, <2>4, <1>0, <1>2, PtrKeep DEF annReject, election, PtrInv, PtrTypes
    <3> QED
      BY <3>1, <3>2
  <2> QED
    BY <1>3, <2>1, <2>2, <2>3, <2>4 DEF masterRegister
<1>4. CASE rcvConfInfo(h, m)
  BY <1>4, <1>0, <1>2, PtrKeep DEF rcvConfInfo, election, PtrInv, PtrTypes
<1>5. CASE rcvLoadVector(h, m)
  <2>1. MsgTypes'
    <3>1. CASE net' = net \ {m}
      BY <3>1, <1>2
    <3>2. CASE h \in masterMe /\ net' = (net \ {m}) \cup sent({ann(h, m.from, masterPtr[h], "none")})
      <4>1. masterPtr[h] \in Hosts
        BY <3>2, <1>0, HostFacts DEF PtrInv, PtrTypes, PointersAgree
      <4> QED
        BY <3>2, <4>1 DEF sent, ann, PtrInv, PtrTypes, MsgTypes
    <3> QED
      BY <1>5, <3>1, <3>2 DEF rcvLoadVector
  <2> QED
    BY <1>5, <2>1, <1>0, PtrKeep DEF rcvLoadVector, election, PtrInv, PtrTypes
<1> QED
  BY <1>3, <1>4, <1>5 DEF receive, h

LEMMA PtrStart ==
    ASSUME PtrInv, NEW h \in Hosts, start(h)
    PROVE  PtrInv'
<1>1. CASE h = 0 /\ initNewMaster(h, NoHost)
           /\ net' = net \cup sent(announceMaster(h, Hosts, {}))
  <2>1. \A m \in announceMaster(h, Hosts, {}) :
           m.to \in Hosts /\ (m.t = "ann" => m.name \in Hosts)
    BY DEF announceMaster, ann
  <2>2. MsgTypes'
    BY <1>1, <2>1, AddTypes DEF PtrInv
  <2> QED
    BY <1>1, <2>2, PtrNewMaster DEF start
<1>2. CASE h # 0 /\ UNCHANGED <<election, net>>
  <2>1. up' = up \cup {h}
    BY DEF start
  <2> QED
    BY <1>2, <2>1 DEF election, PtrInv, PtrTypes, MsgTypes, PointersAgree, PrevBelow, FirstIsMaster
<1> QED
  BY <1>1, <1>2 DEF start

LEMMA PtrCrash ==
    ASSUME PtrInv, NEW h \in Hosts, crash(h)
    PROVE  PtrInv'
<1>1. /\ up' = up \ {h}
      /\ net' = {m \in net : m.to # h}
      /\ masterMe' = masterMe \ {h}
      /\ masterKnown' = masterKnown \ {h}
      /\ masterPtr' = [masterPtr EXCEPT ![h] = NoHost]
      /\ prevMaster' = [prevMaster EXCEPT ![h] = NoHost]
      /\ masterCount' = [masterCount EXCEPT ![h] = 1]
  BY DEF crash
<1>2. PtrTypes' /\ MsgTypes'
  BY <1>1 DEF PtrInv, PtrTypes, MsgTypes
<1>3. PointersAgree'
  BY <1>1 DEF PtrInv, PtrTypes, PointersAgree
<1>4. PrevBelow' /\ FirstIsMaster'
  BY <1>1 DEF PtrInv, PtrTypes, PrevBelow, FirstIsMaster
<1> QED
  BY <1>2, <1>3, <1>4 DEF PtrInv

LEMMA PtrNext == PtrInv /\ [Next]_vars => PtrInv'
<1> SUFFICES ASSUME PtrInv, [Next]_vars
             PROVE  PtrInv'
  OBVIOUS
<1>1. ASSUME NEW m \in net, lose(m)
      PROVE  PtrInv'
  <2>1. MsgTypes'
    BY <1>1 DEF lose, PtrInv, MsgTypes
  <2> QED
    BY <1>1, <2>1, PtrKeep DEF lose, election, PtrInv, PtrTypes
<1>2. CASE UNCHANGED vars
  <2>1. MsgTypes'
    BY <1>2 DEF vars, PtrInv, MsgTypes
  <2> QED
    BY <1>2, <2>1, PtrKeep DEF vars, election, env, PtrInv, PtrTypes
<1> QED
  BY <1>1, <1>2, PtrPeriodic, PtrReceive, PtrStart, PtrCrash DEF Next

\* sendLoad, announceMasterToHost and masterRegister never follow a NULL
\* masterPtr: a LIM with masterKnown set has a master, of a number not above its
\* own, and a LIM that acts as the master is its own.
THEOREM Pointers == Spec => []PointersAgree
<1>1. PtrInv => PointersAgree
  BY DEF PtrInv
<1> QED
  BY PtrInit, PtrNext, <1>1, PTL DEF Spec
=============================================================================
