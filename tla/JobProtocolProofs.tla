-------------------------- MODULE JobProtocolProofs --------------------------
(* Proofs about JobProtocol, for any hosts and any number of dispatches,     *)
(* faults and late reports.                                                  *)
EXTENDS JobProtocol, TLAPS

(* The list without its i-th entry. *)
RemovedFrom(s, i) == SubSeq(s, 1, i - 1) \o SubSeq(s, i + 1, Len(s))

(* Taking one entry off the zombie list leaves a list of the same kind, adds *)
(* nothing to it and keeps every other value.                                *)
LEMMA RemovedFromFacts ==
    ASSUME NEW S, NEW s \in Seq(S), NEW i \in 1..Len(s)
    PROVE  /\ RemovedFrom(s, i) \in Seq(S)
           /\ Range(RemovedFrom(s, i)) \subseteq Range(s)
           /\ \A x \in Range(s) : x # s[i] => x \in Range(RemovedFrom(s, i))
<1> DEFINE t == RemovedFrom(s, i)
<1>1. /\ t \in Seq(S)
      /\ Len(t) = Len(s) - 1
      /\ \A j \in 1..Len(t) : t[j] = IF j < i THEN s[j] ELSE s[j + 1]
  <2> DEFINE a == SubSeq(s, 1, i - 1)
             b == SubSeq(s, i + 1, Len(s))
  <2>1. a \in Seq(S) /\ Len(a) = i - 1 /\ \A j \in 1..(i - 1) : a[j] = s[j]
    <3>1. \A j \in 1..(i - 1) : s[j] \in S
      OBVIOUS
    <3> QED
      BY <3>1
  <2>2. /\ b \in Seq(S) /\ Len(b) = Len(s) - i
        /\ \A j \in 1..(Len(s) - i) : b[j] = s[j + i]
    <3>1. \A j \in (i + 1)..Len(s) : s[j] \in S
      OBVIOUS
    <3> QED
      BY <3>1
  <2>3. t = a \o b
    BY DEF RemovedFrom
  <2> HIDE DEF a, b, t
  <2>4. t \in Seq(S) /\ Len(t) = Len(s) - 1
    BY <2>1, <2>2, <2>3
  <2>5. ASSUME NEW j \in 1..Len(t) PROVE t[j] = IF j < i THEN s[j] ELSE s[j + 1]
    <3>1. CASE j < i
      <4>1. j \in 1..Len(a)
        BY <2>1, <3>1
      <4> QED
        BY <2>1, <2>2, <2>3, <3>1, <4>1
    <3>2. CASE j >= i
      <4>1. j - Len(a) \in 1..(Len(s) - i)
        BY <2>1, <2>2, <2>4, <3>2
      <4>2. t[j] = b[j - Len(a)]
        BY <2>1, <2>2, <2>3, <2>4, <3>2, <4>1
      <4>3. b[j - Len(a)] = s[j - Len(a) + i]
        BY <2>2, <4>1
      <4>4. j - Len(a) + i = j + 1
        BY <2>1
      <4> QED
        BY <3>2, <4>2, <4>3, <4>4
    <3> QED
      BY <2>4, <3>1, <3>2
  <2> QED
    BY <2>4, <2>5
<1> HIDE DEF t
<1>2. ASSUME NEW x \in Range(t) PROVE x \in Range(s)
  <2>1. PICK j \in 1..Len(t) : x = t[j]
    BY <1>1 DEF Range
  <2>2. j \in 1..Len(s) /\ j + 1 \in 1..Len(s)
    BY <1>1
  <2> QED
    BY SMTT(30), <1>1, <2>1, <2>2 DEF Range
<1>3. ASSUME NEW x \in Range(s), x # s[i] PROVE x \in Range(t)
  <2>1. PICK j \in 1..Len(s) : x = s[j]
    BY DEF Range
  <2>2. CASE j < i
    <3>1. j \in 1..Len(t) /\ t[j] = s[j]
      BY <1>1, <2>2
    <3> QED
      BY <1>1, <2>1, <3>1 DEF Range
  <2>3. CASE j > i
    <3>1. j - 1 \in 1..Len(t) /\ t[j - 1] = s[j]
      BY <1>1, <2>3
    <3> QED
      BY <1>1, <2>1, <3>1 DEF Range
  <2>4. j # i
    BY <1>3, <2>1
  <2> QED
    BY <2>2, <2>3, <2>4
<1> QED
  BY <1>1, <1>2, <1>3 DEF t

LEMMA AppendFacts ==
    ASSUME NEW S, NEW s \in Seq(S), NEW e \in S
    PROVE  /\ Append(s, e) \in Seq(S)
           /\ Range(Append(s, e)) = Range(s) \cup {e}
<1> DEFINE t == Append(s, e)
<1>1. /\ t \in Seq(S)
      /\ Len(t) = Len(s) + 1
      /\ \A j \in 1..Len(s) : t[j] = s[j]
      /\ t[Len(s) + 1] = e
  OBVIOUS
<1> HIDE DEF t
<1>2. Range(t) = Range(s) \cup {e}
  BY <1>1 DEF Range
<1> QED
  BY <1>1, <1>2 DEF t

-----------------------------------------------------------------------------
(* Types *)

USE DEF mbd, wire, slave, Pids, JobStatus, Reported, CardStatus, ProcState, Live

RecordTypes ==
    /\ jStatus \in JobStatus
    /\ hPtr \in Hosts \cup {NoHost}
    /\ jobPid \in 0..MaxDispatch
    /\ execHome \in {"null", "set"}
    /\ nextSeq \in Nat
    /\ zombies \in Seq(Hosts \X (0..MaxDispatch))
    /\ zlog \in Seq(Hosts \X (0..MaxDispatch))
    /\ hStatus \in [Hosts -> {"OK", "UNREACH", "UNAVAIL"}]
    /\ needPoll \subseteq Hosts

WireTypes ==
    /\ node \in [Pids -> {"idle", "open", "keep", "closed"}]
    /\ to \in [Pids -> Hosts \cup {NoHost}]
    /\ req \subseteq Pids
    /\ reply \in [Pids -> -1..MaxDispatch]
    /\ ack \subseteq Pids
    /\ broken \subseteq Pids

SlaveTypes ==
    /\ sbd \subseteq Hosts
    /\ card \in [Hosts -> 0..MaxDispatch]
    /\ cardStatus \in [Hosts -> CardStatus]
    /\ seq \in [Hosts -> Nat]
    /\ proc \in [Pids -> ProcState]

RestTypes ==
    /\ late \subseteq Report
    /\ faults \in 0..MaxFault
    /\ lates \in 0..MaxLate
    /\ crossed \in {"no", "yes"}

LEMMA TypeParts == TypeOK <=> RecordTypes /\ WireTypes /\ SlaveTypes /\ RestTypes
BY DEF TypeOK, RecordTypes, WireTypes, SlaveTypes, RestTypes

LEMMA TypePartsNext ==
    TypeOK' <=> RecordTypes' /\ WireTypes' /\ SlaveTypes' /\ RestTypes'
BY DEF TypeOK, RecordTypes, WireTypes, SlaveTypes, RestTypes

LEMMA TypeInit == Init => TypeOK
<1> SUFFICES ASSUME Init PROVE TypeOK
  OBVIOUS
<1> USE ProtocolAssumption DEF Init
<1>1. RecordTypes
  BY DEF RecordTypes
<1>2. WireTypes
  BY DEF WireTypes
<1>3. SlaveTypes
  BY DEF SlaveTypes
<1>4. RestTypes
  BY DEF RestTypes
<1> QED
  BY <1>1, <1>2, <1>3, <1>4, TypeParts

LEMMA OffZomTypes ==
    ASSUME RecordTypes, NEW h \in Hosts, NEW p \in 0..MaxDispatch, offZomJobList(h, p)
    PROVE  /\ zombies' \in Seq(Hosts \X (0..MaxDispatch))
           /\ zlog' \in Seq(Hosts \X (0..MaxDispatch))
           /\ Range(zombies') \subseteq Range(zombies)
           /\ \A z \in Range(zombies) : z # <<h, p>> => z \in Range(zombies')
<1>1. PICK i \in isInZomJobList(h, p) : zombies' = RemovedFrom(zombies, i)
  BY DEF offZomJobList, RemovedFrom
<1>2. i \in 1..Len(zombies) /\ zombies[i] = <<h, p>>
  BY <1>1 DEF isInZomJobList, RecordTypes
<1>3. zlog' \in Seq(Hosts \X (0..MaxDispatch))
  BY DEF offZomJobList, RecordTypes
<1> QED
  BY <1>1, <1>2, <1>3, RemovedFromFacts DEF RecordTypes

(* A report leaves mbatchd's record and its connections well typed.          *)
LEMMA StatusTypes ==
    ASSUME RecordTypes, WireTypes, ProtocolAssumption,
           NEW h \in Hosts, NEW p \in 0..MaxDispatch, NEW st \in Reported,
           NEW n \in Nat, statusJob(h, p, st, n)
    PROVE  RecordTypes' /\ WireTypes'
<1>1. CASE jStatus = "NONE"
  BY <1>1 DEF statusJob, RecordTypes, WireTypes
<1>2. CASE jStatus # "NONE"
  <2> USE DEF heardFrom, unchangedJob, toPend
  <2>0. /\ hStatus' \in [Hosts -> {"OK", "UNREACH", "UNAVAIL"}]
        /\ needPoll' \subseteq Hosts
    BY <1>2 DEF statusJob, RecordTypes
  <2>1. CASE st = "POST" /\ statusPost
    BY <2>0, <2>1 DEF statusPost, RecordTypes, WireTypes
  <2>2. CASE st = "FAIL" /\ statusFail(h, p)
    <3>1. /\ zombies' \in Seq(Hosts \X (0..MaxDispatch))
          /\ zlog' \in Seq(Hosts \X (0..MaxDispatch))
      BY <2>2, OffZomTypes DEF statusFail, RecordTypes
    <3> QED
      <4>1. WireTypes'
        BY <2>2 DEF statusFail, WireTypes
      <4>2. CASE jStatus = "RUN" /\ hPtr = h
        BY <2>0, <2>2, <3>1, <4>1, <4>2 DEF statusFail, RecordTypes
      <4>3. CASE ~(jStatus = "RUN" /\ hPtr = h)
        BY <2>0, <2>2, <3>1, <4>1, <4>3 DEF statusFail, RecordTypes
      <4> QED
        BY <4>2, <4>3
  <2>3. CASE st = "RUN" /\ statusAdopt(h, p, n)
    BY <2>0, <2>3 DEF statusAdopt, RecordTypes, WireTypes
  <2>4. CASE st = "RUN" /\ statusRun(h, p, n)
    BY <2>0, <2>4 DEF statusRun, RecordTypes, WireTypes
  <2>5. CASE /\ st = "RUN" /\ jStatus \notin {"PEND", "RUN"}
             /\ nextSeq' = IF hPtr = h /\ n >= nextSeq THEN n ELSE nextSeq
             /\ UNCHANGED <<jStatus, hPtr, jobPid, execHome, zombies, zlog, wire>>
    BY <2>0, <2>5 DEF RecordTypes, WireTypes
  <2>6. CASE st \in {"PEND", "DONE", "EXIT", "BOOT"} /\ statusFinish(h, p, st, n)
    <3>1. CASE isInZomJobList(h, p) # {}
      <4>1. offZomJobList(h, p) /\ unchangedJob /\ UNCHANGED wire
        BY <2>6, <3>1 DEF statusFinish
      <4>2. /\ zombies' \in Seq(Hosts \X (0..MaxDispatch))
            /\ zlog' \in Seq(Hosts \X (0..MaxDispatch))
        BY <4>1, OffZomTypes
      <4> QED
        BY <2>0, <4>1, <4>2 DEF RecordTypes, WireTypes
    <3>2. CASE isInZomJobList(h, p) = {}
      <4>1. WireTypes'
        BY <2>6, <3>2 DEF statusFinish, cleanSbdNode, WireTypes
      <4>2. RecordTypes'
        BY <2>0, <2>6, <3>2 DEF statusFinish, RecordTypes
      <4> QED
        BY <4>1, <4>2
    <3> QED
      BY <3>1, <3>2
  <2> QED
    BY <1>2, <2>1, <2>2, <2>3, <2>4, <2>5, <2>6 DEF statusJob
<1> QED
  BY <1>1, <1>2

LEMMA ReportTypes ==
    ASSUME TypeOK, ProtocolAssumption,
           NEW h \in Hosts, NEW p \in 0..MaxDispatch, NEW st \in Reported,
           reported(h, p, st) \/ notReported(h, p, st)
    PROVE  /\ RecordTypes' /\ WireTypes'
           /\ late' \subseteq Report /\ lates' \in 0..MaxLate
           /\ seq' \in [Hosts -> Nat]
<1>1. RecordTypes /\ WireTypes /\ SlaveTypes /\ RestTypes
  BY TypeParts
<1>2. CASE reported(h, p, st)
  <2>1. seq[h] \in Nat
    BY <1>1 DEF SlaveTypes
  <2> QED
    BY <1>1, <1>2, <2>1, StatusTypes DEF reported, SlaveTypes, RestTypes
<1>3. CASE notReported(h, p, st)
  <2>1. [host |-> h, pid |-> p, status |-> st, seq |-> seq[h]] \in Report
    BY <1>1 DEF Report, SlaveTypes
  <2>2. late' \subseteq Report /\ lates' \in 0..MaxLate
    BY SMTT(60), <1>1, <1>3, <2>1 DEF notReported, RestTypes
  <2>3. RecordTypes' /\ WireTypes' /\ seq' \in [Hosts -> Nat]
    <3>1. UNCHANGED <<mbd, wire>> /\ seq' = [seq EXCEPT ![h] = @ + 1]
      BY <1>3 DEF notReported
    <3>2. RecordTypes'
      BY <1>1, <3>1 DEF RecordTypes
    <3>3. WireTypes'
      BY <1>1, <3>1 DEF WireTypes
    <3> QED
      BY <1>1, <3>1, <3>2, <3>3 DEF SlaveTypes
  <2> QED
    BY <2>2, <2>3
<1> QED
  BY <1>2, <1>3

(* The steps of mbatchd. *)
LEMMA TypeMbatchd == ASSUME TypeOK, ProtocolAssumption, mbatchd PROVE TypeOK'
<1> USE ProtocolAssumption
<1>0. RecordTypes /\ WireTypes /\ SlaveTypes /\ RestTypes
  BY TypeParts
<1>1. ASSUME NEW h \in Hosts, dispatch_it(h) PROVE TypeOK'
  <2>1. RecordTypes'
    BY <1>0, <1>1 DEF dispatch_it, RecordTypes
  <2>2. WireTypes'
    BY <1>0, <1>1 DEF dispatch_it, WireTypes
  <2>3. SlaveTypes'
    BY <1>0, <1>1 DEF dispatch_it, SlaveTypes
  <2>4. RestTypes'
    BY <1>0, <1>1 DEF dispatch_it, RestTypes
  <2> QED
    BY <2>1, <2>2, <2>3, <2>4, TypePartsNext
<1>2. ASSUME NEW h \in Hosts, dispatchRefused(h) PROVE TypeOK'
  BY <1>2, TypePartsNext, <1>0
     DEF dispatchRefused, RecordTypes, WireTypes, SlaveTypes, RestTypes
<1>3. ASSUME NEW h \in Hosts, hostUnreach(h) PROVE TypeOK'
  BY <1>3, TypePartsNext, <1>0
     DEF hostUnreach, RecordTypes, WireTypes, SlaveTypes, RestTypes
<1>4. ASSUME NEW h \in Hosts, hostUnavail(h) PROVE TypeOK'
  <2>1. <<h, jobPid>> \in Hosts \X (0..MaxDispatch)
    BY <1>0 DEF RecordTypes
  <2>2. /\ zombies' \in Seq(Hosts \X (0..MaxDispatch))
        /\ zlog' \in Seq(Hosts \X (0..MaxDispatch))
    <3>1. /\ Append(zombies, <<h, jobPid>>) \in Seq(Hosts \X (0..MaxDispatch))
          /\ Append(zlog, <<h, jobPid>>) \in Seq(Hosts \X (0..MaxDispatch))
      BY <1>0, <2>1, AppendFacts DEF RecordTypes
    <3> QED
      BY <1>0, <1>4, <3>1 DEF hostUnavail, RecordTypes
  <2> QED
    BY <1>0, <1>4, <2>2, TypePartsNext
       DEF hostUnavail, RecordTypes, WireTypes, SlaveTypes, RestTypes
<1>5. ASSUME NEW h \in Hosts, probe_slave(h) PROVE TypeOK'
  <2>1. RecordTypes'
    BY <1>0, <1>5 DEF probe_slave, sbatchdJobs, toPend, heardFrom, RecordTypes
  <2>2. WireTypes'
    BY <1>0, <1>5 DEF probe_slave, sbatchdJobs, toPend, heardFrom, WireTypes
  <2>3. SlaveTypes'
    BY <1>0, <1>5 DEF probe_slave, sbatchdJobs, toPend, heardFrom, SlaveTypes
  <2>4. RestTypes'
    BY <1>0, <1>5 DEF probe_slave, sbatchdJobs, toPend, heardFrom, RestTypes
  <2> QED
    BY <2>1, <2>2, <2>3, <2>4, TypePartsNext
<1>6. ASSUME NEW d \in Pids, doNewJobReply(d) PROVE TypeOK'
  <2>0. reply[d] \in -1..MaxDispatch
    BY <1>0 DEF WireTypes
  <2>1. RecordTypes'
    BY <1>0, <1>6, <2>0 DEF doNewJobReply, RecordTypes
  <2>2. WireTypes'
    BY <1>0, <1>6 DEF doNewJobReply, WireTypes
  <2>3. SlaveTypes'
    BY <1>0, <1>6 DEF doNewJobReply, SlaveTypes
  <2>4. RestTypes'
    BY <1>0, <1>6 DEF doNewJobReply, RestTypes
  <2> QED
    BY <2>1, <2>2, <2>3, <2>4, TypePartsNext
<1>7. ASSUME NEW d \in Pids, doNewJobError(d) PROVE TypeOK'
  <2>1. RecordTypes'
    BY <1>0, <1>7 DEF doNewJobError, doNewJobException, toPend, RecordTypes
  <2>2. WireTypes'
    BY <1>0, <1>7 DEF doNewJobError, doNewJobException, toPend, WireTypes
  <2>3. SlaveTypes'
    BY <1>0, <1>7 DEF doNewJobError, doNewJobException, toPend, SlaveTypes
  <2>4. RestTypes'
    BY <1>0, <1>7 DEF doNewJobError, doNewJobException, toPend, RestTypes
  <2> QED
    BY <2>1, <2>2, <2>3, <2>4, TypePartsNext
<1>8. ASSUME NEW d \in Pids, shutdownSbdConnections(d) PROVE TypeOK'
  <2>1. RecordTypes'
    BY <1>0, <1>8 DEF shutdownSbdConnections, doNewJobException, toPend, RecordTypes
  <2>2. WireTypes'
    BY <1>0, <1>8 DEF shutdownSbdConnections, doNewJobException, toPend, WireTypes
  <2>3. SlaveTypes'
    BY <1>0, <1>8 DEF shutdownSbdConnections, doNewJobException, toPend, SlaveTypes
  <2>4. RestTypes'
    BY <1>0, <1>8 DEF shutdownSbdConnections, doNewJobException, toPend, RestTypes
  <2> QED
    BY <2>1, <2>2, <2>3, <2>4, TypePartsNext
<1>9. ASSUME NEW d \in Pids, closeKeptChannel(d) PROVE TypeOK'
  BY <1>9, TypePartsNext, <1>0
     DEF closeKeptChannel, RecordTypes, WireTypes, SlaveTypes, RestTypes
<1>10. CASE cleanRequeue
  BY <1>10, TypePartsNext, <1>0
     DEF cleanRequeue, toPend, RecordTypes, WireTypes, SlaveTypes, RestTypes
<1>11. CASE removeJob
  BY <1>11, TypePartsNext, <1>0
     DEF removeJob, RecordTypes, WireTypes, SlaveTypes, RestTypes
<1>12. CASE mbdRestart
  <2>1. WireTypes'
    BY <1>0, <1>12 DEF mbdRestart, cleanSbdNode, WireTypes
  <2> QED
    BY <1>12, TypePartsNext, <1>0, <2>1
       DEF mbdRestart, RecordTypes, SlaveTypes, RestTypes
<1>13. ASSUME NEW r \in late, lateReport(r) PROVE TypeOK'
  <2>1. /\ r.host \in Hosts /\ r.pid \in 0..MaxDispatch
        /\ r.status \in Reported /\ r.seq \in Nat
    BY <1>0 DEF RestTypes, Report
  <2>2. RecordTypes' /\ WireTypes'
    BY <1>0, <1>13, <2>1, StatusTypes DEF lateReport
  <2> QED
    BY <1>0, <1>13, <2>2, TypePartsNext DEF lateReport, SlaveTypes, RestTypes
<1> QED
  BY <1>1, <1>2, <1>3, <1>4, <1>5, <1>6, <1>7, <1>8, <1>9, <1>10, <1>11, <1>12,
     <1>13 DEF mbatchd

(* The steps of the sbatchds. *)
LEMMA TypeSbatchd ==
    ASSUME TypeOK, ProtocolAssumption, NEW h \in Hosts, sbatchd(h)
    PROVE  TypeOK'
<1> USE ProtocolAssumption
<1>0. RecordTypes /\ WireTypes /\ SlaveTypes /\ RestTypes
  BY TypeParts
<1>a. card[h] \in 0..MaxDispatch
  BY <1>0 DEF SlaveTypes
<1>1. CASE checkFinish(h)
  <2>1. cardStatus' \in [Hosts -> CardStatus]
    BY <1>0, <1>1 DEF checkFinish, SlaveTypes
  <2>2. RecordTypes' /\ WireTypes'
    BY <1>0, <1>1 DEF checkFinish, RecordTypes, WireTypes
  <2>3. SlaveTypes' /\ RestTypes'
    BY <1>0, <1>1, <2>1 DEF checkFinish, SlaveTypes, RestTypes
  <2> QED
    BY <2>2, <2>3, TypePartsNext
<1>2. CASE job_finish(h)
  <2>1. cardStatus[h] \in Reported
    BY <1>2 DEF job_finish
  <2>2. reported(h, card[h], cardStatus[h]) \/ notReported(h, card[h], cardStatus[h])
    BY <1>2 DEF job_finish
  <2>3. /\ RecordTypes' /\ WireTypes'
        /\ late' \subseteq Report /\ lates' \in 0..MaxLate /\ seq' \in [Hosts -> Nat]
    BY <1>a, <2>1, <2>2, ReportTypes
  <2>4. SlaveTypes'
    <3>1. sbd' = sbd /\ proc' = proc
      BY <1>2 DEF job_finish, notReported
    <3>2. CASE UNCHANGED <<card, cardStatus>>
      BY <1>0, <2>3, <3>1, <3>2 DEF SlaveTypes
    <3>3. CASE setCard(h, card[h], "post")
      BY <1>0, <1>a, <2>3, <3>1, <3>3 DEF setCard, SlaveTypes
    <3>4. CASE dropCard(h)
      BY <1>0, <2>3, <3>1, <3>4, ProtocolAssumption DEF dropCard, SlaveTypes
    <3> QED
      BY <1>2, <3>2, <3>3, <3>4 DEF job_finish, notReported
  <2>5. RestTypes'
    BY <1>0, <1>2, <2>3 DEF job_finish, RestTypes
  <2> QED
    BY <2>3, <2>4, <2>5, TypePartsNext
<1>3. CASE post_finish(h)
  <2>2. reported(h, card[h], "POST") \/ notReported(h, card[h], "POST")
    BY <1>3 DEF post_finish
  <2>3. /\ RecordTypes' /\ WireTypes'
        /\ late' \subseteq Report /\ lates' \in 0..MaxLate /\ seq' \in [Hosts -> Nat]
    BY <1>a, <2>2, ReportTypes
  <2>4. SlaveTypes'
    <3>1. sbd' = sbd /\ proc' = proc
      BY <1>3 DEF post_finish, notReported
    <3>2. CASE UNCHANGED <<card, cardStatus>>
      BY <1>0, <2>3, <3>1, <3>2 DEF SlaveTypes
    <3>3. CASE dropCard(h)
      BY <1>0, <2>3, <3>1, <3>3, ProtocolAssumption DEF dropCard, SlaveTypes
    <3> QED
      BY <1>3, <3>2, <3>3 DEF post_finish, notReported
  <2>5. RestTypes'
    BY <1>0, <1>3, <2>3 DEF post_finish, RestTypes
  <2> QED
    BY <2>3, <2>4, <2>5, TypePartsNext
<1>4. CASE killZombie(h)
  BY <1>0, <1>4, TypePartsNext
     DEF killZombie, RecordTypes, WireTypes, SlaveTypes, RestTypes
<1>5. CASE sbdCrash(h)
  <2>1. WireTypes' /\ RecordTypes'
    BY <1>0, <1>5 DEF sbdCrash, RecordTypes, WireTypes
  <2>2. SlaveTypes' /\ RestTypes'
    BY <1>0, <1>5 DEF sbdCrash, dropCard, SlaveTypes, RestTypes
  <2> QED
    BY <2>1, <2>2, TypePartsNext
<1>6. CASE sbdRestart(h)
  <2>1. RecordTypes'
    BY <1>0, <1>6 DEF sbdRestart, sbatchdJobs, toPend, heardFrom, RecordTypes
  <2>2. ASSUME NEW c \in listedJobs(h) PROVE c[1] \in 0..MaxDispatch /\ c[2] \in CardStatus
    <3>1. ASSUME NEW i \in DOMAIN zombies PROVE zombies[i][2] \in 0..MaxDispatch
      BY <1>0, <3>1 DEF RecordTypes
    <3> QED
      BY <1>0, <2>2, <3>1 DEF listedJobs, RecordTypes
  <2>3. card' \in [Hosts -> 0..MaxDispatch] /\ cardStatus' \in [Hosts -> CardStatus]
    BY <1>0, <1>6, <2>2 DEF sbdRestart, setCard, SlaveTypes
  <2>4. SlaveTypes'
    BY <1>0, <1>6, <2>3 DEF sbdRestart, SlaveTypes
  <2>5. WireTypes' /\ RestTypes'
    BY <1>0, <1>6 DEF sbdRestart, WireTypes, RestTypes
  <2> QED
    BY <2>1, <2>4, <2>5, TypePartsNext
<1>7. CASE hostBoot(h)
  <2>1. WireTypes' /\ RecordTypes'
    BY <1>0, <1>7 DEF hostBoot, RecordTypes, WireTypes
  <2>2. SlaveTypes' /\ RestTypes'
    BY <1>0, <1>7 DEF hostBoot, dropCard, SlaveTypes, RestTypes
  <2> QED
    BY <2>1, <2>2, TypePartsNext
<1> QED
  BY <1>1, <1>2, <1>3, <1>4, <1>5, <1>6, <1>7 DEF sbatchd

(* The steps on a connection and of the child forked on it. *)
LEMMA TypeChild ==
    ASSUME TypeOK, ProtocolAssumption, NEW d \in Pids, child(d)
    PROVE  TypeOK'
<1> USE ProtocolAssumption
<1>0. RecordTypes /\ WireTypes /\ SlaveTypes /\ RestTypes
  BY TypeParts
<1>1. CASE do_newjob(d)
  <2>1. d \in req /\ to[d] \in Hosts
    BY <1>0, <1>1 DEF do_newjob, SlaveTypes
  <2>2. RecordTypes' /\ RestTypes'
    BY <1>0, <1>1 DEF do_newjob, RecordTypes, RestTypes
  <2>3. WireTypes'
    <3>1. card[to[d]] \in 0..MaxDispatch
      BY <1>0, <2>1 DEF SlaveTypes
    <3>2. reply' \in [Pids -> -1..MaxDispatch]
      BY <1>0, <1>1, <2>1, <3>1 DEF do_newjob, WireTypes
    <3> QED
      BY <1>0, <1>1, <3>2 DEF do_newjob, WireTypes
  <2>4. SlaveTypes'
    <3>1. sbd' \subseteq Hosts /\ seq' = seq
      BY <1>0, <1>1 DEF do_newjob, SlaveTypes
    <3>2. proc' \in [Pids -> ProcState]
      BY <1>0, <1>1, <2>1 DEF do_newjob, SlaveTypes
    <3>3. CASE UNCHANGED <<card, cardStatus>>
      BY <1>0, <3>1, <3>2, <3>3 DEF SlaveTypes
    <3>4. CASE setCard(to[d], d, "new")
      BY <1>0, <2>1, <3>1, <3>2, <3>4 DEF setCard, SlaveTypes
    <3> QED
      BY <1>1, <3>3, <3>4 DEF do_newjob
  <2> QED
    BY <2>2, <2>3, <2>4, TypePartsNext
<1>2. CASE breakConnection(d)
  <2>1. RecordTypes' /\ WireTypes'
    BY <1>0, <1>2 DEF breakConnection, RecordTypes, WireTypes
  <2>2. SlaveTypes' /\ RestTypes'
    BY <1>0, <1>2 DEF breakConnection, SlaveTypes, RestTypes
  <2> QED
    BY <2>1, <2>2, TypePartsNext
<1>3. CASE readGoAhead(d)
  BY <1>0, <1>3, TypePartsNext
     DEF readGoAhead, RecordTypes, WireTypes, SlaveTypes, RestTypes
<1>4. CASE noGoAhead(d)
  BY <1>0, <1>4, TypePartsNext
     DEF noGoAhead, RecordTypes, WireTypes, SlaveTypes, RestTypes
<1>5. CASE setupFails(d)
  BY <1>0, <1>5, TypePartsNext
     DEF setupFails, RecordTypes, WireTypes, SlaveTypes, RestTypes
<1>6. CASE do_jobSetup(d)
  <2>1. to[d] \in Hosts
    BY <1>0, <1>6 DEF do_jobSetup, SlaveTypes
  <2>2. CASE cardStatus[to[d]] = "none"
    <3>1. RecordTypes' /\ WireTypes'
      BY <1>0, <1>6, <2>2 DEF do_jobSetup, RecordTypes, WireTypes
    <3>2. SlaveTypes' /\ RestTypes'
      BY <1>0, <1>6, <2>2 DEF do_jobSetup, SlaveTypes, RestTypes
    <3> QED
      BY <3>1, <3>2, TypePartsNext
  <2>3. CASE cardStatus[to[d]] # "none"
    <3>1. setupStatus(d) \in Reported /\ d \in 0..MaxDispatch
      BY <1>0, <2>1, <2>3 DEF setupStatus, SlaveTypes
    <3>2. \/ notReported(to[d], d, setupStatus(d))
          \/ reported(to[d], d, setupStatus(d))
      BY <1>6, <2>3 DEF do_jobSetup
    <3>3. /\ RecordTypes' /\ WireTypes'
          /\ late' \subseteq Report /\ lates' \in 0..MaxLate /\ seq' \in [Hosts -> Nat]
      BY <2>1, <3>1, <3>2, ReportTypes
    <3>4. SlaveTypes'
      <4>1. sbd' = sbd
        BY <1>6 DEF do_jobSetup
      <4>2. proc' \in [Pids -> ProcState]
        <5>1. \/ proc' = proc
              \/ proc' = [proc EXCEPT ![d] = "exec"]
              \/ proc' = [proc EXCEPT ![d] = "end"]
          BY <1>6 DEF do_jobSetup, notReported
        <5> QED
          BY <1>0, <5>1 DEF SlaveTypes
      <4>3. CASE UNCHANGED <<card, cardStatus>>
        BY <1>0, <3>3, <4>1, <4>2, <4>3 DEF SlaveTypes
      <4>4. CASE dropCard(to[d])
        BY <1>0, <2>1, <3>3, <4>1, <4>2, <4>4 DEF dropCard, SlaveTypes
      <4>5. ASSUME NEW st \in CardStatus, setCard(to[d], d, st) PROVE SlaveTypes'
        BY <1>0, <2>1, <3>1, <3>3, <4>1, <4>2, <4>5 DEF setCard, SlaveTypes
      <4>6. (IF cardStatus[to[d]] = "new" THEN "run" ELSE cardStatus[to[d]]) \in CardStatus
        BY <1>0, <2>1 DEF SlaveTypes
      <4> QED
        BY <1>6, <2>3, <4>3, <4>4, <4>5, <4>6 DEF do_jobSetup, notReported
    <3>5. RestTypes'
      BY <1>0, <1>6, <2>3, <3>3 DEF do_jobSetup, RestTypes
    <3> QED
      BY <3>3, <3>4, <3>5, TypePartsNext
  <2> QED
    BY <2>2, <2>3
<1>7. CASE jobExit(d)
  BY <1>0, <1>7, TypePartsNext
     DEF jobExit, RecordTypes, WireTypes, SlaveTypes, RestTypes
<1> QED
  BY <1>1, <1>2, <1>3, <1>4, <1>5, <1>6, <1>7 DEF child

LEMMA TypeNext == ASSUME TypeOK, ProtocolAssumption, [Next]_vars PROVE TypeOK'
<1>1. CASE Next
  BY <1>1, TypeMbatchd, TypeSbatchd, TypeChild DEF Next
<1>2. CASE UNCHANGED vars
  <2>1. RecordTypes /\ WireTypes /\ SlaveTypes /\ RestTypes
    BY TypeParts
  <2> QED
    BY <1>2, <2>1, TypePartsNext
       DEF vars, RecordTypes, WireTypes, SlaveTypes, RestTypes
<1> QED
  BY <1>1, <1>2

(* Every step of JobProtocol keeps the job record of mbatchd, the            *)
(* connections, the job cards and the children well formed.                  *)
THEOREM JobTypes == Spec => []TypeOK
<1>1. TypeOK /\ [Next]_vars => TypeOK'
  BY TypeNext, ProtocolAssumption
<1> QED
  BY <1>1, TypeInit, PTL DEF Spec

-----------------------------------------------------------------------------
(* The report counters: nextSeq starts again at 1 with every instance, and   *)
(* follows the counter of the sbatchd it hears from, or falls back behind it. *)

PendFresh == jStatus = "PEND" => hPtr = NoHost /\ nextSeq = 1
SeqBehind == jStatus = "RUN" => \A h \in Hosts : hPtr = h => seq[h] >= nextSeq
NoneLate == lates = 0 => late = {}
SeqInv ==
    /\ NoneLate /\ PendFresh
    /\ \A h \in Hosts : seq[h] >= 1
    /\ lates = 0 => SeqBehind

LEMMA SeqInit == Init => SeqInv
BY DEF Init, SeqInv, NoneLate, PendFresh, SeqBehind

(* statusJob, for a report with the number n. *)
LEMMA StatusFresh ==
    ASSUME RecordTypes, ProtocolAssumption, PendFresh,
           NEW h \in Hosts, NEW p, NEW st, NEW n, statusJob(h, p, st, n)
    PROVE  PendFresh'
<1> USE DEF PendFresh, unchangedJob, toPend
<1>1. CASE jStatus = "NONE"
  BY <1>1 DEF statusJob
<1>2. CASE jStatus # "NONE"
  BY <1>2 DEF statusJob, statusPost, statusFail, statusAdopt, statusRun, statusFinish, RecordTypes
<1> QED
  BY <1>1, <1>2

LEMMA StatusSeq ==
    ASSUME RecordTypes, ProtocolAssumption, PendFresh, SeqBehind, seq \in [Hosts -> Nat],
           NEW h \in Hosts, NEW p, NEW st, statusJob(h, p, st, seq[h])
    PROVE  jStatus' = "RUN" => nextSeq' \in Nat /\ \A k \in Hosts : hPtr' = k => seq[k] >= nextSeq'
<1> USE DEF PendFresh, SeqBehind, unchangedJob, toPend
<1>1. CASE jStatus = "NONE"
  BY <1>1 DEF statusJob
<1>2. CASE jStatus # "NONE"
  <2>1. CASE statusPost
    BY <2>1 DEF statusPost, RecordTypes
  <2>2. CASE statusFail(h, p)
    BY <2>2 DEF statusFail, RecordTypes
  <2>3. CASE statusAdopt(h, p, seq[h])
    BY <2>3 DEF statusAdopt, RecordTypes
  <2>4. CASE statusRun(h, p, seq[h])
    BY <2>4 DEF statusRun, RecordTypes
  <2>5. CASE jStatus \notin {"PEND", "RUN"} /\ jStatus' = jStatus
    BY <2>5
  <2>6. CASE statusFinish(h, p, st, seq[h])
    BY <2>6 DEF statusFinish, RecordTypes
  <2> QED
    BY <1>2, <2>1, <2>2, <2>3, <2>4, <2>5, <2>6 DEF statusJob
<1> QED
  BY <1>1, <1>2

(* A report that came in time, or did not. *)
LEMMA ReportSeq ==
    ASSUME TypeOK, ProtocolAssumption, SeqInv,
           NEW h \in Hosts, NEW p, NEW st, reported(h, p, st) \/ notReported(h, p, st)
    PROVE  SeqInv'
<1>0. RecordTypes /\ seq \in [Hosts -> Nat] /\ lates \in Nat
  BY TypeParts DEF SlaveTypes, RestTypes
<1>1. seq' = [seq EXCEPT ![h] = @ + 1]
  BY DEF reported, notReported
<1>2. \A k \in Hosts : seq'[k] >= seq[k] /\ seq'[k] \in Nat
  BY <1>0, <1>1
<1>3. CASE reported(h, p, st)
  <2>1. PendFresh' /\ late' = late /\ lates' = lates
    BY <1>0, <1>3, StatusFresh DEF reported, SeqInv
  <2>2. ASSUME lates = 0 PROVE SeqBehind'
    <3>1. jStatus' = "RUN" => nextSeq' \in Nat /\ \A k \in Hosts : hPtr' = k => seq[k] >= nextSeq'
      BY <1>0, <1>3, <2>2, StatusSeq DEF reported, SeqInv
    <3> QED
      BY <1>0, <1>2, <3>1 DEF SeqBehind
  <2> QED
    BY <1>0, <1>2, <2>1, <2>2 DEF SeqInv, NoneLate
<1>4. CASE notReported(h, p, st)
  <2>1. lates' # 0 /\ PendFresh'
    BY <1>0, <1>4 DEF notReported, SeqInv, PendFresh
  <2> QED
    BY <1>0, <1>2, <2>1 DEF SeqInv, NoneLate
<1> QED
  BY <1>3, <1>4

(* A step that leaves the counters of the sbatchds alone. *)
LEMMA QuietSeq ==
    ASSUME TypeOK, SeqInv, UNCHANGED <<seq, lates>>, late' \subseteq late, PendFresh',
           jStatus' = "RUN" => \/ nextSeq' = 1
                               \/ jStatus = "RUN" /\ hPtr' = hPtr /\ nextSeq' = nextSeq
    PROVE  SeqInv'
<1>1. seq \in [Hosts -> Nat] /\ nextSeq \in Nat
  BY DEF TypeOK
<1> QED
  BY <1>1 DEF SeqInv, NoneLate, SeqBehind

(* What mbatchd does to the counters of a job when it hears no report. *)
SeqQuiet ==
    /\ seq' = seq /\ lates' = lates
    /\ late' = late \/ late' = {}
    /\ PendFresh'
    /\ jStatus' = "RUN" => \/ nextSeq' = 1
                           \/ jStatus = "RUN" /\ hPtr' = hPtr /\ nextSeq' = nextSeq

LEMMA SeqMbatchd == ASSUME TypeOK, ProtocolAssumption, SeqInv, mbatchd PROVE SeqInv'
<1>0. PendFresh /\ RecordTypes
  BY TypeParts DEF SeqInv
<1>1. ASSUME NEW h \in Hosts, dispatch_it(h) PROVE SeqQuiet
  BY <1>0, <1>1 DEF dispatch_it, SeqQuiet, PendFresh
<1>2. ASSUME NEW h \in Hosts, dispatchRefused(h) PROVE SeqQuiet
  BY <1>0, <1>2 DEF dispatchRefused, toPend, SeqQuiet, PendFresh
<1>3. ASSUME NEW h \in Hosts, hostUnreach(h) PROVE SeqQuiet
  BY <1>0, <1>3 DEF hostUnreach, SeqQuiet, PendFresh
<1>4. ASSUME NEW h \in Hosts, hostUnavail(h) PROVE SeqQuiet
  BY <1>0, <1>4 DEF hostUnavail, toPend, SeqQuiet, PendFresh
<1>5. ASSUME NEW h \in Hosts, probe_slave(h) PROVE SeqQuiet
  BY <1>0, <1>5 DEF probe_slave, sbatchdJobs, toPend, SeqQuiet, PendFresh
<1>6. ASSUME NEW d \in Pids, doNewJobReply(d) PROVE SeqQuiet
  BY <1>0, <1>6 DEF doNewJobReply, doNewJobException, toPend, SeqQuiet, PendFresh
<1>7. ASSUME NEW d \in Pids, doNewJobError(d) PROVE SeqQuiet
  BY <1>0, <1>7 DEF doNewJobError, doNewJobException, toPend, SeqQuiet, PendFresh
<1>8. ASSUME NEW d \in Pids, shutdownSbdConnections(d) PROVE SeqQuiet
  BY <1>0, <1>8 DEF shutdownSbdConnections, doNewJobException, toPend, SeqQuiet, PendFresh
<1>9. ASSUME NEW d \in Pids, closeKeptChannel(d) PROVE SeqQuiet
  BY <1>0, <1>9 DEF closeKeptChannel, doNewJobException, toPend, SeqQuiet, PendFresh
<1>10. ASSUME cleanRequeue PROVE SeqQuiet
  BY <1>0, <1>10 DEF cleanRequeue, toPend, SeqQuiet, PendFresh
<1>11. ASSUME removeJob PROVE SeqQuiet
  BY <1>0, <1>11 DEF removeJob, toPend, SeqQuiet, PendFresh
<1>12. ASSUME mbdRestart PROVE SeqQuiet
  BY <1>0, <1>12 DEF mbdRestart, toPend, SeqQuiet, PendFresh
<1>13. CASE \E r \in late : lateReport(r)
  <2>1. PICK r \in late : lateReport(r)
    BY <1>13
  <2>2. r.host \in Hosts
    BY DEF TypeOK, Report
  <2>3. PendFresh' /\ UNCHANGED <<seq, lates>> /\ late' \subseteq late
    BY <1>0, <2>1, <2>2, StatusFresh DEF lateReport
  <2>4. lates # 0
    BY DEF SeqInv, NoneLate
  <2> QED
    BY <2>3, <2>4 DEF SeqInv, NoneLate
<1>14. CASE SeqQuiet
  BY <1>14, QuietSeq DEF SeqQuiet
<1> QED
  BY <1>1, <1>2, <1>3, <1>4, <1>5, <1>6,
     <1>7, <1>8, <1>9, <1>10, <1>11, <1>12, <1>13, <1>14 DEF mbatchd

LEMMA SeqSbatchd ==
    ASSUME TypeOK, ProtocolAssumption, SeqInv, NEW h \in Hosts, sbatchd(h)
    PROVE  SeqInv'
<1>0. PendFresh /\ RecordTypes /\ seq \in [Hosts -> Nat]
  BY TypeParts DEF SeqInv, SlaveTypes
<1>1. CASE checkFinish(h) \/ killZombie(h) \/ sbdCrash(h) \/ hostBoot(h)
  <2>1. UNCHANGED <<jStatus, hPtr, nextSeq, seq, late, lates>>
    BY <1>1 DEF checkFinish, killZombie, sbdCrash, hostBoot
  <2> QED
    BY <1>0, <2>1, QuietSeq DEF PendFresh
<1>2. CASE job_finish(h) \/ post_finish(h)
  <2>1. \E st : reported(h, card[h], st) \/ notReported(h, card[h], st)
    BY <1>2 DEF job_finish, post_finish
  <2> QED
    BY <2>1, ReportSeq
<1>3. CASE sbdRestart(h)
  <2>1. /\ seq' = [seq EXCEPT ![h] = 1] /\ UNCHANGED <<late, lates>>
        /\ sbatchdJobs(h)
    BY <1>3 DEF sbdRestart
  <2>2. PendFresh'
    BY <1>0, <2>1 DEF sbatchdJobs, toPend, PendFresh
  <2>3. jStatus' = "RUN" => \/ jStatus = "RUN" /\ hPtr' = h /\ nextSeq' = 1
                            \/ jStatus = "RUN" /\ hPtr' # h /\ hPtr' = hPtr /\ nextSeq' = nextSeq
    BY <1>0, <2>1 DEF sbatchdJobs, toPend
  <2> QED
    BY <1>0, <2>1, <2>2, <2>3 DEF SeqInv, NoneLate, SeqBehind
<1> QED
  BY <1>1, <1>2, <1>3 DEF sbatchd

LEMMA SeqChild ==
    ASSUME TypeOK, ProtocolAssumption, SeqInv, NEW d \in Pids, child(d)
    PROVE  SeqInv'
<1>0. PendFresh
  BY DEF SeqInv
<1>1. CASE do_jobSetup(d) /\ cardStatus[to[d]] # "none"
  <2>1. to[d] \in Hosts
    BY <1>1 DEF do_jobSetup, TypeOK
  <2>2. reported(to[d], d, setupStatus(d)) \/ notReported(to[d], d, setupStatus(d))
    BY <1>1 DEF do_jobSetup
  <2> QED
    BY <2>1, <2>2, ReportSeq
<1>2. CASE ~(do_jobSetup(d) /\ cardStatus[to[d]] # "none")
  <2>1. UNCHANGED <<jStatus, hPtr, nextSeq, seq, late, lates>>
    BY <1>2 DEF child, do_newjob, breakConnection, readGoAhead, noGoAhead, setupFails, do_jobSetup, jobExit
  <2> QED
    BY <1>0, <2>1, QuietSeq DEF PendFresh
<1> QED
  BY <1>1, <1>2

(* However daemons and hosts restart, and for every number of instances: as  *)
(* long as no report has outlived the call that sent it, statusJob discards  *)
(* no report of the current instance as obsolete.                            *)
THEOREM SeqFollows == Spec => [](lates = 0 => SeqInStep)
<1>1. TypeOK /\ SeqInv /\ [Next]_vars => SeqInv'
  <2> SUFFICES ASSUME TypeOK, SeqInv, [Next]_vars PROVE SeqInv'
    OBVIOUS
  <2>1. CASE Next
    BY <2>1, ProtocolAssumption, SeqMbatchd, SeqSbatchd, SeqChild DEF Next
  <2>2. CASE UNCHANGED vars
    BY <2>2 DEF vars, SeqInv, NoneLate, PendFresh, SeqBehind
  <2> QED
    BY <2>1, <2>2
<1>2. SeqInv => (lates = 0 => SeqInStep)
  BY DEF SeqInv, SeqBehind, SeqInStep
<1> QED
  BY <1>1, <1>2, JobTypes, SeqInit, PTL DEF Spec
=============================================================================
