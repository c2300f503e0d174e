--------------------------- MODULE JobSafetyProofs ---------------------------
(* The inductive invariant JobInv of JobProtocol, and SingleExecution from   *)
(* it, for any hosts and any number of dispatches, faults and late reports.  *)
EXTENDS JobProtocolProofs

(* The invariant, sorted by the part of the state that it speaks of. *)
RecordOK ==
    /\ hPtr # NoHost => forkedOn(hPtr, jobPid)
    /\ \A z \in Range(zombies) : forkedOn(z[1], z[2])
    /\ jStatus = "DONE" => over(jobPid)

LateOK ==
    \A r \in late : forkedOn(r.host, r.pid) /\ (r.status # "RUN" => over(r.pid))

CardOK ==
    \A h \in Hosts :
        /\ forkedOn(h, card[h])
        /\ cardStatus[h] \in {"post", "PEND", "DONE", "EXIT", "BOOT"} => over(card[h])

ReplyOK == \A d \in Pids : reply[d] = d => proc[d] # "none"

OwnOK == RecordOK /\ LateOK /\ CardOK /\ ReplyOK /\ InCharge

LEMMA OwnParts == Located /\ EndsAreTrue /\ InCharge <=> OwnOK
BY DEF Located, EndsAreTrue, OwnOK, RecordOK, LateOK, CardOK, ReplyOK

LEMMA OwnPartsNext == (Located /\ EndsAreTrue /\ InCharge)' <=> OwnOK'
BY DEF Located, EndsAreTrue, OwnOK, RecordOK, LateOK, CardOK, ReplyOK

(* A forked child stays forked where it is, one that is over stays over, and *)
(* none gets its go-ahead by this step.                                      *)
Steady ==
    \A p \in Pids :
        /\ proc[p] # "none" => proc'[p] # "none" /\ to'[p] = to[p]
        /\ over(p) => over(p)'

NoGo == \A p \in Pids : goesAhead(p)' => goesAhead(p)

LEMMA KeepRecord ==
    ASSUME RecordOK, Steady,
           hPtr' # NoHost => forkedOn(hPtr', jobPid'),
           Range(zombies') \subseteq Range(zombies),
           jStatus' = "DONE" => over(jobPid')
    PROVE  RecordOK'
<1>1. \A h, p : forkedOn(h, p) => (p \in Pids => proc'[p] # "none" /\ to'[p] = h)
  BY DEF forkedOn, Steady
<1>2. \A p : over(p) => (p \in Pids => proc'[p] \in {"fail", "bad", "end", "lost"})
  BY DEF over, Steady
<1> QED
  BY <1>1, <1>2 DEF RecordOK, forkedOn, over

LEMMA KeepLate == ASSUME LateOK, Steady, late' \subseteq late PROVE LateOK'
BY DEF LateOK, Steady, forkedOn, over

LEMMA KeepCard ==
    ASSUME CardOK, Steady, ProtocolAssumption,
           \A h \in Hosts : \/ card'[h] = card[h] /\ cardStatus'[h] = cardStatus[h]
                            \/ card'[h] = 0 /\ cardStatus'[h] = "none"
    PROVE  CardOK'
<1> SUFFICES ASSUME NEW h \in Hosts
             PROVE  /\ forkedOn(h, card[h])'
                    /\ cardStatus'[h] \in {"post", "PEND", "DONE", "EXIT", "BOOT"}
                       => over(card[h])'
  BY DEF CardOK
<1>1. CASE card'[h] = card[h] /\ cardStatus'[h] = cardStatus[h]
  BY <1>1 DEF CardOK, Steady, forkedOn, over
<1>2. CASE card'[h] = 0 /\ cardStatus'[h] = "none"
  BY <1>2, 0 \notin Pids DEF forkedOn, over, Pids
<1> QED
  BY <1>1, <1>2

(* One card is rewritten, truthfully. *)
LEMMA NewCard ==
    ASSUME CardOK, Steady, NEW h \in Hosts,
           forkedOn(h, card[h])',
           cardStatus'[h] \in {"post", "PEND", "DONE", "EXIT", "BOOT"} => over(card[h])',
           \A k \in Hosts : k # h => card'[k] = card[k] /\ cardStatus'[k] = cardStatus[k]
    PROVE  CardOK'
<1> SUFFICES ASSUME NEW k \in Hosts
             PROVE  /\ forkedOn(k, card[k])'
                    /\ cardStatus'[k] \in {"post", "PEND", "DONE", "EXIT", "BOOT"}
                       => over(card[k])'
  BY DEF CardOK
<1>1. CASE k = h
  BY <1>1 DEF forkedOn, over
<1>2. CASE k # h
  <2>1. card'[k] = card[k] /\ cardStatus'[k] = cardStatus[k]
    BY <1>2
  <2> QED
    BY <2>1 DEF CardOK, Steady, forkedOn, over
<1> QED
  BY <1>1, <1>2

LEMMA KeepReply == ASSUME ReplyOK, Steady, reply' = reply PROVE ReplyOK'
BY DEF ReplyOK, Steady

LEMMA KeepCharge ==
    ASSUME InCharge, Steady, NoGo,
           \A p \in Pids :
               goesAhead(p)' /\ isZombie(p) => <<to[p], p>> \in Range(zombies'),
           \A p \in Pids :
               /\ goesAhead(p)' /\ jStatus = "RUN" /\ jobPid = p /\ hPtr = to[p]
               => \/ jStatus' = "RUN" /\ jobPid' = p /\ hPtr' = to[p]
                  \/ <<to[p], p>> \in Range(zombies')
    PROVE  InCharge'
<1> SUFFICES ASSUME NEW p \in Pids, goesAhead(p)'
             PROVE  \/ <<to'[p], p>> \in Range(zombies')
                    \/ jStatus' = "RUN" /\ jobPid' = p /\ hPtr' = to'[p]
  BY DEF InCharge, isZombie
<1>1. goesAhead(p) /\ proc[p] # "none" /\ to'[p] = to[p]
  BY DEF NoGo, Steady, goesAhead
<1> QED
  BY <1>1 DEF InCharge

(* A step that keeps the instance mbatchd has on record, or has none to lose. *)
LEMMA QuietRecord ==
    ASSUME Wiring, RecordOK, InCharge, Steady, NoGo,
           jobPid' = jobPid, zombies' = zombies, hPtr' \in {hPtr, NoHost},
           jStatus' = "DONE" => jStatus = "DONE",
           jStatus = "RUN" /\ jobPid \in Pids /\ hPtr # NoHost
               => jStatus' = "RUN" /\ hPtr' = hPtr
    PROVE  RecordOK' /\ InCharge'
<1>1. RecordOK'
  BY KeepRecord DEF RecordOK
<1>2. ASSUME NEW p \in Pids, goesAhead(p)',
             jStatus = "RUN" /\ jobPid = p /\ hPtr = to[p]
      PROVE  jStatus' = "RUN" /\ jobPid' = p /\ hPtr' = to[p]
  <2>1. to[p] # NoHost
    BY <1>2 DEF NoGo, goesAhead, Wiring
  <2> QED
    BY <1>2, <2>1
<1>3. \A p \in Pids : isZombie(p) => <<to[p], p>> \in Range(zombies')
  BY DEF isZombie
<1>4. InCharge'
  BY <1>2, <1>3, KeepCharge
<1> QED
  BY <1>1, <1>4

LEMMA QuietRest ==
    ASSUME LateOK, CardOK, ReplyOK, Steady, ProtocolAssumption,
           late' \subseteq late, reply' = reply,
           \A h \in Hosts : \/ card'[h] = card[h] /\ cardStatus'[h] = cardStatus[h]
                            \/ card'[h] = 0 /\ cardStatus'[h] = "none"
    PROVE  LateOK' /\ CardOK' /\ ReplyOK'
BY KeepLate, KeepCard, KeepReply

-----------------------------------------------------------------------------
(* What statusJob keeps, when the report is true of the instance it is from  *)
(* and is not applied to another: no child that may run is dropped from the  *)
(* record or from the zombie list.                                           *)
LEMMA StatusKeeps ==
    ASSUME RecordTypes, WireTypes, ProtocolAssumption, RecordOK,
           NEW h \in Hosts, NEW p \in 0..MaxDispatch, NEW st \in Reported,
           NEW n \in Nat, statusJob(h, p, st, n), ~crosses(h, p),
           forkedOn(h, p), st # "RUN" => over(p)
    PROVE  /\ to' = to /\ req' = req /\ reply' = reply /\ ack' \subseteq ack
           /\ \A d \in Pids : node'[d] = "idle" <=> node[d] = "idle"
           /\ hPtr' # NoHost => forkedOn(hPtr', jobPid')
           /\ Range(zombies') \subseteq Range(zombies)
           /\ jStatus' = "DONE" => over(jobPid')
           /\ \A q \in Pids : ~over(q) /\ isZombie(q) => <<to[q], q>> \in Range(zombies')
           /\ \A q \in Pids :
                  ~over(q) /\ jStatus = "RUN" /\ jobPid = q
                  => jStatus' = "RUN" /\ jobPid' = q /\ hPtr' = hPtr
<1>1. CASE jStatus = "NONE"
  BY <1>1 DEF statusJob, RecordOK, isZombie, mbd, wire
<1>2. CASE jStatus # "NONE"
  <2> USE DEF mbd, wire, unchangedJob, toPend
  <2>0. over(0)
    BY DEF over, Pids
  <2>1. CASE st = "POST" /\ statusPost
    BY <2>1 DEF statusPost, RecordOK, isZombie
  <2>2. CASE st = "FAIL" /\ statusFail(h, p)
    <3>1. UNCHANGED wire /\ jobPid' = jobPid
      BY <2>2 DEF statusFail
    <3>2. /\ Range(zombies') \subseteq Range(zombies)
          /\ \A z \in Range(zombies) : z # <<h, p>> => z \in Range(zombies')
      <4>1. CASE isInZomJobList(h, p) # {}
        BY <2>2, <4>1, OffZomTypes DEF statusFail
      <4>2. CASE isInZomJobList(h, p) = {}
        BY <2>2, <4>2 DEF statusFail
      <4> QED
        BY <4>1, <4>2
    <3>3. ASSUME NEW q \in Pids, ~over(q), isZombie(q)
          PROVE  <<to[q], q>> \in Range(zombies')
      BY <2>2, <3>2, <3>3 DEF isZombie
    <3>4. CASE jStatus = "RUN" /\ hPtr = h
      <4>1. jStatus' = "PEND" /\ hPtr' = NoHost
        BY <2>2, <3>4 DEF statusFail
      <4>2. jobPid \in {0, p}
        BY <3>4, <4>1 DEF crosses
      <4> QED
        BY <2>2, <3>1, <3>2, <3>3, <3>4, <4>1, <4>2, <2>0 DEF Pids
    <3>5. CASE ~(jStatus = "RUN" /\ hPtr = h)
      <4>1. unchangedJob
        BY <2>2, <3>5 DEF statusFail
      <4> QED
        BY <3>1, <3>2, <3>3, <4>1 DEF RecordOK
    <3> QED
      BY <3>4, <3>5
  <2>3. CASE st = "RUN" /\ statusAdopt(h, p, n)
    <3>1. hPtr' # NoHost => forkedOn(hPtr', jobPid')
      BY <2>3 DEF statusAdopt, RecordOK
    <3> QED
      BY <2>3, <3>1 DEF statusAdopt, isZombie
  <2>4. CASE st = "RUN" /\ statusRun(h, p, n)
    <3>1. jobPid' # jobPid => jobPid = 0 /\ hPtr = h /\ jobPid' = p
      BY <2>4 DEF statusRun, crosses
    <3>2. hPtr' # NoHost => forkedOn(hPtr', jobPid')
      BY <2>4, <3>1 DEF statusRun, RecordOK
    <3> QED
      BY <2>4, <3>1, <3>2 DEF statusRun, isZombie, Pids
  <2>5. CASE /\ st = "RUN" /\ jStatus \notin {"PEND", "RUN"}
             /\ nextSeq' = IF hPtr = h /\ n >= nextSeq THEN n ELSE nextSeq
             /\ UNCHANGED <<jStatus, hPtr, jobPid, execHome, zombies, zlog, wire>>
    BY <2>5 DEF RecordOK, isZombie
  <2>6. CASE st \in {"PEND", "DONE", "EXIT", "BOOT"} /\ statusFinish(h, p, st, n)
    <3>0. over(p)
      BY <2>6
    <3>1. CASE isInZomJobList(h, p) # {}
      <4>1. offZomJobList(h, p) /\ unchangedJob /\ UNCHANGED wire
        BY <2>6, <3>1 DEF statusFinish
      <4>2. /\ Range(zombies') \subseteq Range(zombies)
            /\ \A z \in Range(zombies) : z # <<h, p>> => z \in Range(zombies')
        BY <4>1, OffZomTypes
      <4>3. ASSUME NEW q \in Pids, ~over(q), isZombie(q)
            PROVE  <<to[q], q>> \in Range(zombies')
        BY <3>0, <4>2, <4>3 DEF isZombie
      <4> QED
        BY <4>1, <4>2, <4>3 DEF RecordOK
    <3>2. CASE isInZomJobList(h, p) = {} /\ (hPtr # h \/ n < nextSeq)
      BY <2>6, <3>2 DEF statusFinish, RecordOK, isZombie
    <3>3. CASE isInZomJobList(h, p) = {} /\ ~(hPtr # h \/ n < nextSeq) /\ jStatus # "RUN"
      <4>1. UNCHANGED <<jStatus, hPtr, jobPid, zombies, wire>>
        BY <2>6, <3>3 DEF statusFinish
      <4> QED
        BY <3>3, <4>1 DEF RecordOK, isZombie
    <3>4. CASE isInZomJobList(h, p) = {} /\ ~(hPtr # h \/ n < nextSeq) /\ jStatus = "RUN"
      <4>1. /\ jobPid' = jobPid /\ cleanSbdNode /\ zombies' = zombies
            /\ jStatus' # "RUN" /\ hPtr' \in {hPtr, NoHost}
        BY <2>6, <3>4 DEF statusFinish
      <4>2. over(jobPid)
        BY <2>0, <3>0, <3>4, <4>1 DEF crosses
      <4>3. /\ to' = to /\ req' = req /\ reply' = reply /\ ack' \subseteq ack
            /\ \A d \in Pids : node'[d] = "idle" <=> node[d] = "idle"
        BY <4>1 DEF cleanSbdNode
      <4> QED
        BY <4>1, <4>2, <4>3 DEF RecordOK, isZombie
    <3> QED
      BY <3>1, <3>2, <3>3, <3>4
  <2> QED
    BY <1>2, <2>1, <2>2, <2>3, <2>4, <2>5, <2>6 DEF statusJob
<1> QED
  BY <1>1, <1>2
-----------------------------------------------------------------------------
(* Wiring *)

LEMMA QuietWire ==
    ASSUME Wiring, to' = to, req' \subseteq req, reply' = reply, ack' \subseteq ack,
           \A d \in Pids : node'[d] = "idle" => node[d] = "idle",
           \A d \in Pids : proc'[d] = "none" <=> proc[d] = "none"
    PROVE  Wiring'
BY DEF Wiring

LEMMA StatusWire ==
    ASSUME NEW h, NEW p, NEW st, NEW n, statusJob(h, p, st, n)
    PROVE  /\ to' = to /\ req' = req /\ reply' = reply /\ ack' \subseteq ack
           /\ \A d \in Pids : node'[d] = "idle" => node[d] = "idle"
<1>1. UNCHANGED wire \/ cleanSbdNode
  BY DEF statusJob, statusPost, statusFail, statusAdopt, statusRun, statusFinish, wire
<1> QED
  BY <1>1 DEF cleanSbdNode, wire

LEMMA WiringNext ==
    ASSUME TypeOK, ProtocolAssumption, Wiring, Next
    PROVE  Wiring'
<1> USE DEF mbd, wire, slave
<1>0. node \in [Pids -> {"idle", "open", "keep", "closed"}] /\ proc \in [Pids -> ProcState]
      /\ to \in [Pids -> Hosts \cup {NoHost}] /\ reply \in [Pids -> -1..MaxDispatch]
  BY DEF TypeOK
<1>1. ASSUME NEW h \in Hosts, dispatch_it(h) PROVE Wiring'
  <2>1. PICK d \in Pids : /\ node[d] = "idle"
                          /\ node' = [node EXCEPT ![d] = "open"]
                          /\ to' = [to EXCEPT ![d] = h]
                          /\ req' = req \cup {d}
    BY <1>1 DEF dispatch_it
  <2>2. UNCHANGED <<reply, ack, proc>> /\ h # NoHost
    BY <1>1, ProtocolAssumption DEF dispatch_it
  <2> QED
    BY <1>0, <2>1, <2>2 DEF Wiring
<1>2. ASSUME NEW h \in Hosts,
             dispatchRefused(h) \/ hostUnreach(h) \/ hostUnavail(h) \/ probe_slave(h)
      PROVE  Wiring'
  <2>1. UNCHANGED <<wire, proc>>
    BY <1>2 DEF dispatchRefused, hostUnreach, hostUnavail, probe_slave
  <2> QED
    BY <2>1, QuietWire
<1>3. ASSUME NEW d \in Pids, doNewJobReply(d) PROVE Wiring'
  <2>1. UNCHANGED <<to, req, reply, proc>> /\ ack' \subseteq ack \cup {d} /\ reply[d] > 0
    BY <1>3 DEF doNewJobReply
  <2>2. d \notin req /\ node[d] # "idle"
    BY <1>0, <1>3, <2>1 DEF doNewJobReply, Wiring
  <2>3. \A e \in Pids : node'[e] = "idle" => node[e] = "idle"
    BY <1>0, <1>3 DEF doNewJobReply
  <2> QED
    BY <2>1, <2>2, <2>3 DEF Wiring
<1>4. ASSUME NEW d \in Pids,
             doNewJobError(d) \/ shutdownSbdConnections(d) \/ closeKeptChannel(d)
      PROVE  Wiring'
  <2>1. UNCHANGED <<to, req, reply, ack, proc>> /\ node' = [node EXCEPT ![d] = "closed"]
    BY <1>4 DEF doNewJobError, shutdownSbdConnections, doNewJobException, closeKeptChannel
  <2> QED
    BY <1>0, <2>1, QuietWire
<1>5. CASE cleanRequeue \/ removeJob
  BY <1>5, QuietWire DEF cleanRequeue, removeJob
<1>6. CASE mbdRestart
  BY <1>6, QuietWire DEF mbdRestart, cleanSbdNode
<1>7. ASSUME NEW r \in late, lateReport(r) PROVE Wiring'
  BY <1>7, QuietWire, StatusWire DEF lateReport
<1>8. ASSUME NEW h \in Hosts, checkFinish(h) \/ killZombie(h) \/ sbdRestart(h) PROVE Wiring'
  <2>1. CASE killZombie(h)
    <3>1. PICK p \in Pids : card[h] = p /\ proc[p] \in Live
      BY <2>1 DEF killZombie, alive
    <3>2. UNCHANGED wire /\ proc' = [proc EXCEPT ![p] = "end"]
      BY <2>1, <3>1 DEF killZombie
    <3> QED
      BY <1>0, <3>1, <3>2, QuietWire DEF Live
  <2>2. CASE checkFinish(h) \/ sbdRestart(h)
    BY <2>2, QuietWire DEF checkFinish, sbdRestart
  <2> QED
    BY <1>8, <2>1, <2>2
<1>9. ASSUME NEW h \in Hosts, job_finish(h) PROVE Wiring'
  BY <1>9, QuietWire, StatusWire DEF job_finish, reported, notReported
<1>10. ASSUME NEW h \in Hosts, post_finish(h) PROVE Wiring'
  BY <1>10, QuietWire, StatusWire DEF post_finish, reported, notReported
<1>11. ASSUME NEW h \in Hosts, sbdCrash(h) PROVE Wiring'
  <2>1. UNCHANGED <<node, to, reply, ack, proc>> /\ req' \subseteq req
    BY <1>11 DEF sbdCrash
  <2> QED
    BY <2>1, QuietWire
<1>12. ASSUME NEW h \in Hosts, hostBoot(h) PROVE Wiring'
  <2>1. UNCHANGED <<node, to, reply>> /\ req' \subseteq req /\ ack' \subseteq ack
    BY <1>12 DEF hostBoot
  <2>2. \A d \in Pids : proc'[d] = "none" <=> proc[d] = "none"
    BY <1>0, <1>12 DEF hostBoot, Live
  <2> QED
    BY <2>1, <2>2, QuietWire
<1>13. ASSUME NEW d \in Pids, do_newjob(d) PROVE Wiring'
  <2>1. /\ d \in req /\ UNCHANGED <<node, to, ack>> /\ req' = req \ {d}
        /\ to[d] # NoHost /\ to[d] \in Hosts
    BY <1>13, ProtocolAssumption DEF do_newjob, TypeOK
  <2>2. \A e \in Pids : e # d => reply'[e] = reply[e] /\ proc'[e] = proc[e]
    BY <1>0, <1>13 DEF do_newjob
  <2> QED
    BY <2>1, <2>2 DEF Wiring
<1>14. ASSUME NEW d \in Pids, breakConnection(d) PROVE Wiring'
  <2>1. UNCHANGED <<node, to, reply, ack, proc>> /\ req' \subseteq req
    BY <1>14 DEF breakConnection
  <2> QED
    BY <2>1, QuietWire
<1>15. ASSUME NEW d \in Pids, readGoAhead(d) \/ noGoAhead(d) \/ setupFails(d) \/ jobExit(d)
       PROVE  Wiring'
  <2>1. UNCHANGED <<node, to, req, reply>> /\ ack' \subseteq ack
    BY <1>15 DEF readGoAhead, noGoAhead, setupFails, jobExit
  <2>2. \A e \in Pids : proc'[e] = "none" <=> proc[e] = "none"
    BY <1>0, <1>15 DEF readGoAhead, noGoAhead, setupFails, jobExit
  <2> QED
    BY <2>1, <2>2, QuietWire
<1>16. ASSUME NEW d \in Pids, do_jobSetup(d) PROVE Wiring'
  <2>1. \A e \in Pids : proc'[e] = "none" <=> proc[e] = "none"
    <3>1. /\ proc[d] # "none"
          /\ \/ proc' = proc
             \/ proc' = [proc EXCEPT ![d] = "exec"]
             \/ proc' = [proc EXCEPT ![d] = "end"]
      BY <1>16 DEF do_jobSetup, notReported
    <3> QED
      BY <1>0, <3>1
  <2>2. \/ UNCHANGED wire
        \/ \E n : statusJob(to[d], d, setupStatus(d), n)
    BY <1>16 DEF do_jobSetup, notReported, reported
  <2> QED
    BY <2>1, <2>2, QuietWire, StatusWire
<1> QED
  BY <1>1, <1>2, <1>3, <1>4, <1>5, <1>6, <1>7, <1>8, <1>9, <1>10, <1>11, <1>12,
     <1>13, <1>14, <1>15, <1>16 DEF Next, mbatchd, sbatchd, child

-----------------------------------------------------------------------------
(* The rest of the invariant *)

LEMMA QuietProc ==
    ASSUME to' = to, ack' \subseteq ack,
           \A p \in Pids : \/ proc'[p] = proc[p]
                           \/ proc[p] \in Live /\ proc'[p] \in {"fail", "bad", "end", "lost"}
    PROVE  Steady /\ NoGo
BY DEF Steady, NoGo, goesAhead, over, Live

(* The actions of mbatchd other than the receipt of a report. *)
LEMMA OwnMbatchd ==
    ASSUME TypeOK, ProtocolAssumption, Wiring, OwnOK, crossed' = "no", mbatchd,
           \A r \in late : ~lateReport(r)
    PROVE  OwnOK'
<1> USE ProtocolAssumption DEF mbd, wire, slave, OwnOK
<1>0. /\ proc \in [Pids -> ProcState] /\ to \in [Pids -> Hosts \cup {NoHost}]
      /\ jobPid \in 0..MaxDispatch /\ 0 \notin Pids
      /\ zombies \in Seq(Hosts \X (0..MaxDispatch))
  BY DEF TypeOK, Pids
<1>1. ASSUME NEW h \in Hosts, dispatch_it(h) PROVE OwnOK'
  <2>1. PICK d \in Pids : node[d] = "idle" /\ to' = [to EXCEPT ![d] = h]
    BY <1>1 DEF dispatch_it
  <2>2. /\ jStatus = "PEND" /\ jStatus' = "RUN" /\ hPtr' = h /\ jobPid' = 0
        /\ UNCHANGED <<zombies, reply, ack, late, card, cardStatus, proc>>
    BY <1>1 DEF dispatch_it
  <2>3. proc[d] = "none"
    BY <2>1 DEF Wiring
  <2>4. Steady /\ NoGo
    BY <1>0, <2>1, <2>2, <2>3 DEF Steady, NoGo, goesAhead, over
  <2>5. RecordOK'
    BY <1>0, <2>2, <2>4, KeepRecord DEF forkedOn
  <2>6. LateOK' /\ CardOK' /\ ReplyOK'
    BY <2>2, <2>4, QuietRest
  <2>7. InCharge'
    BY <2>2, <2>4, KeepCharge DEF isZombie
  <2> QED
    BY <2>5, <2>6, <2>7
<1>2. ASSUME NEW h \in Hosts, dispatchRefused(h) \/ hostUnreach(h) PROVE OwnOK'
  <2>1. UNCHANGED <<jStatus, hPtr, jobPid, zombies, wire, late, slave>>
    BY <1>2 DEF dispatchRefused, hostUnreach
  <2>2. Steady /\ NoGo
    BY <2>1, QuietProc
  <2> QED
    BY <2>1, <2>2, QuietRecord, QuietRest
<1>3. ASSUME NEW h \in Hosts, hostUnavail(h) PROVE OwnOK'
  <2>1. UNCHANGED <<hPtr, jobPid, wire, late, slave>>
    BY <1>3 DEF hostUnavail
  <2>2. Steady /\ NoGo
    BY <2>1, QuietProc
  <2>3. LateOK' /\ CardOK' /\ ReplyOK'
    BY <2>1, <2>2, QuietRest
  <2>4. CASE jStatus = "RUN" /\ hPtr = h /\ Rerunnable
    <3>1. zombies' = Append(zombies, <<h, jobPid>>) /\ jStatus' = "REQUEUE"
      BY <1>3, <2>4 DEF hostUnavail
    <3>2. Range(zombies') = Range(zombies) \cup {<<h, jobPid>>}
      BY <1>0, <3>1, AppendFacts
    <3>3. forkedOn(h, jobPid)
      BY <2>4 DEF RecordOK
    <3>4. RecordOK'
      BY SMTT(60), <2>1, <2>2, <3>1, <3>2, <3>3 DEF RecordOK, forkedOn
    <3>5. InCharge'
      BY <2>1, <2>2, <2>4, <3>2, KeepCharge DEF isZombie
    <3> QED
      BY <2>3, <3>4, <3>5
  <2>5. CASE ~(jStatus = "RUN" /\ hPtr = h /\ Rerunnable)
    <3>1. UNCHANGED <<jStatus, zombies>>
      BY <1>3, <2>5 DEF hostUnavail
    <3> QED
      BY <2>1, <2>2, <2>3, <3>1, QuietRecord
  <2> QED
    BY <2>4, <2>5
<1>4. ASSUME NEW h \in Hosts, probe_slave(h) PROVE OwnOK'
  <2>1. UNCHANGED <<jobPid, zombies, wire, late, slave>>
    BY <1>4 DEF probe_slave
  <2>2. Steady /\ NoGo
    BY <2>1, QuietProc
  <2>3. \/ UNCHANGED <<jStatus, hPtr>>
        \/ jobPid = 0 /\ jStatus' = "PEND" /\ hPtr' = NoHost
    BY <1>4 DEF probe_slave, sbatchdJobs, toPend
  <2> QED
    BY <1>0, <2>1, <2>2, <2>3, QuietRecord, QuietRest
<1>5. ASSUME NEW d \in Pids, doNewJobReply(d) PROVE OwnOK'
  <2>1. UNCHANGED <<jStatus, hPtr, zombies, to, reply, late, slave>>
    BY <1>5 DEF doNewJobReply
  <2>2. Steady
    BY <2>1 DEF Steady, over
  <2>3. LateOK' /\ CardOK' /\ ReplyOK'
    BY <2>1, <2>2, QuietRest
  <2>4. CASE jobPid = 0 /\ jStatus = "RUN"
    <3>1. /\ jobPid' = reply[d] /\ ack' = ack \cup {d}
          /\ hPtr = to[d] /\ reply[d] = d
      BY <1>5, <2>4 DEF doNewJobReply, awaited
    <3>2. proc[d] # "none"
      BY <3>1 DEF ReplyOK
    <3>3. RecordOK'
      BY <2>1, <2>2, <2>4, <3>1, <3>2, KeepRecord DEF forkedOn
    <3>4. ASSUME NEW p \in Pids, goesAhead(p)'
          PROVE  isZombie(p)' \/ (jStatus' = "RUN" /\ jobPid' = p /\ hPtr' = to'[p])
      <4>1. CASE p = d
        BY <2>1, <2>4, <3>1, <4>1
      <4>2. CASE p # d
        <5>1. goesAhead(p)
          BY <2>1, <3>1, <3>4, <4>2 DEF goesAhead
        <5> QED
          BY <1>0, <2>1, <2>4, <5>1 DEF InCharge, isZombie
      <4> QED
        BY <4>1, <4>2
    <3>5. InCharge'
      BY <3>4 DEF InCharge
    <3> QED
      BY <2>3, <3>3, <3>5
  <2>5. CASE ~(jobPid = 0 /\ jStatus = "RUN")
    <3>1. UNCHANGED <<jobPid, ack>>
      BY <1>5, <2>5 DEF doNewJobReply
    <3>2. NoGo
      BY <2>1, <3>1 DEF NoGo, goesAhead
    <3> QED
      BY <2>1, <2>2, <2>3, <3>1, <3>2, QuietRecord
  <2> QED
    BY <2>4, <2>5
<1>6. ASSUME NEW d \in Pids, doNewJobError(d) \/ shutdownSbdConnections(d) PROVE OwnOK'
  <2>0. doNewJobException(d)
    BY <1>6 DEF doNewJobError, shutdownSbdConnections
  <2>1. UNCHANGED <<jobPid, zombies, to, reply, ack, late, slave>>
    BY <2>0 DEF doNewJobException
  <2>2. Steady /\ NoGo
    BY <2>1, QuietProc
  <2>3. \/ UNCHANGED <<jStatus, hPtr>>
        \/ jobPid = 0 /\ jStatus' = "PEND" /\ hPtr' = NoHost
    BY <2>0 DEF doNewJobException, toPend
  <2> QED
    BY <1>0, <2>1, <2>2, <2>3, QuietRecord, QuietRest
<1>7. ASSUME NEW d \in Pids, closeKeptChannel(d) PROVE OwnOK'
  <2>1. UNCHANGED <<mbd, to, reply, ack, late, slave>>
    BY <1>7 DEF closeKeptChannel
  <2>2. Steady /\ NoGo
    BY <2>1, QuietProc
  <2> QED
    BY <2>1, <2>2, QuietRecord, QuietRest
<1>8. CASE cleanRequeue \/ removeJob
  <2>1. /\ UNCHANGED <<jobPid, zombies, wire, late, slave>>
        /\ hPtr' \in {hPtr, NoHost} /\ jStatus # "RUN" /\ jStatus' # "DONE"
    BY <1>8 DEF cleanRequeue, removeJob, toPend
  <2>2. Steady /\ NoGo
    BY <2>1, QuietProc
  <2> QED
    BY <2>1, <2>2, QuietRecord, QuietRest
<1>9. CASE mbdRestart
  <2>1. /\ UNCHANGED <<hPtr, jobPid, to, reply, slave>>
        /\ ack' \subseteq ack /\ late' = {} /\ zombies' = zombies
    BY <1>9 DEF mbdRestart, cleanSbdNode
  <2>2. Steady /\ NoGo
    BY <2>1, QuietProc
  <2>3. /\ jStatus' = "DONE" => jStatus = "DONE"
        /\ jStatus = "RUN" /\ hPtr # NoHost => jStatus' = "RUN"
    BY <1>9 DEF mbdRestart
  <2> QED
    BY <2>1, <2>2, <2>3, QuietRecord, QuietRest
<1> QED
  BY <1>1, <1>2, <1>3, <1>4, <1>5, <1>6, <1>7, <1>8, <1>9 DEF mbatchd

(* A report that is true of its instance and not applied to another. *)
LEMMA ReportKeeps ==
    ASSUME TypeOK, ProtocolAssumption, RecordOK, InCharge, Steady, NoGo,
           NEW h \in Hosts, NEW p \in 0..MaxDispatch, NEW st \in Reported,
           NEW n \in Nat, statusJob(h, p, st, n), ~crosses(h, p),
           forkedOn(h, p), st # "RUN" => over(p)
    PROVE  RecordOK' /\ InCharge'
<1>1. RecordTypes /\ WireTypes
  BY TypeParts
<1>2. /\ hPtr' # NoHost => forkedOn(hPtr', jobPid')
      /\ Range(zombies') \subseteq Range(zombies)
      /\ jStatus' = "DONE" => over(jobPid')
      /\ \A q \in Pids : ~over(q) /\ isZombie(q) => <<to[q], q>> \in Range(zombies')
      /\ \A q \in Pids :
             ~over(q) /\ jStatus = "RUN" /\ jobPid = q
             => jStatus' = "RUN" /\ jobPid' = q /\ hPtr' = hPtr
  BY <1>1, StatusKeeps
<1>3. RecordOK'
  BY <1>2, KeepRecord
<1>4. \A q \in Pids : goesAhead(q)' => ~over(q)
  BY DEF NoGo, goesAhead, over
<1>5. InCharge'
  BY <1>2, <1>4, KeepCharge
<1> QED
  BY <1>3, <1>5

LEMMA OwnLate ==
    ASSUME TypeOK, ProtocolAssumption, Wiring, OwnOK, crossed' = "no",
           NEW r \in late, lateReport(r)
    PROVE  OwnOK'
<1> USE DEF OwnOK
<1>1. /\ r.host \in Hosts /\ r.pid \in 0..MaxDispatch /\ r.status \in Reported
      /\ r.seq \in Nat
  BY DEF TypeOK, Report
<1>2. statusJob(r.host, r.pid, r.status, r.seq) /\ ~crosses(r.host, r.pid)
  BY DEF lateReport
<1>3. forkedOn(r.host, r.pid) /\ (r.status # "RUN" => over(r.pid))
  BY DEF LateOK
<1>4. to' = to /\ reply' = reply /\ ack' \subseteq ack
  BY <1>2, StatusWire
<1>5. UNCHANGED slave /\ late' \subseteq late
  BY DEF lateReport
<1>6. Steady /\ NoGo
  BY <1>4, <1>5, QuietProc DEF slave
<1>7. RecordOK' /\ InCharge'
  BY <1>1, <1>2, <1>3, <1>6, ReportKeeps
<1>8. LateOK' /\ CardOK' /\ ReplyOK'
  BY <1>4, <1>5, <1>6, QuietRest DEF slave
<1> QED
  BY <1>7, <1>8

(* A report that is not answered: it may stay under way. *)
LEMMA OwnNotReported ==
    ASSUME TypeOK, ProtocolAssumption, Wiring, OwnOK,
           NEW h \in Hosts, NEW p \in 0..MaxDispatch, NEW st \in Reported,
           notReported(h, p, st), forkedOn(h, p), st # "RUN" => over(p)
    PROVE  OwnOK'
<1> USE DEF OwnOK
<1>1. UNCHANGED <<mbd, wire, sbd, card, cardStatus, proc>>
  BY DEF notReported
<1>2. Steady /\ NoGo
  BY <1>1, QuietProc DEF wire
<1>3. RecordOK' /\ InCharge'
  BY <1>1, <1>2, QuietRecord DEF mbd
<1>4. CardOK' /\ ReplyOK'
  BY <1>1, <1>2, KeepCard, KeepReply DEF wire
<1>5. LateOK'
  <2>1. CASE late' = late
    BY <1>2, <2>1, KeepLate
  <2>2. CASE late' = late \cup {[host |-> h, pid |-> p, status |-> st, seq |-> seq[h]]}
    <3> SUFFICES ASSUME NEW r \in late'
                 PROVE  /\ forkedOn(r.host, r.pid)'
                        /\ r.status # "RUN" => over(r.pid)'
      BY DEF LateOK
    <3>1. forkedOn(r.host, r.pid) /\ (r.status # "RUN" => over(r.pid))
      BY <2>2 DEF LateOK
    <3> QED
      BY <1>1, <3>1 DEF wire, forkedOn, over
  <2> QED
    BY <2>1, <2>2 DEF notReported
<1> QED
  BY <1>3, <1>4, <1>5

LEMMA OwnFinish ==
    ASSUME TypeOK, ProtocolAssumption, Wiring, OwnOK, crossed' = "no",
           NEW h \in Hosts, job_finish(h) \/ post_finish(h)
    PROVE  OwnOK'
<1> USE DEF OwnOK
<1>1. card \in [Hosts -> 0..MaxDispatch] /\ cardStatus \in [Hosts -> CardStatus]
      /\ seq \in [Hosts -> Nat]
  BY DEF TypeOK
<1> DEFINE st == IF cardStatus[h] = "post" THEN "POST" ELSE cardStatus[h]
<1>2. cardStatus[h] \in {"post", "PEND", "DONE", "EXIT", "BOOT"} /\ st \in Reported
  BY DEF job_finish, post_finish, Reported
<1>3. forkedOn(h, card[h]) /\ over(card[h])
  BY <1>2 DEF CardOK
<1>4. CASE notReported(h, card[h], st)
  BY <1>1, <1>2, <1>3, <1>4, OwnNotReported
<1>5. CASE /\ reported(h, card[h], st) /\ UNCHANGED <<sbd, proc>>
           /\ IF st = "DONE" THEN setCard(h, card[h], "post") ELSE dropCard(h)
  <2>1. statusJob(h, card[h], st, seq[h]) /\ late' = late
    BY <1>5 DEF reported
  <2>2. to' = to /\ reply' = reply /\ ack' \subseteq ack
    BY <2>1, StatusWire
  <2>3. Steady /\ NoGo
    BY <1>5, <2>2, QuietProc
  <2>4. ~crosses(h, card[h])
    <3>1. CASE job_finish(h)
      BY <3>1 DEF job_finish
    <3>2. CASE post_finish(h)
      <4>1. st = "POST"
        BY <3>2 DEF post_finish
      <4>2. UNCHANGED <<mbd, wire>> \/ statusPost
        BY <2>1, <4>1 DEF statusJob
      <4> QED
        BY <4>2 DEF statusPost, crosses, mbd
    <3> QED
      BY <3>1, <3>2
  <2>5. RecordOK' /\ InCharge'
    BY <1>1, <1>2, <1>3, <2>1, <2>3, <2>4, ReportKeeps
  <2>6. LateOK' /\ ReplyOK'
    BY <2>1, <2>2, <2>3, KeepLate, KeepReply
  <2>7. CardOK'
    <3>1. CASE dropCard(h)
      <4>1. \A k \in Hosts : \/ card'[k] = card[k] /\ cardStatus'[k] = cardStatus[k]
                             \/ card'[k] = 0 /\ cardStatus'[k] = "none"
        BY <1>1, <3>1 DEF dropCard
      <4> QED
        BY <2>3, <4>1, KeepCard
    <3>2. CASE setCard(h, card[h], "post")
      <4>1. card' = card /\ \A k \in Hosts : k # h => cardStatus'[k] = cardStatus[k]
        BY <1>1, <3>2 DEF setCard
      <4> QED
        BY <1>3, <1>5, <2>2, <4>1 DEF CardOK, forkedOn, over
    <3> QED
      BY <1>5, <3>1, <3>2
  <2> QED
    BY <2>5, <2>6, <2>7
<1> QED
  BY <1>4, <1>5 DEF job_finish, post_finish

LEMMA OwnSetup ==
    ASSUME TypeOK, ProtocolAssumption, Wiring, OwnOK, crossed' = "no",
           NEW d \in Pids, do_jobSetup(d)
    PROVE  OwnOK'
<1> USE DEF OwnOK
<1>1. /\ card \in [Hosts -> 0..MaxDispatch] /\ cardStatus \in [Hosts -> CardStatus]
      /\ seq \in [Hosts -> Nat] /\ proc \in [Pids -> ProcState]
      /\ to[d] \in Hosts /\ d \in 0..MaxDispatch
  BY SMTT(60) DEF TypeOK, do_jobSetup, Pids
<1>2. CASE cardStatus[to[d]] = "none"
  <2>1. /\ UNCHANGED <<mbd, wire, late, card, cardStatus>>
        /\ proc[d] \in Live /\ proc' = [proc EXCEPT ![d] = "end"]
    BY <1>2 DEF do_jobSetup, Live
  <2>2. Steady /\ NoGo
    BY <1>1, <2>1, QuietProc DEF wire
  <2> QED
    BY <2>1, <2>2, QuietRecord, QuietRest DEF mbd, wire
<1>3. CASE cardStatus[to[d]] # "none"
  <2>1. /\ card[to[d]] = d /\ ~crosses(to[d], d)
        /\ \/ notReported(to[d], d, setupStatus(d))
           \/ /\ reported(to[d], d, setupStatus(d))
              /\ IF proc[d] = "setup"
                 THEN /\ proc' = [proc EXCEPT ![d] = "exec"]
                      /\ setCard(to[d], d, IF cardStatus[to[d]] = "new"
                                           THEN "run" ELSE cardStatus[to[d]])
                 ELSE /\ proc' = [proc EXCEPT ![d] = "end"]
                      /\ dropCard(to[d])
    BY <1>3 DEF do_jobSetup
  <2>2. proc[d] \in {"setup", "fail", "bad"}
    BY DEF do_jobSetup
  <2>3. proc[d] = "setup" => cardStatus[to[d]] \in {"new", "run"}
    BY <1>1, <1>3, <2>1 DEF CardOK, over, CardStatus
  <2>4. setupStatus(d) \in Reported /\ (setupStatus(d) # "RUN" => over(d))
    BY <2>2, <2>3 DEF setupStatus, over, Reported
  <2>5. forkedOn(to[d], d)
    BY <2>2 DEF forkedOn
  <2>6. CASE notReported(to[d], d, setupStatus(d))
    BY <1>1, <2>4, <2>5, <2>6, OwnNotReported
  <2>7. CASE reported(to[d], d, setupStatus(d)) /\ ~notReported(to[d], d, setupStatus(d))
    <3>1. statusJob(to[d], d, setupStatus(d), seq[to[d]]) /\ late' = late
      BY <2>7 DEF reported
    <3>2. to' = to /\ reply' = reply /\ ack' \subseteq ack
      BY <3>1, StatusWire
    <3>3. Steady /\ NoGo
      BY <1>1, <2>1, <2>2, <2>7, <3>2 DEF Steady, NoGo, goesAhead, over
    <3>4. RecordOK' /\ InCharge'
      BY <1>1, <2>1, <2>4, <2>5, <3>1, <3>3, ReportKeeps
    <3>5. LateOK' /\ ReplyOK'
      BY <3>1, <3>2, <3>3, KeepLate, KeepReply
    <3>6. CardOK'
      <4>1. CASE proc[d] = "setup"
        <5>1. /\ card' = card /\ cardStatus'[to[d]] = "run"
              /\ \A k \in Hosts : k # to[d] => cardStatus'[k] = cardStatus[k]
          BY <1>1, <2>1, <2>3, <2>7, <4>1, SMTT(30) DEF setCard
        <5> QED
          BY <1>1, <3>3, <5>1 DEF CardOK, Steady, forkedOn, over
      <4>2. CASE proc[d] # "setup"
        <5>1. \A k \in Hosts : \/ card'[k] = card[k] /\ cardStatus'[k] = cardStatus[k]
                               \/ card'[k] = 0 /\ cardStatus'[k] = "none"
          BY <1>1, <2>1, <2>7, <4>2 DEF dropCard
        <5> QED
          BY <3>3, <5>1, KeepCard
      <4> QED
        BY <4>1, <4>2
    <3> QED
      BY <3>4, <3>5, <3>6
  <2> QED
    BY <2>1, <2>6, <2>7
<1> QED
  BY <1>2, <1>3

(* The other steps of sbatchd. *)
LEMMA OwnSbatchd ==
    ASSUME TypeOK, ProtocolAssumption, Wiring, OwnOK, NEW h \in Hosts,
           \/ checkFinish(h) \/ killZombie(h) \/ sbdCrash(h) \/ sbdRestart(h)
           \/ hostBoot(h)
    PROVE  OwnOK'
<1> USE ProtocolAssumption DEF OwnOK, mbd, wire, slave
<1>0. /\ card \in [Hosts -> 0..MaxDispatch] /\ cardStatus \in [Hosts -> CardStatus]
      /\ proc \in [Pids -> ProcState] /\ jobPid \in 0..MaxDispatch /\ 0 \notin Pids
      /\ Pids \subseteq 0..MaxDispatch /\ 0..MaxDispatch \subseteq Pids \cup {0}
      /\ zombies \in Seq(Hosts \X (0..MaxDispatch))
  BY SMTT(30) DEF TypeOK, Pids
<1>1. CASE checkFinish(h)
  <2>1. /\ UNCHANGED <<mbd, wire, late, card, proc>>
        /\ \A k \in Hosts : k # h => cardStatus'[k] = cardStatus[k]
    BY <1>0, <1>1 DEF checkFinish
  <2>2. Steady /\ NoGo
    BY <2>1, QuietProc
  <2>3. RecordOK' /\ InCharge' /\ LateOK' /\ ReplyOK'
    BY <2>1, <2>2, QuietRecord, KeepLate, KeepReply
  <2>4. over(card[h])
    <3>1. card[h] \in Pids => to[card[h]] = h /\ proc[card[h]] # "none"
      BY DEF CardOK, forkedOn
    <3>2. card[h] \in Pids => proc[card[h]] \notin Live
      BY <1>1, <3>1 DEF checkFinish, alive
    <3> QED
      BY <1>0, <3>1, <3>2 DEF over, ProcState, Live
  <2>5. CardOK'
    BY <2>1, <2>2, <2>4 DEF CardOK, Steady, forkedOn, over
  <2> QED
    BY <2>3, <2>5
<1>2. CASE killZombie(h)
  <2>1. PICK p \in Pids : card[h] = p /\ proc[p] \in Live
    BY <1>2 DEF killZombie, alive
  <2>2. /\ proc' = [proc EXCEPT ![p] = "end"]
        /\ UNCHANGED <<mbd, wire, late, card, cardStatus>>
    BY <1>2, <2>1 DEF killZombie
  <2>3. Steady /\ NoGo
    BY <1>0, <2>1, <2>2, QuietProc
  <2> QED
    BY <2>2, <2>3, QuietRecord, QuietRest
<1>3. CASE sbdCrash(h)
  <2>1. UNCHANGED <<mbd, to, reply, ack, late, proc>> /\ dropCard(h)
    BY <1>3 DEF sbdCrash
  <2>2. Steady /\ NoGo
    BY <2>1, QuietProc
  <2>3. \A k \in Hosts : \/ card'[k] = card[k] /\ cardStatus'[k] = cardStatus[k]
                         \/ card'[k] = 0 /\ cardStatus'[k] = "none"
    BY <1>0, <2>1 DEF dropCard
  <2> QED
    BY <2>1, <2>2, <2>3, QuietRecord, QuietRest
<1>4. CASE hostBoot(h)
  <2>1. UNCHANGED <<mbd, to, reply, late>> /\ ack' \subseteq ack /\ dropCard(h)
    BY <1>4 DEF hostBoot
  <2>2. \A p \in Pids : \/ proc'[p] = proc[p]
                        \/ proc[p] \in Live /\ proc'[p] = "lost"
    BY <1>4 DEF hostBoot
  <2>3. Steady /\ NoGo
    BY <2>1, <2>2, QuietProc
  <2>4. \A k \in Hosts : \/ card'[k] = card[k] /\ cardStatus'[k] = cardStatus[k]
                         \/ card'[k] = 0 /\ cardStatus'[k] = "none"
    BY <1>0, <2>1 DEF dropCard
  <2> QED
    BY <2>1, <2>3, <2>4, QuietRecord, QuietRest
<1>5. CASE sbdRestart(h)
  <2>1. UNCHANGED <<jobPid, zombies, wire, late, proc>>
    BY <1>5 DEF sbdRestart
  <2>2. Steady /\ NoGo
    BY <2>1, QuietProc
  <2>3. \/ UNCHANGED <<jStatus, hPtr>>
        \/ jobPid = 0 /\ jStatus' = "PEND" /\ hPtr' = NoHost
    BY <1>5 DEF sbdRestart, sbatchdJobs, toPend
  <2>4. RecordOK' /\ InCharge' /\ LateOK' /\ ReplyOK'
    BY <1>0, <2>1, <2>2, <2>3, QuietRecord, KeepLate, KeepReply
  <2>5. CardOK'
    <3>1. CASE UNCHANGED <<card, cardStatus>>
      BY <2>2, <3>1, KeepCard
    <3>2. ASSUME NEW c \in listedJobs(h), setCard(h, c[1], c[2]) PROVE CardOK'
      <4>1. /\ forkedOn(h, c[1])
            /\ c[2] \in {"post", "PEND", "DONE", "EXIT", "BOOT"} => over(c[1])
        <5>1. CASE /\ jStatus = "RUN" /\ hPtr = h /\ jobPid # 0
                   /\ c = <<jobPid, IF execHome = "set" THEN "run" ELSE "new">>
          BY <5>1 DEF RecordOK
        <5>2. CASE jStatus = "DONE" /\ hPtr = h /\ c = <<jobPid, "DONE">>
          BY <5>2 DEF RecordOK
        <5>3. ASSUME NEW i \in DOMAIN zombies, zombies[i][1] = h,
                     c = <<zombies[i][2], IF zombies[i][2] = 0 THEN "EXIT" ELSE "run">>
              PROVE  /\ forkedOn(h, c[1])
                     /\ c[2] \in {"post", "PEND", "DONE", "EXIT", "BOOT"} => over(c[1])
          <6>1. zombies[i] \in Range(zombies)
            BY <1>0 DEF Range
          <6>2. forkedOn(zombies[i][1], zombies[i][2])
            BY <6>1 DEF RecordOK
          <6> QED
            BY <1>0, <5>3, <6>2 DEF over
        <5> QED
          BY <5>1, <5>2, <5>3 DEF listedJobs
      <4>2. /\ card'[h] = c[1] /\ cardStatus'[h] = c[2]
            /\ \A k \in Hosts : k # h => card'[k] = card[k] /\ cardStatus'[k] = cardStatus[k]
        BY <1>0, <3>2 DEF setCard
      <4>3. /\ forkedOn(h, card[h])'
            /\ cardStatus'[h] \in {"post", "PEND", "DONE", "EXIT", "BOOT"} => over(card[h])'
        BY <2>2, <4>1, <4>2 DEF Steady, forkedOn, over
      <4> QED
        BY <2>2, <4>2, <4>3, NewCard
    <3> QED
      BY <1>5, <3>1, <3>2 DEF sbdRestart
  <2> QED
    BY <2>4, <2>5
<1> QED
  BY <1>1, <1>2, <1>3, <1>4, <1>5

(* The other steps on a connection and of a child. *)
LEMMA OwnChild ==
    ASSUME TypeOK, ProtocolAssumption, Wiring, OwnOK, NEW d \in Pids,
           \/ do_newjob(d) \/ breakConnection(d) \/ readGoAhead(d) \/ noGoAhead(d)
           \/ setupFails(d) \/ jobExit(d)
    PROVE  OwnOK'
<1> USE ProtocolAssumption DEF OwnOK, mbd, wire, slave
<1>0. /\ card \in [Hosts -> 0..MaxDispatch] /\ cardStatus \in [Hosts -> CardStatus]
      /\ proc \in [Pids -> ProcState] /\ reply \in [Pids -> -1..MaxDispatch]
      /\ -1 \notin Pids
  BY DEF TypeOK, Pids
<1>1. CASE do_newjob(d)
  <2>1. /\ UNCHANGED <<mbd, node, to, ack, late>> /\ d \in req /\ to[d] \in Hosts
        /\ proc[d] = "none" /\ d \notin ack
    BY <1>1 DEF do_newjob, Wiring, TypeOK
  <2>2. \/ proc' = proc
        \/ proc' = [proc EXCEPT ![d] = "wait"]
    BY <1>1 DEF do_newjob
  <2>3. Steady /\ NoGo
    BY <1>0, <2>1, <2>2 DEF Steady, NoGo, goesAhead, over
  <2>4. RecordOK' /\ InCharge' /\ LateOK'
    BY <2>1, <2>3, QuietRecord, KeepLate
  <2>5. CardOK'
    <3>1. CASE UNCHANGED <<card, cardStatus>>
      BY <2>3, <3>1, KeepCard
    <3>2. CASE proc' = [proc EXCEPT ![d] = "wait"] /\ setCard(to[d], d, "new")
      <4>1. /\ card'[to[d]] = d /\ cardStatus'[to[d]] = "new"
            /\ \A k \in Hosts :
                   k # to[d] => card'[k] = card[k] /\ cardStatus'[k] = cardStatus[k]
        BY <1>0, <2>1, <3>2 DEF setCard
      <4>2. proc'[d] = "wait" /\ to' = to
        BY <1>0, <2>1, <3>2
      <4>3. /\ forkedOn(to[d], card[to[d]])'
            /\ cardStatus'[to[d]] \notin {"post", "PEND", "DONE", "EXIT", "BOOT"}
        BY <4>1, <4>2 DEF forkedOn
      <4> QED
        BY <2>1, <2>3, <4>1, <4>3, NewCard
    <3> QED
      BY <1>1, <3>1, <3>2 DEF do_newjob
  <2>6. ReplyOK'
    <3>1. \A e \in Pids : e # d => reply'[e] = reply[e]
      BY <1>0, <1>1 DEF do_newjob
    <3>2. reply'[d] = d => proc'[d] # "none"
      <4>1. card[to[d]] # d
        BY <2>1 DEF CardOK, forkedOn
      <4> QED
        BY <1>0, <1>1, <2>1, <4>1 DEF do_newjob, Wiring
    <3> QED
      BY <2>3, <3>1, <3>2 DEF ReplyOK, Steady
  <2> QED
    BY <2>4, <2>5, <2>6
<1>2. CASE breakConnection(d)
  <2>1. UNCHANGED <<mbd, to, reply, ack, late, slave>>
    BY <1>2 DEF breakConnection
  <2>2. Steady /\ NoGo
    BY <2>1, QuietProc
  <2> QED
    BY <2>1, <2>2, QuietRecord, QuietRest
<1>3. CASE readGoAhead(d)
  <2>1. /\ UNCHANGED <<mbd, to, reply, late, card, cardStatus>> /\ ack' \subseteq ack
        /\ proc[d] = "wait" /\ d \in ack /\ proc' = [proc EXCEPT ![d] = "setup"]
    BY <1>3 DEF readGoAhead
  <2>2. Steady /\ NoGo
    BY <1>0, <2>1 DEF Steady, NoGo, goesAhead, over
  <2> QED
    BY <2>1, <2>2, QuietRecord, QuietRest
<1>4. CASE noGoAhead(d) \/ setupFails(d) \/ jobExit(d)
  <2>1. UNCHANGED <<mbd, wire, late, card, cardStatus>>
    BY <1>4 DEF noGoAhead, setupFails, jobExit
  <2>2. \A p \in Pids : \/ proc'[p] = proc[p]
                        \/ proc[p] \in Live /\ proc'[p] \in {"fail", "bad", "end", "lost"}
    BY <1>0, <1>4 DEF noGoAhead, setupFails, jobExit, Live
  <2>3. Steady /\ NoGo
    BY <2>1, <2>2, QuietProc
  <2> QED
    BY <2>1, <2>3, QuietRecord, QuietRest
<1> QED
  BY <1>1, <1>2, <1>3, <1>4

-----------------------------------------------------------------------------
(* crossed is never unset. *)
LEMMA CrossedStays == ASSUME Next, crossed' = "no" PROVE crossed = "no"
BY DEF Next, mbatchd, sbatchd, child, dispatch_it, dispatchRefused, hostUnreach,
       hostUnavail, probe_slave, doNewJobReply, doNewJobError, doNewJobException,
       shutdownSbdConnections, closeKeptChannel, cleanRequeue, removeJob, mbdRestart,
       lateReport, checkFinish, job_finish, post_finish, killZombie, sbdCrash,
       sbdRestart, hostBoot, do_newjob, breakConnection, readGoAhead, noGoAhead,
       setupFails, do_jobSetup, jobExit

LEMMA InvInit == Init => JobInv
<1> SUFFICES ASSUME Init PROVE JobInv
  OBVIOUS
<1>1. Range(zombies) = {}
  BY DEF Init, Range
<1>2. 0 \notin Pids
  BY DEF Pids
<1>3. Wiring
  BY DEF Init, Wiring
<1>4. Located /\ EndsAreTrue /\ InCharge
  BY <1>1, <1>2 DEF Init, Located, EndsAreTrue, InCharge, forkedOn, over, goesAhead
<1> QED
  BY <1>3, <1>4 DEF JobInv

LEMMA InvNext ==
    ASSUME TypeOK, ProtocolAssumption, JobInv, [Next]_vars
    PROVE  JobInv'
<1>1. CASE Next
  <2>1. Wiring /\ Wiring'
    BY <1>1, WiringNext DEF JobInv
  <2>2. ASSUME crossed' = "no" PROVE (Located /\ EndsAreTrue /\ InCharge)'
    <3>1. OwnOK
      BY <1>1, <2>2, CrossedStays, OwnParts DEF JobInv
    <3>2. ASSUME mbatchd PROVE OwnOK'
      <4>1. CASE \E r \in late : lateReport(r)
        BY <2>1, <2>2, <3>1, <4>1, OwnLate
      <4>2. CASE \A r \in late : ~lateReport(r)
        BY <2>1, <2>2, <3>1, <3>2, <4>2, OwnMbatchd
      <4> QED
        BY <4>1, <4>2
    <3>3. ASSUME NEW h \in Hosts, sbatchd(h) PROVE OwnOK'
      BY <2>1, <2>2, <3>1, <3>3, OwnFinish, OwnSbatchd DEF sbatchd
    <3>4. ASSUME NEW d \in Pids, child(d) PROVE OwnOK'
      BY <2>1, <2>2, <3>1, <3>4, OwnSetup, OwnChild DEF child
    <3> QED
      BY <1>1, <3>2, <3>3, <3>4, OwnPartsNext DEF Next
  <2> QED
    BY <2>1, <2>2 DEF JobInv
<1>2. CASE UNCHANGED vars
  BY <1>2 DEF vars, mbd, wire, slave, JobInv, Wiring, Located, EndsAreTrue, InCharge,
              forkedOn, over, goesAhead, isZombie
<1> QED
  BY <1>1, <1>2

(* Pids are kept with their hosts, ends are reported only when they are      *)
(* true, and every child with a go-ahead is on mbatchd's record or on its    *)
(* zombie list, until a report of one instance is applied to another.        *)
THEOREM JobInvariant == Spec => []JobInv
<1>1. TypeOK /\ JobInv /\ [Next]_vars => JobInv'
  BY InvNext, ProtocolAssumption
<1> QED
  BY <1>1, JobTypes, InvInit, PTL DEF Spec

(* However often daemons restart, hosts are lost and connections break, no   *)
(* two processes that mbatchd has not listed as zombies execute the user's   *)
(* command, until a report of one instance is applied to another.            *)
THEOREM SingleRun == Spec => []SingleExecution
<1>1. JobInv => SingleExecution
  BY DEF JobInv, InCharge, SingleExecution, goesAhead
<1> QED
  BY <1>1, JobInvariant, PTL
=============================================================================
