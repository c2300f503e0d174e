--------------------------- MODULE EventLockProofs ---------------------------
(* Proofs about EventLock, for any set of hosts and any bounds. *)
EXTENDS EventLock, TLAPS

(* What makes TakeoverJustified inductive: a candidate's count of unchanged  *)
(* polls, with the sleep that has ended since, never exceeds the time since  *)
(* anybody who has the lock open last touched it.                            *)
Due(h) == IF h \in due THEN 1 ELSE 0

CountBehindOwner ==
    \A h, q \in Hosts :
        pc[h] = "wait" /\ h \in unchanged /\ pc[q] \in Opened
            => stale[q] >= retry[h] + Due(h)

(* What makes ExclusiveUnlessForced inductive: the file a process has opened *)
(* stays in logdir until somebody overrides it or that process exits, so     *)
(* nobody else can create it.                                                *)
OpenedExists == ~forced => \A p \in Hosts : pc[p] \in Opened => file # NoFile

IInv == TypeOK /\ CountBehindOwner /\ OpenedExists /\ ExclusiveUnlessForced

USE DEF States, Opened, fileVars, timeVars, envVars

(* Every reachable value has its type: in particular no candidate counts     *)
(* past RetryLimit + 1 (the retry counter of getElock).                      *)
LEMMA TypeInit == Init => TypeOK
<1> SUFFICES ASSUME Init PROVE TypeOK
  OBVIOUS
<1>1. pc \in [Hosts -> States]
  BY DEF Init
<1>2. retry \in [Hosts -> 0..(RetryLimit + 1)] /\ stale \in [Hosts -> Nat]
  BY LockAssumption DEF Init
<1>3. limMoves \in 0..MaxLimMoves /\ exits \in 0..MaxExits
  BY LockAssumption DEF Init
<1> QED
  BY <1>1, <1>2, <1>3 DEF Init, TypeOK

LEMMA TypeNext == TypeOK /\ [Next]_vars => TypeOK'
<1> SUFFICES ASSUME TypeOK, [Next]_vars PROVE TypeOK'
  OBVIOUS
<1> USE LockAssumption DEF TypeOK, Goto
<1>1. ASSUME NEW h \in Hosts, mbatchd(h) PROVE TypeOK'
  <2>1. CASE main(h)
    BY <2>1 DEF main
  <2>2. CASE openExcl(h)
    BY <2>2 DEF openExcl, OpenedBy
  <2>3. CASE openForce(h)
    BY <2>3 DEF openForce, OpenedBy
  <2>4. CASE writeOwner(h)
    BY <2>4 DEF writeOwner
  <2>5. CASE readOwner(h)
    BY <2>5 DEF readOwner
  <2>6. CASE poll(h)
    <3>1. CASE pollResign(h)
      BY <2>6, <3>1 DEF poll, pollResign
    <3>2. CASE pollGone(h)
      BY <2>6, <3>2 DEF poll, pollGone
    <3>3. CASE pollUnchanged(h)
      BY <2>6, <3>3 DEF poll, pollUnchanged
    <3>4. CASE pollChanged(h)
      BY <2>6, <3>4 DEF poll, pollChanged
    <3> QED
      BY <2>6, <3>1, <3>2, <3>3, <3>4 DEF poll
  <2>7. CASE minit(h)
    BY <2>7 DEF minit, die, Exit
  <2>8. CASE touchElogLock(h)
    BY <2>8 DEF touchElogLock, die
  <2> QED
    BY <1>1, <2>1, <2>2, <2>3, <2>4, <2>5, <2>6, <2>7, <2>8 DEF mbatchd
<1>2. ASSUME NEW h \in Hosts, start_master(h) PROVE TypeOK'
  BY <1>2 DEF start_master
<1>3. ASSUME NEW h \in Hosts, resign(h) PROVE TypeOK'
  BY <1>3 DEF resign, die
<1>4. ASSUME NEW h \in Hosts, mbdDie(h) PROVE TypeOK'
  BY <1>4 DEF mbdDie, die, Exit
<1>5. ASSUME NEW h \in Hosts, crash(h) PROVE TypeOK'
  BY <1>5 DEF crash, Exit
<1>6. ASSUME NEW h \in Hosts, limMove(h) PROVE TypeOK'
  BY <1>6 DEF limMove
<1>7. CASE tick
  BY <1>7 DEF tick
<1>8. CASE UNCHANGED vars
  BY <1>8 DEF vars
<1> QED
  BY <1>1, <1>2, <1>3, <1>4, <1>5, <1>6, <1>7, <1>8 DEF Next

(* The count of a candidate stays behind the clock of every opener. *)
LEMMA CountNext == TypeOK /\ CountBehindOwner /\ [Next]_vars => CountBehindOwner'
<1> SUFFICES ASSUME TypeOK, CountBehindOwner, [Next]_vars,
                    NEW h \in Hosts, NEW q \in Hosts,
                    pc'[h] = "wait", h \in unchanged', pc'[q] \in Opened
             PROVE  stale'[q] >= retry'[h] + Due(h)'
  BY DEF CountBehindOwner
<1> USE LockAssumption DEF TypeOK, CountBehindOwner, Due, Goto
<1>1. ASSUME NEW k \in Hosts, mbatchd(k)
      PROVE  stale'[q] >= retry'[h] + Due(h)'
  <2>1. CASE main(k)
    BY <2>1 DEF main
  <2>2. CASE openExcl(k)
    BY <2>2 DEF openExcl, OpenedBy
  <2>3. CASE openForce(k)
    BY <2>3 DEF openForce, OpenedBy
  <2>4. CASE writeOwner(k)
    BY <2>4 DEF writeOwner
  <2>5. CASE readOwner(k)
    BY <2>5 DEF readOwner
  <2>6. CASE poll(k)
    <3>1. CASE pollResign(k)
      BY <2>6, <3>1 DEF poll, pollResign
    <3>2. CASE pollGone(k)
      BY <2>6, <3>2 DEF poll, pollGone
    <3>3. CASE pollUnchanged(k)
      BY <2>6, <3>3 DEF poll, pollUnchanged
    <3>4. CASE pollChanged(k)
      BY <2>6, <3>4 DEF poll, pollChanged
    <3> QED
      BY <2>6, <3>1, <3>2, <3>3, <3>4 DEF poll
  <2>7. CASE minit(k)
    BY <2>7 DEF minit, die
  <2>8. CASE touchElogLock(k)
    BY <2>8 DEF touchElogLock, die
  <2> QED
    BY <1>1, <2>1, <2>2, <2>3, <2>4, <2>5, <2>6, <2>7, <2>8 DEF mbatchd
<1>2. ASSUME NEW k \in Hosts, start_master(k) \/ resign(k) \/ mbdDie(k) \/ crash(k)
      PROVE  stale'[q] >= retry'[h] + Due(h)'
  BY <1>2 DEF start_master, resign, mbdDie, crash, die
<1>3. ASSUME NEW k \in Hosts, limMove(k)
      PROVE  stale'[q] >= retry'[h] + Due(h)'
  BY <1>3 DEF limMove
<1>4. CASE tick
  BY <1>4 DEF tick
<1>5. CASE UNCHANGED vars
  BY <1>5 DEF vars
<1> QED
  BY <1>1, <1>2, <1>3, <1>4, <1>5 DEF Next

(* Without an override there is one opener, and its file stays in logdir. *)
LEMMA ExclusiveNext ==
    TypeOK /\ OpenedExists /\ ExclusiveUnlessForced /\ [Next]_vars
        => OpenedExists' /\ ExclusiveUnlessForced'
<1> SUFFICES ASSUME TypeOK, OpenedExists, ExclusiveUnlessForced, [Next]_vars, ~forced'
             PROVE  /\ \A p \in Hosts : pc'[p] \in Opened => file' # NoFile
                    /\ \A p, q \in Hosts :
                          pc'[p] \in Opened /\ pc'[q] \in Opened => p = q
  BY DEF OpenedExists, ExclusiveUnlessForced
<1> DEFINE Goal == /\ \A p \in Hosts : pc'[p] \in Opened => file' # NoFile
                   /\ \A p, q \in Hosts :
                         pc'[p] \in Opened /\ pc'[q] \in Opened => p = q
<1> USE LockAssumption DEF TypeOK, OpenedExists, ExclusiveUnlessForced, Goto
<1>1. ASSUME NEW k \in Hosts, mbatchd(k) PROVE Goal
  <2>1. CASE main(k)
    BY <2>1 DEF main
  <2>2. CASE openExcl(k)
    BY <2>2 DEF openExcl, OpenedBy
  <2>3. CASE openForce(k)
    BY <2>3 DEF openForce
  <2>4. CASE writeOwner(k)
    BY <2>4 DEF writeOwner
  <2>5. CASE readOwner(k)
    BY <2>5 DEF readOwner
  <2>6. CASE poll(k)
    BY <2>6 DEF poll, pollResign, pollGone, pollUnchanged, pollChanged
  <2>7. CASE minit(k)
    BY <2>7 DEF minit, die
  <2>8. CASE touchElogLock(k)
    BY <2>8 DEF touchElogLock, die
  <2> QED
    BY <1>1, <2>1, <2>2, <2>3, <2>4, <2>5, <2>6, <2>7, <2>8 DEF mbatchd
<1>2. ASSUME NEW k \in Hosts, start_master(k) \/ resign(k) \/ mbdDie(k) \/ crash(k)
      PROVE  Goal
  BY <1>2 DEF start_master, resign, mbdDie, crash, die
<1>3. ASSUME NEW k \in Hosts, limMove(k) PROVE Goal
  BY <1>3 DEF limMove
<1>4. CASE tick
  BY <1>4 DEF tick
<1>5. CASE UNCHANGED vars
  BY <1>5 DEF vars
<1> QED
  BY <1>1, <1>2, <1>3, <1>4, <1>5 DEF Next

(* A step that decides to override finds every opener overdue. *)
LEMMA TakeoverNext == TypeOK /\ CountBehindOwner /\ [Next]_vars => TakeoverStep
<1> SUFFICES ASSUME TypeOK, CountBehindOwner, [Next]_vars, NEW h \in Hosts,
                    pc[h] = "wait", pc'[h] = "force",
                    NEW q \in Hosts, pc[q] \in Opened
             PROVE  stale[q] >= RetryLimit + 2
  BY DEF TakeoverStep
<1> USE LockAssumption DEF TypeOK, Goto
<1>1. poll(h) /\ pollUnchanged(h)
  <2>1. CASE tick \/ UNCHANGED vars
    BY <2>1 DEF tick, vars
  <2>2. ASSUME NEW k \in Hosts,
               start_master(k) \/ resign(k) \/ mbdDie(k) \/ crash(k) \/ limMove(k)
        PROVE  FALSE
    BY <2>2 DEF start_master, resign, mbdDie, crash, die, limMove
  <2>3. ASSUME NEW k \in Hosts, mbatchd(k) PROVE poll(h) /\ pollUnchanged(h)
    <3>1. ASSUME main(k) \/ openExcl(k) \/ openForce(k) \/ writeOwner(k)
                 \/ readOwner(k) \/ minit(k) \/ touchElogLock(k)
          PROVE  FALSE
      BY <3>1 DEF main, openExcl, openForce, writeOwner, readOwner, minit,
                  touchElogLock, die
    <3>2. CASE poll(k)
      BY <3>2 DEF poll, pollResign, pollGone, pollUnchanged, pollChanged
    <3> QED
      BY <2>3, <3>1, <3>2 DEF mbatchd
  <2> QED
    BY <2>1, <2>2, <2>3 DEF Next
<1>2. retry[h] > RetryLimit /\ h \in unchanged /\ h \in due
  BY <1>1 DEF poll, pollUnchanged
<1>3. stale[q] >= retry[h] + 1
  BY <1>2 DEF CountBehindOwner, Due
<1> QED
  BY <1>2, <1>3

(* The inductive invariant of the lock. *)
LEMMA LockInvariant == Spec => []IInv
<1>1. Init => IInv
  BY TypeInit DEF Init, IInv, CountBehindOwner, OpenedExists, ExclusiveUnlessForced
<1>2. IInv /\ [Next]_vars => IInv'
  BY TypeNext, CountNext, ExclusiveNext DEF IInv
<1> QED
  BY <1>1, <1>2, PTL DEF Spec

(* Every reachable state of the lock, its candidates and its owner is well   *)
(* typed; no candidate of getElock counts beyond RetryLimit + 1.             *)
THEOREM LockTypes == Spec => []TypeOK
BY LockInvariant, PTL DEF IInv

(* At most one mbatchd replays or appends to the event log as long as no     *)
(* candidate has overridden the lock by force (getElock, releaseElogLock).   *)
THEOREM Exclusive == Spec => []ExclusiveUnlessForced
BY LockInvariant, PTL DEF IInv

(* Waiting out an owner never overrides one whose main loop touches the lock *)
(* in time (getElock's retry count against touchElogLock).                   *)
THEOREM Takeover == Spec => TakeoverJustified
<1>1. IInv /\ [Next]_vars => [TakeoverStep]_vars
  BY TakeoverNext DEF IInv
<1> QED
  BY <1>1, LockInvariant, PTL DEF Spec, TakeoverJustified
=============================================================================
