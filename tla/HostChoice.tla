---------------------------- MODULE HostChoice ----------------------------
(***************************************************************************)
(* How one scheduling session of mbatchd picks the execution hosts of the  *)
(* pending jobs of one user in one queue (mbd.policy.c): the hosts a job    *)
(* can use (getJUsable), the candidates taken over from an earlier job      *)
(* (getPeerCand), their order by load, host preference, span[] and the      *)
(* alternatives of a resource requirement, the slots taken on each of them  *)
(* (getNumSlots, getNumProcs) and the dispatch, which may fail on the first *)
(* host and is then tried again on the next.  A host is its place in        *)
(* hostList, a load is one number, and the queue holds no slots             *)
(* (SLOT_RESERVE is the subject of SlotHold).                               *)
(***************************************************************************)
EXTENDS Integers, Sequences, FiniteSets, SequencesExt, FiniteSetsExt

Inf == 1000000                  \* INFINIT_INT
FIRST_HOST_PRIORITY == 1000     \* the priority of a host asked for as host!

VARIABLES
  cin,    \* the scenario: hosts, queue and jobs the session finds
  cat,    \* the job the session is at
  cuse,   \* job slots in use on each host
  cque,   \* of these, by this queue's jobs
  cbad,   \* hosts with a reason in hReasonTb[1]: unusable in this session
  cexcl,  \* hosts with HOST_STAT_EXCLUSIVE
  cjob    \* per job: its candidates, the slots allocated, its outcome

cvars == <<cin, cat, cuse, cque, cbad, cexcl, cjob>>

Host(h) == cin.hosts[h]
Job(i) == cin.jobs[i]
Queue == cin.queue
ChoiceHosts == 1..Len(cin.hosts)
At(s, h) == \E k \in 1..Len(s) : s[k].h = h
PosOf(s, h) == CHOOSE k \in 1..Len(s) : s[k].h = h
TotalSlots(s, f(_)) == FoldLeft(LAMBDA n, c : n + f(c), 0, s)
Swap(s, i, k) == [s EXCEPT ![i] = s[k], ![k] = s[i]]

(***************************************************************************)
(* The job's and the queue's span[] requirement.  tile = 0 stands for       *)
(* pTile == INFINIT_INT, one for maxNumHosts == 1.                          *)
(***************************************************************************)
JobSpan(j) == j.tile > 0 \/ j.one
Tile(j) == IF j.tile > 0 THEN j.tile ELSE IF j.one THEN 0 ELSE Queue.tile
allInOne(j) == j.one \/ (j.tile = 0 /\ Queue.one)

needHandleFirstHost(j) ==
  IF j.asked # <<>>
  THEN IF j.asked[1].p = FIRST_HOST_PRIORITY THEN j.asked[1].h ELSE 0
  ELSE IF Queue.asked # <<>> /\ Queue.asked[1].p = FIRST_HOST_PRIORITY
       THEN Queue.asked[1].h ELSE 0

moveHostPos(s, from, to) == InsertAt(RemoveAt(s, from), to, s[from])

(* Is there a first host the candidates lack, and else the candidates led by it. *)
FirstHostMissing(j, s) ==
  needHandleFirstHost(j) # 0 /\ ~At(s, needHandleFirstHost(j))

handleFirstHost(j, s) ==
  IF needHandleFirstHost(j) = 0 \/ FirstHostMissing(j, s) THEN s
  ELSE moveHostPos(s, PosOf(s, needHandleFirstHost(j)), 1)

(***************************************************************************)
(* Slots.  A job slot that may be taken by preempting counts in numSlots    *)
(* (n), not in numAvailSlots (a).                                           *)
(***************************************************************************)
hJobLimitOk(h) == Queue.hjl - cque[h]

(* Room for one user's or one queue's jobs: the queue's QJOB_LIMIT less what
   its jobs use; a job that does not get numProcessors is not ready. *)
cntUQSlots(j) ==
  LET num == Queue.max - FoldFunction(+, 0, cque)
  IN IF Queue.max < j.mp \/ num <= 0 \/ num < j.np THEN 0 ELSE num

getHostJobSlots1(h) ==
  LET avail == Max({0, Host(h).max - cuse[h]})
      slots == avail + Host(h).pre
  IN IF slots < 1 THEN [n |-> 0, a |-> 0] ELSE [n |-> slots, a |-> avail]

getHostJobSlots(h) ==
  LET s == getHostJobSlots1(h) IN
  IF hJobLimitOk(h) < 1 \/ s.n = 0 THEN [n |-> 0, a |-> 0]
  ELSE [n |-> Min({hJobLimitOk(h), s.n}), a |-> Min({hJobLimitOk(h), s.a})]

ckResReserve(j, h) ==
  IF j.mem = 0 THEN Host(h).cpus ELSE Min({Host(h).cpus, Host(h).mem \div j.mem})

jobMaxUsableSlotsOnHost(h) ==
  Min({Host(h).max, Queue.max, Queue.hjl, Host(h).cpus})

hostHasEnoughSlots(h, procs) == jobMaxUsableSlotsOnHost(h) >= procs

checkHostUsableToSpan(j, h) ==
  LET tile == IF JobSpan(j) THEN j.tile ELSE Queue.tile
      one == IF JobSpan(j) THEN j.one ELSE Queue.one
  IN /\ tile > 0 => hostHasEnoughSlots(h, tile)
     /\ (tile = 0 /\ one) => hostHasEnoughSlots(h, j.np)

(* The first loops of getJUsable.  sel stands for what only depends on the job
   and the host: deadline, host type, select[] and load thresholds. *)
Selected(j, h) ==
  /\ h \notin cbad
  /\ h \notin cexcl
  /\ j.asked = <<>> \/ j.oth >= 0 \/ At(j.asked, h)
  /\ h \in j.sel

(* The hosts the job may use, with their slots, in the order of hostList. *)
Usable(j, h) ==
  /\ Selected(j, h)
  /\ h \in Queue.member
  /\ ~(j.excl /\ cuse[h] >= 1)
  /\ Min({getHostJobSlots(h).n, cntUQSlots(j)}) > 0
  /\ ckResReserve(j, h) >= 1
  /\ checkHostUsableToSpan(j, h)
  /\ h \notin j.hist

getJUsable(j) ==
  LET cand(h) ==
        LET n == Min({getHostJobSlots(h).n, cntUQSlots(j), ckResReserve(j, h)}
                       \cup (IF Tile(j) > 0 THEN {Tile(j)} ELSE {}))
        IN [h |-> h, n |-> Min({n, Host(h).cpus}),
            a |-> Min({getHostJobSlots(h).a, n, Host(h).cpus})]
      usable == SelectSeq([h \in ChoiceHosts |-> h], LAMBDA h : Usable(j, h))
  IN [k \in DOMAIN usable |-> cand(usable[k])]

(***************************************************************************)
(* The order of the candidates.                                             *)
(***************************************************************************)
(* Bubble sort by load, the least loaded first: equal loads keep their order. *)
sortHosts(s) ==
  LET step(t, k) == IF Host(t[k].h).load > Host(t[k + 1].h).load
                    THEN Swap(t, k, k + 1) ELSE t
      down(i) == [m \in 1..(Len(s) - i) |-> Len(s) - m]
      pass(t, i) == FoldLeft(step, t, down(i))
  IN FoldLeft(pass, s, [i \in 1..(Len(s) - 1) |-> i])

noPreference(asked, oth) ==
  /\ \A k \in DOMAIN asked : asked[k].p = asked[1].p
  /\ (oth >= 0 /\ asked # <<>>) => asked[1].p = oth

(* Hosts of one asked priority, in candidate order; asked is sorted by it. *)
OfPriority(s, asked, p) ==
  SelectSeq(s, LAMBDA c : \E k \in DOMAIN asked : asked[k].h = c.h /\ asked[k].p = p)

PrioritiesIn(asked, lo) ==
  SetToSortSeq({asked[k].p : k \in DOMAIN asked} \cap (lo..Inf), >)

hostPreference1(s, asked, oth) ==
  LET above == FlattenSeq([k \in 1..Len(PrioritiesIn(asked, Max({1, oth + 1}))) |->
                 OfPriority(s, asked, PrioritiesIn(asked, Max({1, oth + 1}))[k])])
      low == SetToSortSeq({asked[k].p : k \in DOMAIN asked} \cap (0..(oth - 1)), >)
      below == FlattenSeq([k \in 1..Len(low) |-> OfPriority(s, asked, low[k])])
      same == SelectSeq(s, LAMBDA c : \/ ~At(asked, c.h)
                                      \/ \E k \in DOMAIN asked :
                                           asked[k].h = c.h /\ asked[k].p = oth)
  IN IF noPreference(asked, oth) THEN s
     ELSE IF oth < 1 THEN above \o SelectSeq(s, LAMBDA c : ~At(above, c.h))
     ELSE above \o same \o below

Preferred(asked) == \E k \in DOMAIN asked : asked[k].p >= 1

hostPreference(j, s) ==
  LET byJob == hostPreference1(s, j.asked, j.oth)
      pref == ~noPreference(j.asked, j.oth) /\ Preferred(j.asked)
  IN IF pref \/ Queue.asked = <<>> THEN byJob
     ELSE hostPreference1(byJob, Queue.asked, Queue.oth)

(* span[ptile=]: the hosts with a whole tile come first, with LSB_PTILE_PACK a
   host that fits the remainder is the last of them, and only as many hosts
   stay as the job needs. *)
ptilePack(j, s, full, need) ==
  LET rem == j.np % Tile(j)
      fit == {i \in (full + 1)..Len(s) : s[i].n < Tile(j) /\ s[i].n >= rem}
  IN IF Queue.pack /\ rem > 0 /\ full >= need - 1 /\ fit # {} /\ need <= Len(s)
     THEN Swap(s, Min(fit), need) ELSE s

reshapeCandHost(j, s) ==
  LET need == (j.np + Tile(j) - 1) \div Tile(j)
      front(acc, i) == IF acc.s[i].n >= Tile(j)
                       THEN [s |-> Swap(acc.s, i, acc.k), k |-> acc.k + 1] ELSE acc
      shaped == FoldLeft(front, [s |-> s, k |-> 1], [i \in 1..Len(s) |-> i])
  IN IF Tile(j) = 0 THEN s
     ELSE SubSeq(handleFirstHost(j, ptilePack(j, shaped.s, shaped.k - 1, need)),
                 1, Min({need, Len(s)}))

(* Without a fixed number of processors on one host, the hosts are ordered by
   numSlots; the swap moves the host and its numSlots, numAvailSlots stays. *)
orderBySlots(s) ==
  LET most(t, i) == CHOOSE k \in i..Len(t) :
                      /\ \A m \in i..Len(t) : t[m].n <= t[k].n
                      /\ \A m \in i..(k - 1) : t[m].n < t[k].n
      step(t, i) == [t EXCEPT ![i].h = t[most(t, i)].h, ![i].n = t[most(t, i)].n,
                              ![most(t, i)].h = t[i].h, ![most(t, i)].n = t[i].n]
  IN FoldLeft(LAMBDA t, i : IF most(t, i) = i THEN t ELSE step(t, i), s,
              [i \in 1..Len(s) |-> i])

needHandleXor(j) == j.mp > 1 /\ ~allInOne(j) /\ j.xor # <<>>

(* One candidate list per alternative of the requirement; without
   alternatives, one list. *)
handleXor(j, s) ==
  [k \in DOMAIN j.xor |-> reshapeCandHost(j, SelectSeq(s, LAMBDA c : c.h \in j.xor[k]))]

(* A first host that is missing is noted as a pending reason; the candidates
   stay as they are. *)
FreshCand(j) ==
  LET s == handleFirstHost(j, getJUsable(j))
      best == hostPreference(j, sortHosts(s))
  IN IF s = <<>> THEN <<>>
     ELSE IF FirstHostMissing(j, s) THEN <<s>>
     ELSE IF allInOne(j) /\ needHandleFirstHost(j) = 0 /\ j.np < j.mp
          THEN <<orderBySlots(s)>>
     ELSE IF needHandleXor(j) THEN handleXor(j, best)
     ELSE <<reshapeCandHost(j, best)>>

(***************************************************************************)
(* The candidates of an earlier job of this queue and user.                 *)
(***************************************************************************)
HasResReq(j) == JobSpan(j) \/ j.xor # <<>> \/ j.sel # ChoiceHosts \/ j.mem > 0

SameResReq(j, p) ==
  <<j.tile, j.one, j.xor, j.sel, j.mem>> = <<p.tile, p.one, p.xor, p.sel, p.mem>>

(* jobp may take over what was found for jpbw. *)
Peer(j, i) ==
  LET p == Job(i) IN
  /\ j.np <= p.np
  /\ j.np < p.np => cjob[i].cand # <<>>
  /\ HasResReq(j) = HasResReq(p) /\ SameResReq(j, p)
  /\ \/ j.asked # <<>> /\ j.asked = p.asked /\ j.oth = p.oth
     \/ j.asked = <<>> /\ p.asked = <<>> /\ (p.excl => j.excl)

getPeerCand(i) ==
  {k \in 1..(i - 1) : cjob[k].st = "pend" /\ Peer(Job(i), k)}

(* Mutant: the copied entry is trusted. *)
Mut_candHostOk(j, c) ==
  IF c.h \in cbad THEN [c EXCEPT !.n = 0, !.a = 0] ELSE c

(* The host is looked at again before the job takes it over. *)
candHostOk(j, c) ==
  LET s == getHostJobSlots(c.h)
      n == Min({s.n, ckResReserve(j, c.h)}
                 \cup (IF Queue.tile > 0 /\ ~j.one THEN {Queue.tile} ELSE {})
                 \cup (IF j.tile > 0 THEN {j.tile} ELSE {}))
      none == [c EXCEPT !.n = 0, !.a = 0]
  IN IF \/ c.n <= 0 \/ c.h \in cbad \/ s.n = 0
        \/ (j.excl /\ cuse[c.h] >= 1) \/ c.h \in cexcl
        \/ (allInOne(j) /\ s.n < j.np) \/ ckResReserve(j, c.h) < 1
     THEN none
     ELSE [c EXCEPT !.n = Min({c.n, n}), !.a = Min({c.a, s.a})]

PeerCand(i, k) ==
  LET j == Job(i)
      ok(s) == [m \in DOMAIN s |-> candHostOk(j, s[m])]
      lists == [m \in DOMAIN cjob[k].cand |-> ok(handleFirstHost(j, cjob[k].cand[m]))]
      usable(s) == \E m \in DOMAIN s : s[m].n > 0
  IN IF \E m \in DOMAIN lists : FirstHostMissing(j, cjob[k].cand[m]) THEN cjob[k].cand
     ELSE IF \E m \in DOMAIN lists : usable(lists[m]) THEN lists ELSE <<>>

(* The latest such job is asked first; span[ptile=] jobs start afresh. *)
getCandHosts(i) ==
  LET j == Job(i) IN
  IF (j.np <= 1 \/ j.tile = 0) /\ getPeerCand(i) # {}
  THEN PeerCand(i, Max(getPeerCand(i)))
  ELSE FreshCand(j)

(***************************************************************************)
(* The slots taken.                                                         *)
(***************************************************************************)
getNumSlots(j, s) ==
  LET lim == cntUQSlots(j)
      cut == [k \in DOMAIN s |-> [s[k] EXCEPT !.n = Min({s[k].n, lim}),
                                              !.a = Min({s[k].a, s[k].n, lim})]]
      one == allInOne(j) /\ needHandleFirstHost(j) = 0
      step(acc, k) ==
        IF \/ acc.n = 0 /\ acc.s[k].n > 0
           \/ acc.n > 0 /\ acc.n < j.np /\ acc.s[k].n >= j.np
        THEN [n |-> acc.s[k].n, a |-> acc.s[k].a, s |-> moveHostPos(acc.s, k, 1)]
        ELSE acc
      best == FoldLeft(step, [n |-> 0, a |-> 0, s |-> cut], [k \in DOMAIN s |-> k])
  IN IF one THEN [best EXCEPT !.a = Min({best.a, lim})]
     ELSE [n |-> TotalSlots(cut, LAMBDA c : c.n), s |-> cut,
           a |-> Min({lim, TotalSlots(cut, LAMBDA c : c.a)})]

(* The available slots of the candidates in turn, up to maxNumProcessors. *)
getNumProcs(j, r) ==
  LET want == Min({r.a, j.mp})
      take(acc, c) == LET m == Min({c.a, want - acc.n})
                      IN [n |-> acc.n + m, e |-> Append(acc.e, [h |-> c.h, n |-> m])]
  IN FoldLeft(take, [n |-> 0, e |-> <<>>], r.s)

allocHosts(e) == [h \in ChoiceHosts |-> TotalSlots(e, LAMBDA c : IF c.h = h THEN c.n ELSE 0)]

(***************************************************************************)
(* The session.                                                             *)
(***************************************************************************)
NoSlots == [n |-> 0, a |-> 0, s |-> <<>>]

(* XORDispatch: the alternative at hand is offered to dispatchAJob, which
   counts its slots once; without alternatives it works on candPtr itself. *)
XORDispatch(i, job, at) ==
  LET r == IF at \in DOMAIN job.cand THEN getNumSlots(Job(i), job.cand[at]) ELSE NoSlots
  IN [job EXCEPT !.st = "cand", !.at = at, !.r = r,
                 !.cand = IF @ = <<>> \/ needHandleXor(Job(i)) THEN @ ELSE <<r.s>>]

ChoiceInit(sc) ==
  /\ cin = sc
  /\ cat = 1
  /\ cuse = [h \in 1..Len(sc.hosts) |-> sc.hosts[h].run]
  /\ cque = [h \in 1..Len(sc.hosts) |-> 0]
  /\ cbad = {} /\ cexcl = {}
  /\ cjob = [i \in 1..Len(sc.jobs) |->
               [st |-> "new", cand |-> <<>>, at |-> 0, r |-> NoSlots, tried |-> {},
                al |-> <<>>, peer |-> FALSE, seen |-> <<>>]]

(* What the job could use of a host when its turn came. *)
Room(j, h) ==
  IF Usable(j, h) /\ cntUQSlots(j) >= j.np
  THEN Min({getHostJobSlots(h).a, Host(h).cpus, ckResReserve(j, h)}) ELSE 0

(* The candidates of the job the session is at.  Whatever scheduleAJob
   returns, the job is then offered for dispatch. *)
scheduleAJobOn ==
  /\ cat \in DOMAIN cjob /\ cjob[cat].st = "new"
  /\ LET job == [cjob[cat] EXCEPT !.cand = getCandHosts(cat), !.seen = [h \in ChoiceHosts |-> Room(Job(cat), h)],
                                  !.peer = getPeerCand(cat) # {}]
     IN cjob' = [cjob EXCEPT ![cat] = XORDispatch(cat, job, 1)]
  /\ UNCHANGED <<cin, cat, cuse, cque, cbad, cexcl>>

Chosen == getNumProcs(Job(cat), cjob[cat].r)
Offered == cat \in DOMAIN cjob /\ cjob[cat].st = "cand"

(* The alternative is given up: the next one, else the job stays pending. *)
NextGroup(job) ==
  IF job.at < Len(job.cand)
  THEN cjob' = [cjob EXCEPT ![cat] = XORDispatch(cat, job, job.at + 1)] /\ UNCHANGED cat
  ELSE cjob' = [cjob EXCEPT ![cat] = [job EXCEPT !.st = "pend"]] /\ cat' = cat + 1

TooFewSlots ==
  /\ Offered /\ Chosen.n < Job(cat).np
  /\ NextGroup(cjob[cat])
  /\ UNCHANGED <<cin, cuse, cque, cbad, cexcl>>

(* dispatchToCandHost: the first host accepts the job. *)
JobStarted ==
  /\ Offered /\ Chosen.n >= Job(cat).np
  /\ LET al == allocHosts(Chosen.e) IN
     /\ cjob' = [cjob EXCEPT ![cat].st = "run", ![cat].al = al]
     /\ cuse' = [h \in ChoiceHosts |-> cuse[h] + al[h]]
     /\ cque' = [h \in ChoiceHosts |-> cque[h] + al[h]]
     /\ cexcl' = IF Job(cat).excl THEN cexcl \cup {h \in ChoiceHosts : al[h] > 0} ELSE cexcl
  /\ cat' = cat + 1
  /\ UNCHANGED <<cin, cbad>>

(* The first host refuses it, and the slots are taken again from the
   remaining candidates.  "host": an error of that host, which is out for this
   session.  "root": PEND_SBD_ROOT.  "stop": a reason that shares a bit with
   PEND_JOB_NO_FILE, after which the alternative is given up. *)
StartError(kind) ==
  /\ Offered /\ Chosen.n >= Job(cat).np
  /\ LET first == Chosen.e[1].h
         less(s) == SelectSeq(s, LAMBDA c : c.h # first)
         job == [cjob[cat] EXCEPT !.tried = @ \cup {first}]
         on == [job EXCEPT !.r.s = less(@),
                           !.cand = [k \in DOMAIN @ |-> less(@[k])]]
     IN /\ CASE kind = "stop" -> NextGroup(job)
             [] kind # "stop" -> cjob' = [cjob EXCEPT ![cat] = on] /\ UNCHANGED cat
        /\ cbad' = IF kind = "host" THEN cbad \cup {first} ELSE cbad
  /\ UNCHANGED <<cin, cuse, cque, cexcl>>

ChoiceNext ==
  \/ scheduleAJobOn \/ TooFewSlots \/ JobStarted
  \/ \E kind \in {"host", "root", "stop"} : StartError(kind)

(***************************************************************************)
(* Properties.                                                              *)
(***************************************************************************)
Used(i) == {h \in ChoiceHosts : cjob[i].al[h] > 0}
RunningOn == {i \in DOMAIN cjob : cjob[i].st = "run"}
Allowed(j, h) == h \in j.sel /\ h \in Queue.member /\ (j.asked = <<>> \/ j.oth >= 0 \/ At(j.asked, h))

(* A job that was dispatched has between numProcessors and maxNumProcessors
   slots, only on hosts it asked for and that meet its requirement, one common
   alternative of the requirement holds on all of them, and no host has more
   than its tile. *)
LegalAllocation ==
  \A i \in RunningOn :
    LET j == Job(i) IN
    /\ FoldFunction(+, 0, cjob[i].al) \in j.np..j.mp
    /\ \A h \in Used(i) : Allowed(j, h) /\ (Tile(j) > 0 => cjob[i].al[h] <= Tile(j))
    /\ needHandleXor(j) => \E k \in DOMAIN j.xor : Used(i) \subseteq j.xor[k]
    /\ (allInOne(j) /\ needHandleFirstHost(j) = 0 /\ cjob[i].tried = {}) =>
         Cardinality(Used(i)) = 1

(* However many jobs of the session share a host, with candidates computed
   for another job or computed before others were dispatched, the host's and
   the queue's job limits are never exceeded, and an exclusive job shares its
   hosts with nobody. *)
LimitsKept ==
  /\ \A h \in ChoiceHosts : cque[h] > 0 => cuse[h] <= Host(h).max /\ cque[h] <= Queue.hjl
  /\ FoldFunction(+, 0, cque) <= Queue.max
  /\ \A i \in RunningOn : Job(i).excl => \A h \in Used(i) : cuse[h] = cjob[i].al[h]

Rank(asked, oth, h) ==
  IF At(asked, h) THEN asked[PosOf(asked, h)].p ELSE Max({oth, 0})

(* A slot on a host is used only when every host the user prefers to it is
   used up (mbd.policy.c hostPreference): jobs without span[]. *)
PreferenceFollowed ==
  \A i \in RunningOn :
    LET j == Job(i) IN
    (j.asked # <<>> /\ Tile(j) = 0 /\ ~allInOne(j) /\ j.xor = <<>> /\ needHandleFirstHost(j) = 0) =>
      \A g \in Used(i), h \in ChoiceHosts \ cjob[i].tried :
        (/\ Rank(j.asked, j.oth, h) > Rank(j.asked, j.oth, g)
         /\ \E k \in DOMAIN cjob[i].cand : At(cjob[i].cand[k], h)) =>
          cjob[i].al[h] >= Min({cjob[i].seen[h], j.mp})

RoomOn(i, set) ==
  MapThenSumSet(LAMBDA h : IF Tile(Job(i)) = 0 THEN cjob[i].seen[h]
                           ELSE Min({cjob[i].seen[h], Tile(Job(i))}), set)

(* Whole tiles, and one host for the remainder. *)
TilesFit(i, set) ==
  LET j == Job(i)
      full == {h \in set : cjob[i].seen[h] >= Tile(j)}
  IN \/ Cardinality(full) * Tile(j) >= j.np
     \/ /\ Cardinality(full) = j.np \div Tile(j)
        /\ \E h \in set \ full : cjob[i].seen[h] >= j.np % Tile(j)

Fits(i, set) ==
  LET j == Job(i) IN
  CASE allInOne(j) -> \E h \in set : cjob[i].seen[h] >= j.np
    [] ~allInOne(j) /\ Tile(j) > 0 -> TilesFit(i, set)
    [] OTHER -> RoomOn(i, set) >= j.np

(* A job is left pending only if the hosts had no room for it when its turn
   came.  Out of the claim are the jobs for which the code does miss hosts: a
   job that took over another's candidates, a job of variable size on one host
   (orderBySlots), one that asked for a first host, a remainder of a tile
   without LSB_PTILE_PACK, and hosts with slots that may be preempted. *)
NoRoomMissed ==
  \A i \in DOMAIN cjob :
    LET j == Job(i) IN
    (/\ cjob[i].st = "pend" /\ cjob[i].tried = {} /\ ~cjob[i].peer
     /\ needHandleFirstHost(j) = 0 /\ \A h \in ChoiceHosts : Host(h).pre = 0
     /\ ~(allInOne(j) /\ j.np < j.mp)
     /\ (Tile(j) > 0 => Queue.pack \/ j.np % Tile(j) = 0)) =>
       IF needHandleXor(j) THEN \A k \in DOMAIN j.xor : ~Fits(i, j.xor[k])
       ELSE ~Fits(i, ChoiceHosts)

\* The hosts chosen for a job are ones it may use, within every limit, in the
\* order its preferences ask for; and a job is left without hosts only when
\* there is no room for it (getCandHosts, candHostOk, reshapeCandHost).
ChoiceSound == LegalAllocation /\ LimitsKept /\ PreferenceFollowed /\ NoRoomMissed
=============================================================================
