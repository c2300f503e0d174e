------------------------- MODULE SchedSessionProofs -------------------------
(***************************************************************************)
(* Proofs about the scheduling sessions: for any hosts, queues, users and   *)
(* jobs, and whatever is handled between the calls of a session, cached     *)
(* limits are true, no limit is exceeded and jobs are offered in order.     *)
(***************************************************************************)
EXTENDS SchedSession, FiniteSetTheorems, SequenceTheorems, TLAPS

(* mbatchd starts with the jobs that were submitted; none of them runs. *)
SessionStart == SessionScenario(sin) /\ SessionInit(sin)
SessionSpec == SessionStart /\ [][SessionNext]_svars

(* The inductive invariant. *)
Active == {"run", "ssusp"}
JobStates == {"new", "pend", "psusp", "done"} \cup Active

Reasons ==
  {"", "hostlimit", "quelimit", "quehostlimit", "userlimit", "unreach", "disabled",
   "member", "ssusp", "accept", "start"}

SessionType ==
  /\ SessionScenario(sin)
  /\ sjob \in [SessJobs -> [st : JobStates, host : Nat]]
  /\ \A j \in SessJobs : sjob[j].st \in Active => sjob[j].host \in SessHosts
  /\ shr \in [SessHosts -> Reasons]
  /\ sqr \in [SessQueues -> [0..Len(sin.hosts) -> Reasons]]
  /\ sur \in [Users -> Reasons]

(* The limits of users and queues are noticed as well: their reasons say
   exactly when they are reached (SET_REASON).  Those of hosts may be hidden
   behind another reason, and are looked at again by getJUsable. *)
LimitsCached ==
  /\ \A h \in SessHosts : shr[h] = "hostlimit" => HostRoom(sjob, h) <= 0
  /\ \A u \in Users : sur[u] = "userlimit" <=> UserRoom(sjob, u) <= 0
  /\ \A q \in SessQueues :
       /\ sqr[q][0] = "quelimit" <=> QueueRoom(sjob, q) <= 0
       /\ \A h \in SessHosts : sqr[q][h] = "quehostlimit" => QHostRoom(sjob, q, h) <= 0

Sorted(s) == \A i, k \in DOMAIN s : i < k => PrioOf(s[i]) >= PrioOf(s[k])
Distinct(s) == \A i, k \in DOMAIN s : s[i] = s[k] => i = k
NoRoundRobin == \A q \in SessQueues : ~Q(q).rr

(* jRefList: without repetition, by priority, current one of its entries,
   without round robin the first one. *)
RefsSound ==
  /\ srefs \in Seq(SessJobs) /\ Distinct(srefs) /\ Sorted(srefs)
  /\ soff \subseteq SessJobs
  /\ scur = 0 \/ \E i \in DOMAIN srefs : srefs[i] = scur
  /\ NoRoundRobin => scur = 0 \/ scur = srefs[1]
  /\ OfferedInOrder

SessionInv == SessionType /\ LimitsCached /\ JobLimitsKept /\ RefsSound

-----------------------------------------------------------------------------
(* A set of numbers has a least element. *)
LEMMA LeastNat ==
  ASSUME NEW S \in SUBSET Nat, S # {}
  PROVE  Min(S) \in S /\ \A y \in S : Min(S) <= y
<1> DEFINE R == OpToRel(<, Nat)
<1>1. IsWellFoundedOn(R, Nat)
  BY NatLessThanWellFounded, Zenon
<1>2. \A x, y \in Nat : <<y, x>> \in R <=> y < x
  BY DEF OpToRel
<1> HIDE DEF R
<1>3. PICK x \in S : \A y \in S : ~(<<y, x>> \in R)
  BY <1>1, WFMin, Zenon
<1>4. \A y \in S : x <= y
  <2> SUFFICES ASSUME NEW y \in S PROVE x <= y
    OBVIOUS
  <2>1. x \in Nat /\ y \in Nat /\ ~(y < x)
    BY <1>2, <1>3, Zenon
  <2> QED BY <2>1
<1> QED BY <1>4, Zenon DEF Min

(* What is left of a list when one entry is taken out (offJRefList). *)
RemovedFrom(s, n) == SubSeq(s, 1, n - 1) \o SubSeq(s, n + 1, Len(s))

LEMMA RemovedAt ==
  ASSUME NEW S, NEW s \in Seq(S), NEW n \in 1..Len(s)
  PROVE  /\ RemovedFrom(s, n) \in Seq(S)
         /\ Len(RemovedFrom(s, n)) = Len(s) - 1
         /\ \A i \in 1..(Len(s) - 1) : RemovedFrom(s, n)[i] = IF i < n THEN s[i] ELSE s[i + 1]
<1> DEFINE a == SubSeq(s, 1, n - 1)
           b == SubSeq(s, n + 1, Len(s))
<1>1. a \in Seq(S) /\ Len(a) = n - 1 /\ \A i \in 1..(n - 1) : a[i] = s[i]
  OBVIOUS
<1>2. b \in Seq(S) /\ Len(b) = Len(s) - n /\ \A i \in 1..(Len(s) - n) : b[i] = s[n + i]
  OBVIOUS
<1>3. RemovedFrom(s, n) = a \o b
  BY DEF RemovedFrom
<1> HIDE DEF a, b
<1>4. a \o b \in Seq(S) /\ Len(a \o b) = Len(a) + Len(b)
  BY <1>1, <1>2, ConcatProperties, Zenon
<1>5. \A i \in 1..(Len(a) + Len(b)) : (a \o b)[i] = IF i <= Len(a) THEN a[i] ELSE b[i - Len(a)]
  BY <1>1, <1>2
<1>6. ASSUME NEW i \in 1..(Len(s) - 1) PROVE (a \o b)[i] = IF i < n THEN s[i] ELSE s[i + 1]
  <2>0. Len(s) \in Nat /\ i \in 1..(Len(a) + Len(b))
    BY <1>1, <1>2
  <2>1. CASE i < n
    BY <1>1, <1>2, <1>5, <2>0, <2>1
  <2>2. CASE ~(i < n)
    <3>1. (a \o b)[i] = b[i - Len(a)] /\ i - Len(a) \in 1..(Len(s) - n)
      BY <1>1, <1>2, <1>5, <2>0, <2>2
    <3>2. n + (i - Len(a)) = i + 1
      BY <1>1
    <3> QED BY <3>1, <3>2, <1>2, <2>2, Zenon
  <2> QED BY <2>1, <2>2, Zenon
<1> QED BY <1>1, <1>2, <1>3, <1>4, <1>6

(* A function on 1..n is a sequence. *)
LEMMA FunctionIsSeq ==
  ASSUME NEW S, NEW n \in Nat, NEW g \in [1..n -> S]
  PROVE  g \in Seq(S)
BY SeqDef

(* The entries of a sequence. *)
LEMMA SeqElements ==
  ASSUME NEW S, NEW s \in Seq(S)
  PROVE  /\ DOMAIN s = 1..Len(s) /\ Len(s) \in Nat
         /\ \A i \in DOMAIN s : s[i] \in S
OBVIOUS

(* The types of a scenario, field by field. *)
LEMMA ScenarioTypes ==
  ASSUME SessionScenario(sin)
  PROVE  /\ IsFiniteSet(SessJobs)
         /\ SessJobs \subseteq Nat \ {0} /\ SessHosts \subseteq Nat \ {0}
         /\ SessHosts = 1..Len(sin.hosts) /\ Len(sin.hosts) \in Nat
         /\ \A j \in SessJobs : J(j).queue \in SessQueues /\ J(j).user \in Users
                                /\ J(j).st \in {"new", "pend", "psusp"}
                                /\ PrioOf(j) \in Nat
         /\ \A h \in SessHosts : sin.hosts[h] \in Nat
         /\ \A u \in Users : sin.users[u] \in Nat
         /\ \A q \in SessQueues : Q(q).max \in Nat /\ Q(q).hjl \in Nat
                                  /\ Q(q).prio \in Nat /\ Q(q).rr \in BOOLEAN
<1>1. SessJobs = 1..Len(sin.jobs) /\ Len(sin.jobs) \in Nat
  BY DEF SessionScenario, SessJobs
<1>2. IsFiniteSet(SessJobs)
  BY <1>1, FS_Interval
<1>3. \A q \in SessQueues : Q(q).max \in Nat /\ Q(q).hjl \in Nat
                                  /\ Q(q).prio \in Nat /\ Q(q).rr \in BOOLEAN
  <2>1. \A q \in SessQueues : Q(q) \in [prio : Nat, max : Nat, hjl : Nat, accept : BOOLEAN,
                                        rr : BOOLEAN, member : SUBSET DOMAIN sin.hosts]
    BY SeqElements, Zenon DEF SessionScenario, SessQueues, Q
  <2> QED BY <2>1
<1>4. \A j \in SessJobs : J(j).queue \in SessQueues /\ J(j).user \in Users
                                /\ J(j).st \in {"new", "pend", "psusp"}
  <2>1. \A j \in SessJobs : J(j) \in [queue : SessQueues, user : Users,
                                        st : {"new", "pend", "psusp"}]
    BY SeqElements, Zenon DEF SessionScenario, SessQueues, J, SessJobs, Users
  <2> QED BY <2>1
<1>5. \A j \in SessJobs : PrioOf(j) \in Nat
  BY <1>3, <1>4 DEF PrioOf
<1>6. SessHosts = 1..Len(sin.hosts) /\ Len(sin.hosts) \in Nat
      /\ \A h \in SessHosts : sin.hosts[h] \in Nat
  BY DEF SessionScenario, SessHosts
<1>7. \A u \in Users : sin.users[u] \in Nat
  BY DEF SessionScenario, Users
<1> QED BY <1>1, <1>2, <1>3, <1>4, <1>5, <1>6, <1>7

(* The slots in use are finite sets, the room left a number. *)
LEMMA RoomTypes ==
  ASSUME SessionScenario(sin), NEW job
  PROVE  /\ \A h : IsFiniteSet(OnHost(job, h))
         /\ \A q : IsFiniteSet(OfQueue(job, q))
         /\ \A u : IsFiniteSet(OfUser(job, u))
         /\ \A q, h : IsFiniteSet(OfQueue(job, q) \cap OnHost(job, h))
         /\ \A h \in SessHosts : HostRoom(job, h) \in Int
         /\ \A u \in Users : UserRoom(job, u) \in Int
         /\ \A q \in SessQueues : QueueRoom(job, q) \in Int
         /\ \A q \in SessQueues, h \in SessHosts : QHostRoom(job, q, h) \in Int
<1>1. IsFiniteSet(SessJobs) /\ \A T \in SUBSET SessJobs : IsFiniteSet(T) /\ Cardinality(T) \in Nat
  BY ScenarioTypes, FS_Subset, FS_CardinalityType
<1>2. /\ \A h : OnHost(job, h) \in SUBSET SessJobs
      /\ \A q : OfQueue(job, q) \in SUBSET SessJobs
      /\ \A u : OfUser(job, u) \in SUBSET SessJobs
      /\ \A q, h : OfQueue(job, q) \cap OnHost(job, h) \in SUBSET SessJobs
  BY DEF OnHost, OfQueue, OfUser
<1> QED BY <1>1, <1>2, ScenarioTypes DEF HostRoom, UserRoom, QueueRoom, QHostRoom

(* Jobs that neither start nor end leave the room as it is. *)
LEMMA UseKept ==
  ASSUME SessionType, sin' = sin,
         \A j \in SessJobs : /\ sjob'[j].st \in Active <=> sjob[j].st \in Active
                             /\ sjob'[j].host = sjob[j].host
  PROVE  /\ \A h : HostRoom(sjob, h)' = HostRoom(sjob, h)
         /\ \A u : UserRoom(sjob, u)' = UserRoom(sjob, u)
         /\ \A q : QueueRoom(sjob, q)' = QueueRoom(sjob, q)
         /\ \A q, h : QHostRoom(sjob, q, h)' = QHostRoom(sjob, q, h)
<1>1. /\ \A h : OnHost(sjob, h)' = OnHost(sjob, h)
      /\ \A q : OfQueue(sjob, q)' = OfQueue(sjob, q)
      /\ \A u : OfUser(sjob, u)' = OfUser(sjob, u)
  BY DEF OnHost, OfQueue, OfUser, SessJobs, J, Active
<1> QED BY <1>1, Zenon DEF HostRoom, UserRoom, QueueRoom, QHostRoom, Q

(* So they leave the limits as they are, when no limit reason is set. *)
LEMMA QuietStep ==
  ASSUME SessionType, LimitsCached, JobLimitsKept, sin' = sin, sur' = sur,
         \A j \in SessJobs : /\ sjob'[j].st \in Active <=> sjob[j].st \in Active
                             /\ sjob'[j].host = sjob[j].host,
         \A h \in SessHosts : shr'[h] = "hostlimit" => shr[h] = "hostlimit",
         \A q \in SessQueues : /\ sqr'[q][0] = sqr[q][0]
                               /\ \A h \in SessHosts :
                                    sqr'[q][h] = "quehostlimit" => sqr[q][h] = "quehostlimit"
  PROVE  LimitsCached' /\ JobLimitsKept'
<1>1. /\ \A h : HostRoom(sjob, h)' = HostRoom(sjob, h)
      /\ \A u : UserRoom(sjob, u)' = UserRoom(sjob, u)
      /\ \A q : QueueRoom(sjob, q)' = QueueRoom(sjob, q)
      /\ \A q, h : QHostRoom(sjob, q, h)' = QHostRoom(sjob, q, h)
  BY UseKept
<1>2. SessHosts' = SessHosts /\ SessQueues' = SessQueues /\ Users' = Users
  BY DEF SessHosts, SessQueues, Users
<1>3. LimitsCached'
  BY <1>1, <1>2 DEF LimitsCached
<1>4. JobLimitsKept'
  BY <1>1, <1>2 DEF JobLimitsKept
<1> QED BY <1>3, <1>4

(* One job starts or ends on a host: the reasons that updQaccount, updUserData
   and updHostData compute again are those of the limits it changes. *)
LEMMA ChargedStep ==
  ASSUME SessionType, LimitsCached, sin' = sin, NEW j \in SessJobs, NEW h \in SessHosts,
         \A k \in SessJobs : k # j => sjob'[k] = sjob[k],
         sjob[j].st \in Active => sjob[j].host = h,
         sjob'[j].st \in Active => sjob'[j].host = h,
         sur' = updUserData(sjob', J(j).user),
         shr'[h] = "hostlimit" => HostRoom(sjob', h) <= 0,
         \A g \in SessHosts : g # h /\ shr'[g] = "hostlimit" => shr[g] = "hostlimit",
         sqr'[J(j).queue][0] = "quelimit" <=> QueueRoom(sjob', J(j).queue) <= 0,
         \A q \in SessQueues : q # J(j).queue => sqr'[q][0] = sqr[q][0],
         sqr'[J(j).queue][h] = "quehostlimit" => QHostRoom(sjob', J(j).queue, h) <= 0,
         \A q \in SessQueues, g \in SessHosts :
            (q # J(j).queue \/ g # h) /\ sqr'[q][g] = "quehostlimit" => sqr[q][g] = "quehostlimit"
  PROVE  LimitsCached'
<1>1. /\ \A g : g # h => OnHost(sjob', g) = OnHost(sjob, g)
      /\ \A q : q # J(j).queue => OfQueue(sjob', q) = OfQueue(sjob, q)
      /\ \A u : u # J(j).user => OfUser(sjob', u) = OfUser(sjob, u)
      /\ \A q, g : q # J(j).queue \/ g # h =>
           OfQueue(sjob', q) \cap OnHost(sjob', g) = OfQueue(sjob, q) \cap OnHost(sjob, g)
  BY DEF OnHost, OfQueue, OfUser, Active
<1>2. /\ \A g : HostRoom(sjob, g)' = HostRoom(sjob', g)
      /\ \A u : UserRoom(sjob, u)' = UserRoom(sjob', u)
      /\ \A q : QueueRoom(sjob, q)' = QueueRoom(sjob', q)
      /\ \A q, g : QHostRoom(sjob, q, g)' = QHostRoom(sjob', q, g)
  BY DEF HostRoom, UserRoom, QueueRoom, QHostRoom, OnHost, OfQueue, OfUser, SessJobs, J, Q
<1>3. /\ \A g : g # h => HostRoom(sjob', g) = HostRoom(sjob, g)
      /\ \A q : q # J(j).queue => QueueRoom(sjob', q) = QueueRoom(sjob, q)
      /\ \A u : u # J(j).user => UserRoom(sjob', u) = UserRoom(sjob, u)
      /\ \A q, g : q # J(j).queue \/ g # h => QHostRoom(sjob', q, g) = QHostRoom(sjob, q, g)
  <2>1. \A g : g # h => HostRoom(sjob', g) = HostRoom(sjob, g)
    BY <1>1 DEF HostRoom
  <2>2. \A q : q # J(j).queue => QueueRoom(sjob', q) = QueueRoom(sjob, q)
    BY <1>1 DEF QueueRoom
  <2>3. \A u : u # J(j).user => UserRoom(sjob', u) = UserRoom(sjob, u)
    BY <1>1 DEF UserRoom
  <2>4. ASSUME NEW q, NEW g, q # J(j).queue \/ g # h PROVE QHostRoom(sjob', q, g) = QHostRoom(sjob, q, g)
    <3>1. OfQueue(sjob', q) \cap OnHost(sjob', g) = OfQueue(sjob, q) \cap OnHost(sjob, g)
      BY <1>1, <2>4
    <3> QED BY <3>1, Zenon DEF QHostRoom
  <2> QED BY <2>1, <2>2, <2>3, <2>4
<1>4. SessHosts' = SessHosts /\ SessQueues' = SessQueues /\ Users' = Users
  BY DEF SessHosts, SessQueues, Users
<1>5. \A g \in SessHosts : shr'[g] = "hostlimit" => HostRoom(sjob', g) <= 0
  BY <1>3 DEF LimitsCached
<1>6. \A u \in Users : sur'[u] = "userlimit" <=> UserRoom(sjob', u) <= 0
  <2> SUFFICES ASSUME NEW u \in Users PROVE sur'[u] = "userlimit" <=> UserRoom(sjob', u) <= 0
    OBVIOUS
  <2>1. CASE u = J(j).user
    BY <2>1, Zenon DEF updUserData, SET_REASON, CLEAR_REASON, SessionType
  <2>2. CASE u # J(j).user
    BY <2>2, <1>3 DEF updUserData, SessionType, LimitsCached
  <2> QED BY <2>1, <2>2
<1>7. \A q \in SessQueues : sqr'[q][0] = "quelimit" <=> QueueRoom(sjob', q) <= 0
  BY <1>3 DEF LimitsCached
<1>8. \A q \in SessQueues, g \in SessHosts : sqr'[q][g] = "quehostlimit" => QHostRoom(sjob', q, g) <= 0
  BY <1>3 DEF LimitsCached
<1> QED BY <1>2, <1>4, <1>5, <1>6, <1>7, <1>8 DEF LimitsCached

-----------------------------------------------------------------------------
(* The pending list holds each job once, by priority: the places of the jobs
   are an injection into an interval of the same size, so every place is taken. *)
LEMMA PJLSorted ==
  ASSUME SessionType
  PROVE  PJL \in Seq(SessJobs) /\ Distinct(PJL) /\ Sorted(PJL)
<1> DEFINE S == PendingJobs
           n == Cardinality(S)
           P(j) == {k \in S : SchedBefore(k, j)}
           f == [j \in S |-> PlaceInPJL(j)]
<1>1. /\ S \subseteq SessJobs /\ IsFiniteSet(S) /\ n \in Nat
      /\ \A a \in S : a \in Nat /\ PrioOf(a) \in Nat
  <2>1. S \subseteq SessJobs
    BY DEF PendingJobs
  <2>2. IsFiniteSet(SessJobs) /\ \A a \in SessJobs : a \in Nat /\ PrioOf(a) \in Nat
    BY ScenarioTypes DEF SessionType
  <2> QED BY <2>1, <2>2, FS_Subset, FS_CardinalityType
<1>2. /\ \A a \in S : ~SchedBefore(a, a)
      /\ \A a, b \in S : a # b => SchedBefore(a, b) \/ SchedBefore(b, a)
      /\ \A a, b, c \in S : SchedBefore(a, b) /\ SchedBefore(b, c) => SchedBefore(a, c)
  BY <1>1 DEF SchedBefore
<1>3. \A a : P(a) \subseteq S /\ IsFiniteSet(P(a)) /\ PlaceInPJL(a) = Cardinality(P(a))
               /\ PlaceInPJL(a) \in Nat
  BY <1>1, FS_Subset, FS_CardinalityType DEF PlaceInPJL
<1>4. ASSUME NEW a \in S, NEW b \in S, SchedBefore(a, b)
      PROVE  PlaceInPJL(a) < PlaceInPJL(b)
  <2>1. P(a) \subseteq P(b) /\ a \in P(b) /\ a \notin P(a)
    BY <1>2, <1>4
  <2>2. Cardinality(P(a)) <= Cardinality(P(b)) /\ Cardinality(P(a)) # Cardinality(P(b))
    BY <2>1, <1>3, FS_Subset
  <2> QED BY <2>2, <1>3
<1>5. ASSUME NEW a \in S PROVE PlaceInPJL(a) \in 0..(n - 1)
  <2>1. P(a) \subseteq S /\ a \notin P(a)
    BY <1>2
  <2>2. Cardinality(P(a)) <= n /\ Cardinality(P(a)) # n
    BY <2>1, <1>1, FS_Subset
  <2> QED BY <2>2, <1>1, <1>3
<1>6. \A a, b \in S : PlaceInPJL(a) = PlaceInPJL(b) => a = b
  <2> SUFFICES ASSUME NEW a \in S, NEW b \in S, a # b PROVE PlaceInPJL(a) # PlaceInPJL(b)
    OBVIOUS
  <2>1. PlaceInPJL(a) < PlaceInPJL(b) \/ PlaceInPJL(b) < PlaceInPJL(a)
    BY <1>2, <1>4
  <2>2. PlaceInPJL(a) \in Nat /\ PlaceInPJL(b) \in Nat
    BY <1>3, Zenon
  <2> QED BY <2>1, <2>2
<1>7. \A i \in 1..n : \E j \in S : PlaceInPJL(j) = i - 1
  <2>1. f \in Injection(S, 0..(n - 1))
    BY <1>5, <1>6 DEF Injection, IsInjective
  <2>2. IsFiniteSet(0..(n - 1)) /\ Cardinality(0..(n - 1)) = n
    BY <1>1, FS_Interval
  <2>3. f \in Surjection(S, 0..(n - 1))
    BY <2>1, <2>2, FS_Injection
  <2>4. \A m \in 0..(n - 1) : \E j \in S : f[j] = m
    BY <2>3, Zenon DEF Surjection
  <2>5. \A i \in 1..n : i - 1 \in 0..(n - 1)
    BY <1>1
  <2> QED BY <2>4, <2>5
<1>8. \A i \in 1..n : PJL[i] \in S /\ PlaceInPJL(PJL[i]) = i - 1
  BY <1>7 DEF PJL
<1>9. DOMAIN PJL = 1..n
  BY DEF PJL
<1>10. PJL \in Seq(SessJobs)
  <2>1. PJL \in [1..n -> SessJobs]
    BY <1>1, <1>8 DEF PJL
  <2> HIDE DEF n
  <2> QED BY <2>1, <1>1, FunctionIsSeq
<1>11. Distinct(PJL)
  BY <1>8, <1>9, <1>1 DEF Distinct
<1>12. ASSUME NEW i \in 1..n, NEW k \in 1..n, i < k
       PROVE  PrioOf(PJL[i]) >= PrioOf(PJL[k])
  <2> DEFINE a == PJL[i]
             b == PJL[k]
  <2>1. a \in S /\ b \in S /\ PlaceInPJL(a) < PlaceInPJL(b)
    BY <1>8, <1>12, <1>1
  <2> HIDE DEF a, b
  <2>2. PrioOf(a) < PrioOf(b) => PlaceInPJL(b) < PlaceInPJL(a)
    BY <2>1, <1>4, <1>1 DEF SchedBefore
  <2>3. PrioOf(a) \in Nat /\ PrioOf(b) \in Nat /\ PlaceInPJL(a) \in Nat /\ PlaceInPJL(b) \in Nat
    BY <2>1, <1>1, <1>3, Zenon
  <2>4. PrioOf(a) >= PrioOf(b)
    BY <2>1, <2>2, <2>3
  <2> QED BY <2>4 DEF a, b
<1> QED BY <1>9, <1>10, <1>11, <1>12 DEF Sorted

(* The walk over jRefList ends at an entry, and the job taken is one that it
   passed; without round robin it is the first. *)
LEMMA NextInList ==
  ASSUME SessionType, RefsSound, srefs # <<>>
  PROVE  \E at, end \in DOMAIN srefs :
           /\ at <= end /\ NextJob = srefs[at] /\ Place(NextJob) = at
           /\ NextCurrent = IF end = Len(srefs) THEN 0 ELSE srefs[end + 1]
           /\ NoRoundRobin => end = 1
<1> DEFINE from == IF scur = 0 THEN 1 ELSE Place(scur)
           E == {i \in from..Len(srefs) :
                   \/ ~RoundRobin(srefs[i])
                   \/ i = Len(srefs) \/ PrioOf(srefs[i]) # PrioOf(srefs[i + 1])}
           end == WalkEnd(from)
           least == {i \in from..end : \A k \in from..end : UserRuns(srefs[i]) <= UserRuns(srefs[k])}
<1>1. DOMAIN srefs = 1..Len(srefs) /\ Len(srefs) \in Nat \ {0}
      /\ \A i \in DOMAIN srefs : srefs[i] \in SessJobs
  <2>1. srefs \in Seq(SessJobs)
    BY DEF RefsSound
  <2> QED BY <2>1, SeqElements, EmptySeq
<1>2. \A i \in DOMAIN srefs : Place(srefs[i]) = i
  BY DEF RefsSound, Distinct, Place
<1>3. from \in 1..Len(srefs)
  BY <1>1, <1>2 DEF RefsSound
<1>4. end \in E /\ \A y \in E : end <= y
  <2>1. Len(srefs) \in E /\ E \subseteq Nat
    BY <1>1, <1>3
  <2>2. end = Min(E)
    BY DEF WalkEnd
  <2> HIDE DEF E, end
  <2> QED BY <2>1, <2>2, LeastNat
<1>5. end \in from..Len(srefs)
  BY <1>4
<1>6. NextCurrent = IF end = Len(srefs) THEN 0 ELSE srefs[end + 1]
  BY DEF NextCurrent
<1>7. NextJob = IF RoundRobin(srefs[end]) THEN srefs[Min(least)] ELSE srefs[end]
  BY DEF NextJob
<1>8. NoRoundRobin => end = 1
  <2> SUFFICES ASSUME NoRoundRobin PROVE end = 1
    OBVIOUS
  <2>1. from = 1
    BY <1>1, <1>2 DEF RefsSound
  <2>2. ~RoundRobin(srefs[1])
    <3>1. \A j \in SessJobs : J(j).queue \in SessQueues
      BY ScenarioTypes DEF SessionType
    <3>2. srefs[1] \in SessJobs
      BY <1>1
    <3> QED BY <3>1, <3>2 DEF NoRoundRobin, RoundRobin
  <2>3. 1 \in E
    BY <2>1, <2>2, <1>1
  <2>4. end <= 1 /\ end \in 1..Len(srefs)
    BY <2>1, <2>3, <1>4, <1>5
  <2> HIDE DEF end
  <2> QED BY <2>4, <1>1
<1> HIDE DEF end, E
<1>9. least # {} /\ least \subseteq Nat
  <2> DEFINE R == {UserRuns(srefs[i]) : i \in from..end}
  <2>1. \A j : UserRuns(j) \in Nat
    <3> SUFFICES ASSUME NEW j PROVE UserRuns(j) \in Nat
      OBVIOUS
    <3>1. {k \in SessJobs : sjob[k].st = "run" /\ J(k).user = J(j).user} \in SUBSET SessJobs
      OBVIOUS
    <3> QED BY <3>1, ScenarioTypes, FS_Subset, FS_CardinalityType DEF UserRuns, SessionType
  <2>2. R \subseteq Nat /\ R # {}
    BY <2>1, <1>3, <1>5, <1>1
  <2>3. Min(R) \in R /\ \A y \in R : Min(R) <= y
    BY <2>2, LeastNat, Zenon
  <2>4. PICK i \in from..end : UserRuns(srefs[i]) = Min(R)
    BY <2>3, Zenon
  <2>5. i \in least
    BY <2>3, <2>4
  <2> QED BY <2>5, <1>3, <1>1
<1>10. Min(least) \in from..end
  <2>1. Min(least) \in least
    BY <1>9, LeastNat, Zenon
  <2> QED BY <2>1
<1> HIDE DEF from, least
<1>11. PICK at \in from..end : NextJob = srefs[at]
  BY <1>7, <1>10, <1>5, <1>3, <1>1
<1>12. at \in DOMAIN srefs /\ end \in DOMAIN srefs /\ at <= end
  BY <1>11, <1>5, <1>3, <1>1
<1> QED BY <1>2, <1>6, <1>8, <1>11, <1>12

(* Taking a job from jRefList keeps the list, current and the order of what was
   offered sound. *)
LEMMA TakenStep ==
  ASSUME SessionType, RefsSound, srefs # <<>>, sin' = sin, Taken(NextJob)
  PROVE  RefsSound'
<1>1. PICK at \in DOMAIN srefs, end \in DOMAIN srefs :
           /\ at <= end /\ NextJob = srefs[at] /\ Place(NextJob) = at
           /\ NextCurrent = IF end = Len(srefs) THEN 0 ELSE srefs[end + 1]
           /\ NoRoundRobin => end = 1
  BY NextInList
<1> DEFINE L == Len(srefs)
<1>2. srefs \in Seq(SessJobs) /\ DOMAIN srefs = 1..L /\ L \in Nat \ {0}
      /\ \A i \in DOMAIN srefs : srefs[i] \in SessJobs
  <2>1. srefs \in Seq(SessJobs)
    BY DEF RefsSound
  <2> QED BY <2>1, SeqElements, EmptySeq
<1> DEFINE u(i) == IF i < at THEN i ELSE i + 1
<1>3. srefs' \in Seq(SessJobs) /\ DOMAIN srefs' = 1..(L - 1) /\ Len(srefs') = L - 1
      /\ \A i \in 1..(L - 1) : srefs'[i] = srefs[u(i)]
  <2>1. srefs' = RemovedFrom(srefs, at)
    BY <1>1 DEF Taken, RemovedFrom
  <2>2. srefs' \in Seq(SessJobs) /\ Len(srefs') = L - 1
    BY <2>1, <1>2, RemovedAt, Zenon
  <2>3. DOMAIN srefs' = 1..(L - 1)
    BY <2>2, SeqElements
  <2>4. \A i \in 1..(L - 1) : srefs'[i] = IF i < at THEN srefs[i] ELSE srefs[i + 1]
    BY <2>1, <1>2, RemovedAt, Zenon
  <2> QED BY <2>2, <2>3, <2>4
<1>4. /\ \A i \in 1..(L - 1) : u(i) \in 1..L /\ u(i) # at
      /\ \A i, k \in 1..(L - 1) : i < k => u(i) < u(k)
      /\ \A i, k \in 1..(L - 1) : u(i) = u(k) => i = k
  BY <1>2
<1> HIDE DEF u
<1>5. SessJobs' = SessJobs /\ NoRoundRobin' = NoRoundRobin /\ \A j : PrioOf(j)' = PrioOf(j)
  BY DEF SessJobs, NoRoundRobin, PrioOf, SessQueues, Q, J
<1>6. Distinct(srefs)'
  <2>1. ASSUME NEW i \in 1..(L - 1), NEW k \in 1..(L - 1), srefs'[i] = srefs'[k] PROVE i = k
    <3>1. u(i) \in DOMAIN srefs /\ u(k) \in DOMAIN srefs /\ srefs[u(i)] = srefs[u(k)]
      BY <2>1, <1>2, <1>3, <1>4
    <3>2. u(i) = u(k)
      BY <3>1 DEF RefsSound, Distinct
    <3> QED BY <3>2, <1>4
  <2> QED BY <2>1, <1>3 DEF Distinct
<1>7. Sorted(srefs)'
  BY <1>2, <1>3, <1>4, <1>5 DEF RefsSound, Sorted
<1>8. (soff \subseteq SessJobs)'
  <2>1. NextJob \in SessJobs /\ soff \subseteq SessJobs
    BY <1>1, <1>2 DEF RefsSound
  <2>2. soff' \subseteq soff \cup {NextJob}
    BY DEF Taken
  <2> QED BY <2>1, <2>2, <1>5
<1>9. scur' = 0 \/ (end \in 1..(L - 1) /\ scur' = srefs'[end])
  <2>1. CASE end = L
    BY <1>1, <2>1 DEF Taken
  <2>2. CASE end # L
    <3>1. end \in 1..(L - 1) /\ u(end) = end + 1
      BY <1>1, <1>2, <2>2 DEF u
    <3> QED BY <1>1, <1>3, <2>2, <3>1 DEF Taken
  <2> QED BY <2>1, <2>2
<1>10. (scur = 0 \/ \E i \in DOMAIN srefs : srefs[i] = scur)'
  BY <1>9, <1>3
<1>11. (NoRoundRobin => scur = 0 \/ scur = srefs[1])'
  BY <1>9, <1>1, <1>5
<1>12. OfferedInOrder'
  <2>1. \A i \in DOMAIN srefs' : srefs'[i] \notin soff /\ srefs'[i] # NextJob
    BY <1>1, <1>2, <1>3, <1>4 DEF RefsSound, OfferedInOrder, Distinct
  <2>2. \A i \in DOMAIN srefs' : srefs'[i] \notin soff'
    BY <2>1 DEF Taken
  <2>3. ASSUME NoRoundRobin, NEW i \in DOMAIN srefs', NEW j \in soff'
        PROVE  PrioOf(j) >= PrioOf(srefs'[i])
    <3>1. u(i) \in DOMAIN srefs /\ srefs'[i] = srefs[u(i)] /\ u(i) # at
      BY <2>3, <1>2, <1>3, <1>4
    <3>2. CASE j \in soff
      BY <3>1, <3>2, <2>3 DEF RefsSound, OfferedInOrder, HigherPriorityFirst, NoRoundRobin
    <3>3. CASE j = NextJob
      <4>1. at = 1 /\ at < u(i)
        BY <1>1, <1>2, <2>3, <3>1
      <4> QED BY <4>1, <3>1, <3>3, <1>1 DEF RefsSound, Sorted
    <3> QED BY <3>2, <3>3 DEF Taken
  <2> QED BY <2>2, <2>3, <1>5 DEF OfferedInOrder, HigherPriorityFirst, NoRoundRobin
<1> QED BY <1>3, <1>5, <1>6, <1>7, <1>8, <1>10, <1>11, <1>12 DEF RefsSound

(* Nothing else touches the list. *)
LEMMA RefsKept ==
  ASSUME RefsSound, UNCHANGED <<sin, srefs, scur, soff>>
  PROVE  RefsSound'
BY DEF RefsSound, Distinct, Sorted, NoRoundRobin, OfferedInOrder, HigherPriorityFirst,
       SessJobs, SessQueues, PrioOf, Q, J

-----------------------------------------------------------------------------
(* The scenario does not change. *)
LEMMA SameRooms ==
  ASSUME sin' = sin
  PROVE  /\ \A g : HostRoom(sjob, g)' = HostRoom(sjob', g)
         /\ \A u : UserRoom(sjob, u)' = UserRoom(sjob', u)
         /\ \A q : QueueRoom(sjob, q)' = QueueRoom(sjob', q)
         /\ \A q, g : QHostRoom(sjob, q, g)' = QHostRoom(sjob', q, g)
         /\ SessHosts' = SessHosts /\ SessQueues' = SessQueues /\ Users' = Users
         /\ SessJobs' = SessJobs
BY DEF HostRoom, UserRoom, QueueRoom, QHostRoom, OnHost, OfQueue, OfUser, SessJobs, J, Q,
       SessHosts, SessQueues, Users

(* One job more takes one slot at most. *)
LEMMA LessRoom ==
  ASSUME NEW S, NEW T, NEW x, IsFiniteSet(S), T \subseteq S \cup {x}, NEW n \in Int
  PROVE  /\ T \subseteq S => n - Cardinality(T) >= n - Cardinality(S)
         /\ n - Cardinality(T) >= n - Cardinality(S) - 1
         /\ n - Cardinality(S) \in Int /\ n - Cardinality(T) \in Int
<1>1. IsFiniteSet(S \cup {x}) /\ Cardinality(S) \in Nat /\ Cardinality(S \cup {x}) <= Cardinality(S) + 1
      /\ Cardinality(S \cup {x}) \in Nat
  BY FS_AddElement, FS_CardinalityType
<1>2. Cardinality(T) \in Nat /\ Cardinality(T) <= Cardinality(S \cup {x})
  BY <1>1, FS_Subset, FS_CardinalityType
<1>3. T \subseteq S => Cardinality(T) <= Cardinality(S)
  BY FS_Subset
<1> QED BY <1>1, <1>2, <1>3

(* A job that is started where there is room keeps the limits. *)
LEMMA LimitsStep ==
  ASSUME SessionType, JobLimitsKept, sin' = sin, NEW j \in SessJobs, NEW h \in SessHosts,
         \A k \in SessJobs : k # j => sjob'[k] = sjob[k],
         sjob'[j].st \in Active =>
            /\ sjob'[j].host = h
            /\ HostRoom(sjob, h) > 0 /\ UserRoom(sjob, J(j).user) > 0
            /\ QueueRoom(sjob, J(j).queue) > 0 /\ QHostRoom(sjob, J(j).queue, h) > 0
  PROVE  JobLimitsKept'
<1>0. /\ \A g : IsFiniteSet(OnHost(sjob, g))
      /\ \A q : IsFiniteSet(OfQueue(sjob, q))
      /\ \A u : IsFiniteSet(OfUser(sjob, u))
      /\ \A q, g : IsFiniteSet(OfQueue(sjob, q) \cap OnHost(sjob, g))
  BY RoomTypes, Zenon DEF SessionType
<1>t. /\ \A g \in SessHosts : sin.hosts[g] \in Nat
      /\ \A u \in Users : sin.users[u] \in Nat
      /\ \A q \in SessQueues : Q(q).max \in Nat /\ Q(q).hjl \in Nat
  BY ScenarioTypes DEF SessionType
<1>1. ASSUME NEW g \in SessHosts PROVE HostRoom(sjob', g) >= 0
  <2>1. OnHost(sjob', g) \subseteq OnHost(sjob, g) \cup {j}
    BY DEF OnHost, Active
  <2>2. g # h \/ sjob'[j].st \notin Active => OnHost(sjob', g) \subseteq OnHost(sjob, g)
    BY DEF OnHost, Active
  <2>3. HostRoom(sjob, g) >= 0
    BY DEF JobLimitsKept
  <2>4. /\ OnHost(sjob', g) \subseteq OnHost(sjob, g) => HostRoom(sjob', g) >= HostRoom(sjob, g)
        /\ HostRoom(sjob', g) >= HostRoom(sjob, g) - 1
        /\ HostRoom(sjob, g) \in Int /\ HostRoom(sjob', g) \in Int
    <3> DEFINE S == OnHost(sjob, g)
               T == OnHost(sjob', g)
    <3>1. IsFiniteSet(S) /\ sin.hosts[g] \in Int /\ T \subseteq S \cup {j}
      BY <1>0, <1>t, <2>1
    <3> HIDE DEF S, T
    <3>2. /\ T \subseteq S => sin.hosts[g] - Cardinality(T) >= sin.hosts[g] - Cardinality(S)
          /\ sin.hosts[g] - Cardinality(T) >= sin.hosts[g] - Cardinality(S) - 1
          /\ sin.hosts[g] - Cardinality(S) \in Int /\ sin.hosts[g] - Cardinality(T) \in Int
      BY <3>1, LessRoom, Zenon
    <3> QED BY <3>2 DEF HostRoom, S, T
  <2> QED BY <2>2, <2>3, <2>4
<1>2. ASSUME NEW u \in Users PROVE UserRoom(sjob', u) >= 0
  <2>1. OfUser(sjob', u) \subseteq OfUser(sjob, u) \cup {j}
    BY DEF OfUser, Active
  <2>2. u # J(j).user \/ sjob'[j].st \notin Active => OfUser(sjob', u) \subseteq OfUser(sjob, u)
    BY DEF OfUser, Active
  <2>3. UserRoom(sjob, u) >= 0
    BY DEF JobLimitsKept
  <2>4. /\ OfUser(sjob', u) \subseteq OfUser(sjob, u) => UserRoom(sjob', u) >= UserRoom(sjob, u)
        /\ UserRoom(sjob', u) >= UserRoom(sjob, u) - 1
        /\ UserRoom(sjob, u) \in Int /\ UserRoom(sjob', u) \in Int
    <3> DEFINE S == OfUser(sjob, u)
               T == OfUser(sjob', u)
    <3>1. IsFiniteSet(S) /\ sin.users[u] \in Int /\ T \subseteq S \cup {j}
      BY <1>0, <1>t, <2>1
    <3> HIDE DEF S, T
    <3>2. /\ T \subseteq S => sin.users[u] - Cardinality(T) >= sin.users[u] - Cardinality(S)
          /\ sin.users[u] - Cardinality(T) >= sin.users[u] - Cardinality(S) - 1
          /\ sin.users[u] - Cardinality(S) \in Int /\ sin.users[u] - Cardinality(T) \in Int
      BY <3>1, LessRoom, Zenon
    <3> QED BY <3>2 DEF UserRoom, S, T
  <2> QED BY <2>2, <2>3, <2>4
<1>3. ASSUME NEW q \in SessQueues PROVE QueueRoom(sjob', q) >= 0
  <2>1. OfQueue(sjob', q) \subseteq OfQueue(sjob, q) \cup {j}
    BY DEF OfQueue, Active
  <2>2. q # J(j).queue \/ sjob'[j].st \notin Active => OfQueue(sjob', q) \subseteq OfQueue(sjob, q)
    BY DEF OfQueue, Active
  <2>3. QueueRoom(sjob, q) >= 0
    BY DEF JobLimitsKept
  <2>4. /\ OfQueue(sjob', q) \subseteq OfQueue(sjob, q) => QueueRoom(sjob', q) >= QueueRoom(sjob, q)
        /\ QueueRoom(sjob', q) >= QueueRoom(sjob, q) - 1
        /\ QueueRoom(sjob, q) \in Int /\ QueueRoom(sjob', q) \in Int
    <3> DEFINE S == OfQueue(sjob, q)
               T == OfQueue(sjob', q)
    <3>1. IsFiniteSet(S) /\ Q(q).max \in Int /\ T \subseteq S \cup {j}
      BY <1>0, <1>t, <2>1, SMTT(30)
    <3> HIDE DEF S, T
    <3>2. /\ T \subseteq S => Q(q).max - Cardinality(T) >= Q(q).max - Cardinality(S)
          /\ Q(q).max - Cardinality(T) >= Q(q).max - Cardinality(S) - 1
          /\ Q(q).max - Cardinality(S) \in Int /\ Q(q).max - Cardinality(T) \in Int
      BY <3>1, LessRoom, Zenon
    <3> QED BY <3>2 DEF QueueRoom, S, T
  <2> QED BY <2>2, <2>3, <2>4
<1>4. ASSUME NEW q \in SessQueues, NEW g \in SessHosts PROVE QHostRoom(sjob', q, g) >= 0
  <2> DEFINE S == OfQueue(sjob, q) \cap OnHost(sjob, g)
             T == OfQueue(sjob', q) \cap OnHost(sjob', g)
  <2>1. T \subseteq S \cup {j}
    BY DEF OfQueue, OnHost, Active
  <2>2. q # J(j).queue \/ g # h \/ sjob'[j].st \notin Active => T \subseteq S
    BY DEF OfQueue, OnHost, Active
  <2>3. QHostRoom(sjob, q, g) >= 0
    BY DEF JobLimitsKept
  <2>4. /\ T \subseteq S => QHostRoom(sjob', q, g) >= QHostRoom(sjob, q, g)
        /\ QHostRoom(sjob', q, g) >= QHostRoom(sjob, q, g) - 1
        /\ QHostRoom(sjob, q, g) \in Int /\ QHostRoom(sjob', q, g) \in Int
    <3>0. IsFiniteSet(S)
      BY <1>0, Zenon
    <3> HIDE DEF S, T
    <3>1. Q(q).hjl \in Int
      BY <1>t, SMTT(30)
    <3>2. /\ T \subseteq S => Q(q).hjl - Cardinality(T) >= Q(q).hjl - Cardinality(S)
          /\ Q(q).hjl - Cardinality(T) >= Q(q).hjl - Cardinality(S) - 1
          /\ Q(q).hjl - Cardinality(S) \in Int /\ Q(q).hjl - Cardinality(T) \in Int
      BY <2>1, <3>0, <3>1, LessRoom, Zenon
    <3> QED BY <3>2 DEF QHostRoom, S, T
  <2> QED BY <2>2, <2>3, <2>4
<1> QED BY <1>1, <1>2, <1>3, <1>4, SameRooms DEF JobLimitsKept

(* What updQaccount, updUserData and updHostData leave in the tables. *)
LEMMA TablesUpdated ==
  ASSUME SessionType, NEW q \in SessQueues, NEW h \in SessHosts, NEW u \in Users
  PROVE  /\ updQaccount(sjob', q, h) \in [SessQueues -> [0..Len(sin.hosts) -> Reasons]]
         /\ updQaccount(sjob', q, h)[q][0] = "quelimit" <=> QueueRoom(sjob', q) <= 0
         /\ updQaccount(sjob', q, h)[q][h] = "quehostlimit" <=> QHostRoom(sjob', q, h) <= 0
         /\ \A p \in SessQueues, g \in 0..Len(sin.hosts) :
              p # q \/ g \notin {0, h} => updQaccount(sjob', q, h)[p][g] = sqr[p][g]
         /\ updUserData(sjob', u) \in [Users -> Reasons]
         /\ updHostData(sjob', h) \in [SessHosts -> Reasons]
         /\ updHostData(sjob', h)[h] = "hostlimit" => HostRoom(sjob', h) <= 0
         /\ \A g \in SessHosts : g # h => updHostData(sjob', h)[g] = shr[g]
<1>1. /\ h \in 0..Len(sin.hosts) /\ 0 \in 0..Len(sin.hosts) /\ h # 0
      /\ SessHosts = 1..Len(sin.hosts)
  BY ScenarioTypes, SMTT(30) DEF SessionType
<1>2. /\ "quelimit" \in Reasons /\ "quehostlimit" \in Reasons /\ "userlimit" \in Reasons
      /\ "hostlimit" \in Reasons /\ "" \in Reasons
  BY DEF Reasons
<1>3. /\ sqr \in [SessQueues -> [0..Len(sin.hosts) -> Reasons]]
      /\ sur \in [Users -> Reasons] /\ shr \in [SessHosts -> Reasons]
  BY DEF SessionType
<1> DEFINE a == SET_REASON(QueueRoom(sjob', q) <= 0, sqr[q][0], "quelimit")
           b == SET_REASON(QHostRoom(sjob', q, h) <= 0, sqr[q][h], "quehostlimit")
           row == [[sqr[q] EXCEPT ![0] = a] EXCEPT ![h] = b]
           d == SET_REASON(UserRoom(sjob', u) <= 0, sur[u], "userlimit")
           e == IF HostRoom(sjob', h) <= 0 THEN "hostlimit" ELSE CLEAR_REASON(shr[h], "hostlimit")
<1>4. /\ a \in Reasons /\ (a = "quelimit" <=> QueueRoom(sjob', q) <= 0)
      /\ b \in Reasons /\ (b = "quehostlimit" <=> QHostRoom(sjob', q, h) <= 0)
      /\ d \in Reasons /\ e \in Reasons /\ (e = "hostlimit" => HostRoom(sjob', h) <= 0)
  <2>1. sqr[q][0] \in Reasons /\ sqr[q][h] \in Reasons /\ sur[u] \in Reasons /\ shr[h] \in Reasons
    BY <1>1, <1>3
  <2>2. a \in Reasons /\ (a = "quelimit" <=> QueueRoom(sjob', q) <= 0)
    BY <2>1, <1>2, Zenon DEF SET_REASON, CLEAR_REASON
  <2>3. b \in Reasons /\ (b = "quehostlimit" <=> QHostRoom(sjob', q, h) <= 0)
    BY <2>1, <1>2, Zenon DEF SET_REASON, CLEAR_REASON
  <2>4. d \in Reasons
    BY <2>1, <1>2, Zenon DEF SET_REASON, CLEAR_REASON
  <2>5. e \in Reasons /\ (e = "hostlimit" => HostRoom(sjob', h) <= 0)
    BY <2>1, <1>2, Zenon DEF SET_REASON, CLEAR_REASON
  <2> QED BY <2>2, <2>3, <2>4, <2>5
<1>5. updQaccount(sjob', q, h) = [sqr EXCEPT ![q] = row]
  BY <1>1, <1>3, Zenon DEF updQaccount
<1>6. updUserData(sjob', u) = [sur EXCEPT ![u] = d] /\ updHostData(sjob', h) = [shr EXCEPT ![h] = e]
  BY <1>3 DEF updUserData, updHostData
<1> HIDE DEF a, b, d, e
<1>7. /\ row \in [0..Len(sin.hosts) -> Reasons] /\ row[0] = a /\ row[h] = b
      /\ \A g \in 0..Len(sin.hosts) : g \notin {0, h} => row[g] = sqr[q][g]
  BY <1>1, <1>3, <1>4, Zenon
<1> HIDE DEF row
<1> QED BY <1>1, <1>3, <1>4, <1>5, <1>6, <1>7

(* A dispatch keeps the limits and their reasons (dispatchToCandHost). *)
LEMMA DispatchStep ==
  ASSUME SessionType, LimitsCached, JobLimitsKept, sin' = sin, NEW j \in SessJobs, SessDispatched(j)
  PROVE  SessionType' /\ LimitsCached' /\ JobLimitsKept'
<1>1. PICK F \in SUBSET getJUsableNow(j), h \in getJUsableNow(j) :
        /\ sjob' = [sjob EXCEPT ![j] = [st |-> "run", host |-> h]]
        /\ sqr' = setExecHostsAcceptInterval(updQaccount(sjob', J(j).queue, h), j, h)
        /\ sur' = updUserData(sjob', J(j).user)
        /\ shr' = [g \in SessHosts |-> IF g = h THEN updHostData(sjob', h)[h] ELSE Failed(F)[g]]
  <2>1. PICK F \in SUBSET getJUsableNow(j) : \E h \in getJUsableNow(j) \ F :
          LET job == [sjob EXCEPT ![j] = [st |-> "run", host |-> h]] IN
          /\ sjob' = job
          /\ sqr' = setExecHostsAcceptInterval(updQaccount(job, J(j).queue, h), j, h)
          /\ sur' = updUserData(job, J(j).user)
          /\ shr' = [g \in SessHosts |-> IF g = h THEN updHostData(job, h)[h] ELSE Failed(F)[g]]
    BY Zenon DEF SessDispatched
  <2>2. PICK h \in getJUsableNow(j) \ F :
          LET job == [sjob EXCEPT ![j] = [st |-> "run", host |-> h]] IN
          /\ sjob' = job
          /\ sqr' = setExecHostsAcceptInterval(updQaccount(job, J(j).queue, h), j, h)
          /\ sur' = updUserData(job, J(j).user)
          /\ shr' = [g \in SessHosts |-> IF g = h THEN updHostData(job, h)[h] ELSE Failed(F)[g]]
    BY <2>1, Zenon
  <2> QED BY <2>2, Zenon
<1> DEFINE q == J(j).queue
<1>2. /\ h \in SessHosts /\ h \in Nat /\ h # 0 /\ 0 \in 0..Len(sin.hosts) /\ h \in 0..Len(sin.hosts)
      /\ q \in SessQueues /\ J(j).user \in Users
      /\ SessHosts = 1..Len(sin.hosts)
  <2>1. h \in SessHosts
    BY <1>1, Zenon DEF getJUsableNow
  <2>2. q \in SessQueues /\ J(j).user \in Users
        /\ SessHosts = 1..Len(sin.hosts) /\ Len(sin.hosts) \in Nat
    BY ScenarioTypes, Zenon DEF SessionType
  <2>3. h \in Nat /\ h # 0 /\ 0 \in 0..Len(sin.hosts) /\ h \in 0..Len(sin.hosts)
    BY <2>1, <2>2
  <2> QED BY <2>1, <2>2, <2>3
<1>3. /\ HostRoom(sjob, h) > 0 /\ QHostRoom(sjob, q, h) > 0
      /\ QueueRoom(sjob, q) > 0 /\ UserRoom(sjob, J(j).user) > 0
  <2>1. HostRoom(sjob, h) > 0 /\ QHostRoom(sjob, q, h) > 0
    BY <1>1, Zenon DEF getJUsableNow
  <2>2. sqr[q][0] # "quelimit" /\ sur[J(j).user] # "userlimit"
    BY DEF SessDispatched, readyToDisp
  <2>3. QueueRoom(sjob, q) \in Int /\ UserRoom(sjob, J(j).user) \in Int
    BY <1>2, RoomTypes, Zenon DEF SessionType
  <2>4. ~(QueueRoom(sjob, q) <= 0) /\ ~(UserRoom(sjob, J(j).user) <= 0)
    BY <2>2, <1>2 DEF LimitsCached
  <2> QED BY <2>1, <2>3, <2>4
<1>4. sjob[j].st = "pend"
  BY Zenon DEF SessDispatched, readyToDisp
<1>5. /\ sjob' \in [SessJobs -> [st : JobStates, host : Nat]]
      /\ sjob'[j].host = h /\ sjob'[j].st = "run"
      /\ \A k \in SessJobs : k # j => sjob'[k] = sjob[k]
  BY <1>1, <1>2, Zenon DEF SessionType, JobStates, Active
<1>6. /\ updQaccount(sjob', q, h) \in [SessQueues -> [0..Len(sin.hosts) -> Reasons]]
      /\ updQaccount(sjob', q, h)[q][0] = "quelimit" <=> QueueRoom(sjob', q) <= 0
      /\ updQaccount(sjob', q, h)[q][h] = "quehostlimit" <=> QHostRoom(sjob', q, h) <= 0
      /\ \A p \in SessQueues, g \in 0..Len(sin.hosts) :
           p # q \/ g \notin {0, h} => updQaccount(sjob', q, h)[p][g] = sqr[p][g]
      /\ updUserData(sjob', J(j).user) \in [Users -> Reasons]
      /\ updHostData(sjob', h) \in [SessHosts -> Reasons]
      /\ updHostData(sjob', h)[h] = "hostlimit" => HostRoom(sjob', h) <= 0
  BY <1>2, TablesUpdated, ZenonT(40)
<1>7. /\ sqr' \in [SessQueues -> [0..Len(sin.hosts) -> Reasons]]
      /\ \A p \in SessQueues : sqr'[p][0] = updQaccount(sjob', q, h)[p][0]
      /\ \A p \in SessQueues, g \in SessHosts :
           sqr'[p][g] = "quehostlimit" => updQaccount(sjob', q, h)[p][g] = "quehostlimit"
  <2> DEFINE qr == updQaccount(sjob', q, h)
  <2>1. sqr' = [p \in SessQueues |-> [qr[p] EXCEPT ![h] =
                  IF Q(q).accept /\ ~OUT_SCHED_RS(qr[p][h]) THEN "accept" ELSE qr[p][h]]]
    BY <1>1 DEF setExecHostsAcceptInterval
  <2>2. qr \in [SessQueues -> [0..Len(sin.hosts) -> Reasons]]
    BY <1>6
  <2> HIDE DEF qr
  <2>3. sqr' \in [SessQueues -> [0..Len(sin.hosts) -> Reasons]]
    <3>1. "accept" \in Reasons
      BY DEF Reasons
    <3> QED BY <2>1, <2>2, <3>1, <1>2
  <2>4. \A p \in SessQueues : sqr'[p][0] = qr[p][0]
    BY <2>1, <2>2, <1>2
  <2>5. \A p \in SessQueues, g \in SessHosts : sqr'[p][g] = "quehostlimit" => qr[p][g] = "quehostlimit"
    BY <2>1, <2>2, <1>2
  <2> QED BY <2>3, <2>4, <2>5 DEF qr
<1>8. /\ sur' \in [Users -> Reasons]
      /\ shr' \in [SessHosts -> Reasons]
      /\ shr'[h] = "hostlimit" => HostRoom(sjob', h) <= 0
      /\ \A g \in SessHosts : g # h /\ shr'[g] = "hostlimit" => shr[g] = "hostlimit"
  <2>1. sur' \in [Users -> Reasons]
    BY <1>1, <1>6, Zenon
  <2>2. updHostData(sjob', h)[h] \in Reasons
    BY <1>2, <1>6, Zenon
  <2>3. \A g \in SessHosts : /\ Failed(F)[g] \in Reasons
                             /\ Failed(F)[g] = "hostlimit" => shr[g] = "hostlimit"
    BY Zenon DEF Failed, SessionType, Reasons
  <2> QED BY <2>1, <2>2, <2>3, <1>1, <1>2, <1>6, Zenon
<1>9. SessionType'
  <2>1. \A k \in SessJobs : sjob'[k].st \in Active => sjob'[k].host \in SessHosts
    BY <1>5, <1>2 DEF SessionType
  <2> QED BY <2>1, <1>5, <1>7, <1>8, SameRooms, Zenon DEF SessionType
<1>10. LimitsCached'
  <2>1. sqr'[q][0] = "quelimit" <=> QueueRoom(sjob', q) <= 0
    BY <1>2, <1>6, <1>7
  <2>2. \A p \in SessQueues : p # q => sqr'[p][0] = sqr[p][0]
    BY <1>2, <1>6, <1>7
  <2>3. sqr'[q][h] = "quehostlimit" => QHostRoom(sjob', q, h) <= 0
    BY <1>2, <1>6, <1>7
  <2>4. ASSUME NEW p \in SessQueues, NEW g \in SessHosts, p # q \/ g # h, sqr'[p][g] = "quehostlimit"
        PROVE sqr[p][g] = "quehostlimit"
    <3>1. g \in 0..Len(sin.hosts) /\ g # 0
      BY <1>2
    <3> QED BY <3>1, <2>4, <1>2, <1>6, <1>7
  <2>5. sjob[j].st \in Active => sjob[j].host = h
    BY <1>4 DEF Active
  <2>6. sjob'[j].st \in Active => sjob'[j].host = h
    BY <1>5
  <2>7. sur' = updUserData(sjob', J(j).user) /\ h \in SessHosts
    BY <1>1, <1>2, Zenon
  <2>8. \A p \in SessQueues, g \in SessHosts :
          (p # q \/ g # h) /\ sqr'[p][g] = "quehostlimit" => sqr[p][g] = "quehostlimit"
    BY <2>4
  <2>9. /\ shr'[h] = "hostlimit" => HostRoom(sjob', h) <= 0
        /\ \A g \in SessHosts : g # h /\ shr'[g] = "hostlimit" => shr[g] = "hostlimit"
        /\ \A k \in SessJobs : k # j => sjob'[k] = sjob[k]
    BY <1>8, <1>5
  <2> QED BY <2>1, <2>2, <2>3, <2>5, <2>6, <2>7, <2>8, <2>9, ChargedStep, Zenon
<1>11. JobLimitsKept'
  BY <1>2, <1>3, <1>5, LimitsStep
<1> QED BY <1>9, <1>10, <1>11

(* So does the end of a job. *)
LEMMA FinishStep ==
  ASSUME SessionType, LimitsCached, JobLimitsKept, NEW j \in SessJobs, jobFinished(j)
  PROVE  SessionType' /\ LimitsCached' /\ JobLimitsKept'
<1> DEFINE h == sjob[j].host
           q == J(j).queue
<1>0. sin' = sin
  BY DEF jobFinished, SessionKept
<1>1. /\ sjob' = [sjob EXCEPT ![j].st = "done"]
      /\ sqr' = updQaccount(sjob', q, h)
      /\ sur' = updUserData(sjob', J(j).user)
      /\ shr' = updHostData(sjob', h)
  BY DEF jobFinished, updCountersOf
<1>2. h \in SessHosts /\ q \in SessQueues /\ J(j).user \in Users
      /\ SessHosts = 1..Len(sin.hosts) /\ Len(sin.hosts) \in Nat
  <2>1. sjob[j].st \in Active
    BY DEF jobFinished, Active
  <2> QED BY <2>1, ScenarioTypes DEF SessionType
<1>3. /\ sjob' \in [SessJobs -> [st : JobStates, host : Nat]]
      /\ sjob'[j].host = h /\ sjob'[j].st = "done"
      /\ \A k \in SessJobs : k # j => sjob'[k] = sjob[k]
  BY <1>1 DEF SessionType, JobStates
<1> HIDE DEF h, q
<1>4. /\ sqr' \in [SessQueues -> [0..Len(sin.hosts) -> Reasons]]
      /\ sqr'[q][0] = "quelimit" <=> QueueRoom(sjob', q) <= 0
      /\ sqr'[q][h] = "quehostlimit" <=> QHostRoom(sjob', q, h) <= 0
      /\ \A p \in SessQueues, g \in 0..Len(sin.hosts) :
           p # q \/ g \notin {0, h} => sqr'[p][g] = sqr[p][g]
      /\ sur' \in [Users -> Reasons]
      /\ shr' \in [SessHosts -> Reasons]
      /\ shr'[h] = "hostlimit" => HostRoom(sjob', h) <= 0
      /\ \A g \in SessHosts : g # h => shr'[g] = shr[g]
  <2> DEFINE u == J(j).user
  <2> HIDE DEF u
  <2>1. /\ updQaccount(sjob', q, h) \in [SessQueues -> [0..Len(sin.hosts) -> Reasons]]
        /\ updQaccount(sjob', q, h)[q][0] = "quelimit" <=> QueueRoom(sjob', q) <= 0
        /\ updQaccount(sjob', q, h)[q][h] = "quehostlimit" <=> QHostRoom(sjob', q, h) <= 0
        /\ \A p \in SessQueues, g \in 0..Len(sin.hosts) :
             p # q \/ g \notin {0, h} => updQaccount(sjob', q, h)[p][g] = sqr[p][g]
        /\ updUserData(sjob', u) \in [Users -> Reasons]
        /\ updHostData(sjob', h) \in [SessHosts -> Reasons]
        /\ updHostData(sjob', h)[h] = "hostlimit" => HostRoom(sjob', h) <= 0
        /\ \A g \in SessHosts : g # h => updHostData(sjob', h)[g] = shr[g]
    <3>1. u \in Users
      BY <1>2 DEF u
    <3> QED BY <3>1, <1>2, TablesUpdated, Zenon
  <2>2. sqr' = updQaccount(sjob', q, h) /\ sur' = updUserData(sjob', u) /\ shr' = updHostData(sjob', h)
    BY <1>1 DEF u
  <2> QED BY <2>1, <2>2, Zenon
<1>5. SessionType'
  <2>1. \A k \in SessJobs : sjob'[k].st \in Active => sjob'[k].host \in SessHosts
    BY <1>3, <1>2 DEF SessionType, Active
  <2> QED BY <2>1, <1>0, <1>3, <1>4, SameRooms DEF SessionType
<1>6. LimitsCached'
  <2>1. sjob[j].st \in Active => sjob[j].host = h
    BY DEF h
  <2>2. sjob'[j].st \in Active => sjob'[j].host = h
    BY <1>3
  <2>3. \A p \in SessQueues : p # q => sqr'[p][0] = sqr[p][0]
    BY <1>4, <1>2
  <2>4. \A p \in SessQueues, g \in SessHosts :
          (p # q \/ g # h) /\ sqr'[p][g] = "quehostlimit" => sqr[p][g] = "quehostlimit"
    <3> SUFFICES ASSUME NEW p \in SessQueues, NEW g \in SessHosts, p # q \/ g # h
                 PROVE  sqr'[p][g] = sqr[p][g]
      OBVIOUS
    <3>1. g \in 0..Len(sin.hosts) /\ g # 0
      BY <1>2
    <3> QED BY <3>1, <1>4
  <2>5. \A g \in SessHosts : g # h /\ shr'[g] = "hostlimit" => shr[g] = "hostlimit"
    BY <1>4
  <2>6. /\ sqr'[J(j).queue][0] = "quelimit" <=> QueueRoom(sjob', J(j).queue) <= 0
        /\ sqr'[J(j).queue][h] = "quehostlimit" => QHostRoom(sjob', J(j).queue, h) <= 0
        /\ shr'[h] = "hostlimit" => HostRoom(sjob', h) <= 0
    BY <1>4 DEF q
  <2>7. q = J(j).queue
    BY DEF q
  <2>8. \A p \in SessQueues : p # J(j).queue => sqr'[p][0] = sqr[p][0]
    BY <2>3, <2>7
  <2>9. \A p \in SessQueues, g \in SessHosts :
          (p # J(j).queue \/ g # h) /\ sqr'[p][g] = "quehostlimit" => sqr[p][g] = "quehostlimit"
    BY <2>4, <2>7
  <2>10. sur' = updUserData(sjob', J(j).user) /\ h \in SessHosts
    BY <1>1, <1>2
  <2>11. \A k \in SessJobs : k # j => sjob'[k] = sjob[k]
    BY <1>3
  <2> QED BY <1>0, <2>1, <2>2, <2>5, <2>6, <2>8, <2>9, <2>10, <2>11, ChargedStep, Zenon
<1>7. JobLimitsKept'
  BY <1>0, <1>2, <1>3, LimitsStep DEF Active
<1> QED BY <1>5, <1>6, <1>7

(* So do changes of the jobs that do not change the counters, *)
LEMMA QuietJobs ==
  ASSUME SessionType, LimitsCached, JobLimitsKept,
         UNCHANGED <<sin, Tables>>,
         sjob' \in [SessJobs -> [st : JobStates, host : Nat]],
         \A j \in SessJobs : /\ sjob'[j].st \in Active <=> sjob[j].st \in Active
                             /\ sjob'[j].host = sjob[j].host
  PROVE  SessionType' /\ LimitsCached' /\ JobLimitsKept'
<1>1. sin' = sin /\ sur' = sur /\ shr' = shr /\ sqr' = sqr
  BY DEF Tables
<1>2. LimitsCached' /\ JobLimitsKept'
  BY <1>1, QuietStep
<1>3. SessionType'
  BY <1>1, SameRooms DEF SessionType
<1> QED BY <1>2, <1>3

(* of one job in particular. *)
LEMMA OneQuietJob ==
  ASSUME SessionType, LimitsCached, JobLimitsKept,
         UNCHANGED <<sin, Tables>>, NEW j \in SessJobs, NEW st \in JobStates,
         sjob' = [sjob EXCEPT ![j].st = st],
         st \in Active <=> sjob[j].st \in Active
  PROVE  SessionType' /\ LimitsCached' /\ JobLimitsKept'
<1>1. sjob' \in [SessJobs -> [st : JobStates, host : Nat]]
  BY DEF SessionType
<1>2. \A k \in SessJobs : /\ sjob'[k].st \in Active <=> sjob[k].st \in Active
                          /\ sjob'[k].host = sjob[k].host
  BY DEF SessionType
<1> QED BY <1>1, <1>2, QuietJobs

-----------------------------------------------------------------------------
(* The invariant holds at first, *)
LEMMA SessionStarts == SessionStart => SessionInv
<1> SUFFICES ASSUME SessionStart PROVE SessionInv
  OBVIOUS
<1>0. \A j \in SessJobs : sjob[j].st = J(j).st /\ J(j).st \in {"new", "pend", "psusp"}
  <2>1. \A j \in SessJobs : sjob[j] = [st |-> J(j).st, host |-> 0]
    BY Zenon DEF SessionStart, SessionInit, SessJobs, J
  <2>2. \A j \in SessJobs : J(j).st \in {"new", "pend", "psusp"}
    BY ScenarioTypes DEF SessionStart
  <2>3. ASSUME NEW j \in SessJobs PROVE sjob[j].st = J(j).st
    <3>1. sjob[j] = [st |-> J(j).st, host |-> 0]
      BY <2>1
    <3> QED BY <3>1
  <2> QED BY <2>2, <2>3
<1>s. sqr = [q \in SessQueues |-> [h \in 0..Len(sin.hosts) |->
              IF h = 0 /\ Q(q).max <= 0 THEN "quelimit" ELSE ""]]
  BY Zenon DEF SessionStart, SessionInit, SessQueues, Q, SET_REASON, CLEAR_REASON
<1>1. SessionType
  <2>1. sjob \in [SessJobs -> [st : JobStates, host : Nat]]
    <3>1. sjob = [j \in SessJobs |-> [st |-> J(j).st, host |-> 0]]
      BY Zenon DEF SessionStart, SessionInit, SessJobs, J
    <3> QED BY <3>1, <1>0 DEF JobStates
  <2>2. \A j \in SessJobs : sjob[j].st \notin Active
    BY <1>0 DEF Active
  <2>3. "" \in Reasons /\ "quelimit" \in Reasons /\ "userlimit" \in Reasons
    BY DEF Reasons
  <2>4. shr \in [SessHosts -> Reasons]
    BY <2>3, Zenon DEF SessionStart, SessionInit, SessHosts
  <2>5. sqr \in [SessQueues -> [0..Len(sin.hosts) -> Reasons]]
    BY <2>3, <1>s, Zenon
  <2>6. sur \in [Users -> Reasons]
    BY <2>3, Zenon DEF SessionStart, SessionInit, Users, SET_REASON, CLEAR_REASON
  <2> QED BY <2>1, <2>2, <2>4, <2>5, <2>6 DEF SessionStart, SessionType
<1>2. /\ \A h : OnHost(sjob, h) = {} /\ \A q : OfQueue(sjob, q) = {} /\ \A u : OfUser(sjob, u) = {}
      /\ \A q, h : OfQueue(sjob, q) \cap OnHost(sjob, h) = {}
  <2>1. \A j \in SessJobs : sjob[j].st \notin {"run", "ssusp"}
    BY <1>0
  <2> QED BY <2>1 DEF OnHost, OfQueue, OfUser
<1>3. /\ \A h \in SessHosts : HostRoom(sjob, h) = sin.hosts[h] /\ sin.hosts[h] \in Nat
      /\ \A u \in Users : UserRoom(sjob, u) = sin.users[u] /\ sin.users[u] \in Nat
      /\ \A q \in SessQueues : QueueRoom(sjob, q) = Q(q).max /\ Q(q).max \in Nat
      /\ \A q \in SessQueues, h \in SessHosts : QHostRoom(sjob, q, h) = Q(q).hjl /\ Q(q).hjl \in Nat
  <2>1. Cardinality({}) = 0
    BY FS_EmptySet
  <2>2. /\ \A h \in SessHosts : sin.hosts[h] \in Nat
        /\ \A u \in Users : sin.users[u] \in Nat
        /\ \A q \in SessQueues : Q(q).max \in Nat /\ Q(q).hjl \in Nat
    BY ScenarioTypes DEF SessionStart
  <2>3. \A n \in Nat : n - 0 = n
    OBVIOUS
  <2>4. ASSUME NEW h \in SessHosts PROVE HostRoom(sjob, h) = sin.hosts[h]
    BY <2>1, <2>2, <2>3, <1>2 DEF HostRoom
  <2>5. ASSUME NEW u \in Users PROVE UserRoom(sjob, u) = sin.users[u]
    BY <2>1, <2>2, <2>3, <1>2 DEF UserRoom
  <2>6. ASSUME NEW q \in SessQueues PROVE QueueRoom(sjob, q) = Q(q).max
    BY <2>1, <2>2, <2>3, <1>2 DEF QueueRoom
  <2>7. ASSUME NEW q \in SessQueues, NEW h \in SessHosts PROVE QHostRoom(sjob, q, h) = Q(q).hjl
    BY <2>1, <2>2, <2>3, <1>2, Zenon DEF QHostRoom
  <2> QED BY <2>2, <2>4, <2>5, <2>6, <2>7
<1>4. LimitsCached
  <2>1. \A h \in SessHosts : shr[h] # "hostlimit"
    BY Zenon DEF SessionStart, SessionInit, SessHosts
  <2>2. \A u \in Users : sur[u] = "userlimit" <=> sin.users[u] <= 0
    BY Zenon DEF SessionStart, SessionInit, Users, SET_REASON, CLEAR_REASON
  <2>3. Len(sin.hosts) \in Nat /\ SessHosts = 1..Len(sin.hosts)
    BY ScenarioTypes DEF SessionStart
  <2>4. \A q \in SessQueues, h \in 0..Len(sin.hosts) :
          sqr[q][h] = IF h = 0 /\ Q(q).max <= 0 THEN "quelimit" ELSE ""
    BY <1>s, Zenon
  <2>5. ASSUME NEW q \in SessQueues PROVE sqr[q][0] = "quelimit" <=> Q(q).max <= 0
    <3>0. 0 \in 0..Len(sin.hosts)
      BY <2>3
    <3>1. sqr[q][0] = IF 0 = 0 /\ Q(q).max <= 0 THEN "quelimit" ELSE ""
      BY <3>0, <2>4, Zenon
    <3> QED BY <3>1, Zenon
  <2>6. ASSUME NEW q \in SessQueues, NEW h \in SessHosts PROVE sqr[q][h] # "quehostlimit"
    <3>1. h \in 0..Len(sin.hosts)
      BY <2>3
    <3>2. sqr[q][h] \in {"quelimit", ""}
      BY <3>1, <2>4, Zenon
    <3> QED BY <3>2, Zenon
  <2> QED BY <2>1, <2>2, <2>5, <2>6, <1>3 DEF LimitsCached
<1>5. JobLimitsKept
  BY <1>3 DEF JobLimitsKept
<1>6. RefsSound
  <2>0. srefs = <<>> /\ scur = 0 /\ soff = {}
    BY Zenon DEF SessionStart, SessionInit
  <2>1. srefs = <<>> /\ scur = 0 /\ soff = {} /\ DOMAIN srefs = {}
    BY <2>0
  <2>2. srefs \in Seq(SessJobs)
    BY <2>1
  <2> QED BY <2>1, <2>2 DEF RefsSound, Distinct, Sorted, OfferedInOrder, HigherPriorityFirst
<1> QED BY <1>1, <1>4, <1>5, <1>6 DEF SessionInv

(* and every stage, every round of the loop and every request keeps it. *)
LEMMA SessionGoesOn == SessionInv /\ [SessionNext]_svars => SessionInv'
<1> SUFFICES ASSUME SessionType, LimitsCached, JobLimitsKept, RefsSound, [SessionNext]_svars
             PROVE  SessionType' /\ LimitsCached' /\ JobLimitsKept' /\ RefsSound'
  BY DEF SessionInv
<1>q. ASSUME UNCHANGED <<sin, Tables, sjob>> PROVE SessionType' /\ LimitsCached' /\ JobLimitsKept'
  <2>1. sjob' \in [SessJobs -> [st : JobStates, host : Nat]]
    BY <1>q DEF SessionType
  <2> QED BY <1>q, <2>1, QuietJobs
<1>r. ASSUME sin' = sin, srefs' = <<>>, scur' = 0, soff' = soff PROVE RefsSound'
  <2>1. (soff \subseteq SessJobs)'
    BY <1>r DEF RefsSound, SessJobs
  <2> QED BY <1>r, <2>1 DEF RefsSound, Distinct, Sorted, OfferedInOrder, HigherPriorityFirst
<1>1. CASE M_STAGE_INIT
  <2>1. SessionType' /\ LimitsCached' /\ JobLimitsKept'
    BY <1>1, <1>q DEF M_STAGE_INIT
  <2>2. PJL \in Seq(SessJobs) /\ Distinct(PJL) /\ Sorted(PJL)
    BY PJLSorted
  <2>3. sin' = sin /\ srefs' = PJL /\ scur' = 0 /\ soff' = {}
    BY <1>1 DEF M_STAGE_INIT
  <2>4. SessJobs' = SessJobs /\ \A j : PrioOf(j)' = PrioOf(j)
    BY <2>3 DEF SessJobs, PrioOf, Q, J
  <2>5. Distinct(srefs)' /\ Sorted(srefs)'
    BY <2>2, <2>3, <2>4 DEF Distinct, Sorted
  <2> QED BY <2>1, <2>2, <2>3, <2>4, <2>5 DEF RefsSound, OfferedInOrder, HigherPriorityFirst
<1>2. CASE M_STAGE_GOT_LOAD
  BY <1>2, <1>q, RefsKept DEF M_STAGE_GOT_LOAD
<1>3. CASE M_STAGE_RESUME_SUSP
  <2>1. PICK R \in SUBSET {j \in SessJobs : sjob[j].st = "ssusp"} :
          sjob' = [j \in SessJobs |-> IF j \in R THEN [sjob[j] EXCEPT !.st = "run"] ELSE sjob[j]]
    BY <1>3 DEF M_STAGE_RESUME_SUSP
  <2>2. sjob' \in [SessJobs -> [st : JobStates, host : Nat]]
    BY <2>1 DEF SessionType, JobStates, Active
  <2>3. \A j \in SessJobs : /\ sjob'[j].st \in Active <=> sjob[j].st \in Active
                            /\ sjob'[j].host = sjob[j].host
    BY <2>1 DEF SessionType, Active
  <2>4. UNCHANGED <<sin, Tables, srefs, scur, soff>>
    BY <1>3 DEF M_STAGE_RESUME_SUSP
  <2> QED BY <2>2, <2>3, <2>4, QuietJobs, RefsKept
<1>4. CASE getLsbUsable
  <2>1. /\ UNCHANGED <<sin, sqr, sur, sjob, srefs, scur, soff>>
        /\ shr' = [h \in SessHosts |-> HostReason(h)]
    BY <1>4, Zenon DEF getLsbUsable
  <2>2. shr' \in [SessHosts -> Reasons]
        /\ \A h \in SessHosts : shr'[h] = "hostlimit" => shr[h] = "hostlimit"
    BY <2>1, Zenon DEF HostReason, SessionType, Reasons
  <2>3. LimitsCached' /\ JobLimitsKept'
    BY <2>1, <2>2, QuietStep, Zenon
  <2>4. SessionType'
    BY <2>1, <2>2, SameRooms DEF SessionType
  <2> QED BY <2>1, <2>3, <2>4, RefsKept
<1>5. CASE NoHostUsable
  BY <1>5, <1>q, <1>r DEF NoHostUsable, resetSchedulerSession
<1>6. CASE M_STAGE_QUE_CAND
  <2>1. /\ UNCHANGED <<sin, shr, sur, sjob, srefs, scur, soff>>
        /\ sqr' = [q \in SessQueues |-> [h \in 0..Len(sin.hosts) |-> getQUsable(q, h)]]
    BY <1>6, Zenon DEF M_STAGE_QUE_CAND
  <2>2. \A q \in SessQueues, h \in 0..Len(sin.hosts) :
          /\ getQUsable(q, h) \in Reasons
          /\ h = 0 => getQUsable(q, h) = sqr[q][h]
          /\ getQUsable(q, h) = "quehostlimit" => sqr[q][h] = "quehostlimit"
    <3> SUFFICES ASSUME NEW q \in SessQueues, NEW h \in 0..Len(sin.hosts)
                 PROVE  /\ getQUsable(q, h) \in Reasons
                        /\ h = 0 => getQUsable(q, h) = sqr[q][h]
                        /\ getQUsable(q, h) = "quehostlimit" => sqr[q][h] = "quehostlimit"
      OBVIOUS
    <3>1. sqr[q][h] \in Reasons
      BY DEF SessionType
    <3>2. /\ QueueReason(q, h) \in Reasons
          /\ QueueReason(q, h) = "quehostlimit" => sqr[q][h] = "quehostlimit"
      BY <3>1, Zenon DEF QueueReason, Reasons
    <3> QED BY <3>1, <3>2, Zenon DEF getQUsable
  <2>3. SessHosts = 1..Len(sin.hosts) /\ Len(sin.hosts) \in Nat
    BY ScenarioTypes DEF SessionType
  <2>4. sqr' \in [SessQueues -> [0..Len(sin.hosts) -> Reasons]]
    BY <2>1, <2>2
  <2>5. \A q \in SessQueues : /\ sqr'[q][0] = sqr[q][0]
                              /\ \A h \in SessHosts :
                                   sqr'[q][h] = "quehostlimit" => sqr[q][h] = "quehostlimit"
    BY <2>1, <2>2, <2>3
  <2>6. LimitsCached' /\ JobLimitsKept'
    BY <2>1, <2>5, QuietStep
  <2>7. SessionType'
    BY <2>1, <2>4, SameRooms DEF SessionType
  <2> QED BY <2>1, <2>6, <2>7, RefsKept
<1>7. CASE NothingToSchedule
  BY <1>7, <1>q, <1>r DEF NothingToSchedule, resetSchedulerSession
<1>8. CASE scheduleAndDispatch
  <2>1. sin' = sin /\ srefs # <<>>
    BY <1>8 DEF scheduleAndDispatch, Scheduling
  <2>2. Taken(NextJob)
    BY <1>8 DEF scheduleAndDispatch, NotDispatched, DispatchFails, SessDispatched
  <2>3. RefsSound'
    BY <2>1, <2>2, TakenStep
  <2>4. NextJob \in SessJobs
    <3>1. srefs \in Seq(SessJobs)
      BY DEF RefsSound
    <3> QED BY <2>1, <3>1, NextInList, SeqElements
  <2>5. CASE NotDispatched(NextJob)
    BY <2>1, <2>3, <2>5, <1>q DEF NotDispatched
  <2>6. CASE DispatchFails(NextJob)
    <3>1. UNCHANGED <<sin, sqr, sur, sjob>> /\ \E F : shr' = Failed(F)
      BY <2>1, <2>6 DEF DispatchFails
    <3>2. shr' \in [SessHosts -> Reasons]
          /\ \A h \in SessHosts : shr'[h] = "hostlimit" => shr[h] = "hostlimit"
      BY <3>1, Zenon DEF Failed, SessionType, Reasons
    <3>3. LimitsCached' /\ JobLimitsKept'
      BY <3>1, <3>2, QuietStep
    <3>4. SessionType'
      BY <3>1, <3>2, SameRooms DEF SessionType
    <3> QED BY <3>3, <3>4, <2>3
  <2>7. CASE SessDispatched(NextJob)
    BY <2>1, <2>3, <2>4, <2>7, DispatchStep
  <2> QED BY <1>8, <2>5, <2>6, <2>7 DEF scheduleAndDispatch
<1>9. CASE StayTooLong
  BY <1>9, <1>q, RefsKept DEF StayTooLong
<1>10. ASSUME NEW j \in SessJobs,
              jobSubmitted(j) \/ jobKilled(j) \/ jobStopped(j) \/ jobFinished(j) \/ jobSuspended(j)
       PROVE  SessionType' /\ LimitsCached' /\ JobLimitsKept' /\ RefsSound'
  <2>1. SessionKept
    BY <1>10 DEF jobSubmitted, jobKilled, jobStopped, jobFinished, jobSuspended
  <2>2. RefsSound'
    BY <2>1, RefsKept DEF SessionKept
  <2>3. CASE jobFinished(j)
    BY <2>2, <2>3, FinishStep
  <2>4. CASE ~jobFinished(j)
    <3>1. \E st \in JobStates : /\ sjob' = [sjob EXCEPT ![j].st = st]
                                /\ st \in Active <=> sjob[j].st \in Active
      BY <1>10, <2>4 DEF jobSubmitted, jobKilled, jobStopped, jobSuspended, JobStates, Active
    <3>2. UNCHANGED <<sin, Tables>>
      BY <1>10, <2>1, <2>4 DEF jobSubmitted, jobKilled, jobStopped, jobSuspended, SessionKept
    <3> QED BY <2>2, <3>1, <3>2, OneQuietJob, Zenon
  <2> QED BY <2>3, <2>4
<1>11. ASSUME NEW h \in SessHosts, ctrlHost(h) \/ IntervalOver(h)
       PROVE  SessionType' /\ LimitsCached' /\ JobLimitsKept' /\ RefsSound'
  BY <1>11, <1>q, RefsKept DEF ctrlHost, IntervalOver, SessionKept
<1>12. CASE UNCHANGED svars
  BY <1>12, <1>q, RefsKept DEF svars, Tables
<1> QED BY <1>1, <1>2, <1>3, <1>4, <1>5, <1>6, <1>7, <1>8, <1>9, <1>10, <1>11, <1>12
        DEF SessionNext, SessionStep

(* Through every yield of a session the cached limit reasons are true, no limit
   of a host, queue or user is exceeded, and jobs are offered once and by
   priority (scheduleAndDispatchJobs, updCounters). *)
THEOREM SessionsSound == SessionSpec => []SessionSound
<1>1. SessionInv => SessionSound
  BY Zenon DEF SessionInv, SessionSound, LimitsCached, CachedLimitsTrue, RefsSound
<1> QED BY <1>1, SessionStarts, SessionGoesOn, PTL DEF SessionSpec

(* Only a job that waits or was suspended starts to run. *)
LEMMA OnlyWaitingStarts ==
  ASSUME SessionInv, [SessionNext]_svars, NEW j \in SessJobs,
         sjob[j].st # "run", sjob'[j].st = "run"
  PROVE  sjob[j].st \in {"pend", "ssusp"} /\ sin' = sin
<1>t. SessionType /\ RefsSound /\ sjob \in [SessJobs -> [st : JobStates, host : Nat]]
  BY DEF SessionInv, SessionType
<1>q. ASSUME sjob' = sjob PROVE FALSE
  BY <1>q
<1>1. CASE M_STAGE_RESUME_SUSP
  <2>1. PICK R \in SUBSET {k \in SessJobs : sjob[k].st = "ssusp"} :
          sjob' = [k \in SessJobs |-> IF k \in R THEN [sjob[k] EXCEPT !.st = "run"] ELSE sjob[k]]
    BY <1>1, Zenon DEF M_STAGE_RESUME_SUSP
  <2>2. j \in R
    BY <2>1
  <2> QED BY <2>2, <1>1 DEF M_STAGE_RESUME_SUSP
<1>2. CASE scheduleAndDispatch
  <2>1. SessDispatched(NextJob) /\ sin' = sin
    BY <1>2, <1>q DEF scheduleAndDispatch, NotDispatched, DispatchFails
  <2>2. sjob[NextJob].st = "pend"
    BY <2>1, Zenon DEF SessDispatched, readyToDisp
  <2>3. \E h : sjob' = [sjob EXCEPT ![NextJob] = [st |-> "run", host |-> h]]
    BY <2>1, Zenon DEF SessDispatched
  <2>4. j = NextJob
    BY <2>3, <1>t
  <2> QED BY <2>1, <2>2, <2>4
<1>3. ASSUME NEW k \in SessJobs,
             jobSubmitted(k) \/ jobKilled(k) \/ jobStopped(k) \/ jobFinished(k) \/ jobSuspended(k)
      PROVE  FALSE
  <2>1. \E st \in JobStates : st # "run" /\ sjob' = [sjob EXCEPT ![k].st = st]
    BY <1>3 DEF jobSubmitted, jobKilled, jobStopped, jobSuspended, jobFinished, updCountersOf,
                JobStates, Active
  <2> QED BY <2>1, <1>t
<1>4. CASE \/ M_STAGE_INIT \/ M_STAGE_GOT_LOAD \/ getLsbUsable \/ NoHostUsable
           \/ M_STAGE_QUE_CAND \/ NothingToSchedule \/ StayTooLong
  BY <1>4, <1>q, Zenon DEF M_STAGE_INIT, M_STAGE_GOT_LOAD, getLsbUsable, NoHostUsable, M_STAGE_QUE_CAND,
                    NothingToSchedule, StayTooLong, resetSchedulerSession
<1>5. CASE \E h \in SessHosts : ctrlHost(h) \/ IntervalOver(h)
  BY <1>5, <1>q, Zenon DEF ctrlHost, IntervalOver
<1>6. CASE UNCHANGED svars
  BY <1>6, <1>q DEF svars
<1> QED BY <1>1, <1>2, <1>3, <1>4, <1>5, <1>6, Zenon DEF SessionNext, SessionStep

(* A reference to a job that was killed, stopped or has run since does no harm:
   only a pending or suspended job starts, within the limits (readyToDisp). *)
THEOREM StaleReferencesHarmless == SessionSpec => StaleReferenceHarmless
<1> DEFINE Harmless ==
      \A j \in SessJobs : (sjob[j].st # "run" /\ sjob'[j].st = "run") =>
         /\ sjob[j].st \in {"pend", "ssusp"}
         /\ HostRoom(sjob', sjob'[j].host) >= 0 /\ UserRoom(sjob', J(j).user) >= 0
         /\ QueueRoom(sjob', J(j).queue) >= 0
<1>1. SessionInv /\ [SessionNext]_svars => [Harmless]_svars
  <2> SUFFICES ASSUME SessionInv, [SessionNext]_svars, NEW j \in SessJobs,
                      sjob[j].st # "run", sjob'[j].st = "run"
               PROVE  /\ sjob[j].st \in {"pend", "ssusp"}
                      /\ HostRoom(sjob', sjob'[j].host) >= 0 /\ UserRoom(sjob', J(j).user) >= 0
                      /\ QueueRoom(sjob', J(j).queue) >= 0
    OBVIOUS
  <2>1. sjob[j].st \in {"pend", "ssusp"} /\ sin' = sin
    BY OnlyWaitingStarts
  <2>2. SessionType' /\ JobLimitsKept'
    BY SessionGoesOn DEF SessionInv
  <2>3. sjob'[j].host \in SessHosts /\ J(j).user \in Users /\ J(j).queue \in SessQueues
    <3>1. J(j).user \in Users /\ J(j).queue \in SessQueues
      BY ScenarioTypes DEF SessionInv, SessionType
    <3>2. sjob'[j].host \in SessHosts
      BY <2>1, <2>2, SameRooms, Zenon DEF SessionType, Active
    <3> QED BY <3>1, <3>2
  <2>4. /\ \A h \in SessHosts : HostRoom(sjob', h) >= 0
        /\ \A u \in Users : UserRoom(sjob', u) >= 0
        /\ \A q \in SessQueues : QueueRoom(sjob', q) >= 0
    BY <2>1, <2>2, SameRooms DEF JobLimitsKept
  <2> QED BY <2>1, <2>3, <2>4
<1> QED BY <1>1, SessionStarts, SessionGoesOn, PTL DEF SessionSpec, StaleReferenceHarmless
=============================================================================
