----------------------------- MODULE NiosTasks -----------------------------
(***************************************************************************)
(* The network I/O server (NIOS) at the side of the user: the table of     *)
(* connections from the remote execution servers (RES), the tasks on each, *)
(* their output, exit statuses and time-outs, the standard input and the   *)
(* signals passed to them, and the library calls of the program that       *)
(* starts the tasks and waits for them.  In the mode "alone" NIOS serves   *)
(* one interactive batch job (bsub -I) and ends with the job's status.     *)
(*                                                                         *)
(* nc   the scenario: mode, the calls of the program (prog), the host of   *)
(*      each task, what the RES of a host sends for a task, ...            *)
(* ns   the NIOS process                                                   *)
(* nw   the world: the RES connections, the program and its socket to      *)
(*      NIOS, the terminal, the clock                                      *)
(*                                                                         *)
(* One turn of the select loop of ls_nioselect, with what serv() does with *)
(* its result, is one action.                                              *)
(***************************************************************************)
EXTENDS Integers, Sequences, SequencesExt, FiniteSets

CONSTANTS NiosTaskIds,    \* 1..n, the tasks the program may start
          NiosFds,        \* room of the table of connections
          NiosHosts
ASSUME NiosAssumption == /\ NiosTaskIds \subseteq Nat \ {0}
                         /\ NiosFds \in Nat \ {0} /\ Cardinality(NiosTaskIds) <= NiosFds    \* FD_SETSIZE rows

VARIABLES nc, ns, nw
nvars == <<nc, ns, nw>>

Via(x, F(_)) == CHOOSE u \in {F(y) : y \in {x}} : TRUE        \* F of x, evaluated once
NoFd == "none"
Conns(n) == 0..n.last - 1
MsgLen == 2                  \* a message of standard input: header and text

C_CONNECTED(c) == c.rpid # 0 /\ c.fd # NoFd /\ c.rtime = 0
hasTask(c, t) == \E i \in DOMAIN c.tasks : c.tasks[i].tid = t
getTask(c, t) == c.tasks[CHOOSE i \in DOMAIN c.tasks : c.tasks[i].tid = t]
setTask(c, e) == [c EXCEPT !.tasks = [i \in DOMAIN @ |-> IF @[i].tid = e.tid THEN e ELSE @[i]]]
addTask(c, t, time) == [c EXCEPT !.tasks = Append(@, [tid |-> t, eof |-> FALSE, rtime |-> time])]
onStdin(n, i, on) ==      \* the entry is connected: its wish for input becomes the fact
    [n EXCEPT !.socks = IF on THEN @ \cup {i} ELSE @ \ {i}, !.ncon = @ \ {i}]
getFirstFreeIndex(n) ==
    IF \E i \in Conns(n) : n.conn[i].rpid = 0
    THEN CHOOSE i \in Conns(n) : n.conn[i].rpid = 0 /\ \A j \in 0..i - 1 : n.conn[j].rpid # 0
    ELSE n.last

\* DISCONNECT: the other tasks of the connection stay in its list.
DISCONNECT(n, i) ==
    [n EXCEPT !.idx = IF n.conn[i].rpid > 0 THEN [@ EXCEPT ![n.conn[i].rpid] = -1] ELSE @,
              !.conn[i].fd = NoFd, !.conn[i].rpid = 0, !.socks = @ \ {i}]

\* bury_task: a status to wait for, one for each task of a connection.
bury_task(n, st, t) ==
    LET i == n.idx[t]
    IN  IF t \in n.conn[i].deadtid THEN n
        ELSE [n EXCEPT !.conn[i].deadtid = @ \cup {t}, !.dead_rpid = Append(@, [tid |-> t, st |-> st])]

\* add_list on the table of ls_nioselect: without a status the row keeps the
\* one an earlier event left in it.
add_list(n, k, t, st) ==
    LET row == Len(n.ready) + 1
        m == IF st = "none" THEN n ELSE [n EXCEPT !.rows[row] = st]
    IN  [m EXCEPT !.ready = Append(@, [k |-> k, t |-> t, st |-> m.rows[row]])]
aborted(n, t) == [n EXCEPT !.aborted = @ \o <<[k |-> "ioerr", t |-> t], [k |-> "eof", t |-> t]>>]

\* check_timeout_task: registered tasks whose RES has not connected.  The
\* loop over the tasks of a connection ends before its first round.
check_timeout_task(n, now) ==
    LET late(m, i) == m.conn[i].rpid # 0 /\ m.conn[i].fd = NoFd /\ m.conn[i].rtime > 0 /\ now > m.conn[i].rtime
        give(m, i) == [aborted(bury_task(m, "timeout", m.conn[i].rpid), m.conn[i].rpid)
                          EXCEPT !.ncon = @ \ {i}, !.unconn = @ - 1]
    IN  IF n.unconn <= 0 THEN n
        ELSE FoldLeft(LAMBDA m, i : Via(m, LAMBDA x : IF late(x, i - 1) THEN give(x, i - 1) ELSE x),
                      n, [i \in 1..n.last |-> i])

\* ls_nionewtask with sock = 0: the program has started task t.
nionewtask(n, t, now) ==
    LET i == n.idx[t]
        known == i >= 0 /\ i < n.last /\ (hasTask(n.conn[i], t) \/ n.conn[i].rpid = t)
        twice == \/ ~hasTask(n.conn[i], t)       \* an entry of its own: no connection yet
                 \/ getTask(n.conn[i], t).rtime = 0 \/ n.conn[i].fd = NoFd
        f == getFirstFreeIndex(n)
        enabled(m) == IF n.conn[i].rtime # 0 THEN onStdin(m, i, i \in n.ncon) ELSE m
    IN  CASE known /\ twice -> n
          [] known /\ ~twice ->
               enabled([n EXCEPT !.conn[i] = [setTask(@, [getTask(@, t) EXCEPT !.rtime = 0]) EXCEPT !.rtime = 0],
                                 !.unconn = @ - 1])
          [] OTHER ->
               [n EXCEPT !.conn[f].rpid = t, !.conn[f].fd = NoFd, !.conn[f].rtime = now,
                         !.ncon = @ \cup {f}, !.unconn = @ + 1, !.idx[t] = f,
                         !.last = IF f = n.last THEN @ + 1 ELSE @]

\* do_newconnect: the RES of host h, started for task t, has connected.
do_newconnect(n, h, t, now) ==
    LET known == n.idx[t] >= 0 /\ n.idx[t] < n.last
        i == IF known THEN n.idx[t] ELSE getFirstFreeIndex(n)
        time == IF known THEN 0 ELSE now
        entry(c) == addTask([c EXCEPT !.tasks = <<>>, !.rtag = 0, !.wtag = 0, !.rpid = t, !.rtime = time,
                                      !.fd = h, !.rcount = 0, !.rbuf = <<>>], t, time)
        m == [n EXCEPT !.conn[i] = entry(@), !.idx[t] = i]
    IN  IF known /\ n.conn[i].rpid = t /\ n.conn[i].fd # NoFd THEN n
        ELSE IF known THEN [onStdin(m, i, i \in n.ncon) EXCEPT !.unconn = @ - 1]
        ELSE [m EXCEPT !.ncon = @ \cup {i}, !.unconn = @ + 1, !.last = IF i = n.last THEN @ + 1 ELSE @]

\* The entry the program's registration made is given up: the task shares a
\* connection.
freeEntry(n, i, t) ==
    [n EXCEPT !.conn[i].rpid = 0, !.conn[i].rtime = 0, !.ncon = @ \ {i}, !.unconn = @ - 1, !.idx[t] = -1]

\* addTaskList: the RES of connection c announces a further task t.
addTaskList(n, t, c, now) ==
    LET i == n.idx[t]
        registered == i >= 0 /\ i < n.last /\ i # c /\ n.conn[i].rpid = t /\ n.conn[i].fd = NoFd
        m == IF registered THEN freeEntry(n, i, t) ELSE n
    IN  IF hasTask(m.conn[c], t) THEN m
        ELSE [m EXCEPT !.conn[c] = addTask(@, t, IF registered THEN 0 ELSE now), !.idx[t] = c]

\* do_setstdin: input goes to task t (0: all) or no longer goes to it.
connectedFor(c) == c.fd # NoFd /\ c.rtime = 0
do_setstdin(n, t, on) ==
    LET i == n.idx[t]
        all == {j \in Conns(n) : n.conn[j].rpid # 0}
        up == {j \in all : connectedFor(n.conn[j])}
        tag(m, js, x) == [m EXCEPT !.conn = [j \in DOMAIN @ |-> IF j \in js THEN [@[j] EXCEPT !.wtag = x] ELSE @[j]]]
        listed == hasTask(n.conn[i], t)
        counted == IF listed THEN n.conn[i].rtime = 0 ELSE connectedFor(n.conn[i])
        only == IF counted THEN [n EXCEPT !.socks = {i}] ELSE [n EXCEPT !.ncon = {i}]
        not == IF counted THEN [n EXCEPT !.socks = @ \ {i}] ELSE [n EXCEPT !.ncon = @ \ {i}]
    IN  IF t = 0 /\ on THEN tag([n EXCEPT !.socks = @ \cup up, !.ncon = @ \cup (all \ up)], all, 0)
        ELSE IF t = 0 /\ ~on THEN tag([n EXCEPT !.socks = @ \ up, !.ncon = @ \ (all \ up)], all, -1)
        ELSE IF t # 0 /\ ~(i >= 0 /\ i < n.last) THEN n
        ELSE IF ~listed /\ n.conn[i].rpid # t THEN n
        ELSE IF on THEN tag(only, {i}, t)
        ELSE IF listed /\ n.conn[i].wtag \notin {t, -1} THEN n
        ELSE tag(not, {i}, -1)

(***************************************************************************)
(* Writing to the RES processes.  z holds the process and the world; room  *)
(* says how much the socket of each host takes now.                        *)
(***************************************************************************)
give(z, h, units) == IF z.w.up[h] = "open" THEN [z EXCEPT !.w.got[h] = @ \o units] ELSE z    \* EPIPE is ignored
EachConn(z, Body(_, _)) ==
    FoldLeft(LAMBDA a, i : Via(a, LAMBDA x : IF C_CONNECTED(x.n.conn[i - 1]) THEN Body(x, i - 1) ELSE x),
             z, [i \in 1..z.n.last |-> i])
deliver(z, unit) == EachConn(z, LAMBDA x, i : give(x, x.n.conn[i].fd, <<unit>>))
deliver_signal(z, sig) == deliver(z, [k |-> "sig", v |-> sig])
deliver_eof(z) == deliver(z, [k |-> "eof"])

flush_databuf(z, room) ==
    LET wb == z.n.wb
        part(x, i) ==
            LET c == x.n.conn[i]
                cc == IF x.w.up[c.fd] # "open" THEN 0
                      ELSE IF room[c.fd] < MsgLen - c.written THEN room[c.fd] ELSE MsgLen - c.written
            IN  IF i \notin wb.socks \/ c.written = MsgLen THEN x
                ELSE give([x EXCEPT !.n.conn[i].written = @ + cc], c.fd,
                          [u \in 1..cc |-> [k |-> "in", num |-> wb.num, part |-> c.written + u, tag |-> wb.tag]])
        mine(n) == {i \in Conns(n) : C_CONNECTED(n.conn[i]) /\ i \in wb.socks}
        settled(x) == IF \A i \in mine(x.n) : x.n.conn[i].written = MsgLen
                      THEN [x EXCEPT !.n.wb.empty = TRUE,
                                     !.n.conn = [i \in DOMAIN @ |-> IF i \in mine(x.n) THEN [@[i] EXCEPT !.written = 0]
                                                                    ELSE @[i]]]
                      ELSE x
    IN  Via(EachConn(z, part), settled)
flush_sigbuf(z) ==
    IF ~z.n.wb.empty THEN z
    ELSE Via(FoldLeft(LAMBDA x, s : Via(x, LAMBDA y : deliver_signal(y, s)), z, z.n.sigBuf),
             LAMBDA x : [x EXCEPT !.n.sigBuf = <<>>])
flush_eof(z) == IF z.n.wb.empty /\ z.n.sendEof THEN deliver_eof([z EXCEPT !.n.sendEof = FALSE]) ELSE z
flush_buffer(z, room) == IF z.n.wb.empty THEN z
                         ELSE Via(Via(flush_databuf(z, room), flush_sigbuf), flush_eof)

\* ls_niowrite with a new message; the tag of the first connection goes to all.
ls_niowrite(z, num, room) ==
    LET on == {i \in Conns(z.n) : C_CONNECTED(z.n.conn[i]) /\ i \in z.n.socks}
        tag == IF on = {} THEN 0 ELSE z.n.conn[CHOOSE i \in on : \A j \in on : i <= j].wtag
    IN  Via([z EXCEPT !.n.wb = [empty |-> FALSE, socks |-> z.n.socks, num |-> num, tag |-> tag]],
            LAMBDA x : flush_buffer(x, room))
ls_nioclose(z) == IF ~z.n.wb.empty THEN [z EXCEPT !.n.sendEof = TRUE] ELSE deliver_eof(z)

\* A signal waits behind a message of input that is partly written.
mustWait(n) == ~n.wb.empty

ls_niokill(z, sig) ==
    IF mustWait(z.n) THEN [z EXCEPT !.n.sigBuf = Append(@, sig)]
    ELSE Via(flush_sigbuf(z), LAMBDA x : deliver_signal(x, sig))

(***************************************************************************)
(* Reading one message from connection i.                                  *)
(***************************************************************************)
Readable(n, w, i) == C_CONNECTED(n.conn[i]) /\ (w.out[n.conn[i].fd] # <<>> \/ w.up[n.conn[i].fd] = "lost")
Stopped(st) == st = "stop"
Fatal(st) == st = "fatal"             \* REX_FATAL_ERROR: the task could not be started

readMsg(z, i) ==
    LET c == z.n.conn[i]
        q == z.w.out[c.fd]
        m == Head(q)
        t == IF m.t <= 0 THEN c.rpid ELSE m.t
        popped == [z EXCEPT !.w.out[c.fd] = Tail(q)]
        ready(x, k, who, st) == [x EXCEPT !.n = add_list(@, k, who, st)]
        ended(x) == IF hasTask(x.n.conn[i], t) THEN [x EXCEPT !.n.conn[i] = setTask(@, [getTask(@, t) EXCEPT !.eof = TRUE])]
                    ELSE x
        lost(x) == ready([x EXCEPT !.n = DISCONNECT(bury_task(@, "ioerr", c.rpid), i)], "ioerr", c.rpid, "none")
    IN  IF q = <<>> THEN lost(z)
        ELSE CASE m.k = "out" -> [popped EXCEPT !.n.conn[i].rcount = 1, !.n.conn[i].rtag = t]
               [] m.k = "new" -> [popped EXCEPT !.n = addTaskList(@, m.t, i, z.w.now)]
               [] m.k = "eof" -> ready(ended(popped), "eof", t, "none")
               [] m.k = "status" ->
                    ready(IF Stopped(m.st) THEN popped ELSE [popped EXCEPT !.n = bury_task(@, m.st, t)], "status", t, m.st)
               [] m.k = "requeue" ->
                    ready([ended(popped) EXCEPT !.w.up = [h \in DOMAIN @ |-> IF @[h] = "open" THEN "shut" ELSE @[h]]],
                          "requeue", t, "none")

\* readResMsg: the text of a message of output; a connection lost in its
\* middle ends ls_nioselect with an error.
readResMsg(z, i) ==
    LET c == z.n.conn[i]
        q == z.w.out[c.fd]
    IN  IF q = <<>> THEN [z EXCEPT !.n = [DISCONNECT(aborted(bury_task(@, "ioerr", c.rpid), c.rpid), i) EXCEPT !.pc = "failed"]]
        ELSE [z EXCEPT !.w.out[c.fd] = Tail(q),
                       !.n = [add_list(@, "out", c.rpid, "none")
                                 EXCEPT !.conn[i].rcount = 0, !.conn[i].rbuf = <<Head(q).d>>,
                                        !.prev = IF z.n.first THEN i ELSE @, !.first = FALSE]]

readConns(z) ==
    LET one(x, i) == CASE x.n.pc = "failed" \/ ~Readable(x.n, x.w, i) -> x
                       [] OTHER -> IF x.n.conn[i].rcount = 0 THEN readMsg(x, i) ELSE readResMsg(x, i)
        from == IF z.n.prev >= z.n.last THEN -1 ELSE z.n.prev
    IN  FoldLeft(LAMBDA a, j : Via(a, LAMBDA x : one(x, (j + from) % x.n.last)),
                 [z EXCEPT !.n.prev = from, !.n.first = TRUE], [j \in 1..z.n.last |-> j])

(***************************************************************************)
(* serv(): what is done with the events of one ls_nioselect, and emusig.   *)
(***************************************************************************)
alone == nc.mode = "alone"
exit(z, code) == [z EXCEPT !.n.pc = "exited", !.n.code = code]
\* die: the program is told by SIGTERM; the tasks by SIGKILL before.
die(z) == exit(ls_niokill(z, "KILL"), "died")
\* The interactive job's connection is gone: mbatchd is asked, or not.
jobLost(z) == IF nc.interval THEN [z EXCEPT !.n.pc = "asking"] ELSE exit(z, "-1")

\* SIGUSR1 to the program; it keeps it pending only inside rwait_.
wake(z) == [z EXCEPT !.w.usr1 = z.w.ps \in {"asked", "asleep"}]

\* emusig: a task's end wakes the program up, or is the end of the job.
emusig(z, st) == IF Stopped(st) THEN z
                 ELSE IF alone THEN [z EXCEPT !.n.exit_status = st]
                 ELSE wake(z)
tellEnd(z, t, st) ==
    IF z.n.fin[t].eof /\ z.n.fin[t].status /\ ~z.n.fin[t].sent
    THEN [emusig(z, st) EXCEPT !.n.fin[t].sent = TRUE] ELSE z

jobOver(z) == IF alone /\ z.n.gotEof /\ z.n.gotStatus THEN exit(z, z.n.exit_status) ELSE z

onStatus(z, t, st) ==
    Via(tellEnd(IF Stopped(st) THEN emusig([z EXCEPT !.n.fin[t].status = TRUE], st)
                ELSE [z EXCEPT !.n.fin[t] = [@ EXCEPT !.status = TRUE, !.eof = @ \/ Fatal(st)]], t, st),
        LAMBDA x : jobOver([x EXCEPT !.n.gotStatus = TRUE]))

ls_niodump(z, t) ==
    LET i == z.n.idx[t]
    IN  [z EXCEPT !.w.printed = Append(@, [t |-> z.n.conn[i].rtag, d |-> z.n.conn[i].rbuf[1]]),
                  !.n.conn[i].rbuf = <<>>]
onEvent(z, e) ==
    IF z.n.pc # "select" THEN z
    ELSE CASE e.k = "out" -> ls_niodump(z, e.t)
           [] e.k = "eof" -> Via(tellEnd([z EXCEPT !.n.fin[e.t].eof = TRUE], e.t, e.st),
                                 LAMBDA x : jobOver([x EXCEPT !.n.gotEof = TRUE]))
           [] e.k = "status" -> onStatus(z, e.t, e.st)
           [] e.k = "ioerr" -> IF alone THEN jobLost(z) ELSE wake(z)
           [] e.k = "requeue" -> [z EXCEPT !.n.pc = "again"]
onEvents(z) == Via(FoldLeft(LAMBDA a, e : Via(a, LAMBDA x : onEvent(x, e)), z, z.n.ready),
                   LAMBDA x : [x EXCEPT !.n.ready = <<>>])

(***************************************************************************)
(* do_newtask: one request of the program.                                 *)
(***************************************************************************)
Mut_toBeWaited(n, g) == TRUE

\* A buried status is given once the task has no more output.
toBeWaited(n, g) ==
    LET i == n.idx[g.tid]
    IN  \/ ~(i >= 0 /\ i < n.last) \/ ~hasTask(n.conn[i], g.tid)
        \/ getTask(n.conn[i], g.tid).eof \/ Fatal(g.st)
\* ls_niostatus and rwait.
rwait(z, t) ==
    LET n == z.n
        may(k) == t \in {0, n.dead_rpid[k].tid} /\ toBeWaited(n, n.dead_rpid[k])
        ks == {k \in DOMAIN n.dead_rpid : may(k)}
        k1 == CHOOSE k \in ks : \A j \in ks : k <= j
        i == n.idx[t]
        there == IF t = 0 THEN \E j \in Conns(n) : n.conn[j].rpid # 0
                 ELSE i >= 0 /\ i < n.last /\ (n.conn[i].rpid = t \/ hasTask(n.conn[i], t))
        reply(x, r) == [x EXCEPT !.w.reply = <<r>>]
    IN  CASE ks # {} -> reply([z EXCEPT !.n.dead_rpid = RemoveAt(@, k1)],
                              [k |-> "ok", t |-> n.dead_rpid[k1].tid, st |-> n.dead_rpid[k1].st])
          [] ks = {} /\ there -> reply(z, [k |-> "retry"])
          [] OTHER -> reply(z, [k |-> "fail"])
do_newtask(z) ==
    LET r == Head(z.w.chan)
        x == [z EXCEPT !.w.chan = Tail(@)]
    IN  CASE r.op = "task" -> [x EXCEPT !.n = nionewtask(@, r.t, z.w.now)]
          [] r.op = "wait" -> rwait(x, r.t)
          [] r.op = "stdin" -> [x EXCEPT !.n = do_setstdin(@, r.t, r.on), !.w.reply = <<[k |-> "done"]>>]
          [] r.op = "exit" -> exit(ls_niokill(x, "KILL"), "0")

(***************************************************************************)
(* The standard input of NIOS: typed messages, then its end.               *)
(***************************************************************************)
takesStdin(n, w) ==
    /\ ~n.endstdin /\ w.typed <= nc.lines
    /\ \E i \in Conns(n) : n.conn[i].rpid # 0
    /\ n.first0 => alone \/ \E i \in Conns(n) : n.conn[i].rpid # 0 /\ \E k \in DOMAIN n.conn[i].tasks : n.conn[i].tasks[k].rtime = 0
fromStdin(z, ready, room) ==
    LET w == z.w
    IN  IF ~ready /\ z.n.rest = 0 THEN z
        ELSE IF z.n.rest # 0 THEN IF z.n.wb.empty THEN ls_niowrite([z EXCEPT !.n.rest = 0], z.n.rest, room)
                                  ELSE flush_buffer(z, room)
        ELSE IF w.typed < nc.lines THEN
               Via([z EXCEPT !.w.typed = @ + 1],
                   LAMBDA x : IF x.n.wb.empty THEN ls_niowrite(x, x.w.typed, room)
                              ELSE flush_buffer([x EXCEPT !.n.rest = x.w.typed], room))
        ELSE ls_nioclose([z EXCEPT !.n.endstdin = TRUE])

(***************************************************************************)
(* One round of the loop of serv(), or of the one inside ls_nioselect.     *)
(***************************************************************************)
\* ls_nioselect is called: what was aborted since is to be returned.
enter(n) ==
    LET all == FoldLeft(LAMBDA m, e : Via(m, LAMBDA x : add_list(x, e.k, e.t, "none")), [n EXCEPT !.ready = <<>>], n.aborted)
    IN  [all EXCEPT !.aborted = <<>>, !.atOnce = n.aborted # <<>>]
SomeInput(n, w, typing) == (\E i \in Conns(n) : Readable(n, w, i)) \/ w.chan # <<>> \/ typing

served(z, typing, room) ==
    LET work(x) == Via(onEvents(flush_buffer(x, room)),
                       LAMBDA y : CASE y.n.pc # "select" -> y
                                    [] y.n.pc = "select" /\ y.w.chan # <<>> -> do_newtask(y)
                                    [] OTHER -> fromStdin(y, typing, room))
        back(x) == IF x.n.pc = "select" THEN [x EXCEPT !.n = enter(@)] ELSE x
        opened(x) == [x EXCEPT !.n.first0 = @ /\ ~takesStdin(x.n, x.w)]
        failed(x) == IF alone THEN jobLost(x) ELSE die([x EXCEPT !.n.pc = "select"])
    IN  Via(Via(readConns(opened(z)), LAMBDA x : IF x.n.pc = "failed" THEN failed(x) ELSE work(x)), back)

\* Nothing to read when select returns: events of aborted tasks are dropped.
quiet(z) == IF z.n.atOnce THEN [z EXCEPT !.n = enter(@)] ELSE z

NiosRound(typing, room) ==
    /\ ns.pc = "select" /\ nw.acc = <<>>
    /\ typing => takesStdin(ns, nw) /\ nw.chan = <<>>
    /\ \E z \in {[n |-> check_timeout_task(ns, nw.now), w |-> nw]} :
         \E y \in {IF SomeInput(ns, nw, typing) \/ ns.sendEof THEN served(z, typing, room) ELSE quiet(z)} :
            ns' = y.n /\ nw' = y.w
    /\ UNCHANGED nc

NiosAccept ==
    /\ ns.pc = "select" /\ nw.acc # <<>>
    /\ ns' = do_newconnect(check_timeout_task(ns, nw.now), Head(nw.acc).h, Head(nw.acc).t, nw.now)
    /\ nw' = [nw EXCEPT !.acc = Tail(@)] /\ UNCHANGED nc

\* A signal for NIOS (SIGINT, SIGTERM ...) is passed on by its handler.
PassSig(sig) ==
    /\ ns.pc = "select" /\ nw.sigs < Len(nc.sigs) /\ sig = nc.sigs[nw.sigs + 1]
    /\ \E z \in {ls_niokill([n |-> ns, w |-> [nw EXCEPT !.sigs = @ + 1]], sig)} : ns' = z.n /\ nw' = z.w
    /\ UNCHANGED nc

(***************************************************************************)
(* NIOS of an interactive job: waiting for the RES of the job, asking      *)
(* mbatchd about it, starting over after a requeue.                        *)
(***************************************************************************)
Job == 1
FreshConn == [rpid |-> 0, fd |-> NoFd, rtime |-> 0, tasks |-> <<>>, deadtid |-> {}, wtag |-> 0,
              written |-> 0, rcount |-> 0, rbuf |-> <<>>, rtag |-> 0]
Rows == 1..4 * NiosFds
ls_nioinit(pc) ==
    [pc |-> pc, code |-> "none", conn |-> [i \in 0..NiosFds - 1 |-> FreshConn], last |-> 0,
     idx |-> [t \in NiosTaskIds |-> -1], unconn |-> 0, ncon |-> {}, socks |-> {},
     dead_rpid |-> <<>>, aborted |-> <<>>, ready |-> <<>>, rows |-> [r \in Rows |-> "0"], atOnce |-> FALSE,
     wb |-> [empty |-> TRUE, socks |-> {}, num |-> 0, tag |-> 0], sigBuf |-> <<>>, sendEof |-> FALSE,
     prev |-> -1, first |-> TRUE, first0 |-> TRUE, endstdin |-> FALSE, rest |-> 0,
     fin |-> [t \in NiosTaskIds |-> [eof |-> FALSE, status |-> FALSE, sent |-> FALSE]],
     gotEof |-> FALSE, gotStatus |-> FALSE, exit_status |-> "0"]
\* ls_nionewtask with the socket of the job.
withJob(n, h) ==
    [n EXCEPT !.conn[0] = addTask([@ EXCEPT !.rpid = Job, !.fd = h], Job, 0), !.last = 1, !.idx[Job] = 0, !.socks = {0},
              !.pc = "select"]

\* acceptCallBack: the RES of the job, or word that it was killed pending.
acceptCallBack ==
    /\ ns.pc = "waiting" /\ nw.acc # <<>>
    /\ LET a == Head(nw.acc)
       IN  ns' = CASE a.t = Job -> withJob(ns, a.h)
                   [] a.t # Job /\ nc.verbose -> [ns EXCEPT !.pc = "exited", !.code = "-10"]
                   [] OTHER -> ns
    /\ nw' = [nw EXCEPT !.acc = Tail(@)] /\ UNCHANGED nc

\* checkJobStatus, every jobStatusInterval while waiting and asking.
checkJobStatus ==
    /\ ns.pc = "asking" \/ (ns.pc = "waiting" /\ nw.acc = <<>>)
    /\ nc.interval /\ nw.job \in {"done", "unknown"}
    /\ ns' = [ns EXCEPT !.pc = "exited", !.code = IF nw.job = "done" THEN nw.end ELSE "-11"]
    /\ UNCHANGED <<nc, nw>>

\* NIO_REQUEUE: the process executes itself again.
Reexec == ns.pc = "again" /\ ns' = ls_nioinit("waiting") /\ UNCHANGED <<nc, nw>>

\* mbatchd and sbatchd: the job starts, is killed while it waits, its end is
\* known to mbatchd, and later forgotten.
JobHost == nc.host[Job]
JobStarts ==
    /\ alone /\ nw.job = "pend" /\ nw.up[JobHost] \in {"idle", "shut"}
    /\ nw' = [nw EXCEPT !.job = "run", !.up[JobHost] = "open", !.out[JobHost] = <<>>, !.got[JobHost] = <<>>, !.end = "none",
                        !.left[Job] = IF nw.up[JobHost] = "idle" THEN nc.script[Job] ELSE nc.again,
                        !.acc = Append(@, [h |-> JobHost, t |-> Job])]
    /\ UNCHANGED <<nc, ns>>
JobKilledPending ==
    /\ alone /\ nw.job = "pend" /\ nc.killed
    /\ nw' = [nw EXCEPT !.job = "done", !.end = "-1", !.acc = Append(@, [h |-> JobHost, t |-> -Job])] /\ UNCHANGED <<nc, ns>>
JobRequeued == alone /\ nw.job = "run" /\ nw.up[JobHost] = "shut" /\ nw' = [nw EXCEPT !.job = "pend"] /\ UNCHANGED <<nc, ns>>
JobEndKnown ==
    /\ alone /\ nw.job = "run" /\ (nw.end # "none" \/ nw.up[JobHost] = "lost")
    /\ nw' = [nw EXCEPT !.job = "done", !.end = IF @ = "none" THEN "killed" ELSE @] /\ UNCHANGED <<nc, ns>>
JobForgotten == alone /\ nw.job = "done" /\ nc.forgets /\ nw' = [nw EXCEPT !.job = "unknown"] /\ UNCHANGED <<nc, ns>>

(***************************************************************************)
(* The RES of a host: it connects for the first task, announces the others *)
(* and sends what their scripts say.                                       *)
(***************************************************************************)
ResConnect(h) ==
    /\ nw.up[h] = "calling" /\ h \notin nc.deaf
    /\ nw' = [nw EXCEPT !.up[h] = "open", !.acc = Append(@, [h |-> h, t |-> Head(nw.asked[h])]),
                        !.out[h] = [i \in 1..Len(nw.asked[h]) - 1 |-> [k |-> "new", t |-> nw.asked[h][i + 1]]],
                        !.left = [t \in NiosTaskIds |-> IF t \in Range(nw.asked[h]) THEN nc.script[t] ELSE @[t]]]
    /\ UNCHANGED <<nc, ns>>
ResSends(t) ==
    LET h == nc.host[t]
        m == Head(nw.left[t])
        msg == IF m.k = "out" THEN <<[k |-> "out", t |-> t], [k |-> "text", t |-> t, d |-> m.d]>>
               ELSE <<[t |-> t] @@ m>>
    IN  /\ nw.left[t] # <<>> /\ nw.up[h] = "open"
        /\ nw' = [nw EXCEPT !.left[t] = Tail(@), !.out[h] = @ \o msg,
                            !.end = IF m.k = "status" /\ ~Stopped(m.st) THEN m.st ELSE @]
        /\ UNCHANGED <<nc, ns>>
\* The host is lost; part of what it sent last may be lost with it.
HostLost(h, cut) ==
    /\ h \in nc.lose /\ nw.up[h] = "open" /\ (cut => nw.out[h] # <<>>)
    /\ nw' = [nw EXCEPT !.up[h] = "lost", !.out[h] = IF cut THEN Front(@) ELSE @]
    /\ UNCHANGED <<nc, ns>>
\* The time-out of an entry made now passes, its RES being late; time
\* matters for nothing else.
TimeBusy ==
    \E i \in Conns(ns) : LET c == ns.conn[i] IN c.rpid # 0 /\ c.fd = NoFd /\ c.rtime = nw.now /\ nc.host[c.rpid] \in nc.late
Tick == TimeBusy /\ nw' = [nw EXCEPT !.now = @ + 1] /\ UNCHANGED <<nc, ns>>

(***************************************************************************)
(* The program: ls_rtaske (the request to the RES, then the one to NIOS),  *)
(* ls_setstdin, ls_rwait, ls_donerex.                                      *)
(***************************************************************************)
call == nc.prog[nw.pi]
startTask ==
    LET h == nc.host[call.t]
    IN  [nw EXCEPT !.pi = @ + 1, !.asked[h] = Append(@, call.t), !.up[h] = IF @ = "idle" THEN "calling" ELSE @,
                   !.out[h] = IF nw.up[h] = "open" THEN Append(@, [k |-> "new", t |-> call.t]) ELSE @,
                   !.left[call.t] = IF nw.up[h] = "open" THEN nc.script[call.t] ELSE @]
Call ==
    /\ nw.ps = "run" /\ nw.pi <= Len(nc.prog) /\ ns.pc # "exited"
    /\ nw' = CASE call.op = "start" -> startTask
               [] call.op = "task" -> [nw EXCEPT !.pi = @ + 1, !.chan = Append(@, call)]
               [] call.op = "stdin" -> [nw EXCEPT !.chan = Append(@, call), !.ps = "set"]
               [] call.op = "wait" -> [nw EXCEPT !.chan = Append(@, call), !.ps = "asked"]
               [] call.op = "exit" -> [nw EXCEPT !.chan = Append(@, call), !.ps = "over"]
    /\ UNCHANGED <<nc, ns>>
rwait_ ==
    /\ nw.ps \in {"asked", "set"} /\ nw.reply # <<>>
    /\ LET r == Head(nw.reply)
           next == [nw EXCEPT !.reply = <<>>, !.pi = @ + 1, !.ps = "run", !.usr1 = FALSE]
       IN  nw' = CASE r.k = "ok" -> [next EXCEPT !.told = Append(@, [t |-> r.t, st |-> r.st])]
                   [] r.k = "fail" -> [next EXCEPT !.told = Append(@, [t |-> 0, st |-> "norchild"])]
                   [] r.k = "done" -> next
                   [] r.k = "retry" /\ nc.block -> [nw EXCEPT !.reply = <<>>, !.ps = "asleep"]
                   [] OTHER -> [nw EXCEPT !.reply = <<>>, !.ps = "run"]
    /\ UNCHANGED <<nc, ns>>
restartRWait ==      \* sigsuspend returns
    /\ nw.ps = "asleep" /\ nw.usr1
    /\ nw' = [nw EXCEPT !.usr1 = FALSE, !.ps = "run"] /\ UNCHANGED <<nc, ns>>

NiosInit(sc) ==
    /\ nc = sc
    /\ ns = ls_nioinit(IF sc.mode = "alone" THEN "waiting" ELSE "select")
    /\ nw = [up |-> [h \in NiosHosts |-> "idle"], asked |-> [h \in NiosHosts |-> <<>>], out |-> [h \in NiosHosts |-> <<>>],
             got |-> [h \in NiosHosts |-> <<>>], left |-> [t \in NiosTaskIds |-> <<>>], acc |-> <<>>,
             chan |-> <<>>, reply |-> <<>>, pi |-> 1, ps |-> "run", usr1 |-> FALSE, told |-> <<>>,
             printed |-> <<>>, typed |-> 0, sigs |-> 0, now |-> 1, job |-> "pend", end |-> "none"]

Room(h) == IF h \in nc.slow THEN 0..MsgLen ELSE {MsgLen}
NiosNext ==
    \/ \E typing \in BOOLEAN, room \in [NiosHosts -> 0..MsgLen] : (\A h \in NiosHosts : room[h] \in Room(h)) /\ NiosRound(typing, room)
    \/ NiosAccept
    \/ \E sig \in {"INT", "TERM"} : PassSig(sig)
    \/ acceptCallBack \/ checkJobStatus \/ Reexec
    \/ JobStarts \/ JobKilledPending \/ JobRequeued \/ JobEndKnown \/ JobForgotten
    \/ \E h \in NiosHosts : ResConnect(h) \/ \E cut \in BOOLEAN : HostLost(h, cut)
    \/ \E t \in NiosTaskIds : ResSends(t)
    \/ Tick \/ Call \/ rwait_ \/ restartRWait

\* Fairness: NIOS, the program, the RES processes, mbatchd and time go on,
\* whatever they have to do being done at some time.
NiosBusy == \/ ns.pc = "select" /\ (nw.acc # <<>> \/ SomeInput(ns, nw, FALSE) \/ ns.sendEof \/ ns.atOnce)
            \/ ns.pc = "waiting" /\ nw.acc # <<>>
            \/ ns.pc \in {"waiting", "asking"} /\ nc.interval /\ nw.job \in {"done", "unknown"}
            \/ ns.pc = "again"
ProgBusy == \/ nw.ps = "run" /\ nw.pi <= Len(nc.prog) /\ ns.pc # "exited"
            \/ nw.ps \in {"asked", "set"} /\ nw.reply # <<>>
            \/ nw.ps = "asleep" /\ nw.usr1
ResBusy == \/ \E h \in NiosHosts : nw.up[h] = "calling" /\ h \notin nc.deaf
           \/ \E t \in NiosTaskIds : nw.left[t] # <<>> /\ nw.up[nc.host[t]] = "open"
JobBusy == alone /\ (nw.job = "pend" \/ (nw.job = "run" /\ (nw.end # "none" \/ nw.up[JobHost] \in {"lost", "shut"})))
NiosFairness == /\ []<>~NiosBusy /\ []<>~ProgBusy /\ []<>~ResBusy /\ []<>~JobBusy /\ []<>~TimeBusy

(***************************************************************************)
(* Properties.                                                             *)
(***************************************************************************)
ended(seq, st) == \E i \in DOMAIN seq : seq[i].k = "status" /\ seq[i].st = st /\ ~Stopped(st)
stops(seq) == \E i \in DOMAIN seq : seq[i].k = "status" /\ Stopped(seq[i].st)
outs(seq) == Cardinality({i \in DOMAIN seq : seq[i].k = "out"})
shown(t) == Cardinality({i \in DOMAIN nw.printed : nw.printed[i].t = t})

\* What ls_rwait returns of a task (rwait_, ls_niostatus, bury_task): every
\* task at most once, with the status its RES sent, and then only after NIOS
\* has written all the task's output, unless the host was lost; or that its
\* connection was lost or never made, when that is so.
StatusFaithful ==
    \A i \in DOMAIN nw.told :
        LET e == nw.told[i]
            h == nc.host[e.t]
        IN  e.t # 0 =>
              /\ \A j \in DOMAIN nw.told : nw.told[j].t = e.t => j = i
              /\ CASE e.st = "ioerr" -> nw.up[h] = "lost"
                   [] e.st = "timeout" -> nw.now > 1
                   [] OTHER -> /\ ended(nc.script[e.t], e.st)
                               /\ Fatal(e.st) \/ nw.up[h] = "lost" \/ shown(e.t) = outs(nc.script[e.t])

\* The program registers a task with NIOS and the RES announces it, in
\* either order (ls_nionewtask, do_newconnect, addTaskList): the task is in
\* one entry of the table, the one its number leads to.
RegisteredOnce ==
    \A t \in NiosTaskIds :
        LET in == {i \in Conns(ns) : ns.conn[i].rpid = t \/ (ns.conn[i].fd # NoFd /\ hasTask(ns.conn[i], t))}
        IN  Cardinality(in) <= 1 /\ (in # {} => ns.idx[t] \in in)

\* A RES gets the messages of NIOS whole: no signal, end of file or other
\* message inside a message of input that was partly written (flush_databuf,
\* ls_niokill, ls_nioclose), the input in order and nothing after its end.
InputIntact ==
    \A h \in NiosHosts :
        LET g == nw.got[h]
            in == {i \in DOMAIN g : g[i].k = "in"}
        IN  /\ \A i \in in : g[i].part = 1 => i = Len(g) \/ g[i + 1] = [g[i] EXCEPT !.part = 2]
            /\ \A i \in in : g[i].part = 2 => i > 1 /\ g[i - 1].k = "in" /\ g[i - 1].part = 1
            /\ \A i, j \in in : i < j => g[i].num <= g[j].num
            /\ \A i \in DOMAIN g, j \in in : g[i].k = "eof" => j < i

\* bsub -I ends with the status of the job and after its output (serv,
\* kill_self); with another code only when the job was killed before it
\* started, or the connection was lost and mbatchd is not asked or has
\* forgotten the job.  A job that was stopped may be reported wrong.
JobEndFaithful ==
    alone /\ ns.pc = "exited" =>
        CASE ns.code = "-10" -> nc.killed
          [] ns.code = "-11" -> nc.forgets
          [] ns.code \in {"-1", "died"} -> nw.up[JobHost] = "lost" \/ nc.killed
          [] OTHER -> LET all == IF nw.up[JobHost] = "open" /\ Len(nc.again) > 0 /\ \E i \in DOMAIN nc.script[Job] : nc.script[Job][i].k = "requeue"
                                 THEN nc.script[Job] \o nc.again ELSE nc.script[Job]
                      IN  \/ stops(all) \/ nw.up[JobHost] = "lost"
                          \/ ns.code = nw.end /\ shown(Job) = outs(all)

\* The program learns of the end of every task it waits for: ls_rwait of it
\* returns (emusig, SIGUSR1, restartRWait).  Left out are tasks that were
\* stopped (their end may come without SIGUSR1), the second task of a lost
\* connection, tasks whose RES never connects when the program sleeps, and
\* programs one of whose RES connects after its time-out.
waited == {nc.prog[i].t : i \in {j \in DOMAIN nc.prog : nc.prog[j].op = "wait"}}
EndPromised(t) ==
    LET h == nc.host[t]
    IN  /\ \A u \in waited : ~stops(nc.script[u])
        /\ \A u \in waited : h \notin nc.lose \/ nc.host[u] # h \/ u = t
        /\ nc.late \subseteq nc.deaf
        /\ nc.deaf # {} => ~nc.block /\ \A u, v \in waited : nc.host[u] = nc.host[v] => u = v
EndIsTold ==
    \A t \in NiosTaskIds :
        []<>(~alone /\ t \in waited /\ EndPromised(t)
                => (\E i \in DOMAIN nw.told : nw.told[i].t = t) \/ ns.pc = "exited")

\* NIOS of an interactive job does not wait for ever: it ends with the job
\* (acceptCallBack, serv, checkJobStatus).
JobEndSeen == []<>(alone /\ (nc.interval \/ nc.verbose) => ns.pc = "exited")

\* NIOS follows the tasks of a job faithfully, whatever the order in which
\* they connect, end, are waited for and time out: statuses are those the
\* tasks ended with, a task is registered once, what is typed reaches every
\* task that is to have it, and a job is over only when it is.
TasksFollowed == StatusFaithful /\ RegisteredOnce /\ InputIntact /\ JobEndFaithful
=============================================================================
