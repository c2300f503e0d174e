------------------------------ MODULE ResTasks ------------------------------
(***************************************************************************)
(* The remote execution server (RES) of one client: the tasks it has       *)
(* started, and the relaying of their output, standard input, end of file, *)
(* exit status and signals over the one connection to the network I/O      *)
(* server (NIOS).  The process is a select loop; one turn of it is the     *)
(* action LoopTop (cleaning, houseKeeping up to a second read of a drained *)
(* channel), HouseKeeping (the rest) and one branch of the select.         *)
(*                                                                         *)
(* xc   the scenario: mode ("client", or "batch" for an interactive batch  *)
(*      job), what each task does, whether it has a channel for its        *)
(*      standard error and one for task messages                           *)
(* xs   the process: its children, the client, the connection, its buffers *)
(* xw   the world: the process groups with their pipes, NIOS, the wire to  *)
(*      it and what it received, the requests of NIOS and client to come   *)
(*                                                                         *)
(* A task does the steps of its script: "o" and "n" write to the standard  *)
(* output (n ends a line), "e" a line to the standard error, "x" ends the  *)
(* process itself, the rest being written by other processes of its group, *)
(* "w" waits until it is killed.  "det" is what a process that left the    *)
(* group, and inherited the output, writes.  Pseudo terminals, servers and *)
(* the accepting of connections are not here.                              *)
(***************************************************************************)
EXTENDS Integers, Sequences, SequencesExt, FiniteSets

CONSTANTS ResTasksIds,   \* the tasks a client may start
          LineBuf,       \* LINE_BUFSIZ, the room for the output of a task
          WireRoom       \* messages the connection to NIOS holds
ASSUME ResTasksAssumption == LineBuf \in Nat \ {0} /\ WireRoom \in Nat \ {0}

VARIABLES xc, xs, xw
xvars == <<xc, xs, xw>>

Slots2 == [i \in 1..Cardinality(ResTasksIds) |-> i]
Channels == {"out", "err"}
chanOf(x) == IF x = "e" THEN "err" ELSE "out"

\* The process group of a task is there while one of its processes is, a
\* finished leader counting until it is waited for.
GroupThere(w, t) == w.task[t].left # <<>> \/ (w.task[t].exited /\ ~w.task[t].reaped)
Written(w, t) == w.task[t].left # <<>> \/ w.task[t].det # <<>>     \* somebody holds the pipe

child_(s, t) == CHOOSE c \in Range(s.ch) : c.id = t
hasChild(s, t) == \E c \in Range(s.ch) : c.id = t
setChild(s, c) == [s EXCEPT !.ch = [i \in DOMAIN s.ch |-> IF s.ch[i].id = c.id THEN c ELSE s.ch[i]]]

\* F of the value of x, evaluated once.
Of(x, F(_)) == CHOOSE u \in {F(y) : y \in {x}} : TRUE

\* A loop "for (i = 0; i < child_cnt; i++)" over the table of children: when
\* the body deletes a child the others move down and i goes on all the same.
EachChild(z, Body(_, _)) ==
    FoldLeft(LAMBDA b, i : Of(b, LAMBDA a : IF i <= Len(a.s.ch) THEN Body(a, a.s.ch[i].id) ELSE a), z, Slots2)

\* kill: the whole group goes; its leader is left to be waited for.
killGroup(w, t) ==
    IF ~GroupThere(w, t) THEN w
    ELSE [w EXCEPT !.task[t] = [@ EXCEPT !.left = <<>>, !.exited = TRUE, !.stopped = FALSE,
                                         !.tell = IF w.task[t].exited THEN @ ELSE "exit"]]

\* In the operators below z = [s, w] is the process with the world around it.
delete_child(z, t) ==
    [z EXCEPT !.s.ch = SelectSeq(@, LAMBDA c : c.id # t),
              !.w.task[t].pipe = [c \in Channels |-> <<>>]]

kill_child(z, t) == [z EXCEPT !.w = killGroup(@, t)]

\* What is still to come of a child: its status, and the end of each channel.
Drained(c) == c.refs <= 0 /\ c.out.buf = <<>> /\ c.err.buf = <<>>
unlink_child(x, t) ==
    LET killed(z) == IF ~z.s.fd /\ ~z.s.cli THEN kill_child(z, t) ELSE z
        less(z) == [z EXCEPT !.s = setChild(@, [child_(@, t) EXCEPT !.refs = @ - 1])]
        rest(z) == IF Drained(child_(z.s, t)) THEN delete_child(z, t) ELSE z
    IN  Of(Of(Of(x, killed), less), rest)

\* The connection failed: every child is unlinked once.
noRemote(z, t) == [z EXCEPT !.s = setChild(@, [child_(@, t) EXCEPT !.rem = FALSE])]
lostNios(z) == EachChild([z EXCEPT !.s.fd = FALSE], LAMBDA a, t : unlink_child(noRemote(a, t), t))

delete_client(x) ==
    LET noClient(z, t) == [z EXCEPT !.s = setChild(@, [child_(@, t) EXCEPT !.cln = FALSE, !.info = FALSE])]
        noInfo(z, t) == IF child_(z.s, t).info THEN unlink_child(noClient(z, t), t) ELSE noClient(z, t)
        stop(z, t) == IF ~z.s.fd /\ hasChild(z.s, t) THEN kill_child(z, t) ELSE z
        forget(z, t) == IF child_(z.s, t).cln THEN Of(noInfo(z, t), LAMBDA y : stop(y, t)) ELSE z
    IN  Of(x, LAMBDA z : IF z.s.cli THEN [EachChild(z, forget) EXCEPT !.s.cli = FALSE] ELSE z)

-----------------------------------------------------------------------------
\* Messages written at once (NB_SOCK_WRITE_FIX): they fail when NIOS is gone
\* or does not make room for two seconds.

frame(k, t, d) == [k |-> k, t |-> t, d |-> d]
CanWrite(w) == w.nup /\ (Len(w.wire) < WireRoom \/ ~w.slow)
put(z, f) == [z EXCEPT !.w.wire = Append(@, f)]

\* A child that only stopped will be reported again.
lastReport(stat) == stat = "exit"

\* notify_sigchild: tell NIOS what became of a child.  The failure of the
\* write takes the client with it.
notify_sigchild(x, t) ==
    LET how == child_(x.s, t).stat
        told(z) == [z EXCEPT !.s = setChild(@, [child_(@, t) EXCEPT !.sig = FALSE, !.sentStatus = TRUE])]
        orphan(z, u) == [z EXCEPT !.s = setChild(@, [child_(@, u) EXCEPT !.cln = FALSE])]
        unless(z, u) == IF child_(z.s, u).sentEof THEN z ELSE unlink_child(z, u)
        drop(z, u) == Of(delete_client(noRemote(z, u)),
                         LAMBDA d : IF hasChild(d.s, u) THEN Of(orphan(d, u), LAMBDA e : unless(e, u)) ELSE d)
        sent(z) == IF CanWrite(z.w) THEN put(z, frame("stat", t, <<how>>))
                   ELSE EachChild([z EXCEPT !.s.fd = FALSE], drop)
        rest(z) == IF hasChild(z.s, t) /\ lastReport(how) THEN unlink_child(z, t) ELSE z
    IN  Of(Of(Of(x, told), sent), rest)

\* eof_to_nios and declare_eof_condition: the end of one channel.
eof_to_nios(x, t) ==
    LET drop(z, u) == IF child_(z.s, u).sentStatus THEN noRemote(z, u) ELSE unlink_child(noRemote(z, u), u)
        sent(z) == IF CanWrite(z.w) THEN put(z, frame("eof", t, <<>>))
                   ELSE EachChild([z EXCEPT !.s.fd = FALSE], drop)
        said(z) == IF hasChild(z.s, t) THEN [z EXCEPT !.s = setChild(@, [child_(@, t) EXCEPT !.sentEof = TRUE])]
                   ELSE z
    IN  Of(Of(x, sent), said)

declare_eof_condition(x, t, ch) ==
    LET closed(c) == IF ch = "err" THEN [c EXCEPT !.err.fd = FALSE]
                     ELSE [c EXCEPT !.stdio = FALSE, !.out.fd = FALSE]
    IN  Of(eof_to_nios(x, t),
           LAMBDA z : IF hasChild(z.s, t)
                      THEN unlink_child([z EXCEPT !.s = setChild(@, closed(child_(@, t)))], t) ELSE z)

\* deliver_notifications: a queued status that cannot be written is given up;
\* a new task that cannot be announced stays queued, and is unlinked each time.
deliver_notifications(z) ==
    LET again(a, f) == [(IF hasChild(a.s, f.t) THEN unlink_child(a, f.t) ELSE a) EXCEPT !.s.notes = Append(@, f)]
        deliver(b, f) == Of(b, LAMBDA a : IF CanWrite(a.w) THEN put(a, f)
                                          ELSE IF f.k = "new" THEN again(a, f) ELSE a)
    IN  FoldLeft(deliver, [z EXCEPT !.s.notes = <<>>], z.s.notes)

-----------------------------------------------------------------------------
\* The children's ends.

\* The standard output is one socket with the standard input.
endOf(c, ch) ==
    LET e == [c EXCEPT ![ch].end = TRUE, ![ch].fd = FALSE]
    IN  IF ch = "out" THEN [e EXCEPT !.stdio = FALSE] ELSE e

\* child_channel_clear: read what fits into the buffer of the channel; the
\* end of file closes it.
child_channel_clear(z, t, ch) ==
    LET c == child_(z.s, t)
        p == z.w.task[t].pipe[ch]
        n == IF LineBuf - Len(c[ch].buf) < Len(p) THEN LineBuf - Len(c[ch].buf) ELSE Len(p)
    IN  IF Len(c[ch].buf) >= LineBuf THEN z
        ELSE IF p # <<>> THEN [z EXCEPT !.s = setChild(@, [c EXCEPT ![ch].buf = @ \o SubSeq(p, 1, n)]),
                                        !.w.task[t].pipe[ch] = SubSeq(p, n + 1, Len(p))]
        ELSE IF p = <<>> /\ ~Written(z.w, t) THEN [z EXCEPT !.s = setChild(@, endOf(c, ch))]
        ELSE [z EXCEPT !.s.again = @ \cup {<<t, ch>>}]      \* nothing there yet

Mut_readAgain(z, t, ch) ==
    LET c == child_(z.s, t)
    IN  IF c.running \/ GroupThere(z.w, t) THEN z ELSE [z EXCEPT !.s = setChild(@, endOf(c, ch))]

\* A drained channel of a finished child is read once more: its last writer
\* may have written and gone since.  Then it is at its end even when a process
\* outside the group still holds it.
readAgain(z, t, ch) ==
    LET c == child_(z.s, t)
        p == z.w.task[t].pipe[ch]
        n == IF LineBuf < Len(p) THEN LineBuf ELSE Len(p)
    IN  IF c.running \/ GroupThere(z.w, t) THEN z
        ELSE IF p = <<>> THEN [z EXCEPT !.s = setChild(@, endOf(c, ch))]
        ELSE [z EXCEPT !.s = setChild(@, [c EXCEPT ![ch].buf = SubSeq(p, 1, n), ![ch].retry = TRUE]),
                       !.w.task[t].pipe[ch] = SubSeq(p, n + 1, Len(p))]

\* child_handler_ext: wait3 reports the children that ended or stopped.
child_handler_ext(x) ==
    LET news == {t \in ResTasksIds : x.w.task[t].tell # "none"}
        waited(z, t, how) == [z EXCEPT !.w.task[t].tell = "none", !.w.task[t].reaped = @ \/ how = "exit"]
        noted(z, t, how) ==
            [z EXCEPT !.s = setChild(@, [child_(@, t) EXCEPT !.stat = how, !.sig = TRUE,
                                !.running = @ /\ how # "exit", !.up = @ /\ how # "exit",
                                !.out.retry = @ \/ (how = "exit" /\ child_(z.s, t).out.fd)])]
        unheard(z, t) == IF ~child_(z.s, t).rem /\ ~z.s.cli THEN unlink_child(z, t) ELSE z
        heard(b, t) ==
            Of(waited(b, t, x.w.task[t].tell),
               LAMBDA a : IF hasChild(a.s, t) THEN Of(noted(a, t, x.w.task[t].tell), LAMBDA z : unheard(z, t)) ELSE a)
        unwaited(k) == ~k.reaped /\ (k.exited \/ k.left # <<>>)
        goesOn(z) == [z EXCEPT !.s.resumed = FALSE, !.s.ch[1].stat = "cont"]
        resumed(z) ==
            IF ~z.s.resumed \/ \A t \in ResTasksIds : ~unwaited(z.w.task[t]) THEN z
            ELSE IF xc.mode # "batch" \/ z.s.ch = <<>> THEN [z EXCEPT !.s.resumed = FALSE]
            ELSE notify_sigchild(goesOn(z), z.s.ch[1].id)
    IN  Of(FoldLeft(heard, x, SetToSeq(news)), resumed)

-----------------------------------------------------------------------------
\* Standard input: from the buffer of the connection to those of the children.

takesInput(c) == c.stdio /\ c.running /\ c.up
waiting(s, c) == takesInput(c) /\ (IF s.rtag = 0 THEN c.id \notin s.duped ELSE c.id = s.rtag)

\* dochild_buffer, reading: one child's copy of the input.
bufferInput(s, t) ==
    LET c == child_(s, t)
        given == setChild(s, [c EXCEPT !.ibuf = s.rbuf])
        all == \A d \in Range(s.ch) : d.stdio => d.id \in s.duped \cup {t}
        done(a) == [a EXCEPT !.rbuf = <<>>, !.duped = {}, !.rtag = IF a.rleft = <<>> THEN -1 ELSE @]
    IN  IF c.ibuf # <<>> THEN s
        ELSE IF s.rtag = t THEN done(given)
        ELSE IF s.rtag = 0 /\ t \notin s.duped THEN
                 IF all THEN done(given) ELSE [given EXCEPT !.duped = @ \cup {t}]
        ELSE s

\* houseKeeping: input nobody waits for is dropped.
giveInput(s) ==
    LET kept == IF s.rbuf # <<>> /\ \A c \in Range(s.ch) : ~waiting(s, c)
                THEN [s EXCEPT !.rbuf = <<>>, !.rtag = -1, !.duped = {}] ELSE s
    IN  IF kept.rbuf = <<>> THEN kept
        ELSE FoldLeft(LAMBDA a, i : IF i <= Len(a.ch) /\ takesInput(a.ch[i]) THEN bufferInput(a, a.ch[i].id) ELSE a,
                      kept, Slots2)

-----------------------------------------------------------------------------
\* Output: from the buffers of the children to that of the connection.

Newlines(b) == {i \in DOMAIN b : b[i] \in {"n", "e"}}
Mut_toSend(ch) ==
    IF xc.mode = "batch" THEN Len(ch.buf)
    ELSE IF Newlines(ch.buf) # {} THEN CHOOSE i \in Newlines(ch.buf) : \A j \in Newlines(ch.buf) : j <= i
    ELSE IF Len(ch.buf) < LineBuf THEN 0
    ELSE Len(ch.buf)

\* Whole lines are sent, unless the buffer is full or the channel at its end;
\* an interactive batch job sends what there is.
toSend(ch) ==
    IF xc.mode = "batch" THEN Len(ch.buf)
    ELSE IF Newlines(ch.buf) # {} THEN CHOOSE i \in Newlines(ch.buf) : \A j \in Newlines(ch.buf) : j <= i
    ELSE IF Len(ch.buf) < LineBuf /\ ~ch.end THEN 0
    ELSE Len(ch.buf)

\* dochild_buffer, writing: the status and the end of file wait until the
\* buffer of the channel has been sent.
dochild_buffer(x, t, ch) ==
    LET send(z, n) == [z EXCEPT !.s = [setChild(@, [child_(@, t) EXCEPT ![ch].buf = SubSeq(@, n + 1, Len(@))])
                                       EXCEPT !.wbuf = <<frame(ch, t, SubSeq(child_(z.s, t)[ch].buf, 1, n))>>]]
        ended(z) == [z EXCEPT !.s = setChild(@, [child_(@, t) EXCEPT ![ch].end = FALSE])]
        status(z) == IF child_(z.s, t).sig THEN notify_sigchild(z, t) ELSE z
        failed(z) == child_(x.s, t).sig /\ ~z.s.fd
        atEnd(z) == IF failed(z) \/ ~hasChild(z.s, t) THEN z
                    ELSE IF child_(z.s, t)[ch].end THEN declare_eof_condition(ended(z), t, ch) ELSE z
    IN  IF child_(x.s, t)[ch].buf = <<>> THEN Of(Of(x, status), atEnd)
        ELSE IF toSend(child_(x.s, t)[ch]) = 0 THEN x
        ELSE send(x, toSend(child_(x.s, t)[ch]))

\* What houseKeeping does for one child.
relayChild(z, t) ==
    LET c == child_(z.s, t)
    IN  IF c.out.buf # <<>> \/ c.sig \/ c.out.end THEN dochild_buffer(z, t, "out")
        ELSE IF c.err.buf # <<>> \/ c.err.end THEN dochild_buffer(z, t, "err")
        ELSE z

\* houseKeeping, the output: round robin from the child after the last one,
\* until something is to be sent.  g.j and g.cnt are the loop's j and ch_cnt.
relayOutput(z) ==
    LET after(g, i, y) ==
            IF y.s.wbuf # <<>> THEN [g EXCEPT !.z = [y EXCEPT !.s.prev = i], !.done = TRUE]
            ELSE IF Len(y.s.ch) < g.cnt THEN [g EXCEPT !.z = [y EXCEPT !.s.prev = i - 1], !.cnt = @ - 1]
            ELSE [g EXCEPT !.z = y, !.j = @ + 1]
        one(g, i) == Of(relayChild(g.z, g.z.s.ch[i + 1].id), LAMBDA y : after(g, i, y))
        turn(h, k) == Of(h, LAMBDA g :
                          IF g.done \/ g.j >= Len(g.z.s.ch) THEN [g EXCEPT !.done = TRUE]
                          ELSE Of((g.j + g.z.s.prev + 1) % Len(g.z.s.ch), LAMBDA i : one(g, i)))
        start == IF z.s.prev >= Len(z.s.ch) THEN [z EXCEPT !.s.prev = -1] ELSE z
    IN  IF ~z.s.fd \/ z.s.wbuf # <<>> THEN z
        ELSE FoldLeft(turn, [z |-> start, j |-> 0, cnt |-> Len(z.s.ch), done |-> FALSE], Slots2 \o Slots2).z

-----------------------------------------------------------------------------
\* One turn of main's loop.

Zed == [s |-> xs, w |-> xw]
Become(z, pc) == xs' = [z.s EXCEPT !.pc = pc] /\ xw' = z.w /\ UNCHANGED xc

\* main deletes the finished children nobody waits for.
deleteLeft(z) ==
    EachChild(z, LAMBDA a, t :
        IF ~child_(a.s, t).cln /\ ~a.s.fd /\ ~child_(a.s, t).running THEN delete_child(a, t) ELSE a)

\* houseKeeping: the channels of finished children are read without waiting
\* for select.
retryReads(z) ==
    LET try(a, t, ch) ==
            LET c == child_(a.s, t)[ch]
                b == [a EXCEPT !.s = setChild(@, [child_(@, t) EXCEPT ![ch].retry = @ /\ ~child_(a.s, t).running])]
            IN  IF c.buf = <<>> /\ c.fd /\ c.retry THEN child_channel_clear(b, t, ch) ELSE a
    IN  EachChild(z, LAMBDA a, t : try(try(a, t, "out"), t, "err"))

LoopTop ==
    /\ xs.pc = "top"
    /\ \E z \in {deleteLeft(Zed)} :
         IF z.s.ch = <<>> /\ ~z.s.cli
         THEN Become(z, "exited")
         ELSE \E y \in {retryReads(z)} : Become(y, "house")

\* A message half sent (wcount) is finished first.
mayNotify(s) == s.fd /\ ~s.cut

HouseKeeping ==
    /\ xs.pc = "house"
    /\ \E a \in {FoldLeft(LAMBDA b, x : readAgain(b, x[1], x[2]), Zed, SetToSeq(xs.again))} :
       \E b \in {child_handler_ext([a EXCEPT !.s.again = {}])} :
       \E c \in {IF mayNotify(b.s) THEN deliver_notifications(b) ELSE b} :
       \E d \in {[c EXCEPT !.s = giveInput(@)]} :
       \E e \in {relayOutput(d)} : Become(e, "select")

\* SIGCHLD is only let in around select, which it interrupts.
Sigchld ==
    /\ xs.pc = "select"
    /\ \E t \in ResTasksIds : xw.task[t].tell # "none"
    /\ \E z \in {child_handler_ext(Zed)} : Become(z, "top")

\* getMaskReady: NIOS is not read while its last input has not been passed on.
niosReadable == xs.fd /\ xs.rbuf = <<>> /\ (~xw.nup \/ xs.rleft # <<>> \/ xw.say # <<>>)

niosWritable == xs.fd /\ xs.wbuf # <<>> /\ (~xw.nup \/ Len(xw.wire) < WireRoom)
infoReadable(c) == c.info /\ xw.task[c.id].left = <<>>
outReadable(c, ch) ==
    /\ c[ch].fd
    /\ Len(c[ch].buf) < LineBuf
    /\ xw.task[c.id].pipe[ch] # <<>> \/ ~Written(xw, c.id)
inWritable(c) == c.stdio /\ (c.ibuf # <<>> \/ c.eofin)

tagged(t, u) == t \in {0, u}
\* resSignal: to the group of each task the message is for.
resSignal(w, t, sig) ==
    LET k == w.task[t]
    IN  IF ~GroupThere(w, t) THEN w
        ELSE CASE sig = "KILL" -> killGroup(w, t)
               [] sig = "STOP" /\ k.left # <<>> ->
                    [w EXCEPT !.task[t].stopped = TRUE,
                              !.task[t].tell = IF k.exited \/ k.stopped THEN k.tell ELSE "stop"]
               [] sig = "CONT" -> [w EXCEPT !.task[t].stopped = FALSE]
               [] OTHER -> w

\* donios_sock, reading: the next piece of the input NIOS sends.
nextPiece(n) ==
    LET piece == SubSeq(xs.rleft, 1, n)
        gets(t) == hasChild(xs, t) /\ takesInput(child_(xs, t)) /\ tagged(xs.rtag, t)
    IN  [s |-> [xs EXCEPT !.rbuf = piece, !.rleft = SubSeq(@, n + 1, Len(@))],
         w |-> [xw EXCEPT !.due = [t \in ResTasksIds |-> IF gets(t) THEN @[t] \o piece ELSE @[t]]]]

\* donios_sock, reading: input for one or all tasks, its end, or a signal.
nextMessage(m) ==
    LET w == [xw EXCEPT !.say = Tail(@)]
        mine == {t \in ResTasksIds : hasChild(xs, t) /\ tagged(m.t, t)}
        noMore(c) == IF c.id \in mine THEN [c EXCEPT !.up = FALSE, !.eofin = TRUE] ELSE c
    IN  CASE m.k = "stdin" -> [s |-> [xs EXCEPT !.rtag = m.t, !.rleft = m.d], w |-> w]
          [] m.k = "eof" -> [s |-> [xs EXCEPT !.ch = [i \in DOMAIN @ |-> noMore(@[i])]], w |-> w]
          [] OTHER -> [s |-> xs, w |-> FoldLeft(LAMBDA a, t : resSignal(a, t, m.k), w, SetToSeq(mine))]

donios_read ==
    /\ xs.pc = "select" /\ niosReadable
    /\ IF ~xw.nup THEN \E z \in {lostNios(Zed)} : Become(z, "top")
       ELSE IF xs.rleft = <<>> THEN Become(nextMessage(Head(xw.say)), "top")
       ELSE \E n \in IF xc.split THEN 1..Len(xs.rleft) ELSE {Len(xs.rleft)} : Become(nextPiece(n), "top")

\* donios_sock, writing: the kernel may take only part of the message.
donios_write ==
    /\ xs.pc = "select" /\ niosWritable
    /\ IF ~xw.nup THEN \E z \in {lostNios(Zed)} : Become(z, "top")
       ELSE \/ Become([s |-> [xs EXCEPT !.wbuf = <<>>, !.cut = FALSE],
                       w |-> [xw EXCEPT !.wire = Append(@, xs.wbuf[1])]], "top")
            \/ /\ xc.split /\ ~xs.cut
               /\ Become([s |-> [xs EXCEPT !.cut = TRUE],
                          w |-> [xw EXCEPT !.wire = Append(@, frame("cut", xs.wbuf[1].t, <<>>))]], "top")

\* dochild_info: the end of the channel for task messages.
dochild_info ==
    /\ xs.pc = "select" /\ ~niosWritable
    /\ \E i \in DOMAIN xs.ch :
         /\ infoReadable(xs.ch[i])
         /\ \A j \in 1..(i - 1) : ~infoReadable(xs.ch[j])
         /\ \E z \in {unlink_child([Zed EXCEPT !.s.ch[i].info = FALSE], xs.ch[i].id)} : Become(z, "top")

addResNotifyList(s, k, t, d) == [s EXCEPT !.notes = Append(@, frame(k, t, d))]

NewChild(t) ==
    LET chan(open) == [fd |-> open, buf |-> <<>>, end |-> FALSE, retry |-> FALSE]
    IN  [id |-> t, refs |-> 2 + (IF xc.info THEN 1 ELSE 0) + (IF xc.err THEN 1 ELSE 0),
         running |-> TRUE, sig |-> FALSE, stat |-> "none", stdio |-> TRUE, up |-> TRUE,
         eofin |-> FALSE, ibuf |-> <<>>, out |-> chan(TRUE), err |-> chan(xc.err),
         info |-> xc.info, cln |-> xc.mode = "client", rem |-> TRUE, sentEof |-> FALSE, sentStatus |-> FALSE]

\* resRexec, doRexec: the first task calls NIOS back, a later one is announced.
resRexec(t, ok) ==
    LET first == xs.ch = <<>> /\ ~xs.fd
        s1 == IF first THEN [xs EXCEPT !.fd = TRUE] ELSE addResNotifyList(xs, "new", t, <<>>)
        failed == [addResNotifyList(s1, "stat", t, <<"fail">>) EXCEPT !.fd = @ /\ xs.ch # <<>>]
    IN  IF first /\ ~xw.nup THEN [s |-> xs, w |-> xw]                  \* NIOS cannot be called
        ELSE IF ok
        THEN [s |-> [s1 EXCEPT !.ch = Append(@, [NewChild(t) EXCEPT !.rem = s1.fd])],
              w |-> [xw EXCEPT !.task[t].left = xc.script[t], !.task[t].det = xc.det[t],
                               !.due[t] = IF xs.rtag = 0 THEN xs.rbuf ELSE <<>>]]
        ELSE [s |-> failed, w |-> xw]

\* doclient: the client's next request, or its end.
doclient ==
    /\ xs.pc = "select" /\ xs.cli /\ ~niosWritable /\ xw.asks # <<>>
    /\ \A i \in DOMAIN xs.ch : ~infoReadable(xs.ch[i])
    /\ LET q == Head(xw.asks)
           z == CASE q.k = "exec" -> resRexec(q.t, TRUE)
                  [] q.k = "fail" -> resRexec(q.t, FALSE)
                  [] q.k = "close" -> delete_client(Zed)
                  [] OTHER -> [s |-> xs, w |-> IF hasChild(xs, q.t) THEN resSignal(xw, q.t, q.k) ELSE xw]
       IN  Become([z EXCEPT !.w.asks = Tail(xw.asks)], "top")

\* dochild_stdio, reading: every channel that is ready.
readChildren ==
    /\ xs.pc = "select" /\ ~niosWritable
    /\ \A i \in DOMAIN xs.ch : ~infoReadable(xs.ch[i])
    /\ \E c \in Range(xs.ch), ch \in Channels : outReadable(c, ch)
    /\ LET read(a, t, ch) == IF outReadable(child_(xs, t), ch) THEN child_channel_clear(a, t, ch) ELSE a
       IN  \E z \in {EachChild(Zed, LAMBDA a, t : read(read(a, t, "out"), t, "err"))} : Become(z, "top")

\* dochild_stdio, writing: the input a task has room for; its end comes after.
writeChildren ==
    /\ xs.pc = "select" /\ ~niosWritable
    /\ \A c \in Range(xs.ch) : ~infoReadable(c) /\ \A ch \in Channels : ~outReadable(c, ch)
    /\ \E c \in Range(xs.ch) : inWritable(c)
    /\ LET feed(a, t) ==
               LET c == child_(a.s, t)
                   shut(b) == [b EXCEPT !.s = setChild(@, [child_(@, t) EXCEPT !.up = FALSE, !.eofin = FALSE]),
                                        !.w.eof = @ \cup {t}]
               IN  IF ~inWritable(c) THEN a
                   ELSE IF c.ibuf = <<>> THEN shut(a)
                   ELSE IF ~Written(a.w, t)
                   THEN [a EXCEPT !.s = setChild(@, [c EXCEPT !.up = FALSE])]
                   ELSE LET fed == [a EXCEPT !.s = setChild(@, [c EXCEPT !.ibuf = <<>>]),
                                             !.w.fed[t] = @ \o c.ibuf]
                        IN  IF c.eofin THEN shut(fed) ELSE fed
       IN  \E z \in {EachChild(Zed, feed)} : Become(z, "top")

\* select returns after 20 seconds when nothing is ready.
selectTimeout ==
    /\ xs.pc = "select" /\ ~niosWritable /\ ~(niosReadable /\ ~xw.nup)
    /\ \A c \in Range(xs.ch) : ~infoReadable(c) /\ ~inWritable(c) /\ \A ch \in Channels : ~outReadable(c, ch)
    /\ Become(Zed, "top")

-----------------------------------------------------------------------------
\* The environment.

Listens(t, ch) == hasChild(xs, t) /\ child_(xs, t)[ch].fd
\* A process of the task's group takes its next step.
TaskStep(t) ==
    LET k == xw.task[t]
        x == Head(k.left)
        n == [k EXCEPT !.left = Tail(@)]
    IN  /\ k.left # <<>> /\ ~k.stopped /\ x # "w"
        /\ xw' = [xw EXCEPT !.task[t] =
                     IF x = "x" THEN [n EXCEPT !.exited = TRUE, !.tell = "exit"]
                     ELSE [n EXCEPT !.pipe[chanOf(x)] = IF Listens(t, chanOf(x)) THEN Append(@, x) ELSE @,
                                    !.wrote[chanOf(x)] = Append(@, x)]]
        /\ UNCHANGED <<xc, xs>>

\* A process that left the group writes to the inherited standard output.
DetachedStep(t) ==
    LET k == xw.task[t]
    IN  /\ k.det # <<>>
        /\ xw' = [xw EXCEPT !.task[t].det = Tail(@),
                            !.task[t].pipe["out"] = IF Listens(t, "out") THEN Append(@, Head(k.det)) ELSE @,
                            !.task[t].wrote["out"] = Append(@, Head(k.det))]
        /\ UNCHANGED <<xc, xs>>

\* NIOS reads the next message.
Finished(g) == g.eofs > 0 /\ "exit" \in Range(g.stat)
NiosReads ==
    /\ xw.nup /\ xw.wire # <<>>
    /\ LET f == Head(xw.wire)
           g == CASE f.k \in Channels -> [xw.got EXCEPT ![f.t].text[f.k] = @ \o f.d]
                  [] f.k = "eof" -> [xw.got EXCEPT ![f.t].eofs = @ + 1]
                  [] f.k = "stat" -> [xw.got EXCEPT ![f.t].stat = @ \o f.d]
                  [] OTHER -> xw.got
       IN  xw' = [xw EXCEPT !.wire = Tail(@), !.got = g]
    /\ UNCHANGED <<xc, xs>>

\* The NIOS of an interactive batch job leaves when it has the end of the
\* output and the status; another one when its user does.
NiosLeaves ==
    /\ xw.nup
    /\ xc.quits \/ (xc.mode = "batch" /\ \E t \in ResTasksIds : Finished(xw.got[t]))
    /\ xw' = [xw EXCEPT !.nup = FALSE, !.wire = <<>>, !.say = <<>>]
    /\ UNCHANGED <<xc, xs>>

\* sigHandler: the RES of a batch job is resumed, and its group with it.
sigHandler ==
    /\ xs.pc = "select" /\ xc.mode = "batch" /\ xw.conts > 0
    /\ xs' = [xs EXCEPT !.resumed = TRUE]
    /\ xw' = [[xw EXCEPT !.conts = @ - 1]
               EXCEPT !.task = [t \in ResTasksIds |-> [@[t] EXCEPT !.stopped = FALSE]]]
    /\ UNCHANGED xc

-----------------------------------------------------------------------------
ResInit(sc) ==
    LET batch == sc.mode = "batch"
        kid(t) == [left |-> IF batch /\ t = 1 THEN sc.script[t] ELSE <<>>, det |-> IF batch /\ t = 1 THEN sc.det[t] ELSE <<>>,
                   exited |-> FALSE, reaped |-> FALSE, stopped |-> FALSE, tell |-> "none",
                   pipe |-> [c \in Channels |-> <<>>], wrote |-> [c \in Channels |-> <<>>]]
    IN  /\ xc = sc
        /\ xs = [pc |-> "top", cli |-> ~batch, fd |-> batch, wbuf |-> <<>>, cut |-> FALSE, rbuf |-> <<>>,
                 rleft |-> <<>>, rtag |-> -1, duped |-> {}, notes |-> <<>>, prev |-> -1, again |-> {},
                 resumed |-> FALSE, ch |-> IF batch THEN <<NewChild(1)>> ELSE <<>>]
        /\ xw = [task |-> [t \in ResTasksIds |-> kid(t)], nup |-> TRUE, slow |-> sc.slow, wire |-> <<>>,
                 say |-> sc.say, asks |-> sc.asks, conts |-> sc.conts,
                 due |-> [t \in ResTasksIds |-> <<>>], fed |-> [t \in ResTasksIds |-> <<>>], eof |-> {},
                 got |-> [t \in ResTasksIds |-> [text |-> [c \in Channels |-> <<>>], eofs |-> 0, stat |-> <<>>]]]

ResStep ==
    \/ LoopTop \/ HouseKeeping \/ Sigchld \/ donios_read \/ donios_write \/ dochild_info
    \/ doclient \/ readChildren \/ writeChildren \/ selectTimeout

ResNext ==
    \/ ResStep \/ NiosReads \/ NiosLeaves \/ sigHandler
    \/ \E t \in ResTasksIds : TaskStep(t) \/ DetachedStep(t)

\* The loop of the process goes round for ever: only a step of the process
\* changes pc, and until the process has exited some step is possible.
ResFairness ==
    /\ []<>(xs.pc \in {"top", "exited"}) /\ []<>(xs.pc # "top")
    /\ WF_xvars(NiosReads)
    /\ \A t \in ResTasksIds : WF_xvars(TaskStep(t)) /\ WF_xvars(DetachedStep(t))

-----------------------------------------------------------------------------
\* Properties.

Sent(fs, t, ch) == FoldLeft(LAMBDA a, f : IF f.k = ch /\ f.t = t THEN a \o f.d ELSE a, <<>>, fs)
Relayed(t, ch) ==
    xw.got[t].text[ch] \o Sent(xw.wire, t, ch) \o Sent(xs.wbuf, t, ch)
    \o (IF hasChild(xs, t) THEN child_(xs, t)[ch].buf \o xw.task[t].pipe[ch] ELSE <<>>)

\* The output of a task reaches NIOS in order, without loss or repetition:
\* what NIOS has read, what is on the wire and in the buffers of RES, and what
\* is in the pipe is all that was written, even after the child has been
\* deleted.  Only a process that left the group may write too late.
OutputFaithful ==
    \A t \in ResTasksIds, ch \in Channels :
        xw.nup => /\ IsPrefix(Relayed(t, ch), xw.task[t].wrote[ch])
                  /\ (xs.fd /\ xc.det[t] = <<>>) => Relayed(t, ch) = xw.task[t].wrote[ch]

\* The reference count of a child is what NIOS and the client are still to be
\* told of it: its final status, the end of each output channel and of the
\* channel for task messages (refcnt, which unlink_child counts down).
RefsExact ==
    (xs.fd /\ xw.nup) =>
        \A c \in Range(xs.ch) :
            c.refs = Cardinality({x \in {"status", "out", "err", "info"} :
                         CASE x = "status" -> c.running \/ c.sig
                           [] x = "info" -> c.info
                           [] OTHER -> c[x].fd \/ c[x].end})

\* A task gets the input meant for it (rtag its number, or 0 for all) in
\* order and once, and the end of its input only after all of it.
StdinFaithful ==
    \A t \in ResTasksIds :
        /\ IsPrefix(xw.fed[t], xw.due[t])
        /\ t \in xw.eof => xw.fed[t] = xw.due[t]
        /\ \A c \in Range(xs.ch) :
             (c.id = t /\ takesInput(c) /\ c.ibuf = <<>> /\ (xs.rbuf = <<>> \/ ~waiting(xs, c)))
                 => xw.fed[t] = xw.due[t]

\* A message whose sending was cut in two is finished before another one is
\* begun (wcount); only the notice that a batch job was resumed ignores it.
FramesIntact ==
    \A i \in 1..(Len(xw.wire) - 1) :
        xw.wire[i].k = "cut" => \/ xw.wire[i + 1].k \in Channels /\ xw.wire[i + 1].t = xw.wire[i].t
                               \/ xw.wire[i + 1].d = <<"cont">>

\* NIOS learns of the end of a task (its status and the end of its output)
\* unless the connection is lost: a status waits for the output before it.
TaskEndReported ==
    \A t \in ResTasksIds :
        []<>(xw.task[t].left = <<>> /\ xw.task[t].exited /\ xc.det[t] = <<>>
                => Finished(xw.got[t]) \/ ~xw.nup \/ ~xs.fd)

\* When NIOS and the client are gone the task they started is killed (unless
\* it ends by itself), and the process that served them ends.
NothingLeft ==
    []<>(~xw.nup /\ ~xs.cli /\ (\A t \in ResTasksIds : xw.task[t].det = <<>>)
            => xs.pc = "exited" /\ \A t \in ResTasksIds : xw.task[t].left = <<>>)

\* RES serves the tasks of a job faithfully: the output of each goes to NIOS
\* and its input comes from there in order, once and to the last character,
\* no message is torn by another one (wcount), and a child is deleted when,
\* and only when, nothing is owed of it any more (unlink_child).
TasksServed == OutputFaithful /\ StdinFaithful /\ FramesIntact /\ RefsExact
====
