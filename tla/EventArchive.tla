----------------------------- MODULE EventArchive -----------------------------
(***************************************************************************)
(* The archived event files and their readers.  mbatchd's switch moves     *)
(* lsb.events.0 behind the others one rename at a time (renameElogFiles,   *)
(* mbd.log.c) and a forked child then updates the index of job ids         *)
(* (updateJobIdIndexFile, lsb.log.c).  bhist walks the same files from the *)
(* oldest it needs to the current one, by number, by time window or by the *)
(* index (logfile_check, bhist.c; lsb_openelog, lsb_getelogrec and         *)
(* lsbGetNextJobEvent, lsb.log.c), with no lock between the two.           *)
(***************************************************************************)
EXTENDS Integers, Sequences, FiniteSets, SequencesExt, FiniteSetsExt

CONSTANTS
    ArchJobs,       \* job ids, numbers
    MaxArchEvents,  \* events logged in a behaviour
    MaxArchFiles,   \* files archived in a behaviour
    MaxArchTime,    \* the clock, in seconds
    ArchRequests    \* what bhist may be asked: records [kind, ...]

VARIABLES
    afile,      \* lsb.events.N: the time in its first line, and its events
    acur,       \* the events of lsb.events behind the offset of its first line
    aclock, acount,
    aswitch,    \* the switch: 0 idle, i the next file to rename is i - 1
    aidx,       \* the index: the number of rows its header gives, and the rows
    achild,     \* the child at work: total, the file it is at, rows, the lines so far
    ard         \* the bhist at work, or NoReader

avars == <<afile, acur, aclock, acount, aswitch, aidx, achild, ard>>

NoArchFile   == [stamp |-> 0, ev |-> <<>>]
NoReader == [phase |-> "none"]
NoChild  == [total |-> 0]
NoIndex  == [rows |-> -1, lines |-> <<>>]
BadIndex == [rows |-> -2, lines |-> <<>>]      \* its header is still blank

Exists(n)  == afile[n] # NoArchFile
JobsIn(f)  == {f.ev[i].job : i \in DOMAIN f.ev}

\* The first N in 1, 2, ... with no lsb.events.N.
FirstFree == CHOOSE n \in 1..MaxArchFiles + 1 :
                 ~Exists(n) /\ \A m \in 1..n - 1 : Exists(m)

-------------------------------------------------------------------------------
\* mbatchd

LogEvent(j) ==
    /\ acount < MaxArchEvents
    /\ acur' = Append(acur, [id |-> acount, job |-> j, time |-> aclock])
    /\ acount' = acount + 1
    /\ UNCHANGED <<afile, aclock, aswitch, aidx, achild, ard>>

\* switch_log: createEvent0File copies what follows the offset, the new
\* lsb.events replaces the old one, and renameElogFiles looks for the last
\* file.  A child of an earlier switch has long finished, and two switches are
\* never made in the same second.
SwitchLog ==
    /\ aswitch = 0
    /\ achild = NoChild
    /\ FirstFree <= MaxArchFiles
    /\ afile[1].stamp < aclock
    /\ afile' = [afile EXCEPT ![0] = [stamp |-> aclock, ev |-> acur]]
    /\ acur' = <<>>
    /\ aswitch' = FirstFree
    /\ ard' = IF ard = NoReader THEN ard ELSE [ard EXCEPT !.clean = FALSE]
    /\ UNCHANGED <<aclock, acount, aidx, achild>>

\* One rename of renameElogFiles, from the highest number down; after the
\* last one switch_log forks the child.
RenameStep ==
    /\ aswitch > 0
    /\ LET i == aswitch - 1
       IN  afile' = [afile EXCEPT ![i + 1] = afile[i], ![i] = NoArchFile]
    /\ aswitch' = aswitch - 1
    /\ achild' = IF aswitch = 1
                 THEN [total |-> FirstFree', at |-> -1, rows |-> 0, lines |-> <<>>]
                 ELSE achild
    /\ UNCHANGED <<acur, aclock, acount, aidx, ard>>

-------------------------------------------------------------------------------
\* The child.  FirstFree' counts lsb.events.0 too: total files is one less.

\* writeJobIdIndexToIndexFile: the ids of one file, largest first.
IndexLine(f) ==
    LET RECURSIVE desc(_)
        desc(s) == IF s = {} THEN <<>> ELSE <<Max(s)>> \o desc(s \ {Max(s)})
    IN  desc(JobsIn(f))

\* The header says how many files the index covers: one fewer than there are
\* now, and only the newest is added; anything else, and it is built anew.
updateJobIdIndexFile(total, idx) ==
    IF idx.rows >= 0 /\ total = idx.rows + 1
    THEN [from |-> 1, rows |-> idx.rows, lines |-> idx.lines]
    ELSE [from |-> total, rows |-> 0, lines |-> <<>>]

\* Opening an index that is to be built anew truncates it; an index with a
\* blank header is removed and nothing else is done.
OpenIndex ==
    /\ achild # NoChild
    /\ achild.at = -1
    /\ IF aidx = BadIndex
       THEN achild' = NoChild /\ aidx' = NoIndex
       ELSE LET u == updateJobIdIndexFile(achild.total - 1, aidx)
            IN  /\ achild' = [achild EXCEPT !.at = u.from, !.rows = u.rows,
                                            !.lines = u.lines]
                /\ aidx' = IF u.lines = <<>> THEN BadIndex ELSE aidx
    /\ UNCHANGED <<afile, acur, aclock, acount, aswitch, ard>>

\* getJobIdIndexFromEventFile and writeJobIdIndexToIndexFile for one file.
IndexFile ==
    /\ achild # NoChild
    /\ achild.at > 0
    /\ Exists(achild.at)
    /\ achild' = [achild EXCEPT !.at = @ - 1, !.rows = @ + 1,
                                !.lines = Append(@, IndexLine(afile[achild.at]))]
    /\ UNCHANGED <<afile, acur, aclock, acount, aswitch, aidx, ard>>

\* The header is written last, also when a file could not be read or a row
\* not be written and the loop was left early.
WriteHeader ==
    /\ achild # NoChild
    /\ achild.at >= 0
    /\ aidx' = [rows |-> achild.rows, lines |-> achild.lines]
    /\ achild' = NoChild
    /\ UNCHANGED <<afile, acur, aclock, acount, aswitch, ard>>

\* The child is killed; a row it appended stays in the file behind the rows
\* the header counts.
ChildDies ==
    /\ achild # NoChild
    /\ achild' = NoChild
    /\ UNCHANGED <<afile, acur, aclock, acount, aswitch, aidx, ard>>

-------------------------------------------------------------------------------
\* bhist

(***************************************************************************)
(* lsb_openelog: from the oldest file that can hold an event of the window *)
(* to the newest.  The stamp of a file is the time it was archived.  <<>>  *)
(* is the end of the loop over the files.                                  *)
(***************************************************************************)
lsb_openelog(b, e) ==
    LET n     == FirstFree - 1
        early == {i \in 1..n : e > afile[i].stamp}
        old   == {i \in 1..n : b >= afile[i].stamp}
        cur   == IF old = {} THEN n ELSE Min(old)
        last  == LET seen == {i \in early : i <= cur}
                 IN  IF seen # {} THEN Min(seen) - 1
                     ELSE IF old = {} THEN n ELSE -1
    IN  <<cur, IF cur = last THEN -1 ELSE last>>

\* fileNumbers and logfile_check: bhist -n high, and bhist -n low,high.
numberedFiles(low, high) ==
    LET num == IF low > 0 THEN high + 1 ELSE high
        lo  == IF num >= FirstFree /\ low >= FirstFree THEN 0 ELSE low
    IN  <<IF num >= FirstFree THEN FirstFree - 1 ELSE num - 1, lo>>

\* The events lsbGetNextJobRecFromFile or lsb_geteventrec passes to bhist.
Wanted(r, ev) ==
    /\ r.kind = "index" => ev.job = r.job
    /\ r.kind \in {"time", "chron"} => r.b <= ev.time /\ ev.time <= r.e

Report(r, f) == [i \in DOMAIN SelectSeq(f, LAMBDA ev : Wanted(r, ev)) |->
                     SelectSeq(f, LAMBDA ev : Wanted(r, ev))[i].id]

Contents(n) == IF n = 0 THEN acur ELSE afile[n].ev

ArchStarted(req, cur, last) ==
    [kind |-> req.kind, job |-> req.job, b |-> req.b, e |-> req.e, low |-> req.low,
     cur |-> cur, last |-> last, row |-> 0, lines |-> <<>>, rows |-> 0,
     out |-> Report(req, Contents(cur)), phase |-> "read",
     clean |-> aswitch = 0 /\ achild = NoChild, since |-> acount]

\* logfile_check: where to begin.  With an index, nothing is open yet and
\* curOpenFile is 100; without one, the end of the window is dropped.
Begin(req) ==
    /\ ard = NoReader
    /\ CASE req.kind = "num" ->
              LET w == numberedFiles(req.low, req.high)
              IN  ard' = IF w[1] > 0 /\ ~Exists(w[1]) THEN ard ELSE ArchStarted(req, w[1], w[2])
         [] req.kind \in {"time", "chron"} ->
              LET w == lsb_openelog(req.b, req.e) IN ard' = ArchStarted(req, w[1], w[2])
         [] req.kind = "index" ->
              IF aidx.rows >= 0
              THEN ard' = [ArchStarted(req, 0, 0) EXCEPT
                              !.cur = 100, !.out = <<>>, !.lines = aidx.lines,
                              !.rows = aidx.rows,
                              !.clean = @ /\ aidx.rows = FirstFree - 1]
              ELSE LET w == lsb_openelog(req.b, -1)
                   IN  ard' = ArchStarted([req EXCEPT !.kind = "all"], w[1], w[2])
    /\ UNCHANGED <<afile, acur, aclock, acount, aswitch, aidx, achild>>

\* getNextFileNumFromIndexS: the next row, before the last, that lists the
\* job; 0 when there is none left, -1 when a row cannot be read.
getNextFileNumFromIndexS(r) ==
    LET holds == {k \in r.row + 1..r.rows - 1 :
                      \E j \in DOMAIN r.lines[k] :
                          /\ r.lines[k][j] = r.job
                          /\ \A i \in 1..j - 1 : r.job <= r.lines[k][i]}
    IN  IF r.rows = 0 THEN <<-1, 1>>
        ELSE IF holds = {} THEN <<0, r.rows>>
        ELSE <<r.rows - Min(holds) + 1, Min(holds)>>

\* The next file is opened by its number as it is now.  When there is none,
\* the reader goes on with the stream it has just closed.
OpenNext(r, n, last, row) ==
    IF n > MaxArchFiles \/ (n > 0 /\ ~Exists(n)) THEN [r EXCEPT !.phase = "undefined"]
    ELSE [r EXCEPT !.cur = n, !.last = last, !.row = row,
                   !.out = @ \o Report(r, Contents(n))]

lsbGetNextJobEvent(r) ==
    IF r.cur > 0 /\ r.cur > r.last
    THEN IF r.cur = 1 THEN OpenNext(r, 0, -1, r.row)
         ELSE IF r.kind = "index"
         THEN LET n == getNextFileNumFromIndexS(r)
              IN  IF n[1] = -1 THEN OpenNext(r, r.cur - 1, r.last, n[2])
                  ELSE OpenNext(r, n[1], IF n[1] = 0 THEN -1 ELSE r.last, n[2])
         ELSE OpenNext(r, r.cur - 1, r.last, r.row)
    ELSE [r EXCEPT !.phase = "done"]

Mut_lsb_getelogrec(r) ==
    IF r.last > 0 /\ r.cur > r.last
    THEN IF r.cur = 1 THEN OpenNext(r, 0, -1, r.row)
         ELSE OpenNext(r, r.cur - 1, r.last, r.row)
    ELSE [r EXCEPT !.phase = "done"]

lsb_getelogrec(r) ==
    IF r.last >= 0 /\ r.cur > r.last
    THEN IF r.cur = 1 THEN OpenNext(r, 0, -1, r.row)
         ELSE OpenNext(r, r.cur - 1, r.last, r.row)
    ELSE [r EXCEPT !.phase = "done"]

ReadOn ==
    /\ ard.phase = "read"
    /\ ard' = IF ard.kind = "chron" THEN lsb_getelogrec(ard) ELSE lsbGetNextJobEvent(ard)
    /\ UNCHANGED <<afile, acur, aclock, acount, aswitch, aidx, achild>>

Clock ==
    /\ aclock < MaxArchTime
    /\ aclock' = aclock + 1
    /\ UNCHANGED <<afile, acur, acount, aswitch, aidx, achild, ard>>

ArchiveInit ==
    /\ afile = [n \in 0..MaxArchFiles + 1 |-> NoArchFile]
    /\ acur = <<>>
    /\ aclock = 1 /\ acount = 0
    /\ aswitch = 0
    /\ aidx = NoIndex
    /\ achild = NoChild
    /\ ard = NoReader

ArchiveNext ==
    \/ \E j \in ArchJobs : LogEvent(j)
    \/ SwitchLog \/ RenameStep
    \/ OpenIndex \/ IndexFile \/ WriteHeader \/ ChildDies
    \/ \E req \in ArchRequests : Begin(req)
    \/ ReadOn
    \/ Clock

-------------------------------------------------------------------------------
Archived == {n \in 1..MaxArchFiles : Exists(n)}
ArchLogged(n) == {Contents(n)[i] : i \in DOMAIN Contents(n)}

\* bhist shows events in the order mbatchd logged them and none twice, also
\* when the files are renamed under it between two opens.
HistoryInOrder ==
    ard # NoReader => \A i, k \in DOMAIN ard.out : i < k => ard.out[i] < ard.out[k]

\* When no switch came in between, bhist has shown every event it was asked
\* for: of the files by number, of the window up to its last second, or of
\* the job in the files the index gives.  The index leaves out the newest
\* archived file: its row is the last one, which is never looked at.
ArchiveComplete ==
    ard.phase = "done" /\ ard.clean =>
        LET due(n) == {ev \in ArchLogged(n) : ev.id < ard.since /\ Wanted(ard, ev)}
            shown  == {ard.out[i] : i \in DOMAIN ard.out}
            files  == CASE ard.kind = "index" -> {0} \cup (Archived \ {1})
                        [] ard.kind = "num"   -> {n \in Archived \cup {0} :
                                                     n >= ard.low /\ n <= ard.b}
                        [] OTHER              -> Archived \cup {0}
        IN  \A n \in files : \A ev \in due(n) :
                (ard.kind \in {"time", "chron"} => ev.time < ard.e) => ev.id \in shown

\* Once the child has written the header, an index that covers as many files
\* as there are lists in each row the jobs of exactly its file, whatever
\* became of the children of earlier switches.
IndexMatchesArchive ==
    aswitch = 0 /\ achild = NoChild /\ aidx.rows > 0 /\ aidx.rows = FirstFree - 1 =>
        /\ Len(aidx.lines) = aidx.rows
        /\ \A k \in 1..aidx.rows : ToSet(aidx.lines[k]) = JobsIn(afile[aidx.rows - k + 1])

\* bhist finds the whole history of a job, oldest event first, over the
\* current and the archived files, with an index that fits them or without.
HistoryFound == HistoryInOrder /\ ArchiveComplete /\ IndexMatchesArchive
===============================================================================
