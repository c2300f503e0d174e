------------------------------ MODULE EventLock ------------------------------
(***************************************************************************)
(* The event log lock of mbatchd: the file logdir/#lsb.event.lock that one *)
(* mbatchd creates before it replays and appends to lsb.events, touches    *)
(* from its main loop, and removes when it exits (elock.c); the candidates *)
(* that wait for it; and the sbatchd of each host, which starts an mbatchd *)
(* when the local LIM names the host as the master (sbd.main.c).           *)
(*                                                                         *)
(* A host runs at most one mbatchd at a time: its sbatchd starts one only  *)
(* when kill(mbdPid, 0) fails.  Time is counted in half sleep periods      *)
(* (msleeptime/2), the interval at which a candidate polls the file.       *)
(***************************************************************************)
EXTENDS Integers, FiniteSets

CONSTANTS
    Hosts,        \* the hosts of the cluster that may run an mbatchd
    NoHost,       \* LIM cannot name a master
    NoFile,       \* the lock file is not in logdir
    EmptyFile,    \* the lock file was created or truncated, not written yet
    RetryLimit,   \* 4 in getElock: a candidate takes over when retry exceeds it
    StallBound,   \* half periods a live owner may let pass between two touches
    MaxLimMoves,  \* bound: changes of LIM's answer about the master
    MaxExits      \* bound: crashes, and exits not called for by LIM

ASSUME LockAssumption ==
    /\ NoHost \notin Hosts
    /\ NoFile \notin Hosts /\ EmptyFile \notin Hosts /\ NoFile # EmptyFile
    /\ RetryLimit \in Nat
    /\ StallBound \in Nat
    /\ MaxLimMoves \in Nat
    /\ MaxExits \in Nat

VARIABLES
    pc,         \* where the mbatchd of each host is; "down" when there is none
    master,     \* what ls_getmastername() answers on each host
    file,       \* the lock file: the host written in it, or its absence
    linked,     \* hosts whose opened file is still the one in logdir
    unchanged,  \* hosts whose lastmodtime still equals the file's st_mtime
    retry,      \* the candidate's count of polls that found the file unchanged
    due,        \* candidates whose sleep between two polls is over
    stale,      \* half periods since the host opened or touched the lock file
    limMoves,   \* changes of LIM's answer so far
    exits,      \* crashes and exits so far
    forced      \* history: some candidate has opened the file with force

fileVars == <<file, linked, unchanged>>
timeVars == <<retry, due, stale>>
envVars  == <<master, limMoves, exits>>
vars     == <<pc, fileVars, timeVars, envVars, forced>>

States == {"down", "start", "access", "force", "write", "read", "wait",
           "replay", "run"}

\* getElock has opened the file for itself; from "replay" on, gotLock is set.
Opened  == {"write", "replay", "run"}
Holding == {"replay", "run"}

TypeOK ==
    /\ pc \in [Hosts -> States]
    /\ master \in [Hosts -> Hosts \cup {NoHost}]
    /\ file \in Hosts \cup {NoFile, EmptyFile}
    /\ linked \subseteq Hosts
    /\ unchanged \subseteq Hosts
    /\ retry \in [Hosts -> 0..(RetryLimit + 1)]
    /\ due \subseteq Hosts
    /\ stale \in [Hosts -> Nat]
    /\ limMoves \in 0..MaxLimMoves
    /\ exits \in 0..MaxExits
    /\ forced \in BOOLEAN

Init ==
    /\ pc = [h \in Hosts |-> "down"]
    /\ master \in [Hosts -> Hosts \cup {NoHost}]
    /\ file = NoFile
    /\ linked = {}
    /\ unchanged = {}
    /\ retry = [h \in Hosts |-> 0]
    /\ due = {}
    /\ stale = [h \in Hosts |-> 0]
    /\ limMoves = 0
    /\ exits = 0
    /\ forced = FALSE

Exit == exits < MaxExits /\ exits' = exits + 1

Goto(h, s) == pc' = [pc EXCEPT ![h] = s]

-----------------------------------------------------------------------------
(* sbatchd: houseKeeping finds its host is the master and no mbatchd there. *)
start_master(h) ==
    /\ pc[h] = "down"
    /\ master[h] = h
    /\ Goto(h, "start")
    /\ UNCHANGED <<fileVars, timeVars, envVars, forced>>

(* mbatchd main(): the master check before minit(); a host that is not the  *)
(* master resigns, without a lock to release.                               *)
main(h) ==
    /\ pc[h] = "start"
    /\ Goto(h, IF master[h] = h THEN "access" ELSE "down")
    /\ UNCHANGED <<fileVars, timeVars, envVars, forced>>

(* The file is new to everybody once h creates or truncates it: its mtime    *)
(* moves, it is empty, and h has it open.                                    *)
OpenedBy(h) ==
    /\ file' = EmptyFile
    /\ linked' = linked \cup {h}
    /\ unchanged' = {}
    /\ stale' = [stale EXCEPT ![h] = 0]

(* getElock: open(O_CREAT | O_EXCL). *)
openExcl(h) ==
    /\ pc[h] = "access"
    /\ \/ /\ file = NoFile
          /\ OpenedBy(h)
          /\ Goto(h, "write")
       \/ /\ file # NoFile
          /\ Goto(h, "read")
          /\ UNCHANGED <<fileVars, stale>>
    /\ UNCHANGED <<retry, due, envVars, forced>>

(* getElock with force: open(O_CREAT | O_TRUNC). *)
openForce(h) ==
    /\ pc[h] = "force"
    /\ forced' = TRUE
    /\ OpenedBy(h)
    /\ Goto(h, "write")
    /\ UNCHANGED <<retry, due, envVars>>

(* getElock: write "host:pid" into the file just opened, which may have been *)
(* removed from logdir meanwhile; the lock is then believed to be held.      *)
writeOwner(h) ==
    /\ pc[h] = "write"
    /\ Goto(h, "replay")
    /\ \/ h \in linked /\ file' = h /\ unchanged' = {}
       \/ h \notin linked /\ UNCHANGED <<file, unchanged>>
    /\ UNCHANGED <<linked, timeVars, envVars, forced>>

(* getElock after EEXIST: a file that is gone again is fatal; an owner on    *)
(* this host whose pid is dead is overridden at once (the pid may have been  *)
(* reused, and kill(pid, 0) then succeeds); otherwise note st_mtime and wait.*)
readOwner(h) ==
    /\ pc[h] = "read"
    /\ \/ /\ file = NoFile
          /\ Goto(h, "down")
          /\ UNCHANGED <<unchanged, retry, due>>
       \/ /\ file # NoFile
          /\ file = h
          /\ Goto(h, "force")
          /\ UNCHANGED <<unchanged, retry, due>>
       \/ /\ file # NoFile
          /\ Goto(h, "wait")
          /\ unchanged' = unchanged \cup {h}
          /\ retry' = [retry EXCEPT ![h] = 0]
          /\ due' = due \ {h}
    /\ UNCHANGED <<file, linked, stale, envVars, forced>>

(* die() of a process that got the lock: releaseElogLock unlinks whatever    *)
(* file is at the lock's path, its own or not.                               *)
die(h) ==
    /\ Goto(h, "down")
    /\ file' = NoFile
    /\ linked' = {}
    /\ UNCHANGED unchanged

(* getElock: one round of the waiting loop after millisleep_.  First LIM is  *)
(* asked again: a candidate that is not the master (MASTER_RESIGN), or finds *)
(* no master (MASTER_FATAL), exits, and has no lock to release.              *)
Mut_pollResign(h) ==
    /\ master[h] # h
    /\ die(h)
    /\ UNCHANGED retry

pollResign(h) ==
    /\ master[h] # h
    /\ Goto(h, "down")
    /\ UNCHANGED <<fileVars, retry>>

(* The file is gone (ENOENT): try to create it. *)
pollGone(h) ==
    /\ master[h] = h
    /\ file = NoFile
    /\ Goto(h, "access")
    /\ UNCHANGED <<fileVars, retry>>

(* st_mtime has not moved: count, and after RetryLimit counts override. *)
pollUnchanged(h) ==
    /\ master[h] = h
    /\ file # NoFile
    /\ h \in unchanged
    /\ \/ retry[h] > RetryLimit /\ Goto(h, "force") /\ UNCHANGED retry
       \/ /\ retry[h] <= RetryLimit
          /\ retry' = [retry EXCEPT ![h] = @ + 1]
          /\ UNCHANGED pc
    /\ UNCHANGED fileVars

(* Another mbatchd is accessing the file: note the new st_mtime, start over. *)
Mut_pollChanged(h) ==
    /\ master[h] = h
    /\ file # NoFile
    /\ h \notin unchanged
    /\ unchanged' = unchanged \cup {h}
    /\ UNCHANGED <<pc, retry, file, linked>>

pollChanged(h) ==
    /\ master[h] = h
    /\ file # NoFile
    /\ h \notin unchanged
    /\ retry' = [retry EXCEPT ![h] = 0]
    /\ unchanged' = unchanged \cup {h}
    /\ UNCHANGED <<pc, file, linked>>

poll(h) ==
    /\ pc[h] = "wait"
    /\ h \in due
    /\ due' = due \ {h}
    /\ pollResign(h) \/ pollGone(h) \/ pollUnchanged(h) \/ pollChanged(h)
    /\ UNCHANGED <<stale, envVars, forced>>

-----------------------------------------------------------------------------
(* init_log and minit are done: the main loop is reached, or mbdDie is       *)
(* called on the way.  Nothing touches the lock before the main loop does.   *)
minit(h) ==
    /\ pc[h] = "replay"
    /\ \/ /\ Goto(h, "run")
          /\ UNCHANGED <<fileVars, exits>>
       \/ die(h) /\ Exit
    /\ UNCHANGED <<timeVars, master, limMoves, forced>>

\* mutant: a lock file that is missing is not fatal
Mut_touchElogLock(h) ==
    /\ pc[h] = "run"
    /\ unchanged' = IF file \in Hosts THEN {} ELSE unchanged
    /\ stale' = [stale EXCEPT ![h] = IF file \in Hosts THEN 0 ELSE @]
    /\ UNCHANGED <<pc, file, linked, retry, due, envVars, forced>>

(* The main loop: rewrite the first byte of the lock file.  A file that is   *)
(* missing or still empty is fatal.  Whose file it is, is not looked at.     *)
touchElogLock(h) ==
    /\ pc[h] = "run"
    /\ \/ /\ file \in Hosts
          /\ unchanged' = {}
          /\ stale' = [stale EXCEPT ![h] = 0]
          /\ UNCHANGED <<pc, file, linked>>
       \/ /\ file \notin Hosts
          /\ die(h)
          /\ UNCHANGED stale
    /\ UNCHANGED <<retry, due, envVars, forced>>

(* periodicCheck: LIM no longer names this host, so mbdDie(MASTER_RESIGN). *)
resign(h) ==
    /\ pc[h] = "run"
    /\ master[h] # h
    /\ die(h)
    /\ UNCHANGED <<timeVars, envVars, forced>>

(* badmin reconfig, a configuration window or a signal: mbdDie. *)
mbdDie(h) ==
    /\ pc[h] = "run"
    /\ die(h)
    /\ Exit
    /\ UNCHANGED <<timeVars, master, limMoves, forced>>

-----------------------------------------------------------------------------
(* The environment. *)
crash(h) ==
    /\ pc[h] # "down"
    /\ Exit
    /\ Goto(h, "down")
    /\ UNCHANGED <<fileVars, timeVars, master, limMoves, forced>>

limMove(h) ==
    /\ limMoves < MaxLimMoves
    /\ limMoves' = limMoves + 1
    /\ \E m \in (Hosts \cup {NoHost}) \ {master[h]} :
          master' = [master EXCEPT ![h] = m]
    /\ UNCHANGED <<pc, fileVars, timeVars, exits, forced>>

(* Half a sleep period passes.  An owner's main loop comes round within      *)
(* StallBound of them, and so does the end of its replay.                    *)
tick ==
    /\ \A h \in Hosts : pc[h] \in Opened => stale[h] < StallBound
    /\ due' = {h \in Hosts : pc[h] = "wait"}
    /\ stale' = [h \in Hosts |-> IF pc[h] \in Opened THEN stale[h] + 1 ELSE 0]
    /\ UNCHANGED <<pc, fileVars, retry, envVars, forced>>

mbatchd(h) ==
    \/ main(h) \/ openExcl(h) \/ openForce(h) \/ writeOwner(h)
    \/ readOwner(h) \/ poll(h) \/ minit(h) \/ touchElogLock(h)

Next ==
    \/ \E h \in Hosts : \/ mbatchd(h) \/ start_master(h) \/ resign(h)
                        \/ mbdDie(h) \/ crash(h) \/ limMove(h)
    \/ tick

Spec == Init /\ [][Next]_vars

(* sbatchd and mbatchd are single select() loops with timeouts, so every     *)
(* step of theirs that stays possible is taken; so does time pass.           *)
Fairness ==
    /\ \A h \in Hosts : /\ WF_vars(mbatchd(h))
                        /\ WF_vars(start_master(h))
                        /\ WF_vars(resign(h))
    /\ WF_vars(tick)

LiveSpec == Spec /\ Fairness

-----------------------------------------------------------------------------
(* Properties. *)

(* A candidate that gives up waiting and decides to override the lock        *)
(* (elock.c: "Previous mbatchd appears dead") does so only when every        *)
(* mbatchd that has the lock open has let RetryLimit + 2 poll intervals pass *)
(* without touching it: no owner whose main loop comes round in time is ever *)
(* overridden by waiting.                                                    *)
TakeoverStep ==
    \A h \in Hosts : pc[h] = "wait" /\ pc'[h] = "force" =>
        \A q \in Hosts : pc[q] \in Opened => stale[q] >= RetryLimit + 2
TakeoverJustified == [][TakeoverStep]_vars

(* Until some candidate overrides the lock by force, at most one mbatchd     *)
(* replays or appends to the event log, through every crash, exit, resigned  *)
(* candidate and change of master.                                           *)
ExclusiveUnlessForced ==
    ~forced => \A p, q \in Hosts : pc[p] \in Opened /\ pc[q] \in Opened => p = q

(* Once the LIMs agree on a master for good, that host's mbatchd ends up in  *)
(* its main loop with a lock file in logdir, and every other mbatchd is gone,*)
(* whatever overrides and removals of each other's lock came before.  (The   *)
(* file may name another host: an mbatchd that overrode the lock and died.)  *)
Settles ==
    \A m \in Hosts :
        <>[](\A h \in Hosts : master[h] = m) =>
            <>[](/\ pc[m] = "run"
                 /\ file # NoFile
                 /\ \A h \in Hosts \ {m} : pc[h] \notin Opened)
=============================================================================
