------------------------------ MODULE MCEvents ------------------------------
(* The event files for TLC: the mbatchds that compete for the lock on them,  *)
(* the readers of the archived ones, and the records written and read back.  *)
(* One behaviour is that of one of the three; the others keep their first    *)
(* state.                                                                    *)
EXTENDS EventLock, EventRecords, EventArchive, TLC

VARIABLE part

-----------------------------------------------------------------------------
(* Records: every type, lists of several lengths, odd strings, options *)

record(t, o, c, d) == [type |-> t, opt |-> o, count |-> c, odd |-> d]
nothing == [x \in {} |-> "plain"]
counts == [{"numAskedHosts", "nxf"} -> 0..2]

modifyOptions ==
    {"SUB_JOB_NAME", "SUB_QUEUE", "SUB_HOST", "SUB_RES_REQ", "SUB_HOST_SPEC", "SUB_DEPEND_COND",
     "SUB_IN_FILE", "SUB2_IN_FILE_SPOOL", "SUB_OUT_FILE", "SUB_ERR_FILE", "SUB2_MODIFY_CMD",
     "SUB_CHKPNT_PERIOD", "SUB_CHKPNT_DIR", "SUB_OTHER_FILES", "SUB_PRE_EXEC", "SUB_MAIL_USER",
     "SUB_PROJECT_NAME", "SUB_LOGIN_SHELL", "SUB2_JOB_CMD_SPOOL", "SUB2_JOB_PRIORITY"}
optionSets ==
    {{}, {"SUB_IN_FILE", "SUB2_IN_FILE_SPOOL"}}
    \cup {{o} : o \in modifyOptions} \cup {modifyOptions \ {o} : o \in modifyOptions}
plainTypes ==
    {"JOB_MODIFY", "JOB_START_ACCEPT", "SBD_JOB_STATUS", "JOB_SWITCH", "JOB_MOVE", "QUEUE_CTRL",
     "HOST_CTRL", "MBD_START", "MBD_DIE", "UNFULFILL", "CHKPNT", "JOB_ATTR_SET", "JOB_SIGNAL",
     "JOB_EXECUTE", "JOB_MSG", "JOB_MSG_ACK", "JOB_SIGACT", "JOB_REQUEUE", "JOB_CLEAN", "LOG_SWITCH"}

events ==
    {record("JOB_NEW", o, c, d) :
        o \in SUBSET {"SUB_INTERACTIVE", "SUB2_BSUB_BLOCK"}, c \in counts,
        d \in {nothing, [resReq |-> "nl"], [dependCond |-> "nl", command |-> "nl"], [jobName |-> "quote"],
               [hostSpec |-> "empty", cwd |-> "empty"]}}
    \cup {record("JOB_MODIFY2", o, c, nothing) :
            o \in optionSets, c \in {[numAskedHosts |-> 0, nxf |-> 1], [numAskedHosts |-> 2, nxf |-> 0]}}
    \cup {record("JOB_FINISH", {}, c, nothing) : c \in [{"numAskedHosts", "numExHosts"} -> 0..2]}
    \cup {record(t, {}, [numExHosts |-> n, numAskedHosts |-> n, numExecHosts |-> n, nIdx |-> n], nothing) :
            n \in 1..2, t \in {"JOB_START", "PRE_EXEC_START", "MIG", "JOB_FORCE", "LOAD_INDEX"}}
    \cup {record("JOB_STATUS", o, nothing, nothing) : o \in {{}, {"ru"}}}
    \cup {record(t, {}, nothing, nothing) : t \in plainTypes}
strings == UNION {[1..n -> {"a", "sp", DQ}] : n \in 0..4}
limits == {-1, 0, 1, 2, 31, 32, 33, 63, 64, 100}

-----------------------------------------------------------------------------
(* Requests of bhist and bacct: by job, by time, by file number *)

request(k, j, b, e, lo, hi) == [kind |-> k, job |-> j, b |-> b, e |-> e, low |-> lo, high |-> hi]
requests ==
    {request("index", 1, 0, 0, 0, 0), request("time", 0, 2, 3, 0, 0), request("chron", 0, 1, 3, 0, 0),
     request("num", 0, 2, 0, 0, 3), request("num", 0, 2, 0, 1, 2)}

\* A reader reads one request to its end.
OneRequest == ard.phase \in {"none", "read"}

-----------------------------------------------------------------------------
MCInit ==
    /\ part \in {"lock", "records", "archive"}
    /\ Init /\ (part # "lock" => \A h \in Hosts : master[h] = NoHost)
    /\ ArchiveInit
    /\ \E in \in IF part = "records" THEN Inputs ELSE {[lim |-> 0]} : EventRecordsInit(in)

InLock(A) == part = "lock" /\ A /\ UNCHANGED <<part, evars, avars>>

MCNext ==
    \/ InLock(Next)
    \/ part = "records" /\ EventRecordsNext /\ UNCHANGED <<part, vars, avars>>
    \/ part = "archive" /\ ArchiveNext /\ UNCHANGED <<part, vars, evars>>

MCSpec == MCInit /\ [][MCNext]_<<part, vars, evars, avars>> /\ (part = "lock" => Fairness)
=============================================================================
