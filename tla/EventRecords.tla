----------------------------- MODULE EventRecords -----------------------------
(***************************************************************************)
(* The records of lsb.events and lsb.acct (lsb.log.c, lib.words.c): what   *)
(* lsb_puteventrec writes for each event and what lsb_geteventrec reads    *)
(* back.  A line is a sequence of tokens: %d, %f or a quoted string, each  *)
(* remembering the field it came from.  A reader is the sequence of items  *)
(* it scans for; which optional ones depends on the options and counts it  *)
(* has read before.  A record of the model is                              *)
(*   type   the event,                                                     *)
(*   opt    the bits set in options and options2,                          *)
(*   count  the length of each list,                                       *)
(*   odd    the string fields that are not plain: "empty", "quote" (holds  *)
(*          a double quote) or "nl" (holds a newline).                     *)
(***************************************************************************)
EXTENDS Integers, Sequences, FiniteSets, SequencesExt

CONSTANTS
    EventInputs,    \* the records that may be logged
    QuotedInputs,   \* the strings handed to addQStr, as sequences of characters
    LimitInputs,    \* resource limits, in KB
    IntBits         \* width of an int: 32 in the code

VARIABLES
    erec,       \* the record (or string, or limit) being logged
    eline,      \* the line written for it, or as much of it as got written
    estep,      \* "new", "put", "cut" (a part of the line was written), "got"
    eread       \* what the reader returned

evars == <<erec, eline, estep, eread>>

-------------------------------------------------------------------------------
\* Tokens a writer puts and items a reader scans for.

Ints(fs)   == [i \in DOMAIN fs |-> [k |-> "i", f |-> fs[i], n |-> 0]]
Flts(fs)   == [i \in DOMAIN fs |-> [k |-> "f", f |-> fs[i], n |-> 0]]
Odd(r, f)  == IF f \in DOMAIN r.odd THEN r.odd[f] ELSE "plain"
Count(r, c) == IF c \in DOMAIN r.count THEN r.count[c] ELSE 0
When(c, s) == IF c THEN s ELSE <<>>

\* addQStr: a double quote is doubled, so only a newline breaks the token.
addQ(r, fs) ==
    [i \in DOMAIN fs |-> [k |-> "q", f |-> fs[i], n |-> 0, v |-> Odd(r, fs[i])]]

\* subNewLine_ then addQStr: newlines are removed first.
subQ(r, fs) ==
    [i \in DOMAIN fs |-> [k |-> "q", f |-> fs[i], n |-> 0,
                          v |-> IF Odd(r, fs[i]) = "nl" THEN "plain" ELSE Odd(r, fs[i])]]

putList(r, c, f) ==
    Ints(<<c>>) \o [i \in 1..Count(r, c) |-> [k |-> "q", f |-> f, n |-> i, v |-> "plain"]]

putXf(r) ==
    Ints(<<"nxf">>) \o
    FlattenSeq([i \in 1..Count(r, "nxf") |->
        << [k |-> "q", f |-> "subFn", n |-> i, v |-> "plain"],
           [k |-> "q", f |-> "execFn", n |-> i, v |-> "plain"],
           [k |-> "i", f |-> "xfOptions", n |-> i] >>])

putLimits == [i \in 1..11 |-> [k |-> "i", f |-> "rLimits", n |-> i]]

\* saveQStr, and copyQStr with nonNil 0 and 1.
saveQ(fs) == [i \in DOMAIN fs |-> [k |-> "s", f |-> fs[i], n |-> 0]]
copyQ(fs) == [i \in DOMAIN fs |-> [k |-> "s", f |-> fs[i], n |-> 0]]
nonNil(fs) == [i \in DOMAIN fs |-> [k |-> "n", f |-> fs[i], n |-> 0]]

getList(r, c, f) ==
    Ints(<<c>>) \o [i \in 1..Count(r, c) |-> [k |-> "s", f |-> f, n |-> i]]

getXf(r) ==
    Ints(<<"nxf">>) \o
    FlattenSeq([i \in 1..Count(r, "nxf") |->
        << [k |-> "s", f |-> "subFn", n |-> i],
           [k |-> "s", f |-> "execFn", n |-> i],
           [k |-> "i", f |-> "xfOptions", n |-> i] >>])

ruFields ==
    << "ru_utime", "ru_stime", "ru_maxrss", "ru_ixrss", "ru_ismrss", "ru_idrss",
       "ru_isrss", "ru_minflt", "ru_majflt", "ru_nswap", "ru_inblock", "ru_oublock",
       "ru_ioch", "ru_msgsnd", "ru_msgrcv", "ru_nsignals", "ru_nvcsw", "ru_nivcsw",
       "ru_exutime" >>
lsfRu2Str == Flts(ruFields)
str2lsfRu == Flts(ruFields)

-------------------------------------------------------------------------------
\* JOB_NEW and JOB_MODIFY.

jobNewNums == << "jobId", "userId", "options", "numProcessors", "submitTime",
                 "beginTime", "termTime", "sigValue", "chkpntPeriod", "restartPid" >>

writeJobNew(r) ==
    Ints(jobNewNums) \o addQ(r, <<"userName">>) \o putLimits
    \o addQ(r, <<"hostSpec">>) \o Flts(<<"hostFactor">>) \o Ints(<<"umask">>)
    \o addQ(r, <<"queue">>) \o subQ(r, <<"resReq">>)
    \o addQ(r, <<"fromHost", "cwd", "chkpntDir", "inFile", "outFile", "errFile",
                 "subHomeDir", "jobFile">>)
    \o putList(r, "numAskedHosts", "askedHosts")
    \o subQ(r, <<"dependCond", "preExecCmd">>) \o addQ(r, <<"jobName">>)
    \o subQ(r, <<"command">>) \o putXf(r) \o subQ(r, <<"mailUser">>)
    \o addQ(r, <<"projectName">>)
    \o When("SUB_INTERACTIVE" \in r.opt, Ints(<<"niosPort">>))
    \o Ints(<<"maxNumProcessors">>) \o addQ(r, <<"schedHostType", "loginShell">>)
    \o Ints(<<"options2", "idx">>)
    \o When("SUB2_BSUB_BLOCK" \in r.opt, Ints(<<"niosPort">>))
    \o addQ(r, <<"inFileSpool", "commandSpool", "jobSpoolDir">>)
    \o Ints(<<"userPriority">>)

Mut_readJobNew(r) ==
    Ints(jobNewNums) \o nonNil(<<"userName">>) \o putLimits
    \o copyQ(<<"hostSpec">>) \o Flts(<<"hostFactor">>) \o Ints(<<"umask">>)
    \o nonNil(<<"queue">>) \o saveQ(<<"resReq">>) \o nonNil(<<"fromHost">>)
    \o copyQ(<<"cwd", "chkpntDir", "inFile", "outFile", "errFile", "subHomeDir">>)
    \o nonNil(<<"jobFile">>) \o getList(r, "numAskedHosts", "askedHosts")
    \o saveQ(<<"dependCond", "preExecCmd">>) \o copyQ(<<"jobName", "command">>)
    \o getXf(r) \o saveQ(<<"mailUser", "projectName">>)
    \o Ints(<<"maxNumProcessors">>) \o saveQ(<<"schedHostType", "loginShell">>)
    \o Ints(<<"options2", "idx">>)
    \o copyQ(<<"inFileSpool", "commandSpool", "jobSpoolDir">>)
    \o Ints(<<"userPriority">>)

readJobNew(r) ==
    Ints(jobNewNums) \o nonNil(<<"userName">>) \o putLimits
    \o copyQ(<<"hostSpec">>) \o Flts(<<"hostFactor">>) \o Ints(<<"umask">>)
    \o nonNil(<<"queue">>) \o saveQ(<<"resReq">>) \o nonNil(<<"fromHost">>)
    \o copyQ(<<"cwd", "chkpntDir", "inFile", "outFile", "errFile", "subHomeDir">>)
    \o nonNil(<<"jobFile">>) \o getList(r, "numAskedHosts", "askedHosts")
    \o saveQ(<<"dependCond", "preExecCmd">>) \o copyQ(<<"jobName", "command">>)
    \o getXf(r) \o saveQ(<<"mailUser", "projectName">>)
    \o When("SUB_INTERACTIVE" \in r.opt, Ints(<<"niosPort">>))
    \o Ints(<<"maxNumProcessors">>) \o saveQ(<<"schedHostType", "loginShell">>)
    \o Ints(<<"options2", "idx">>)
    \o When("SUB2_BSUB_BLOCK" \in r.opt, Ints(<<"niosPort">>))
    \o copyQ(<<"inFileSpool", "commandSpool", "jobSpoolDir">>)
    \o Ints(<<"userPriority">>)

-------------------------------------------------------------------------------
\* JOB_MODIFY2.

jobModNums == << "submitTime", "umask", "numProcessors", "beginTime", "termTime",
                 "sigValue", "restartPid" >>

writeJobMod(r) ==
    LET has(o, s) == When(o \in r.opt, s)
    IN  addQ(r, <<"jobIdStr">>) \o Ints(<<"options", "options2", "delOptions", "userId">>)
        \o addQ(r, <<"userName">>) \o Ints(jobModNums)
        \o has("SUB_JOB_NAME", addQ(r, <<"jobName">>))
        \o has("SUB_QUEUE", addQ(r, <<"queue">>))
        \o has("SUB_HOST", putList(r, "numAskedHosts", "askedHosts"))
        \o has("SUB_RES_REQ", addQ(r, <<"resReq">>)) \o putLimits
        \o has("SUB_HOST_SPEC", addQ(r, <<"hostSpec">>))
        \o has("SUB_DEPEND_COND", subQ(r, <<"dependCond">>)) \o addQ(r, <<"subHomeDir">>)
        \o When({"SUB_IN_FILE", "SUB2_IN_FILE_SPOOL"} \cap r.opt # {}, addQ(r, <<"inFile">>))
        \o has("SUB_OUT_FILE", addQ(r, <<"outFile">>))
        \o has("SUB_ERR_FILE", addQ(r, <<"errFile">>))
        \o has("SUB2_MODIFY_CMD", addQ(r, <<"command">>))
        \o has("SUB_CHKPNT_PERIOD", Ints(<<"chkpntPeriod">>))
        \o has("SUB_CHKPNT_DIR", addQ(r, <<"chkpntDir">>))
        \o has("SUB_OTHER_FILES", putXf(r))
        \o addQ(r, <<"jobFile", "fromHost", "cwd">>)
        \o has("SUB_PRE_EXEC", subQ(r, <<"preExecCmd">>))
        \o has("SUB_MAIL_USER", addQ(r, <<"mailUser">>))
        \o has("SUB_PROJECT_NAME", addQ(r, <<"projectName">>))
        \o Ints(<<"niosPort", "maxNumProcessors">>)
        \o has("SUB_LOGIN_SHELL", addQ(r, <<"loginShell">>))
        \o addQ(r, <<"schedHostType">>) \o Ints(<<"delOptions2">>)
        \o has("SUB2_IN_FILE_SPOOL", addQ(r, <<"inFileSpool">>))
        \o has("SUB2_JOB_CMD_SPOOL", addQ(r, <<"commandSpool">>))
        \o has("SUB2_JOB_PRIORITY", Ints(<<"userPriority">>))

readJobMod(r) ==
    LET has(o, s) == When(o \in r.opt, s)
    IN  saveQ(<<"jobIdStr">>) \o Ints(<<"options", "options2", "delOptions", "userId">>)
        \o saveQ(<<"userName">>) \o Ints(jobModNums)
        \o has("SUB_JOB_NAME", saveQ(<<"jobName">>))
        \o has("SUB_QUEUE", saveQ(<<"queue">>))
        \o has("SUB_HOST", getList(r, "numAskedHosts", "askedHosts"))
        \o has("SUB_RES_REQ", saveQ(<<"resReq">>)) \o putLimits
        \o has("SUB_HOST_SPEC", saveQ(<<"hostSpec">>))
        \o has("SUB_DEPEND_COND", saveQ(<<"dependCond">>)) \o saveQ(<<"subHomeDir">>)
        \o When({"SUB_IN_FILE", "SUB2_IN_FILE_SPOOL"} \cap r.opt # {}, saveQ(<<"inFile">>))
        \o has("SUB_OUT_FILE", saveQ(<<"outFile">>))
        \o has("SUB_ERR_FILE", saveQ(<<"errFile">>))
        \o has("SUB2_MODIFY_CMD", saveQ(<<"command">>))
        \o has("SUB_CHKPNT_PERIOD", Ints(<<"chkpntPeriod">>))
        \o has("SUB_CHKPNT_DIR", saveQ(<<"chkpntDir">>))
        \o has("SUB_OTHER_FILES", getXf(r))
        \o saveQ(<<"jobFile", "fromHost", "cwd">>)
        \o has("SUB_PRE_EXEC", saveQ(<<"preExecCmd">>))
        \o has("SUB_MAIL_USER", saveQ(<<"mailUser">>))
        \o has("SUB_PROJECT_NAME", saveQ(<<"projectName">>))
        \o Ints(<<"niosPort", "maxNumProcessors">>)
        \o has("SUB_LOGIN_SHELL", saveQ(<<"loginShell">>))
        \o saveQ(<<"schedHostType">>) \o Ints(<<"delOptions2">>)
        \o has("SUB2_IN_FILE_SPOOL", saveQ(<<"inFileSpool">>))
        \o has("SUB2_JOB_CMD_SPOOL", saveQ(<<"commandSpool">>))
        \o has("SUB2_JOB_PRIORITY", Ints(<<"userPriority">>))

-------------------------------------------------------------------------------
\* The other events.

writeJobStart(r) ==
    Ints(<<"jobId", "jStatus", "jobPid", "jobPGid">>) \o Flts(<<"hostFactor">>)
    \o putList(r, "numExHosts", "execHosts") \o addQ(r, <<"queuePreCmd", "queuePostCmd">>)
    \o Ints(<<"jFlags", "idx">>)
readJobStart(r) ==
    Ints(<<"jobId", "jStatus", "jobPid", "jobPGid">>) \o Flts(<<"hostFactor">>)
    \o getList(r, "numExHosts", "execHosts") \o saveQ(<<"queuePreCmd", "queuePostCmd">>)
    \o Ints(<<"jFlags", "idx">>)

writeJobStartAccept(r) == Ints(<<"jobId", "jobPid", "jobPGid", "idx">>)
readJobStartAccept(r)  == Ints(<<"jobId", "jobPid", "jobPGid", "idx">>)

writeJobExecute(r) ==
    Ints(<<"jobId", "execUid", "jobPGid">>)
    \o addQ(r, <<"execCwd", "execHome", "execUsername">>) \o Ints(<<"jobPid", "idx">>)
readJobExecute(r) ==
    Ints(<<"jobId", "execUid", "jobPGid">>)
    \o saveQ(<<"execCwd", "execHome", "execUsername">>) \o Ints(<<"jobPid", "idx">>)

writeJobStatus(r) ==
    Ints(<<"jobId", "jStatus", "reason", "subreasons">>) \o Flts(<<"cpuTime">>)
    \o Ints(<<"endTime", "ru">>) \o When("ru" \in r.opt, lsfRu2Str)
    \o Ints(<<"exitStatus", "idx">>)

readJobStatus(r) ==
    Ints(<<"jobId", "jStatus", "reason", "subreasons">>) \o Flts(<<"cpuTime">>)
    \o Ints(<<"endTime", "ru">>) \o When("ru" \in r.opt, str2lsfRu)
    \o Ints(<<"exitStatus", "idx">>)

sbdStatusNums == << "jobId", "jStatus", "reasons", "subreasons", "actPid", "actValue",
                    "actPeriod", "actFlags", "actStatus", "actReasons",
                    "actSubReasons", "idx" >>
writeSbdJobStatus(r) == Ints(sbdStatusNums)
readSbdJobStatus(r)  == Ints(sbdStatusNums)

writeJobSwitch(r) ==
    Ints(<<"userId", "jobId">>) \o addQ(r, <<"queue">>) \o Ints(<<"idx">>)
    \o addQ(r, <<"userName">>)
readJobSwitch(r) ==
    Ints(<<"userId", "jobId">>) \o nonNil(<<"queue">>) \o Ints(<<"idx">>)
    \o nonNil(<<"userName">>)

writeJobMove(r) ==
    Ints(<<"userId", "jobId", "position", "base", "idx">>) \o addQ(r, <<"userName">>)

readJobMove(r) ==
    Ints(<<"userId", "jobId", "position", "base", "idx">>) \o nonNil(<<"userName">>)

writeMig(r) ==
    Ints(<<"jobId">>) \o putList(r, "numAskedHosts", "askedHosts")
    \o Ints(<<"userId", "idx">>) \o addQ(r, <<"userName">>)
readMig(r) ==
    Ints(<<"jobId">>) \o getList(r, "numAskedHosts", "askedHosts")
    \o Ints(<<"userId", "idx">>) \o nonNil(<<"userName">>)

sigActNums == <<"jobId", "period", "pid", "jStatus", "reasons", "flags", "actStatus">>
writeJobSigAct(r) == Ints(sigActNums) \o addQ(r, <<"signalSymbol">>) \o Ints(<<"idx">>)
readJobSigAct(r)  == Ints(sigActNums) \o saveQ(<<"signalSymbol">>) \o Ints(<<"idx">>)

writeJobRqueue(r)  == Ints(<<"jobId", "idx">>)
readJobRequeue(r)  == Ints(<<"jobId", "idx">>)
writeJobClean(r)   == Ints(<<"jobId", "idx">>)
readJobClean(r)    == Ints(<<"jobId", "idx">>)
writeChkpnt(r)     == Ints(<<"jobId", "period", "pid", "ok", "flags", "idx">>)
readChkpnt(r)      == Ints(<<"jobId", "period", "pid", "ok", "flags", "idx">>)
writeJobAttrSet(r) == Ints(<<"jobId", "idx", "uid", "port">>)
readJobAttrSet(r)  == Ints(<<"jobId", "idx", "uid", "port">>)
writeLogSwitch(r)  == Ints(<<"lastJobId">>)
readLogSwitch(r)   == Ints(<<"lastJobId">>)

writeQueueCtrl(r) ==
    Ints(<<"opCode">>) \o addQ(r, <<"queue">>) \o Ints(<<"userId">>) \o addQ(r, <<"userName">>)
readQueueCtrl(r) ==
    Ints(<<"opCode">>) \o nonNil(<<"queue">>) \o Ints(<<"userId">>) \o nonNil(<<"userName">>)
writeHostCtrl(r) ==
    Ints(<<"opCode">>) \o addQ(r, <<"host">>) \o Ints(<<"userId">>) \o addQ(r, <<"userName">>)
readHostCtrl(r) ==
    Ints(<<"opCode">>) \o copyQ(<<"host">>) \o Ints(<<"userId">>) \o nonNil(<<"userName">>)

writeMbdDie(r)   == addQ(r, <<"master">>) \o Ints(<<"numRemoveJobs", "exitCode">>)
readMbdDie(r)    == copyQ(<<"master">>) \o Ints(<<"numRemoveJobs", "exitCode">>)
writeMbdStart(r) == addQ(r, <<"master", "cluster">>) \o Ints(<<"numHosts", "numQueues">>)
readMbdStart(r)  == copyQ(<<"master", "cluster">>) \o Ints(<<"numHosts", "numQueues">>)

unfulfillNums == << "jobId", "notSwitched", "sig", "sig1", "sig1Flags", "chkPeriod",
                    "notModified", "idx" >>
writeUnfulfill(r) == Ints(unfulfillNums)
readUnfulfill(r)  == Ints(unfulfillNums)

writeLoadIndex(r) == putList(r, "nIdx", "name")
readLoadIndex(r)  == getList(r, "nIdx", "name")

writeJobSignal(r) ==
    Ints(<<"jobId", "userId", "runCount">>) \o addQ(r, <<"signalSymbol">>)
    \o Ints(<<"idx">>) \o addQ(r, <<"userName">>)
readJobSignal(r) ==
    Ints(<<"jobId", "userId", "runCount">>) \o saveQ(<<"signalSymbol">>)
    \o Ints(<<"idx">>) \o nonNil(<<"userName">>)

msgNums == <<"usrId", "jobId", "msgId", "msgType">>
writeJobMsg(r)    == Ints(msgNums) \o addQ(r, <<"src", "dest", "msg">>) \o Ints(<<"idx">>)
readJobMsg(r)     == Ints(msgNums) \o saveQ(<<"src", "dest", "msg">>) \o Ints(<<"idx">>)
writeJobMsgAck(r) == Ints(msgNums) \o addQ(r, <<"src", "dest", "msg">>) \o Ints(<<"idx">>)
readJobMsgAck(r)  == Ints(msgNums) \o saveQ(<<"src", "dest", "msg">>) \o Ints(<<"idx">>)

writeJobForce(r) ==
    Ints(<<"jobId", "userId", "idx", "options">>) \o putList(r, "numExecHosts", "execHosts")
    \o addQ(r, <<"userName">>)
readJobForce(r) ==
    Ints(<<"jobId", "userId", "idx", "options">>) \o getList(r, "numExecHosts", "execHosts")
    \o nonNil(<<"userName">>)

jobFinishNums == << "jobId", "userId", "options", "numProcessors", "submitTime",
                    "beginTime", "termTime", "startTime" >>
writeJobFinish(r) ==
    Ints(jobFinishNums)
    \o addQ(r, <<"userName", "queue", "resReq", "dependCond", "preExecCmd", "fromHost",
                 "cwd", "inFile", "outFile", "errFile", "jobFile">>)
    \o putList(r, "numAskedHosts", "askedHosts") \o putList(r, "numExHosts", "execHosts")
    \o Ints(<<"jStatus">>) \o Flts(<<"hostFactor">>) \o addQ(r, <<"jobName", "command">>)
    \o lsfRu2Str \o addQ(r, <<"mailUser", "projectName">>)
    \o Ints(<<"exitStatus", "maxNumProcessors">>) \o addQ(r, <<"loginShell">>)
    \o Ints(<<"idx", "maxRMem", "maxRSwap">>) \o addQ(r, <<"inFileSpool", "commandSpool">>)
readJobFinish(r) ==
    Ints(jobFinishNums) \o nonNil(<<"userName", "queue">>)
    \o saveQ(<<"resReq", "dependCond", "preExecCmd">>) \o nonNil(<<"fromHost">>)
    \o copyQ(<<"cwd", "inFile", "outFile", "errFile">>) \o nonNil(<<"jobFile">>)
    \o getList(r, "numAskedHosts", "askedHosts") \o getList(r, "numExHosts", "execHosts")
    \o Ints(<<"jStatus">>) \o Flts(<<"hostFactor">>) \o copyQ(<<"jobName", "command">>)
    \o str2lsfRu \o saveQ(<<"mailUser", "projectName">>)
    \o Ints(<<"exitStatus", "maxNumProcessors">>) \o saveQ(<<"loginShell">>)
    \o Ints(<<"idx", "maxRMem", "maxRSwap">>) \o copyQ(<<"inFileSpool", "commandSpool">>)

-------------------------------------------------------------------------------
putBody(r) ==
    CASE r.type \in {"JOB_NEW", "JOB_MODIFY"}      -> writeJobNew(r)
      [] r.type = "JOB_MODIFY2"                    -> writeJobMod(r)
      [] r.type \in {"PRE_EXEC_START", "JOB_START"} -> writeJobStart(r)
      [] r.type = "JOB_START_ACCEPT" -> writeJobStartAccept(r)
      [] r.type = "JOB_STATUS"       -> writeJobStatus(r)
      [] r.type = "SBD_JOB_STATUS"   -> writeSbdJobStatus(r)
      [] r.type = "JOB_SWITCH"       -> writeJobSwitch(r)
      [] r.type = "JOB_MOVE"         -> writeJobMove(r)
      [] r.type = "QUEUE_CTRL"       -> writeQueueCtrl(r)
      [] r.type = "HOST_CTRL"        -> writeHostCtrl(r)
      [] r.type = "MBD_START"        -> writeMbdStart(r)
      [] r.type = "MBD_DIE"          -> writeMbdDie(r)
      [] r.type = "UNFULFILL"        -> writeUnfulfill(r)
      [] r.type = "LOAD_INDEX"       -> writeLoadIndex(r)
      [] r.type = "JOB_FINISH"       -> writeJobFinish(r)
      [] r.type = "CHKPNT"           -> writeChkpnt(r)
      [] r.type = "MIG"              -> writeMig(r)
      [] r.type = "JOB_ATTR_SET"     -> writeJobAttrSet(r)
      [] r.type = "JOB_SIGNAL"       -> writeJobSignal(r)
      [] r.type = "JOB_EXECUTE"      -> writeJobExecute(r)
      [] r.type = "JOB_MSG"          -> writeJobMsg(r)
      [] r.type = "JOB_MSG_ACK"      -> writeJobMsgAck(r)
      [] r.type = "JOB_SIGACT"       -> writeJobSigAct(r)
      [] r.type = "JOB_REQUEUE"      -> writeJobRqueue(r)
      [] r.type = "JOB_CLEAN"        -> writeJobClean(r)
      [] r.type = "JOB_FORCE"        -> writeJobForce(r)
      [] r.type = "LOG_SWITCH"       -> writeLogSwitch(r)

readEventRecord(r) ==
    CASE r.type \in {"JOB_NEW", "JOB_MODIFY"}      -> readJobNew(r)
      [] r.type = "JOB_MODIFY2"                    -> readJobMod(r)
      [] r.type \in {"PRE_EXEC_START", "JOB_START"} -> readJobStart(r)
      [] r.type = "JOB_START_ACCEPT" -> readJobStartAccept(r)
      [] r.type = "JOB_STATUS"       -> readJobStatus(r)
      [] r.type = "SBD_JOB_STATUS"   -> readSbdJobStatus(r)
      [] r.type = "JOB_SWITCH"       -> readJobSwitch(r)
      [] r.type = "JOB_MOVE"         -> readJobMove(r)
      [] r.type = "QUEUE_CTRL"       -> readQueueCtrl(r)
      [] r.type = "HOST_CTRL"        -> readHostCtrl(r)
      [] r.type = "MBD_START"        -> readMbdStart(r)
      [] r.type = "MBD_DIE"          -> readMbdDie(r)
      [] r.type = "UNFULFILL"        -> readUnfulfill(r)
      [] r.type = "LOAD_INDEX"       -> readLoadIndex(r)
      [] r.type = "JOB_FINISH"       -> readJobFinish(r)
      [] r.type = "CHKPNT"           -> readChkpnt(r)
      [] r.type = "MIG"              -> readMig(r)
      [] r.type = "JOB_ATTR_SET"     -> readJobAttrSet(r)
      [] r.type = "JOB_SIGNAL"       -> readJobSignal(r)
      [] r.type = "JOB_EXECUTE"      -> readJobExecute(r)
      [] r.type = "JOB_MSG"          -> readJobMsg(r)
      [] r.type = "JOB_MSG_ACK"      -> readJobMsgAck(r)
      [] r.type = "JOB_SIGACT"       -> readJobSigAct(r)
      [] r.type = "JOB_REQUEUE"      -> readJobRequeue(r)
      [] r.type = "JOB_CLEAN"        -> readJobClean(r)
      [] r.type = "JOB_FORCE"        -> readJobForce(r)
      [] r.type = "LOG_SWITCH"       -> readLogSwitch(r)

\* getNextLine_ ends the line at a newline inside a string; the string has
\* then no closing quote and the rest of the record is lost.
firstNewline(body) ==
    LET nl == {i \in DOMAIN body : body[i].k = "q" /\ body[i].v = "nl"}
    IN  IF nl = {} THEN Len(body) + 1 ELSE CHOOSE i \in nl : \A j \in nl : i <= j

lineOf(r) == SubSeq(putBody(r), 1, firstNewline(putBody(r)) - 1)

(***************************************************************************)
(* One scanned item.  %d takes a %d token only: on a %f token it stops at  *)
(* the point.  %f takes both.  stripQStr skips everything up to the next   *)
(* double quote, numbers included; copyQStr with nonNil refuses an empty   *)
(* string.                                                                 *)
(***************************************************************************)
Scan(it, toks, at) ==
    LET quoted == {j \in at..Len(toks) : toks[j].k = "q"}
        next   == IF it.k \in {"i", "f"} THEN at
                  ELSE IF quoted = {} THEN Len(toks) + 1
                  ELSE CHOOSE j \in quoted : \A i \in quoted : j <= i
    IN  IF \/ next > Len(toks)
           \/ it.k = "i" /\ toks[next].k # "i"
           \/ it.k = "f" /\ toks[next].k = "q"
           \/ it.k = "n" /\ toks[next].v = "empty"
        THEN 0 ELSE next

\* The token each item was read from; 0, LSBE_EVENT_FORMAT, ends the reading.
Decode(items, toks) ==
    FoldLeft(LAMBDA from, it :
                 Append(from, IF from = <<>> THEN Scan(it, toks, 1)
                              ELSE IF Last(from) = 0 THEN 0
                              ELSE Scan(it, toks, Last(from) + 1)),
             <<>>, items)

\* The events of a job, and the job id each reader looks up in its line.
jobRelated ==
    { "JOB_NEW", "JOB_START", "JOB_START_ACCEPT", "JOB_STATUS", "SBD_JOB_STATUS",
      "JOB_SWITCH", "JOB_MOVE", "JOB_FINISH", "CHKPNT", "MIG", "PRE_EXEC_START",
      "JOB_MODIFY", "JOB_MODIFY2", "JOB_ATTR_SET", "JOB_SIGNAL", "JOB_EXECUTE",
      "JOB_MSG", "JOB_MSG_ACK", "JOB_REQUEUE", "JOB_CLEAN", "JOB_SIGACT", "JOB_FORCE" }

getJobIdFromEvent(type, toks) ==
    LET at == IF type \in {"JOB_SWITCH", "JOB_MOVE"} THEN 2 ELSE 1
    IN  IF Len(toks) < at \/ toks[at].k # (IF type = "JOB_MODIFY2" THEN "q" ELSE "i")
        THEN "none" ELSE toks[at].f

-------------------------------------------------------------------------------
(***************************************************************************)
(* addQStr and stripQStr on characters.  stripQStr starts at the character *)
(* after the previous token, takes the text between the quotes with every  *)
(* doubled quote halved, and returns how far it got, or <<>>, -1, when     *)
(* there is no closing quote.                                              *)
(***************************************************************************)
DQ == "dq"
addQStr(s) ==
    <<"sp", DQ>>
    \o FlattenSeq([i \in DOMAIN s |-> IF s[i] = DQ THEN <<DQ, DQ>> ELSE <<s[i]>>])
    \o <<DQ>>

RECURSIVE stripFrom(_, _, _)
stripFrom(q, i, out) ==
    IF i > Len(q) THEN <<>>
    ELSE IF q[i] = DQ
         THEN IF i < Len(q) /\ q[i + 1] = DQ THEN stripFrom(q, i + 2, Append(out, DQ))
              ELSE <<out, i + 1>>
         ELSE stripFrom(q, i + 1, Append(out, q[i]))

stripQStr(q) ==
    LET open == {i \in DOMAIN q : q[i] = DQ}
    IN  IF open = {} THEN <<>>
        ELSE stripFrom(q, (CHOOSE i \in open : \A j \in open : i <= j) + 1, <<>>)

(***************************************************************************)
(* A memory limit is kept in KB.  JOB_NEW holds it in bytes unless the     *)
(* submission found it too large for that (limitIsOk_) and set             *)
(* SUB_RLIMIT_UNIT_IS_KB; the product is an int and wraps.                 *)
(***************************************************************************)
wrapInt(x) ==
    LET m == x % (2 ^ IntBits)
    IN  IF m >= 2 ^ (IntBits - 1) THEN m - 2 ^ IntBits ELSE m

limitIsOk_(x) == x <= 0 \/ x \div (2 ^ (IntBits - 11)) = 0

convertRLimit(x, toKb) ==
    IF x > 0 THEN IF toKb THEN x \div 1024 ELSE wrapInt(x * 1024) ELSE x

-------------------------------------------------------------------------------
Inputs == [rec : EventInputs] \cup [str : QuotedInputs] \cup [lim : LimitInputs]

EventRecordsInit(in) ==
    /\ erec = in
    /\ eline = <<>>
    /\ estep = "new"
    /\ eread = <<>>

lsb_puteventrec ==
    /\ estep = "new"
    /\ eline' = IF "rec" \in DOMAIN erec THEN lineOf(erec.rec)
                ELSE IF "str" \in DOMAIN erec THEN addQStr(erec.str)
                ELSE <<IF limitIsOk_(erec.lim) THEN convertRLimit(erec.lim, FALSE)
                       ELSE erec.lim>>
    /\ estep' = "put"
    /\ UNCHANGED <<erec, eread>>

\* The disk fills, or the system stops, inside the line.
WriteCut ==
    /\ estep = "new"
    /\ "rec" \in DOMAIN erec
    /\ \E n \in 0..Len(lineOf(erec.rec)) - 1 : eline' = SubSeq(lineOf(erec.rec), 1, n)
    /\ estep' = "cut"
    /\ UNCHANGED <<erec, eread>>

lsb_geteventrec ==
    /\ estep \in {"put", "cut"}
    /\ eread' = IF "rec" \in DOMAIN erec
                THEN [from |-> Decode(readEventRecord(erec.rec), eline),
                      id   |-> getJobIdFromEvent(erec.rec.type, eline),
                      whole |-> estep = "put"]
                ELSE IF "str" \in DOMAIN erec
                THEN stripQStr(eline \o <<"sp", "x", "sp", DQ, DQ>>)
                ELSE <<IF limitIsOk_(erec.lim) THEN convertRLimit(eline[1], TRUE)
                       ELSE eline[1]>>
    /\ estep' = "got"
    /\ UNCHANGED <<erec, eline>>

EventRecordsNext == lsb_puteventrec \/ WriteCut \/ lsb_geteventrec

-------------------------------------------------------------------------------
Read(kind) == estep = "got" /\ kind \in DOMAIN erec

\* Every record the daemon logs is read back field by field: each item of the
\* reader comes from the token of the same field, and no token is left over,
\* for every combination of the options that add or drop fields
\* (lsb_puteventrec against readEventRecord).
RecordRoundTrip ==
    Read("rec") /\ eread.whole =>
        LET items == readEventRecord(erec.rec)
        IN  /\ \A i \in DOMAIN items :
                  /\ eread.from[i] # 0
                  /\ eline[eread.from[i]].f = items[i].f
                  /\ eline[eread.from[i]].n = items[i].n
            /\ Len(items) = Len(eline)

\* A line that was only partly written is refused with LSBE_EVENT_FORMAT,
\* never taken for a shorter record (readEventRecord).
CutLineRefused ==
    Read("rec") /\ ~eread.whole =>
        \E i \in DOMAIN eread.from : eread.from[i] = 0

\* bhist and the job id index find the event under the id of its own job
\* (getJobIdFromEvent, checkJobEventAndJobId), but for the two message
\* events, whose line starts with the user id.
EventFoundUnderItsJob ==
    Read("rec") /\ eread.whole /\ erec.rec.type \in jobRelated \ {"JOB_MSG", "JOB_MSG_ACK"} =>
        eread.id \in {"jobId", "jobIdStr"}

\* A quoted string is read back as it was, whatever quotes it holds, and the
\* reader stops exactly behind it (addQStr, stripQStr).
QuotedStringRoundTrip ==
    Read("str") => eread = <<erec.str, Len(eline) + 1>>

\* A memory limit survives the conversion to bytes and back: one that would
\* not fit in an int is kept in KB (limitIsOk_, convertRLimit).
LimitRoundTrip ==
    Read("lim") => eread = <<erec.lim>>

\* What is written to lsb.events is read back: every field of a record, quoted
\* strings and limits included; a line that was cut is refused; and a record
\* is found under the job it is about (lsb.log.c).
RecordsReadBack ==
    /\ RecordRoundTrip /\ CutLineRefused /\ EventFoundUnderItsJob
    /\ QuotedStringRoundTrip /\ LimitRoundTrip
===============================================================================
