------------------------------ MODULE Messages ------------------------------
(***************************************************************************)
(* The messages jhlava's daemons and commands exchange: the XDR filters of  *)
(* lsb.xdr.c, daemons.xdr.c, lib.xdr*.c and lim.xdr.c, the sizes of the     *)
(* buffers their senders allocate, and the packing of load indices.         *)
(*                                                                         *)
(* One C function both writes and reads a message, so the order of plain    *)
(* words needs no checking.  What can go wrong is what this module keeps:   *)
(* a count or a selector used before it has been read, an element skipped   *)
(* by the wrong distance, a peer of another version, a message cut short,   *)
(* an id split into words, and a buffer that is too small.                  *)
(*                                                                         *)
(* A filter is a sequence of items; the wire is a sequence of 32-bit words. *)
(* A message is a record: cnt gives every count and selector its value,     *)
(* str the length of every string of a fixed-size field, var that of every  *)
(* string sent with xdr_var_string, id the job id, and new the number of    *)
(* trailing words (and resource limits) a newer sender adds.                *)
(***************************************************************************)
EXTENDS Integers, Sequences, SequencesExt, FiniteSets, TLC

CONSTANTS WireCuts,       \* how many words a message may lose at its end
          IdBits          \* width of a word of a job id (32 in the code)

VARIABLES mphase, min, mout
mvars == <<mphase, min, mout>>

-----------------------------------------------------------------------------
(* Items of a filter.  All have one shape: kind, name, bound, body.         *)

Item(k, f, n, body) == [k |-> k, f |-> f, n |-> n, body |-> body]

\* n words whose values no other field depends on (int, short, float, enum)
Ints(n) == <<Item("ints", "", n, <<>>)>>
\* xdr_double takes two words
Doubles(n) == Ints(2 * n)
\* n strings of xdr_string with the same bound, and n of xdr_var_string
Strs(n, bound) == [i \in 1..n |-> Item("str", "", bound, <<>>)]
Vars(n) == [i \in 1..n |-> Item("var", "", 0, <<>>)]
\* a count (or a selector) other fields depend on, under its name
Cnt(f) == <<Item("cnt", f, 0, <<>>)>>
\* body once for each unit of the count f
Rep(f, body) == <<Item("rep", f, 0, body)>>
\* body only when the selector f is not 0, and only when it is 0
When(f, body) == <<Item("when", f, 0, body)>>
Unless(f, body) == <<Item("unless", f, 0, body)>>
\* GET_INTNUM(f) words: a bit set over f members
BitWords(f) == <<Item("bits", f, 0, <<>>)>>
\* the same, but no word for an empty set
BitWordsIfAny(f) == <<Item("bits", f, 1, <<>>)>>
\* the two halves of a job id; the second one completes the id
IdLow(f) == <<Item("idlo", f, 0, <<>>)>>
IdHigh(f) == <<Item("idhi", f, 0, <<>>)>>
\* a body whose failure the caller ignores
Lenient(body) == <<Item("lenient", "", 0, body)>>

\* xdr_time_t: xdr_long carries one 32-bit word (it refuses a larger value)
xdr_time_t(n) == Ints(n)

\* xdr_arrayElement: an offset to the next element, then the element
Elem(body) == <<Item("elem", "", 0, body)>>

\* a counted list of resource limits; the reader keeps LSF_RLIM_NLIMITS of
\* them and reads past the others
LSF_RLIM_NLIMITS == 11
Limits(body) == <<Item("limits", "", LSF_RLIM_NLIMITS, body)>>
\* the same at the end of a message: the reader stops after its own limits
LastLimits(body) == <<Item("limits", "last", LSF_RLIM_NLIMITS, body)>>

\* xdr_lenData: a length word, then xdr_bytes (its own length word and the
\* data) unless the length is zero
xdr_lenData(f) == Cnt(f) \o When(f, Ints(1) \o <<Item("bytes", f, 0, <<>>)>>)

\* xdr_portno: two bytes sent with xdr_bytes
xdr_portno == Ints(2)

-----------------------------------------------------------------------------
(* Writing.  A word is a number; strings contribute their length and zeros. *)

up4(n) == (n + 3) \div 4
IdWord == 2 ^ IdBits

\* jobId64To32 / LSB_ARRAY_JOBID, LSB_ARRAY_IDX: the element index is the
\* high word of the id, the array id the low one
jobId64To32(id) == [lo |-> id % IdWord, hi |-> (id \div IdWord) % IdWord]

\* LSB_JOBID
jobId32To64(lo, hi) == hi * IdWord + lo

Zeros(n) == [i \in 1..n |-> 0]

GET_INTNUM(n) == n \div 32 + 1
BitCount(it, n) == IF it.n = 1 /\ n = 0 THEN 0 ELSE GET_INTNUM(n)

\* xdr_string never carries more than its bound; xdr_var_string has none
Upto(bound, m) == IF m.str < bound THEN m.str ELSE bound
StrLen(it, m) == IF it.k = "var" THEN m.var ELSE Upto(it.n, m)

RECURSIVE Enc(_, _)
EncItem(it, m) ==
    CASE it.k = "ints" -> Zeros(it.n)
      [] it.k \in {"str", "var"} -> <<StrLen(it, m)>> \o Zeros(up4(StrLen(it, m)))
      [] it.k = "cnt" -> <<m.cnt[it.f]>>
      [] it.k = "bytes" -> Zeros(up4(m.cnt[it.f]))
      [] it.k = "bits" -> Zeros(BitCount(it, m.cnt[it.f]))
      [] it.k = "rep" -> FlattenSeq([i \in 1..m.cnt[it.f] |-> Enc(it.body, m)])
      [] it.k = "when" -> IF m.cnt[it.f] # 0 THEN Enc(it.body, m) ELSE <<>>
      [] it.k = "unless" -> IF m.cnt[it.f] = 0 THEN Enc(it.body, m) ELSE <<>>
      [] it.k = "idlo" -> <<jobId64To32(m.id).lo>>
      [] it.k = "idhi" -> <<jobId64To32(m.id).hi>>
      [] it.k = "lenient" -> Enc(it.body, m)
      [] it.k = "elem" -> LET b == Enc(it.body, m) \o Zeros(m.new)
                          IN  <<1 + Len(b)>> \o b
      [] it.k = "limits" -> <<it.n + m.new>>
                            \o FlattenSeq([i \in 1..(it.n + m.new) |-> Enc(it.body, m)])

Enc(fmt, m) == FlattenSeq([i \in 1..Len(fmt) |-> EncItem(fmt[i], m)])

-----------------------------------------------------------------------------
(* Reading.  st is the reader's state: ok, the position of the next word,   *)
(* the counts read so far, and the job ids put together from their halves.  *)
(* A count that is used before it has been read makes the read fail.        *)

Fail(st) == [st EXCEPT !.ok = FALSE]
Skip(st, w, n) == IF n >= 0 /\ st.pos + n <= Len(w) + 1
                  THEN [st EXCEPT !.pos = @ + n] ELSE Fail(st)
KnownCount(st, f) == f \in DOMAIN st.env

Mut_DecElem(st0, off, st1, w) == st1

\* the reader of xdr_arrayElement: it goes on at the offset it was given,
\* and stays where it is when that lies beyond the message
DecElem(st0, off, st1, w) ==
    IF st1.ok /\ st0.pos + off <= Len(w) + 1 THEN [st1 EXCEPT !.pos = st0.pos + off] ELSE st1

\* xdr_string: the length is checked against the bound, then the words
DecString(it, w, st) ==
    IF st.pos > Len(w) \/ (it.k = "str" /\ w[st.pos] > it.n) THEN Fail(st)
    ELSE Skip(st, w, 1 + up4(w[st.pos]))

\* limits beyond LSF_RLIM_NLIMITS are read and dropped
LimitsRead(it, n) == IF it.f = "last" /\ n > it.n THEN it.n ELSE n

RECURSIVE Dec(_, _, _, _)
RECURSIVE DecTimes(_, _, _, _)
DecItem(it, w, st) ==
    CASE it.k = "ints" -> Skip(st, w, it.n)
      [] it.k \in {"str", "var"} -> DecString(it, w, st)
      [] it.k = "cnt" -> IF st.pos > Len(w) THEN Fail(st)
                         ELSE [st EXCEPT !.pos = @ + 1, !.env = (it.f :> w[st.pos]) @@ @]
      [] it.k = "bytes" -> Skip(st, w, up4(st.env[it.f]))
      [] it.k \in {"bits", "rep", "when", "unless"} /\ ~KnownCount(st, it.f) -> Fail(st)
      [] it.k = "bits" /\ KnownCount(st, it.f) -> Skip(st, w, BitCount(it, st.env[it.f]))
      [] it.k = "rep" /\ KnownCount(st, it.f) -> DecTimes(st.env[it.f], it.body, w, st)
      [] it.k = "when" /\ KnownCount(st, it.f) ->
            IF st.env[it.f] # 0 THEN Dec(it.body, 1, w, st) ELSE st
      [] it.k = "unless" /\ KnownCount(st, it.f) ->
            IF st.env[it.f] = 0 THEN Dec(it.body, 1, w, st) ELSE st
      [] it.k = "idlo" -> IF st.pos > Len(w) THEN Fail(st)
                          ELSE [st EXCEPT !.pos = @ + 1, !.lo = (it.f :> w[st.pos]) @@ @]
      [] it.k = "idhi" -> IF st.pos > Len(w) \/ it.f \notin DOMAIN st.lo THEN Fail(st)
                          ELSE [st EXCEPT !.pos = @ + 1,
                                          !.ids = @ \cup {jobId32To64(st.lo[it.f], w[st.pos])}]
      [] it.k = "lenient" -> [Dec(it.body, 1, w, st) EXCEPT !.ok = TRUE]
      [] it.k = "elem" -> IF st.pos > Len(w) THEN Fail(st)
                          ELSE DecElem(st, w[st.pos],
                                       Dec(it.body, 1, w, [st EXCEPT !.pos = @ + 1]), w)
      [] it.k = "limits" -> IF st.pos > Len(w) THEN Fail(st)
                            ELSE DecTimes(LimitsRead(it, w[st.pos]), it.body, w,
                                          [st EXCEPT !.pos = @ + 1])

Dec(fmt, i, w, st) ==
    IF ~st.ok \/ i > Len(fmt) THEN st
    ELSE CHOOSE r \in {Dec(fmt, i + 1, w, s1) : s1 \in {DecItem(fmt[i], w, st)}} : TRUE

DecTimes(k, body, w, st) ==
    IF ~st.ok \/ k <= 0 THEN st
    ELSE CHOOSE r \in {DecTimes(k - 1, body, w, s1) : s1 \in {Dec(body, 1, w, st)}} : TRUE

Decode(fmt, w) == Dec(fmt, 1, w, [ok |-> TRUE, pos |-> 1, env |-> <<>>, lo |-> <<>>, ids |-> {}])

\* the counts a filter names, and the number of bytes it writes
RECURSIVE Counts(_)
Counts(fmt) == UNION {(IF fmt[i].k = "cnt" THEN {fmt[i].f} ELSE {}) \cup Counts(fmt[i].body) :
                      i \in 1..Len(fmt)}

RECURSIVE WordsIn(_, _, _, _)
WordsOf(fmt, m) == WordsIn(fmt, 1, Len(fmt), m)

ItemWords(it, m) ==
    CASE it.k \in {"ints"} -> it.n
      [] it.k \in {"str", "var"} -> 1 + up4(StrLen(it, m))
      [] it.k \in {"cnt", "idlo", "idhi"} -> 1
      [] it.k = "bytes" -> up4(m.cnt[it.f])
      [] it.k = "bits" -> BitCount(it, m.cnt[it.f])
      [] it.k = "rep" -> m.cnt[it.f] * WordsOf(it.body, m)
      [] it.k = "when" -> IF m.cnt[it.f] # 0 THEN WordsOf(it.body, m) ELSE 0
      [] it.k = "unless" -> IF m.cnt[it.f] = 0 THEN WordsOf(it.body, m) ELSE 0
      [] it.k = "lenient" -> WordsOf(it.body, m)
      [] it.k = "elem" -> 1 + WordsOf(it.body, m)
      [] it.k = "limits" -> 1 + it.n * WordsOf(it.body, m)

\* halving the filter keeps the evaluation shallow
WordsIn(fmt, a, b, m) ==
    IF a > b THEN 0 ELSE IF a = b THEN ItemWords(fmt[a], m)
    ELSE WordsIn(fmt, a, (a + b) \div 2, m) + WordsIn(fmt, (a + b) \div 2 + 1, b, m)

Bytes(fmt, m) == 4 * WordsOf(fmt, m)

-----------------------------------------------------------------------------
(* The filters of the batch system (lsb.xdr.c).                             *)
HOSTLEN == 64
NAMELEN == 60
LSFNAME == 40
LINELEN == 512
FILELEN == 256

xdr_xFile == Strs(2, FILELEN) \o Ints(1)

xdr_submitReq ==
    Ints(1) \o Vars(2) \o Ints(1) \o Strs(1, HOSTLEN) \o Vars(3) \o Strs(4, FILELEN) \o Vars(1)
    \o Strs(1, HOSTLEN) \o Cnt("asked") \o Rep("asked", Vars(1)) \o Limits(Ints(1))
    \o xdr_time_t(3) \o Ints(3) \o xdr_time_t(1) \o Strs(3, FILELEN)
    \o Cnt("nxf") \o Rep("nxf", Elem(xdr_xFile)) \o Vars(2) \o Ints(2) \o Vars(2) \o Ints(1)
    \o Strs(2, FILELEN) \o Ints(1)

xdr_modifyReq == IdLow("job") \o Ints(1) \o Elem(xdr_submitReq) \o Vars(1) \o Ints(1) \o IdHigh("job")

xdr_jobInfoReq == Vars(1) \o IdLow("job") \o Ints(1) \o Vars(3) \o IdHigh("job")

\* the signal is read first: it says whether a period and flags follow
xdr_signalReq == Cnt("chkpnt") \o IdLow("job") \o When("chkpnt", Ints(2)) \o IdHigh("job")

xdr_lsbMsg == Ints(2) \o IdLow("job") \o Ints(1) \o Strs(2, 128) \o Vars(1) \o IdHigh("job")

xdr_submitMbdReply == IdLow("job") \o Ints(1) \o Strs(1, NAMELEN) \o Strs(1, FILELEN) \o IdHigh("job")

xdr_parameterInfo == Vars(2) \o Ints(8) \o Vars(1) \o Ints(4) \o Vars(1) \o Ints(9)

\* all array ids, then all host names, then all element indices: the halves
\* of an id are joined only after the last word of the message
xdr_jobInfoHead ==
    Cnt("jobs") \o Cnt("hosts") \o Rep("jobs", IdLow("job")) \o Rep("hosts", Strs(1, HOSTLEN))
    \o Rep("jobs", IdHigh("job"))

xdr_jgrpInfoReply ==
    IdLow("grp") \o Ints(3) \o xdr_time_t(3) \o Ints(3) \o Strs(1, LSFNAME) \o Vars(1)
    \o xdr_time_t(1) \o Vars(1) \o IdHigh("grp")

xdr_pidInfo == Ints(4)

xdr_jRusage == Ints(4) \o Cnt("npids") \o Rep("npids", Elem(xdr_pidInfo))
               \o Cnt("npgids") \o Rep("npgids", Elem(Ints(1)))

xdr_jobInfoReply ==
    Cnt("group") \o Vars(2) \o Ints(8)
    \o When("group", xdr_jgrpInfoReply)
    \o Unless("group",
         IdLow("job") \o Ints(3) \o xdr_time_t(2) \o Ints(1) \o Cnt("hosts") \o Cnt("nidx")
         \o Cnt("reasons") \o Ints(1) \o Strs(1, LSFNAME) \o Rep("nidx", Ints(2))
         \o Rep("reasons", Ints(1)) \o Rep("hosts", Strs(1, HOSTLEN)) \o Elem(xdr_submitReq)
         \o Ints(2) \o Vars(3) \o xdr_time_t(1) \o Ints(1) \o xdr_time_t(1) \o xdr_jRusage
         \o xdr_time_t(1) \o Ints(2) \o IdHigh("job"))

xdr_queueInfoEnt ==
    Strs(1, NAMELEN) \o Vars(4) \o Strs(1, NAMELEN) \o Ints(11) \o Rep("nidx", Ints(2)) \o Ints(15)
    \o Vars(2) \o Ints(1) \o Vars(5) \o Ints(1) \o Vars(1) \o Ints(2) \o Vars(6) \o Ints(23)
    \o Vars(1) \o Ints(14)

xdr_queueInfoReply == Cnt("queues") \o Ints(1) \o Cnt("nidx") \o Rep("queues", Elem(xdr_queueInfoEnt))

\* CHECK_HOST and CHECK_USER are bits of the options word
xdr_infoReq == Cnt("checkhost") \o Cnt("names") \o Rep("names", Vars(1))
               \o When("checkhost", Vars(1)) \o Vars(1)

xdr_hostInfoEnt ==
    Strs(1, HOSTLEN) \o Ints(1) \o Strs(1, LINELEN) \o Ints(9) \o BitWords("nidx")
    \o BitWords("nidx") \o Rep("nidx", Ints(4)) \o Ints(1)

xdr_hostDataReply == Cnt("hosts") \o Ints(1) \o Cnt("nidx") \o Rep("hosts", Elem(xdr_hostInfoEnt)) \o Ints(1)

xdr_userInfoEnt == Strs(1, NAMELEN) \o Ints(9)

xdr_userInfoReply == Cnt("users") \o Ints(1) \o Rep("users", Elem(xdr_userInfoEnt))

xdr_jobPeekReq == IdLow("job") \o IdHigh("job")
xdr_jobPeekReply == Strs(1, FILELEN) \o Vars(1)
xdr_groupInfoEnt == Vars(2)
xdr_groupInfoReply == Cnt("groups") \o Rep("groups", Elem(xdr_groupInfoEnt))
xdr_controlReq == Ints(1) \o Strs(1, HOSTLEN)
xdr_jobSwitchReq == IdLow("job") \o Strs(1, NAMELEN) \o IdHigh("job")
xdr_jobMoveReq == Ints(1) \o IdLow("job") \o Ints(1) \o IdHigh("job")
xdr_migReq == IdLow("job") \o Ints(1) \o Cnt("asked") \o Rep("asked", Strs(1, HOSTLEN)) \o IdHigh("job")

xdr_lsbShareResourceInstance == Vars(2) \o Cnt("hosts") \o Rep("hosts", Strs(1, HOSTLEN))
xdr_lsbSharedResourceInfo ==
    Vars(1) \o Cnt("instances") \o Rep("instances", Elem(xdr_lsbShareResourceInstance))
xdr_lsbShareResourceInfoReply ==
    Cnt("resources") \o Ints(1) \o Rep("resources", Elem(xdr_lsbSharedResourceInfo))

xdr_runJobReq == Cnt("hosts") \o IdLow("job") \o Ints(1) \o Rep("hosts", Vars(1)) \o IdHigh("job")
xdr_jobAttrReq == IdLow("job") \o Ints(1) \o Strs(1, HOSTLEN) \o IdHigh("job")

-----------------------------------------------------------------------------
(* Messages between mbatchd and sbatchd (daemons.xdr.c).                    *)
xdr_lsfLimit == Ints(4)
xdr_lsfRusage == Doubles(19)

\* nThresholds rows of nIdx pairs: loadSched first, then loadStop
xdr_thresholds == Cnt("nidx") \o Cnt("nthr") \o Rep("nthr", Rep("nidx", Ints(2)))

\* a failed xdr_thresholds is logged and the reading goes on
jobSpecsHead ==
    IdLow("job") \o Ints(6) \o xdr_time_t(3) \o Ints(1) \o Limits(xdr_lsfLimit) \o Ints(13)
    \o Strs(7, FILELEN) \o Strs(3, LINELEN) \o Strs(1, HOSTLEN) \o Strs(1, LINELEN)
jobSpecsLists ==
    Strs(1, FILELEN) \o Strs(1, LINELEN) \o Strs(1, NAMELEN)
    \o Cnt("hosts") \o Rep("hosts", Vars(1)) \o Lenient(xdr_thresholds)
    \o Cnt("nxf") \o Rep("nxf", Elem(xdr_xFile))
    \o Strs(1, LINELEN) \o Strs(2, NAMELEN) \o Strs(2, LINELEN) \o Strs(2, FILELEN)
    \o Strs(1, LINELEN) \o Ints(2) \o Cnt("nenv") \o Rep("nenv", Vars(1)) \o xdr_lenData("eexec")
jobSpecsTail ==
    Ints(1) \o Strs(5, LINELEN) \o Ints(24) \o Vars(3) \o Ints(1) \o Strs(1, 4096)
    \o IdHigh("job") \o Strs(2, FILELEN) \o Ints(1) \o Strs(2, NAMELEN)
xdr_jobSpecs == jobSpecsHead \o jobSpecsLists \o jobSpecsTail

xdr_jobSig == IdLow("job") \o Ints(5) \o Vars(1) \o IdHigh("job") \o IdLow("new") \o IdHigh("new")
xdr_jobReply == IdLow("job") \o Ints(7) \o IdHigh("job")

xdr_statusReq ==
    IdLow("job") \o Ints(8) \o Elem(xdr_lsfRusage) \o Ints(1) \o Cnt("hosts")
    \o Rep("hosts", Strs(1, HOSTLEN)) \o Ints(1) \o Vars(5) \o Ints(1) \o xdr_jRusage \o Ints(2)
    \o IdHigh("job")

\* the result of xdr_statusReq is not looked at
xdr_chunkStatusReq == Cnt("chunk") \o Rep("chunk", Lenient(xdr_statusReq))

\* what mbatchd writes in one go the receiver reads in three calls
xdr_sbdPackage1 == Ints(4) \o Cnt("admins") \o Rep("admins", Vars(1))
xdr_sbdPackage == Ints(7) \o Cnt("njobs") \o Strs(1, NAMELEN)
                  \o Rep("njobs", Elem(xdr_jobSpecs)) \o xdr_sbdPackage1

-----------------------------------------------------------------------------
(* Headers, authentication, and messages of the LIM, the RES and nios       *)
(* (lib.xdr*.c, lim.xdr.c).                                                 *)
xdr_LSFHeader == Ints(4)

\* a token of the external authentication program, or a filler word
xdr_lsfAuth == Ints(2) \o Strs(1, LSFNAME) \o Cnt("kind")
               \o When("kind", Cnt("token") \o Ints(1) \o <<Item("bytes", "token", 0, <<>>)>>)
               \o Unless("kind", Elem(Ints(1))) \o Ints(1)

xdr_debugReq == Ints(4) \o Strs(1, HOSTLEN) \o Strs(1, 4096)
xdr_stat == Ints(11)
xdr_niosConnect == Ints(3)
xdr_niosStatus == Cnt("sigchld") \o When("sigchld", Ints(1) \o Elem(xdr_lsfRusage))
xdr_resSignal == Ints(2)
xdr_resConnect == xdr_lenData("eexec")

xdr_placeInfo == Strs(1, HOSTLEN) \o Ints(1)
xdr_hostLoad == Strs(1, HOSTLEN) \o Ints(1) \o BitWords("nindex") \o Rep("nindex", Ints(1))
xdr_decisionReq == Ints(2) \o Strs(1, LSFNAME) \o Ints(1) \o Strs(1, LINELEN)
                   \o Cnt("prefs") \o Rep("prefs", Strs(1, HOSTLEN))
xdr_placeReply == Cnt("places") \o Rep("places", Elem(xdr_placeInfo))
xdr_loadReply == Cnt("entries") \o Cnt("nindex") \o Rep("nindex", Strs(1, LSFNAME))
                 \o Rep("entries", Elem(xdr_hostLoad)) \o Ints(1)
xdr_jobXfer == Cnt("hosts") \o Strs(1, LINELEN) \o Rep("hosts", Elem(xdr_placeInfo))

xdr_shortLsInfo == Cnt("nres") \o Cnt("ntypes") \o Cnt("nmodels") \o Rep("nres", Strs(1, LSFNAME))
                   \o Rep("ntypes", Strs(1, LSFNAME)) \o Rep("nmodels", Strs(1, LSFNAME))
                   \o Rep("nmodels", Ints(1))

\* whether a host has windows is a bit of the word of its type index
xdr_shortHInfo == Strs(1, HOSTLEN) \o Cnt("windows") \o Ints(2) \o When("windows", Strs(1, LINELEN))
                  \o Rep("nindex", Ints(1)) \o Ints(5) \o Cnt("nrint") \o Rep("nrint", Ints(1))
                  \o Cnt("sockets") \o Cnt("cores") \o Ints(1) \o Cnt("topology")
                  \o When("topology", Rep("sockets", Rep("cores", Ints(1))))

\* maxMem is sent again in full: its half word in xdr_shortHInfo is too small
xdr_hostInfoReply == Cnt("hosts") \o Cnt("nindex") \o xdr_shortLsInfo
                     \o Rep("hosts", Elem(xdr_shortHInfo)) \o Rep("hosts", Ints(1))

xdr_limLock == Ints(1) \o xdr_time_t(1) \o Ints(1) \o Strs(1, LSFNAME)
xdr_resItem == Strs(1, LSFNAME) \o Strs(1, 256) \o Ints(4)
xdr_lsInfo == Cnt("nres") \o Rep("nres", Elem(xdr_resItem)) \o Cnt("ntypes")
              \o Rep("ntypes", Strs(1, LSFNAME)) \o Cnt("nmodels") \o Rep("nmodels", Strs(1, LSFNAME))
              \o Ints(2) \o Rep("nmodels", Ints(1)) \o Rep("nmodels", Strs(1, LSFNAME))
              \o Rep("nmodels", Ints(1))
xdr_masterInfo == Strs(1, HOSTLEN) \o Ints(1) \o xdr_portno
xdr_clusterInfoReq == Strs(1, LINELEN) \o Cnt("clusters") \o Ints(1) \o Rep("clusters", Strs(1, LSFNAME))
ClusterHead == Strs(1, LSFNAME) \o Strs(1, HOSTLEN) \o Strs(1, LSFNAME) \o Ints(7) \o Cnt("nindex")
               \o Ints(2) \o Cnt("admins") \o Rep("admins", Vars(1) \o Ints(1))
               \o Cnt("nres") \o BitWordsIfAny("nres")
xdr_shortCInfo == ClusterHead \o Cnt("ntypes") \o BitWordsIfAny("ntypes")
                  \o Cnt("nmodels") \o BitWordsIfAny("nmodels")
xdr_cInfo == ClusterHead \o xdr_shortLsInfo \o Rep("nindex", Strs(1, LSFNAME))
             \o Cnt("ntypes") \o BitWordsIfAny("ntypes") \o Cnt("nmodels") \o BitWordsIfAny("nmodels")
xdr_clusterInfoReply == Cnt("clusters") \o Elem(xdr_shortLsInfo) \o Rep("clusters", Elem(xdr_shortCInfo))
xdr_resourceInfoReq == Cnt("names") \o Ints(1) \o Rep("names", Vars(1)) \o Vars(1)
xdr_lsResourceInstance == Vars(1) \o Cnt("hosts") \o Rep("hosts", Strs(1, HOSTLEN))
xdr_lsResourceInfo == Vars(1) \o Cnt("instances") \o Rep("instances", Elem(xdr_lsResourceInstance))
xdr_resourceInfoReply == Cnt("resources") \o Ints(1) \o Rep("resources", Elem(xdr_lsResourceInfo))
xdr_hostEntry == Strs(1, HOSTLEN) \o Strs(2, LSFNAME) \o Ints(3) \o Cnt("nindex")
                 \o Rep("nindex", Ints(1)) \o Cnt("nres") \o Rep("nres", Vars(1)) \o Ints(1) \o Vars(1)

\* the load indices: NBUILTINDEX of them packed in pairs, the others as floats
BUILTINDICES == 11
xdr_lvector == Ints(BUILTINDICES \div 2 + 1) \o Rep("usrindex", Ints(1))
xdr_resPair == Vars(2)
xdr_loadvector == Ints(2) \o Cnt("pairs") \o Ints(3) \o Cnt("usrindex") \o Ints(1)
                  \o BitWords("usrindex") \o xdr_lvector \o Rep("pairs", Elem(xdr_resPair))
xdr_masterReg == Strs(1, LSFNAME) \o Strs(1, HOSTLEN) \o Ints(3) \o xdr_portno
xdr_statInfo == Ints(3) \o xdr_portno \o Ints(3) \o Strs(2, LSFNAME) \o Ints(1) \o Cnt("sockets")
                \o Cnt("cores") \o Ints(1) \o Cnt("topology")
                \o When("topology", Rep("sockets", Rep("cores", Ints(1))))

xdr_resCmdBill == xdr_portno \o Ints(4) \o Strs(1, 4096) \o Cnt("argc") \o Rep("argc", Vars(1))
                  \o LastLimits(Elem(xdr_lsfLimit))
xdr_resSetenv == Cnt("nenv") \o Rep("nenv", Vars(1))
xdr_resGetRusage == Ints(3)
xdr_resChdir == Strs(1, FILELEN)
xdr_ropenReq == Strs(1, 4096) \o Ints(2)
xdr_rrdwrReq == Ints(2)
xdr_rlseekReq == Ints(3)

-----------------------------------------------------------------------------
(* The filters by name: those that carry counts, selectors, strings or ids. *)
Filters == [
    submitReq |-> xdr_submitReq, modifyReq |-> xdr_modifyReq, jobInfoReq |-> xdr_jobInfoReq,
    signalReq |-> xdr_signalReq, lsbMsg |-> xdr_lsbMsg, submitMbdReply |-> xdr_submitMbdReply,
    parameterInfo |-> xdr_parameterInfo, jobInfoHead |-> xdr_jobInfoHead,
    jobInfoReply |-> xdr_jobInfoReply, queueInfoReply |-> xdr_queueInfoReply,
    infoReq |-> xdr_infoReq, hostDataReply |-> xdr_hostDataReply,
    userInfoReply |-> xdr_userInfoReply, jobPeekReq |-> xdr_jobPeekReq,
    jobPeekReply |-> xdr_jobPeekReply, groupInfoReply |-> xdr_groupInfoReply,
    controlReq |-> xdr_controlReq, jobSwitchReq |-> xdr_jobSwitchReq, jobMoveReq |-> xdr_jobMoveReq,
    migReq |-> xdr_migReq, sharedResources |-> xdr_lsbShareResourceInfoReply,
    runJobReq |-> xdr_runJobReq, jobAttrReq |-> xdr_jobAttrReq, jobSpecs |-> xdr_jobSpecs,
    jobSig |-> xdr_jobSig, jobReply |-> xdr_jobReply, statusReq |-> xdr_statusReq,
    chunkStatusReq |-> xdr_chunkStatusReq, sbdPackage |-> xdr_sbdPackage,
    header |-> xdr_LSFHeader, lsfAuth |-> xdr_lsfAuth, debugReq |-> xdr_debugReq,
    stat |-> xdr_stat, niosConnect |-> xdr_niosConnect, niosStatus |-> xdr_niosStatus,
    resSignal |-> xdr_resSignal, resConnect |-> xdr_resConnect, decisionReq |-> xdr_decisionReq,
    placeReply |-> xdr_placeReply, loadReply |-> xdr_loadReply, jobXfer |-> xdr_jobXfer,
    hostInfoReply |-> xdr_hostInfoReply, limLock |-> xdr_limLock, lsInfo |-> xdr_lsInfo,
    masterInfo |-> xdr_masterInfo, clusterInfoReq |-> xdr_clusterInfoReq, cInfo |-> xdr_cInfo,
    clusterInfoReply |-> xdr_clusterInfoReply, resourceInfoReq |-> xdr_resourceInfoReq,
    resourceInfoReply |-> xdr_resourceInfoReply, hostEntry |-> xdr_hostEntry,
    loadvector |-> xdr_loadvector, masterReg |-> xdr_masterReg, statInfo |-> xdr_statInfo,
    resCmdBill |-> xdr_resCmdBill, resSetenv |-> xdr_resSetenv, resGetRusage |-> xdr_resGetRusage,
    resChdir |-> xdr_resChdir, ropenReq |-> xdr_ropenReq, rrdwrReq |-> xdr_rrdwrReq,
    rlseekReq |-> xdr_rlseekReq]

-----------------------------------------------------------------------------
(* The buffers.  A sender allocates room before it encodes; a message that  *)
(* does not fit is not sent.  Structure sizes are those of an LP64 build.   *)
ALIGNWORD_(n) == (n \div 4) * 4 + 4
getXdrStrlen(n) == ALIGNWORD_(n + 1)
MSGSIZE == 8192
HeaderSize == 16

do_jobInfoReq(m) == 32 + m.cnt["jobs"] * 8 + m.cnt["hosts"] * (8 + HOSTLEN) + 100

jobInfoReplyXdrBufLen(m) ==
    296 + m.cnt["reasons"] * 4 + m.cnt["hosts"] * ALIGNWORD_(HOSTLEN) + 8 * m.cnt["nidx"]
    + ALIGNWORD_(LSFNAME) + 3 * ALIGNWORD_(m.var + 1) + 2 * ALIGNWORD_(m.var + 1)
    + 48 + m.cnt["npgids"] * 4 + m.cnt["npids"] * (4 + 16) + 336
    + (2 + m.cnt["asked"] + 1) * ALIGNWORD_(m.var + 1) + ALIGNWORD_(HOSTLEN) + ALIGNWORD_(m.var + 1)
    + 4 * ALIGNWORD_(FILELEN) + ALIGNWORD_(m.var + 1) + ALIGNWORD_(FILELEN) + m.cnt["nxf"] * 516
    + 2 * ALIGNWORD_(FILELEN) + ALIGNWORD_(HOSTLEN) + 5 * ALIGNWORD_(m.var + 1)

packJobInfo(m) == jobInfoReplyXdrBufLen(m) + 1024

do_hostInfoReq(m) == m.cnt["hosts"] * (120 + LINELEN + HOSTLEN + m.cnt["nidx"] * 16) + 100
do_userInfoReq(m) == m.cnt["users"] * (48 + NAMELEN) + 100
xdrsize_QueueInfoReply(m) ==
    m.cnt["queues"] * (19 * getXdrStrlen(m.var) + getXdrStrlen(Upto(NAMELEN, m)))
    + ALIGNWORD_(24 + m.cnt["queues"] * (480 + NAMELEN + m.cnt["nidx"] * 8) + m.cnt["queues"] * 4)
    + HeaderSize
sizeofGroupInfoReply(m) ==
    ALIGNWORD_(16 + m.cnt["groups"] * 24 + m.cnt["groups"] * 4)
    + m.cnt["groups"] * 2 * ALIGNWORD_(m.var + 1) + ALIGNWORD_(HeaderSize)
do_paramInfoReq(m) == 160 + 3 * m.var + 100 + m.var
do_resourceInfoReq(m) ==
    ALIGNWORD_(m.cnt["resources"] * (24 + LSFNAME)) + 100
    + m.cnt["resources"] * m.cnt["instances"]
        * (ALIGNWORD_(32 + LSFNAME + m.cnt["hosts"] * HOSTLEN) + 4)
    + 4 * MSGSIZE

\* the environment is counted as bare characters, without length and padding
start_ajob(m) == 15040 + 136 + 100 + m.cnt["hosts"] * HOSTLEN + m.cnt["nthr"] * m.cnt["nidx"] * 8
                 + m.cnt["nxf"] * 516 + m.cnt["eexec"] + m.cnt["nenv"] * m.var
sbatchdJobsMsg(m) ==
    136 + m.cnt["njobs"] * (15040 + m.cnt["nthr"] * m.cnt["nidx"] * 8 + m.cnt["nxf"] * 516 + 3 * m.var
        + 10 + m.cnt["hosts"] * getXdrStrlen(m.var) + ALIGNWORD_(m.cnt["eexec"]) + 4
        + m.cnt["nenv"] * ALIGNWORD_(m.var + 1))
    + m.cnt["admins"] * getXdrStrlen(m.var)

statusRoom(m) == 1024 + ALIGNWORD_(328) + 3 * (ALIGNWORD_(m.var) + 4)
                 + m.cnt["npids"] * (ALIGNWORD_(16) + 4) + m.cnt["npgids"] * (ALIGNWORD_(4) + 4)

status_job(m) == statusRoom(m)
sendUnreportedStatus(m) == ALIGNWORD_(16) + ALIGNWORD_(8 * m.cnt["chunk"]) + m.cnt["chunk"] * statusRoom(m)
xdr_lsfAuthSize(m) == 3 * ALIGNWORD_(4) + ALIGNWORD_(Upto(LSFNAME, m))
                      + (IF m.cnt["kind"] # 0 THEN ALIGNWORD_(4) + ALIGNWORD_(m.cnt["token"])
                         ELSE ALIGNWORD_(4)) + ALIGNWORD_(4)
xdrSubReqSize(m) ==
    1024 + ALIGNWORD_(336) + 2 * (ALIGNWORD_(Upto(HOSTLEN, m) + 1) + 4)
    + 9 * (ALIGNWORD_(Upto(FILELEN, m) + 1) + 4) + 7 * (ALIGNWORD_(m.var + 1) + 4)
    + ALIGNWORD_(m.var) + 4 + m.cnt["asked"] * ALIGNWORD_(m.var + 5) + m.cnt["nxf"] * ALIGNWORD_(532)
sendSubReq(m) == xdrSubReqSize(m) + xdr_lsfAuthSize(m)
sendLoad(m) ==
    64 + (BUILTINDICES + m.cnt["usrindex"]) * 4 + GET_INTNUM(BUILTINDICES + m.cnt["usrindex"]) * 4
    + m.cnt["pairs"] * 16 + 100 + m.cnt["pairs"] * 2 * (ALIGNWORD_(m.var + 1) + 4)
hostInfoReq(m) ==
    LET topo == m.cnt["hosts"] * (m.cnt["sockets"] * m.cnt["cores"] * 4 + 20)
        all  == topo + ALIGNWORD_(MSGSIZE + m.cnt["hosts"] * (128 + m.cnt["nindex"] * 4))
    IN  IF all > 4 * MSGSIZE THEN all ELSE 4 * MSGSIZE

\* each buffer with the message it is for
Buffers == [
    do_jobInfoReq |-> xdr_jobInfoHead, packJobInfo |-> xdr_jobInfoReply,
    do_hostInfoReq |-> xdr_hostDataReply, do_userInfoReq |-> xdr_userInfoReply,
    do_queueInfoReq |-> xdr_queueInfoReply, do_groupInfoReq |-> xdr_groupInfoReply,
    do_paramInfoReq |-> xdr_parameterInfo, do_resourceInfoReq |-> xdr_lsbShareResourceInfoReply,
    start_ajob |-> xdr_jobSpecs, sbatchdJobs |-> xdr_sbdPackage, status_job |-> xdr_statusReq,
    sendUnreportedStatus |-> xdr_chunkStatusReq, sendSubReq |-> xdr_lsfAuth \o xdr_submitReq,
    sendLoad |-> xdr_loadvector, hostInfoReq |-> xdr_hostInfoReply]

BufferSize(b, m) ==
    CASE b = "do_jobInfoReq" -> do_jobInfoReq(m)
      [] b = "packJobInfo" -> packJobInfo(m)
      [] b = "do_hostInfoReq" -> do_hostInfoReq(m)
      [] b = "do_userInfoReq" -> do_userInfoReq(m)
      [] b = "do_queueInfoReq" -> xdrsize_QueueInfoReply(m)
      [] b = "do_groupInfoReq" -> sizeofGroupInfoReply(m)
      [] b = "do_paramInfoReq" -> do_paramInfoReq(m)
      [] b = "do_resourceInfoReq" -> do_resourceInfoReq(m)
      [] b = "start_ajob" -> start_ajob(m)
      [] b = "sbatchdJobs" -> sbatchdJobsMsg(m)
      [] b = "status_job" -> status_job(m)
      [] b = "sendUnreportedStatus" -> sendUnreportedStatus(m)
      [] b = "sendSubReq" -> sendSubReq(m)
      [] b = "sendLoad" -> sendLoad(m)
      [] b = "hostInfoReq" -> hostInfoReq(m)

\* xdr_encodeMsg: the header, and the message behind it
xdr_encodeMsg(b, m) == HeaderSize + Bytes(Buffers[b], m)

-----------------------------------------------------------------------------
(* Packed words.  A load index travels as 16 bits: a 6-bit exponent (its    *)
(* top bit the sign) and the 10 bits of the mantissa after the first.  A    *)
(* load is a number of 1/2^LoadScale units.                                 *)
LoadScale == 12
INFINIT_LOAD == 2 ^ 20

BitLen(x) == CHOOSE n \in 1..21 : 2 ^ (n - 1) <= x /\ x < 2 ^ n

\* frexp gives the exponent; a negative one is kept in 5 bits under a sign bit
expoField(e) == IF e < 0 THEN 32 + (e % 32) ELSE e % 32

encfloat16_(x) ==
    IF x >= INFINIT_LOAD THEN <<31, 1023>>
    ELSE IF x = 0 THEN <<32, 1023>>
    ELSE <<expoField(BitLen(x) - LoadScale), (x * 2048) \div 2 ^ BitLen(x) - 1024>>

\* 0x7fff is the infinite load; the smallest number stands for 0
decfloat16_(h) ==
    LET e == IF h[1] >= 32 THEN (h[1] % 32) - 32 ELSE h[1] % 32
    IN  IF h = <<31, 1023>> THEN INFINIT_LOAD
        ELSE IF e + LoadScale < 1 THEN 0
        ELSE ((h[2] + 1024) * 2 ^ (e + LoadScale)) \div 2048

\* xdr_shortHInfo: the indices of a host's type and model share a word with
\* the bit that says whether the host has windows; an index that is negative
\* or too large is sent as the maximum
MAXTYPES == 128
MAXMODELS == 1024
Index(i, max) == IF i < 0 \/ i > max THEN max ELSE i

packHInfo(h) == [hi |-> Index(h.type, MAXTYPES) + (IF h.windows THEN 32768 ELSE 0),
                 lo |-> Index(h.model, MAXMODELS)]

unpackHInfo(w) == [type |-> w.hi % 32768, model |-> w.lo, windows |-> w.hi >= 32768]

-----------------------------------------------------------------------------
(* One exchange: a message goes out and is read at the other end, whole or  *)
(* without its last words; a buffer is allocated and filled; two load       *)
(* indices, or the word of a host, are packed and unpacked.                 *)

MessagesInit(in) == mphase = "sent" /\ min = in /\ mout = [none |-> TRUE]

Receive(cut) ==
    /\ mphase = "sent" /\ min.kind = "wire"
    /\ mphase' = "read" /\ UNCHANGED min
    /\ \E w \in {Enc(Filters[min.fmt], min.m)} :
          /\ cut < Len(w)
          /\ mout' = [cut |-> cut, size |-> Len(w) - cut,
                      st |-> Decode(Filters[min.fmt], SubSeq(w, 1, Len(w) - cut))]

Allocate ==
    /\ mphase = "sent" /\ min.kind = "buffer"
    /\ mphase' = "read" /\ UNCHANGED min
    /\ mout' = [room |-> BufferSize(min.buf, min.m), need |-> xdr_encodeMsg(min.buf, min.m)]

ExchangeLoads ==
    /\ mphase = "sent" /\ min.kind = "load"
    /\ mphase' = "read" /\ UNCHANGED min
    /\ mout' = [x |-> decfloat16_(encfloat16_(min.x)), y |-> decfloat16_(encfloat16_(min.y))]

ExchangeHost ==
    /\ mphase = "sent" /\ min.kind = "host"
    /\ mphase' = "read" /\ UNCHANGED min
    /\ mout' = [h |-> unpackHInfo(packHInfo(min.h))]

MessagesNext == (\E c \in WireCuts : Receive(c)) \/ Allocate \/ ExchangeLoads \/ ExchangeHost

-----------------------------------------------------------------------------
(* Properties.                                                              *)

IsRead(kind) == mphase = "read" /\ min.kind = kind

\* what the reader learnt: every count it met, and every id it joined
Understood ==
    /\ mout.st.ok
    /\ \A f \in DOMAIN mout.st.env : mout.st.env[f] = min.m.cnt[f]
    /\ mout.st.ids \subseteq {min.m.id}

\* A message from a peer of the same version is read back to its last word,
\* with every count, every selector and every job id as they were sent.  No
\* field is looked at before it has been read (all xdr_ filters).
MessageRoundTrip ==
    (IsRead("wire") /\ mout.cut = 0 /\ min.m.new = 0) =>
        (Understood /\ mout.st.pos = mout.size + 1)

\* A message from a newer peer, whose elements have fields this version does
\* not know and which sends more resource limits, is read as well: elements
\* are stepped over by their offset, limits beyond LSF_RLIM_NLIMITS are read
\* and dropped (xdr_arrayElement, xdr_submitReq, xdr_jobSpecs, xdr_resCmdBill).
NewerPeerUnderstood ==
    (IsRead("wire") /\ mout.cut = 0 /\ min.m.new > 0) => Understood

\* A message that ends too early is refused, so that no daemon acts on fields
\* it has not received.  The one exception is xdr_chunkStatusReq, which does
\* not look at the result of xdr_statusReq.
CutMessageRefused ==
    (IsRead("wire") /\ mout.cut > 0 /\ min.m.new = 0 /\ min.fmt # "chunkStatusReq") => ~mout.st.ok

\* The room a sender computes is enough for the message it then encodes,
\* whatever the lengths of its strings and the sizes of its lists: otherwise
\* the reply, the job or the status report would never be sent.
MessageFits == IsRead("buffer") => mout.need <= mout.room

\* A load index loses less than one part in 1024 on its way to the master,
\* never grows, and two hosts are never ranked the wrong way round by it;
\* an infinite load stays infinite (encfloat16_, decfloat16_).
LoadOrderKept ==
    IsRead("load") =>
        /\ mout.x <= min.x /\ (min.x - mout.x) * 1024 <= min.x
        /\ min.x <= min.y => mout.x <= mout.y
        /\ min.x = INFINIT_LOAD <=> mout.x = INFINIT_LOAD

\* The type, the model and the presence of windows do not disturb each other
\* in the word they share (xdr_shortHInfo).
HostWordKept ==
    IsRead("host") => mout.h = [type |-> Index(min.h.type, MAXTYPES),
                                model |-> Index(min.h.model, MAXMODELS),
                                windows |-> min.h.windows]

\* What daemons, LIMs and the library tell each other arrives as it was sent,
\* also from a newer peer; what was cut is refused; a buffer has room for its
\* message; load indices keep their order and a host's word its parts.
MessagesSurvive ==
    /\ MessageRoundTrip /\ NewerPeerUnderstood /\ CutMessageRefused /\ MessageFits
    /\ LoadOrderKept /\ HostWordKept
=============================================================================
