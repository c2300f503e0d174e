------------------------------- MODULE Bitset -------------------------------
(***************************************************************************)
(* src/lsf/intlib/bitset.c: a set of small numbers as an array of machine  *)
(* words that grows when a larger number is added, with a count of its     *)
(* elements that stands for "is it empty".  mbatchd keeps the groups above *)
(* and below every user in such sets (mbd.grp.c), the hosts of a queue     *)
(* (mbd.queue.c) and the hosts a killing pass has done (mbd.job.c).        *)
(*                                                                         *)
(* A word is the set of the positions of its one bits.  The module         *)
(* implements SetSpec for callers that keep to two rules, which mbatchd's  *)
(* calls do, save uDataGroupCreate's removal of a group whose name holds   *)
(* "others": an element is only removed when it is in the set, and never   *)
(* from a set that another one was united into (the count is not brought   *)
(* up to date by setOperate, so such a set would look empty too early).    *)
(***************************************************************************)
EXTENDS Naturals, Integers, FiniteSets

CONSTANTS SetIds, SetElems,
          Merged            \* the sets other sets are united into
ASSUME BitsetAssumption == SetElems \subseteq Nat /\ Merged \subseteq SetIds

VARIABLES bs,               \* the sets: width in words, mask, num
          iter,             \* the iterator: its set and setCurrentBit
          result,           \* what the last call returned
          given, kept       \* history: what the iterator returned since it was attached, and
                            \* which elements were in its set all that time
bsvars == <<bs, iter, result, given, kept>>

WORDLENGTH == 32
SET_WORD_DEFAULT_EXTENT == 2
WordBits == 0..(WORDLENGTH - 1)
SET_GET_WORD(x) == x \div WORDLENGTH
SET_GET_BIT_IN_WORD(x) == x % WORDLENGTH
setSize(b) == b.width * WORDLENGTH
SET_IS_EMPTY(b) == b.num = 0

\* LS_BITSET_T: setWidth, setNumElements and bitmask.
Bits(width, num, mask) == [width |-> width, num |-> num, mask |-> mask]
setCreate(size) ==
    LET sz == IF size > 0 THEN size ELSE WORDLENGTH
        width == (sz + WORDLENGTH - 1) \div WORDLENGTH
    IN  Bits(width, 0, [w \in 0..(width - 1) |-> {}])
setTestValue(b, x) == SET_GET_BIT_IN_WORD(x) \in b.mask[SET_GET_WORD(x)]

Mut_setEnlarge(b, n) ==
    [b EXCEPT !.width = n + SET_WORD_DEFAULT_EXTENT,
              !.mask = [w \in 0..(n + SET_WORD_DEFAULT_EXTENT - 1) |-> IF w < b.width - 1 THEN b.mask[w] ELSE {}]]

setEnlarge(b, n) ==
    LET width == b.width + n + SET_WORD_DEFAULT_EXTENT
    IN  Bits(width, b.num, [w \in 0..(width - 1) |-> IF w < b.width THEN b.mask[w] ELSE {}])

withBit(b, x) ==
    Bits(b.width, b.num + 1, [b.mask EXCEPT ![SET_GET_WORD(x)] = @ \cup {SET_GET_BIT_IN_WORD(x)}])
setAddElement(b, x) ==
    IF x >= setSize(b) THEN withBit(setEnlarge(b, x), x)
    ELSE IF setTestValue(b, x) THEN b ELSE withBit(b, x)
setAddRefuses(b, x) == x < setSize(b) /\ setTestValue(b, x)

setIsMember(b, x) == ~SET_IS_EMPTY(b) /\ x < setSize(b) /\ setTestValue(b, x)

setRemoveElement(b, x) ==
    IF SET_IS_EMPTY(b) \/ x >= setSize(b) THEN b
    ELSE Bits(b.width, b.num - 1, [b.mask EXCEPT ![SET_GET_WORD(x)] = @ \ {SET_GET_BIT_IN_WORD(x)}])
setClear(b) == Bits(b.width, 0, [w \in DOMAIN b.mask |-> {}])

\* setOperate with LS_SET_UNION, the one operation mbatchd asks for.
united(d, s) ==
    Bits(d.width, d.num, [w \in DOMAIN d.mask |-> IF w < s.width THEN d.mask[w] \cup s.mask[w] ELSE d.mask[w]])
setOperate(d, s) == united(IF d.width < s.width THEN setEnlarge(d, s.width) ELSE d, s)

\* The numbers whose bit is on, word by word.
Elements(b) == UNION {{w * WORDLENGTH + p : p \in b.mask[w]} : w \in DOMAIN b.mask}

\* setIteratorGetNextElement: the bits not below setCurrentBit that are on.
bitsLeft(b, c) == {x \in Elements(b) : x >= c}
-----------------------------------------------------------------------------
BitsetInit ==
    /\ bs = [s \in SetIds |-> setCreate(0)]
    /\ \E s \in SetIds : iter = [set |-> s, cur |-> 0]
    /\ result = <<"done", 0>> /\ given = {} /\ kept = {}

\* What a change of the sets means for the history of the iterator.
Changed(new) == /\ bs' = new
                /\ kept' = kept \cap Elements(new[iter.set])
                /\ UNCHANGED <<iter, given>>

AddElement(s, x) ==
    /\ Changed([bs EXCEPT ![s] = setAddElement(@, x)])
    /\ result' = IF setAddRefuses(bs[s], x) THEN <<"error", 0>> ELSE <<"done", 0>>
RemoveElement(s, x) ==
    /\ s \notin Merged /\ x \in Elements(bs[s])
    /\ Changed([bs EXCEPT ![s] = setRemoveElement(@, x)])
    /\ result' = <<"done", 0>>
\* As traverseGroupTree and addUserData do it: add a group, then all that is above it.
IncludeSet(d, x, s) ==
    /\ d \in Merged
    /\ Changed([bs EXCEPT ![d] = setOperate(setAddElement(@, x), IF s = d THEN setAddElement(@, x) ELSE bs[s])])
    /\ result' = <<"done", 0>>
ClearSet(s) == Changed([bs EXCEPT ![s] = setClear(@)]) /\ result' = <<"done", 0>>
IsMember(s, x) ==
    /\ result' = IF setIsMember(bs[s], x) THEN <<"yes", 0>> ELSE <<"no", 0>>
    /\ UNCHANGED <<bs, iter, given, kept>>
setIteratorAttach(s) ==
    /\ iter' = [set |-> s, cur |-> 0] /\ result' = <<"done", 0>>
    /\ given' = {} /\ kept' = Elements(bs[s]) /\ UNCHANGED bs

\* The loop stops at the first bit that is on.
NextBit ==
    \E x \in bitsLeft(bs[iter.set], iter.cur) :
        /\ \A y \in bitsLeft(bs[iter.set], iter.cur) : x <= y
        /\ iter' = [iter EXCEPT !.cur = x + 1]
        /\ result' = <<"element", x>> /\ given' = given \cup {x}

setIteratorGetNextElement ==
    LET b == bs[iter.set]
    IN  /\ \/ /\ SET_IS_EMPTY(b)
              /\ result' = <<"null", 0>> /\ UNCHANGED <<iter, given>>
           \/ /\ ~SET_IS_EMPTY(b) /\ bitsLeft(b, iter.cur) = {}
              /\ iter' = [iter EXCEPT !.cur = IF @ < setSize(b) THEN setSize(b) ELSE @]
              /\ result' = <<"null", 0>> /\ UNCHANGED given
           \/ ~SET_IS_EMPTY(b) /\ NextBit
        /\ UNCHANGED <<bs, kept>>

BitsetNext ==
    \/ \E s \in SetIds, x \in SetElems : AddElement(s, x) \/ RemoveElement(s, x) \/ IsMember(s, x)
    \/ \E d, s \in SetIds, x \in SetElems : IncludeSet(d, x, s)
    \/ \E s \in SetIds : ClearSet(s) \/ setIteratorAttach(s)
    \/ setIteratorGetNextElement
BitsetSpec == BitsetInit /\ [][BitsetNext]_bsvars
-----------------------------------------------------------------------------
\* The word array and the count, type-correct.
BitsetTypeOK ==
    /\ \A s \in SetIds : /\ bs[s].width \in Nat \ {0} /\ bs[s].num \in Nat
                         /\ bs[s].mask \in [0..(bs[s].width - 1) -> SUBSET WordBits]
    /\ iter.set \in SetIds /\ iter.cur \in Nat

\* "Is it empty" is asked of the count and never of the bits: a set with
\* elements has a count above zero, and the count is exact where elements
\* are removed (SET_IS_EMPTY, setAddElement, setRemoveElement, setOperate).
CountTells ==
    \A s \in SetIds : /\ Elements(bs[s]) # {} => bs[s].num > 0
                      /\ s \notin Merged => bs[s].num = Cardinality(Elements(bs[s]))

\* A pass of the iterator that has come to its end has returned every
\* element that was in the set all the time, while others came and went and
\* the array grew (setIteratorGetNextElement, setEnlarge).
PassComplete == result = <<"null", 0>> => kept \subseteq given

\* The word arrays are sets: whatever setIsMember, setAddElement and the
\* iterator return is what sets of numbers would return.
Sets == INSTANCE SetSpec WITH elems <- [s \in SetIds |-> Elements(bs[s])], over <- iter.set, pos <- iter.cur
ImplementsSets == Sets!SetsSpec
=============================================================================
