---------------------------- MODULE BitsetProofs ----------------------------
(***************************************************************************)
(* The word arrays of module Bitset implement sets of numbers (SetSpec),   *)
(* for any sets, any elements and any number of words.  The lemmas say     *)
(* what each function of bitset.c does to the elements and to the count.   *)
(***************************************************************************)
EXTENDS Bitset, FiniteSetTheorems, TLAPS

Masks(n) == [0..(n - 1) -> SUBSET WordBits]
IsBitset(b) ==
    /\ b = Bits(b.width, b.num, b.mask)
    /\ b.width \in Nat \ {0} /\ b.num \in Nat /\ b.mask \in Masks(b.width)

LEMMA Fields ==
    ASSUME NEW w, NEW n, NEW m
    PROVE  Bits(w, n, m).width = w /\ Bits(w, n, m).num = n /\ Bits(w, n, m).mask = m
BY DEF Bits

LEMMA MakesBitset ==
    ASSUME NEW w \in Nat \ {0}, NEW n \in Nat, NEW m \in Masks(w)
    PROVE  IsBitset(Bits(w, n, m))
BY Fields DEF IsBitset

LEMMA BitsetFields ==
    ASSUME NEW b, IsBitset(b)
    PROVE  /\ b.width \in Nat \ {0} /\ b.num \in Nat /\ b.mask \in Masks(b.width)
           /\ DOMAIN b.mask = 0..(b.width - 1) /\ \A w \in 0..(b.width - 1) : b.mask[w] \subseteq WordBits
BY DEF IsBitset, Masks

\* The word and the bit of a number, and the number of a word and a bit.
LEMMA WordAndBit ==
    ASSUME NEW x \in Nat
    PROVE  /\ SET_GET_WORD(x) \in Nat /\ SET_GET_BIT_IN_WORD(x) \in WordBits
           /\ x = SET_GET_WORD(x) * WORDLENGTH + SET_GET_BIT_IN_WORD(x)
           /\ \A w \in Nat, p \in WordBits : x = w * WORDLENGTH + p => w = SET_GET_WORD(x) /\ p = SET_GET_BIT_IN_WORD(x)
BY DEF SET_GET_WORD, SET_GET_BIT_IN_WORD, WordBits, WORDLENGTH

LEMMA WordBelow ==
    ASSUME NEW x \in Nat, NEW n \in Nat
    PROVE  x < n * WORDLENGTH <=> SET_GET_WORD(x) < n
BY DEF SET_GET_WORD, WORDLENGTH

LEMMA InElements ==
    ASSUME NEW b, IsBitset(b), NEW x
    PROVE  x \in Elements(b) <=> \E w \in 0..(b.width - 1) : \E p \in b.mask[w] : x = w * WORDLENGTH + p
BY BitsetFields DEF Elements

\* A number is an element exactly if its bit is on.
LEMMA ElementsTest ==
    ASSUME NEW b, IsBitset(b)
    PROVE  /\ Elements(b) \subseteq Nat
           /\ \A x \in Nat : x \in Elements(b) <=> x < setSize(b) /\ setTestValue(b, x)
<1>1. \A x : x \in Elements(b) <=> \E w \in 0..(b.width - 1) : \E p \in b.mask[w] : x = w * WORDLENGTH + p
  BY InElements
<1>2. \A w \in 0..(b.width - 1) : w \in Nat /\ b.mask[w] \subseteq WordBits
  BY DEF IsBitset, Masks
<1>3. Elements(b) \subseteq Nat
  BY <1>1, <1>2 DEF WordBits, WORDLENGTH
<1>4. ASSUME NEW x \in Nat
      PROVE  x \in Elements(b) <=> x < setSize(b) /\ setTestValue(b, x)
  <2>1. ASSUME x \in Elements(b) PROVE x < setSize(b) /\ setTestValue(b, x)
    <3>0. PICK w \in 0..(b.width - 1) : \E p \in b.mask[w] : x = w * WORDLENGTH + p
      BY <2>1, <1>1
    <3>1. PICK p \in b.mask[w] : x = w * WORDLENGTH + p
      BY <3>0
    <3>2. w \in Nat /\ p \in WordBits
      BY <1>2
    <3>3. w = SET_GET_WORD(x) /\ p = SET_GET_BIT_IN_WORD(x)
      BY <3>1, <3>2, WordAndBit
    <3>4. setTestValue(b, x)
      BY <3>1, <3>3 DEF setTestValue
    <3>5. x < setSize(b)
      BY <3>1, <3>2 DEF setSize, IsBitset, WordBits, WORDLENGTH
    <3> QED
      BY <3>4, <3>5
  <2>2. ASSUME x < setSize(b), setTestValue(b, x) PROVE x \in Elements(b)
    <3>1. SET_GET_WORD(x) \in 0..(b.width - 1)
      BY <2>2, WordAndBit, WordBelow, BitsetFields DEF setSize
    <3>2. SET_GET_BIT_IN_WORD(x) \in b.mask[SET_GET_WORD(x)]
      BY <2>2 DEF setTestValue
    <3>3. x = SET_GET_WORD(x) * WORDLENGTH + SET_GET_BIT_IN_WORD(x)
      BY WordAndBit
    <3> QED
      BY <3>1, <3>2, <3>3, <1>1
  <2> QED
    BY <2>1, <2>2
<1> QED
  BY <1>3, <1>4

\* A wider array holds the same elements.
LEMMA EnlargeKeeps ==
    ASSUME NEW b, IsBitset(b), NEW n \in Nat
    PROVE  /\ IsBitset(setEnlarge(b, n)) /\ setEnlarge(b, n).num = b.num
           /\ setEnlarge(b, n).width = b.width + n + 2
           /\ Elements(setEnlarge(b, n)) = Elements(b)
<1> DEFINE width == b.width + n + 2
           mask == [w \in 0..(width - 1) |-> IF w < b.width THEN b.mask[w] ELSE {}]
<1>1. setEnlarge(b, n) = Bits(width, b.num, mask)
  BY DEF setEnlarge, SET_WORD_DEFAULT_EXTENT
<1>2. b.width \in Nat \ {0} /\ b.num \in Nat /\ b.mask \in Masks(b.width) /\ width \in Nat \ {0}
  BY BitsetFields
<1>3. mask \in Masks(width)
  BY <1>2, BitsetFields DEF Masks
<1>4. \A w \in 0..(b.width - 1) : w \in 0..(width - 1) /\ mask[w] = b.mask[w]
  BY <1>2
<1>5. \A w \in 0..(width - 1) : w \in 0..(b.width - 1) \/ mask[w] = {}
  BY <1>2
<1>6. DOMAIN b.mask = 0..(b.width - 1) /\ DOMAIN mask = 0..(width - 1)
  BY BitsetFields
<1> HIDE DEF mask, width
<1>7. IsBitset(Bits(width, b.num, mask))
  BY <1>2, <1>3, MakesBitset
<1>8. \A x : x \in Elements(Bits(width, b.num, mask)) <=> \E w \in 0..(width - 1) : \E p \in mask[w] : x = w * WORDLENGTH + p
  BY <1>7, InElements, Fields
<1>9. \A x : x \in Elements(Bits(width, b.num, mask)) <=> x \in Elements(b)
  BY <1>8, <1>4, <1>5, InElements
<1> QED
  BY <1>1, <1>7, <1>9, Fields DEF width

LEMMA SameBit ==
    ASSUME NEW x \in Nat, NEW y \in Nat, SET_GET_WORD(x) = SET_GET_WORD(y), SET_GET_BIT_IN_WORD(x) = SET_GET_BIT_IN_WORD(y)
    PROVE  x = y
BY WordAndBit

\* The mask m is that of b but for the word that x is in.
OneWord(m, b, x, word) ==
    m \in Masks(b.width) /\ \A w \in 0..(b.width - 1) : m[w] = IF w = SET_GET_WORD(x) THEN word ELSE b.mask[w]

\* What is an element then.
LEMMA WordReplaced ==
    ASSUME NEW b, IsBitset(b), NEW x \in Nat, x < setSize(b), NEW n \in Nat, NEW word, NEW m, OneWord(m, b, x, word)
    PROVE  /\ IsBitset(Bits(b.width, n, m)) /\ Bits(b.width, n, m).num = n
           /\ \A y \in Nat : y \in Elements(Bits(b.width, n, m)) <=>
                IF SET_GET_WORD(y) = SET_GET_WORD(x) THEN SET_GET_BIT_IN_WORD(y) \in word ELSE y \in Elements(b)
<1> DEFINE c == Bits(b.width, n, m)
<1>1. b.width \in Nat \ {0} /\ b.mask \in Masks(b.width)
  BY BitsetFields
<1>2. SET_GET_WORD(x) \in 0..(b.width - 1)
  BY <1>1, WordBelow, WordAndBit DEF setSize
<1>4. c.width = b.width /\ c.num = n /\ c.mask = m
  BY Fields
<1>6. IsBitset(c)
  BY <1>1, MakesBitset DEF OneWord
<1> HIDE DEF c
<1>7. setSize(c) = setSize(b)
  BY <1>4 DEF setSize
<1>8. ASSUME NEW y \in Nat
      PROVE  y \in Elements(c) <=>
               IF SET_GET_WORD(y) = SET_GET_WORD(x) THEN SET_GET_BIT_IN_WORD(y) \in word ELSE y \in Elements(b)
  <2>1. y < setSize(b) <=> SET_GET_WORD(y) \in 0..(b.width - 1)
    BY <1>1, WordBelow, WordAndBit DEF setSize
  <2>2. y \in Elements(c) <=> y < setSize(b) /\ SET_GET_BIT_IN_WORD(y) \in m[SET_GET_WORD(y)]
    BY <1>6, <1>7, <1>4, ElementsTest DEF setTestValue
  <2>3. y \in Elements(b) <=> y < setSize(b) /\ SET_GET_BIT_IN_WORD(y) \in b.mask[SET_GET_WORD(y)]
    BY ElementsTest DEF setTestValue
  <2> QED
    BY <2>1, <2>2, <2>3, <1>2 DEF OneWord
<1> QED
  BY <1>4, <1>6, <1>8 DEF c

\* The numbers of x's word that are elements.
LEMMA OfTheWord ==
    ASSUME NEW b, IsBitset(b), NEW x \in Nat, x < setSize(b), NEW y \in Nat, SET_GET_WORD(y) = SET_GET_WORD(x)
    PROVE  /\ y \in Elements(b) <=> SET_GET_BIT_IN_WORD(y) \in b.mask[SET_GET_WORD(x)]
           /\ SET_GET_BIT_IN_WORD(y) = SET_GET_BIT_IN_WORD(x) <=> y = x
<1>1. b.width \in Nat \ {0}
  BY BitsetFields
<1>2. y < setSize(b)
  BY <1>1, WordBelow, WordAndBit DEF setSize
<1> QED
  BY <1>2, ElementsTest, SameBit DEF setTestValue

LEMMA WithBit ==
    ASSUME NEW b, IsBitset(b), NEW x \in Nat, x < setSize(b)
    PROVE  /\ IsBitset(withBit(b, x)) /\ withBit(b, x).num = b.num + 1
           /\ Elements(withBit(b, x)) = Elements(b) \cup {x}
<1> DEFINE word == b.mask[SET_GET_WORD(x)] \cup {SET_GET_BIT_IN_WORD(x)}
           m == [b.mask EXCEPT ![SET_GET_WORD(x)] = word]
           n == b.num + 1
           c == Bits(b.width, n, m)
<1>0. b.width \in Nat \ {0} /\ b.num \in Nat /\ b.mask \in Masks(b.width)
  BY BitsetFields
<1>1. SET_GET_WORD(x) \in 0..(b.width - 1) /\ n \in Nat
  BY <1>0, WordBelow, WordAndBit DEF setSize
<1>2. word \in SUBSET WordBits
  BY <1>1, WordAndBit, BitsetFields
<1>3. withBit(b, x) = c
  BY DEF withBit
<1>4. \A y \in Nat : SET_GET_WORD(y) = SET_GET_WORD(x) => (SET_GET_BIT_IN_WORD(y) \in word <=> y \in Elements(b) \/ y = x)
  BY OfTheWord
<1> HIDE DEF word
<1>5. OneWord(m, b, x, word)
  BY <1>0, <1>1, <1>2 DEF Masks, OneWord
<1> HIDE DEF m, n
<1>6. /\ IsBitset(c) /\ c.num = n
      /\ \A y \in Nat : y \in Elements(c) <=>
            IF SET_GET_WORD(y) = SET_GET_WORD(x) THEN SET_GET_BIT_IN_WORD(y) \in word ELSE y \in Elements(b)
  BY <1>1, <1>5, WordReplaced
<1> HIDE DEF c
<1>7. Elements(c) \subseteq Nat /\ Elements(b) \subseteq Nat
  BY <1>6, ElementsTest
<1> QED
  BY <1>3, <1>4, <1>6, <1>7 DEF n

\* setAddElement adds its number and counts it once; it refuses a number that
\* is there.
LEMMA AddKeeps ==
    ASSUME NEW b, IsBitset(b), NEW x \in Nat
    PROVE  /\ IsBitset(setAddElement(b, x)) /\ Elements(setAddElement(b, x)) = Elements(b) \cup {x}
           /\ setAddElement(b, x).num = IF x \in Elements(b) THEN b.num ELSE b.num + 1
           /\ setAddRefuses(b, x) <=> x \in Elements(b)
<1>0. b.width \in Nat \ {0} /\ b.num \in Nat /\ setSize(b) \in Nat
  BY BitsetFields DEF setSize, WORDLENGTH
<1>1. x \in Elements(b) <=> x < setSize(b) /\ setTestValue(b, x)
  BY ElementsTest
<1>2. CASE x >= setSize(b)
  <2> DEFINE e == setEnlarge(b, x)
  <2>1. IsBitset(e) /\ e.num = b.num /\ e.width = b.width + x + 2 /\ Elements(e) = Elements(b)
    BY EnlargeKeeps
  <2>2. x < setSize(e)
    BY <2>1, <1>0 DEF setSize, WORDLENGTH
  <2>3. setAddElement(b, x) = withBit(e, x)
    BY <1>2 DEF setAddElement
  <2>4. x \notin Elements(b) /\ ~setAddRefuses(b, x)
    BY <1>0, <1>1, <1>2 DEF setAddRefuses
  <2> HIDE DEF e
  <2> QED
    BY <2>1, <2>2, <2>3, <2>4, WithBit
<1>3. CASE x < setSize(b) /\ setTestValue(b, x)
  BY <1>0, <1>1, <1>3 DEF setAddElement, setAddRefuses
<1>4. CASE x < setSize(b) /\ ~setTestValue(b, x)
  <2>1. setAddElement(b, x) = withBit(b, x) /\ ~setAddRefuses(b, x)
    BY <1>0, <1>4 DEF setAddElement, setAddRefuses
  <2> QED
    BY <2>1, <1>1, <1>4, WithBit
<1> QED
  BY <1>0, <1>2, <1>3, <1>4

\* setRemoveElement takes out an element, and one off the count.
LEMMA RemoveKeeps ==
    ASSUME NEW b, IsBitset(b), NEW x \in Elements(b), b.num > 0
    PROVE  /\ IsBitset(setRemoveElement(b, x)) /\ Elements(setRemoveElement(b, x)) = Elements(b) \ {x}
           /\ setRemoveElement(b, x).num = b.num - 1
<1> DEFINE word == b.mask[SET_GET_WORD(x)] \ {SET_GET_BIT_IN_WORD(x)}
           m == [b.mask EXCEPT ![SET_GET_WORD(x)] = word]
           n == b.num - 1
           c == Bits(b.width, n, m)
<1>0. b.width \in Nat \ {0} /\ b.num \in Nat /\ b.mask \in Masks(b.width) /\ n \in Nat
  BY BitsetFields
<1>1. x \in Nat /\ x < setSize(b) /\ setSize(b) \in Nat
  BY <1>0, ElementsTest DEF setSize, WORDLENGTH
<1>2. SET_GET_WORD(x) \in 0..(b.width - 1)
  BY <1>0, <1>1, WordBelow, WordAndBit DEF setSize
<1>3. setRemoveElement(b, x) = c
  BY <1>0, <1>1 DEF setRemoveElement, SET_IS_EMPTY
<1>4. word \in SUBSET WordBits
  BY <1>2, BitsetFields
<1>5. \A y \in Nat : SET_GET_WORD(y) = SET_GET_WORD(x) => (SET_GET_BIT_IN_WORD(y) \in word <=> y \in Elements(b) /\ y # x)
  BY <1>1, OfTheWord
<1> HIDE DEF word
<1>6. OneWord(m, b, x, word)
  BY <1>0, <1>2, <1>4 DEF Masks, OneWord
<1> HIDE DEF m, n
<1>7. /\ IsBitset(c) /\ c.num = n
      /\ \A y \in Nat : y \in Elements(c) <=>
            IF SET_GET_WORD(y) = SET_GET_WORD(x) THEN SET_GET_BIT_IN_WORD(y) \in word ELSE y \in Elements(b)
  BY <1>0, <1>1, <1>6, WordReplaced
<1> HIDE DEF c
<1>8. Elements(c) \subseteq Nat /\ Elements(b) \subseteq Nat
  BY <1>7, ElementsTest
<1> QED
  BY <1>3, <1>5, <1>7, <1>8 DEF n

\* An array of empty words.
NoBits(n) == [w \in 0..(n - 1) |-> {}]
LEMMA Emptied ==
    ASSUME NEW n \in Nat \ {0}
    PROVE  IsBitset(Bits(n, 0, NoBits(n))) /\ Elements(Bits(n, 0, NoBits(n))) = {}
<1>1. NoBits(n) \in Masks(n) /\ \A w \in 0..(n - 1) : NoBits(n)[w] = {}
  BY DEF Masks, NoBits
<1>2. IsBitset(Bits(n, 0, NoBits(n)))
  BY <1>1, MakesBitset
<1>3. Elements(Bits(n, 0, NoBits(n))) = {}
  BY <1>1, <1>2, InElements, Fields
<1> QED
  BY <1>2, <1>3

LEMMA CreateMakesEmpty == IsBitset(setCreate(0)) /\ Elements(setCreate(0)) = {} /\ setCreate(0).num = 0
<1>1. setCreate(0) = Bits(1, 0, NoBits(1))
  BY DEF setCreate, NoBits, WORDLENGTH
<1> QED
  BY <1>1, Emptied, Fields

LEMMA ClearEmpties ==
    ASSUME NEW b, IsBitset(b)
    PROVE  IsBitset(setClear(b)) /\ Elements(setClear(b)) = {} /\ setClear(b).num = 0
<1>1. b.width \in Nat \ {0} /\ setClear(b) = Bits(b.width, 0, NoBits(b.width))
  BY BitsetFields DEF setClear, NoBits
<1> QED
  BY <1>1, Emptied, Fields

\* The words of a narrower set put into those of a wider one.
LEMMA UnitedUnites ==
    ASSUME NEW d, IsBitset(d), NEW s, IsBitset(s), s.width <= d.width
    PROVE  IsBitset(united(d, s)) /\ united(d, s).num = d.num /\ Elements(united(d, s)) = Elements(d) \cup Elements(s)
<1> DEFINE m == [w \in DOMAIN d.mask |-> IF w < s.width THEN d.mask[w] \cup s.mask[w] ELSE d.mask[w]]
           c == Bits(d.width, d.num, m)
<1>1. /\ d.width \in Nat \ {0} /\ d.num \in Nat /\ DOMAIN d.mask = 0..(d.width - 1)
      /\ s.width \in Nat \ {0}
      /\ \A w \in 0..(d.width - 1) : d.mask[w] \subseteq WordBits
      /\ \A w \in 0..(s.width - 1) : s.mask[w] \subseteq WordBits
  BY BitsetFields
<1>2. m \in Masks(d.width)
  BY <1>1 DEF Masks
<1>3. \A w \in 0..(s.width - 1) : w \in 0..(d.width - 1) /\ m[w] = d.mask[w] \cup s.mask[w]
  BY <1>1
<1>4. \A w \in 0..(d.width - 1) : w \in 0..(s.width - 1) \/ m[w] = d.mask[w]
  BY <1>1
<1>5. united(d, s) = c
  BY DEF united
<1> HIDE DEF m
<1>6. IsBitset(c) /\ c.width = d.width /\ c.num = d.num /\ c.mask = m
  BY <1>1, <1>2, MakesBitset, Fields
<1> HIDE DEF c
<1>7. \A x : x \in Elements(c) <=> \E w \in 0..(d.width - 1) : \E p \in m[w] : x = w * WORDLENGTH + p
  BY <1>6, InElements
<1>8. \A x : x \in Elements(c) <=> x \in Elements(d) \/ x \in Elements(s)
  BY <1>3, <1>4, <1>7, InElements
<1> QED
  BY <1>5, <1>6, <1>8

LEMMA OperateUnites ==
    ASSUME NEW d, IsBitset(d), NEW s, IsBitset(s)
    PROVE  /\ IsBitset(setOperate(d, s)) /\ setOperate(d, s).num = d.num
           /\ Elements(setOperate(d, s)) = Elements(d) \cup Elements(s)
<1>1. d.width \in Nat /\ s.width \in Nat
  BY BitsetFields
<1>2. CASE d.width < s.width
  <2> DEFINE e == setEnlarge(d, s.width)
  <2>1. IsBitset(e) /\ e.num = d.num /\ e.width = d.width + s.width + 2 /\ Elements(e) = Elements(d)
    BY <1>1, EnlargeKeeps
  <2>2. setOperate(d, s) = united(e, s)
    BY <1>2 DEF setOperate
  <2> HIDE DEF e
  <2>3. s.width <= e.width
    BY <1>1, <2>1
  <2> QED
    BY <2>1, <2>2, <2>3, UnitedUnites
<1>3. CASE ~(d.width < s.width)
  <2>1. setOperate(d, s) = united(d, s)
    BY <1>3 DEF setOperate
  <2> QED
    BY <1>1, <1>3, <2>1, UnitedUnites
<1> QED
  BY <1>2, <1>3
-----------------------------------------------------------------------------
(***************************************************************************)
(* The inductive invariant: what every set must be at all times (Sound),   *)
(* and where the iterator stands: of the elements that stayed, those below *)
(* setCurrentBit have been given.                                          *)
(***************************************************************************)
Sound(s, b) ==
    /\ IsBitset(b)
    /\ Elements(b) # {} => b.num > 0
    /\ s \notin Merged => IsFiniteSet(Elements(b)) /\ b.num = Cardinality(Elements(b))
PassUnderWay ==
    /\ kept \subseteq Elements(bs[iter.set])
    /\ \A e \in kept : e < iter.cur => e \in given
BitsetInv ==
    /\ DOMAIN bs = SetIds /\ bs = [s \in SetIds |-> bs[s]] /\ \A s \in SetIds : Sound(s, bs[s])
    /\ iter \in [set : SetIds, cur : Nat]
    /\ PassUnderWay /\ PassComplete

LEMMA AddSound ==
    ASSUME NEW s, NEW b, Sound(s, b), NEW x \in Nat
    PROVE  Sound(s, setAddElement(b, x)) /\ setAddElement(b, x).num > 0
<1> DEFINE c == setAddElement(b, x)
<1>1. /\ IsBitset(c) /\ Elements(c) = Elements(b) \cup {x} /\ b.num \in Nat
      /\ c.num = IF x \in Elements(b) THEN b.num ELSE b.num + 1
  BY AddKeeps, BitsetFields DEF Sound
<1> HIDE DEF c
<1>2. c.num > 0
  BY <1>1 DEF Sound
<1>3. s \notin Merged => IsFiniteSet(Elements(c)) /\ c.num = Cardinality(Elements(c))
  BY <1>1, FS_AddElement DEF Sound
<1> QED
  BY <1>1, <1>2, <1>3 DEF Sound, c

LEMMA RemoveSound ==
    ASSUME NEW s, s \notin Merged, NEW b, Sound(s, b), NEW x \in Elements(b)
    PROVE  Sound(s, setRemoveElement(b, x))
<1> DEFINE c == setRemoveElement(b, x)
<1>1. /\ IsBitset(c) /\ Elements(c) = Elements(b) \ {x} /\ b.num \in Nat /\ c.num = b.num - 1
  BY RemoveKeeps, BitsetFields DEF Sound
<1> HIDE DEF c
<1>2. IsFiniteSet(Elements(c)) /\ c.num = Cardinality(Elements(c))
  BY <1>1, FS_RemoveElement DEF Sound
<1>3. Elements(c) # {} => c.num > 0
  BY <1>2, FS_EmptySet, FS_CardinalityType
<1> QED
  BY <1>1, <1>2, <1>3 DEF Sound, c

LEMMA EmptySound ==
    ASSUME NEW s, NEW b, IsBitset(b), Elements(b) = {}, b.num = 0
    PROVE  Sound(s, b)
BY FS_EmptySet DEF Sound

LEMMA IncludeSound ==
    ASSUME NEW d \in Merged, NEW b, Sound(d, b), NEW x \in Nat, NEW c, IsBitset(c)
    PROVE  Sound(d, setOperate(setAddElement(b, x), c))
<1>1. Sound(d, setAddElement(b, x)) /\ setAddElement(b, x).num > 0
  BY AddSound
<1> QED
  BY <1>1, OperateUnites DEF Sound

\* A change of one set leaves the invariant, and the pass of the iterator.
LEMMA ChangeKeeps ==
    ASSUME BitsetInv, NEW s \in SetIds, NEW b, Sound(s, b), Changed([bs EXCEPT ![s] = b]), result' # <<"null", 0>>
    PROVE  BitsetInv'
<1>1. /\ bs' = [bs EXCEPT ![s] = b] /\ iter' = iter /\ given' = given
      /\ kept' = kept \cap Elements(bs'[iter.set])
  BY DEF Changed
<1>2. DOMAIN bs' = SetIds /\ bs' = [t \in SetIds |-> bs'[t]] /\ \A t \in SetIds : Sound(t, bs'[t])
  BY <1>1 DEF BitsetInv
<1>3. PassUnderWay'
  BY <1>1 DEF BitsetInv, PassUnderWay
<1> QED
  BY <1>1, <1>2, <1>3 DEF BitsetInv, PassComplete

LEMMA BitsetInvInit == BitsetInit => BitsetInv
<1> SUFFICES ASSUME BitsetInit PROVE BitsetInv
  OBVIOUS
<1>1. \A s \in SetIds : Sound(s, setCreate(0))
  BY CreateMakesEmpty, EmptySound
<1>2. PICK t \in SetIds : iter = [set |-> t, cur |-> 0]
  BY DEF BitsetInit
<1>3. bs = [s \in SetIds |-> setCreate(0)] /\ result = <<"done", 0>> /\ given = {} /\ kept = {}
  BY DEF BitsetInit
<1> QED
  BY <1>1, <1>2, <1>3 DEF BitsetInv, PassUnderWay, PassComplete

LEMMA BitsetInvStep == BitsetInv /\ [BitsetNext]_bsvars => BitsetInv'
<1> SUFFICES ASSUME BitsetInv, [BitsetNext]_bsvars PROVE BitsetInv'
  OBVIOUS
<1> USE BitsetAssumption
<1>0. /\ \A s \in SetIds : Sound(s, bs[s]) /\ IsBitset(bs[s])
      /\ iter.set \in SetIds /\ iter.cur \in Nat /\ iter \in [set : SetIds, cur : Nat]
      /\ Elements(bs[iter.set]) \subseteq Nat
  BY ElementsTest DEF BitsetInv, Sound
<1>1. ASSUME NEW s \in SetIds, NEW x \in SetElems, AddElement(s, x)
      PROVE  BitsetInv'
  <2>1. Sound(s, setAddElement(bs[s], x))
    BY <1>0, AddSound
  <2>2. Changed([bs EXCEPT ![s] = setAddElement(bs[s], x)]) /\ result' # <<"null", 0>>
    BY <1>1 DEF AddElement
  <2> QED
    BY <2>1, <2>2, ChangeKeeps
<1>2. ASSUME NEW s \in SetIds, NEW x \in SetElems, RemoveElement(s, x)
      PROVE  BitsetInv'
  <2>1. Sound(s, setRemoveElement(bs[s], x))
    BY <1>0, <1>2, RemoveSound DEF RemoveElement
  <2>2. Changed([bs EXCEPT ![s] = setRemoveElement(bs[s], x)]) /\ result' # <<"null", 0>>
    BY <1>2 DEF RemoveElement
  <2> QED
    BY <2>1, <2>2, ChangeKeeps
<1>3. ASSUME NEW d \in SetIds, NEW s \in SetIds, NEW x \in SetElems, IncludeSet(d, x, s)
      PROVE  BitsetInv'
  <2> DEFINE from == IF s = d THEN setAddElement(bs[d], x) ELSE bs[s]
  <2>1. IsBitset(from)
    BY <1>0, AddSound DEF Sound
  <2>2. Changed([bs EXCEPT ![d] = setOperate(setAddElement(bs[d], x), from)]) /\ result' # <<"null", 0>> /\ d \in Merged
    BY <1>3 DEF IncludeSet
  <2> HIDE DEF from
  <2>3. Sound(d, setOperate(setAddElement(bs[d], x), from))
    BY <1>0, <2>1, <2>2, IncludeSound
  <2> QED
    BY <2>2, <2>3, ChangeKeeps
<1>4. ASSUME NEW s \in SetIds, ClearSet(s)
      PROVE  BitsetInv'
  <2>1. Sound(s, setClear(bs[s]))
    BY <1>0, ClearEmpties, EmptySound
  <2>2. Changed([bs EXCEPT ![s] = setClear(bs[s])]) /\ result' # <<"null", 0>>
    BY <1>4 DEF ClearSet
  <2> QED
    BY <2>1, <2>2, ChangeKeeps
<1>5. ASSUME NEW s \in SetIds, NEW x \in SetElems, IsMember(s, x)
      PROVE  BitsetInv'
  BY <1>5 DEF IsMember, BitsetInv, PassUnderWay, PassComplete
<1>6. ASSUME NEW s \in SetIds, setIteratorAttach(s)
      PROVE  BitsetInv'
  <2>1. Elements(bs[s]) \subseteq Nat
    BY <1>0, ElementsTest
  <2> QED
    BY <1>6, <2>1 DEF setIteratorAttach, BitsetInv, PassUnderWay, PassComplete
<1>7. ASSUME setIteratorGetNextElement
      PROVE  BitsetInv'
  <2> DEFINE b == bs[iter.set]
  <2>0. bs' = bs /\ kept' = kept /\ kept \subseteq Elements(b) /\ \A e \in kept : e < iter.cur => e \in given
    BY <1>7 DEF setIteratorGetNextElement, BitsetInv, PassUnderWay
  <2>1. CASE SET_IS_EMPTY(b) /\ result' = <<"null", 0>> /\ UNCHANGED <<iter, given>>
    <3>1. Elements(b) = {}
      BY <1>0, <2>1 DEF Sound, SET_IS_EMPTY
    <3> QED
      BY <2>0, <2>1, <3>1 DEF BitsetInv, PassUnderWay, PassComplete
  <2>2. CASE /\ bitsLeft(b, iter.cur) = {}
             /\ iter' = [iter EXCEPT !.cur = IF @ < setSize(b) THEN setSize(b) ELSE @]
             /\ result' = <<"null", 0>> /\ UNCHANGED given
    <3>1. \A e \in kept : e \in given
      BY <1>0, <2>0, <2>2 DEF bitsLeft
    <3>2. setSize(b) \in Nat
      BY <1>0, BitsetFields DEF setSize, WORDLENGTH
    <3>3. iter' \in [set : SetIds, cur : Nat] /\ iter'.set = iter.set
      BY <1>0, <2>2, <3>2
    <3> QED
      BY <2>0, <2>2, <3>1, <3>3 DEF BitsetInv, PassUnderWay, PassComplete
  <2>3. CASE NextBit
    <3>1. PICK x \in bitsLeft(b, iter.cur) : /\ \A y \in bitsLeft(b, iter.cur) : x <= y
                                             /\ iter' = [iter EXCEPT !.cur = x + 1]
                                             /\ result' = <<"element", x>> /\ given' = given \cup {x}
      BY <2>3 DEF NextBit
    <3>2. x \in Nat /\ \A e \in Elements(b) : e \in Nat /\ (e >= iter.cur => x <= e)
      BY <1>0, <3>1 DEF bitsLeft
    <3>3. iter' \in [set : SetIds, cur : Nat] /\ iter'.set = iter.set /\ iter'.cur = x + 1
      BY <1>0, <3>1, <3>2
    <3>4. \A e \in kept : e < x + 1 => e \in given'
      BY <1>0, <2>0, <3>1, <3>2
    <3>5. result' # <<"null", 0>>
      BY <3>1
    <3> QED
      BY <2>0, <3>3, <3>4, <3>5 DEF BitsetInv, PassUnderWay, PassComplete
  <2> QED
    BY <1>7, <2>1, <2>2, <2>3 DEF setIteratorGetNextElement
<1>8. CASE UNCHANGED bsvars
  BY <1>8 DEF bsvars, BitsetInv, PassUnderWay, PassComplete
<1> QED
  BY <1>1, <1>2, <1>3, <1>4, <1>5, <1>6, <1>7, <1>8 DEF BitsetNext

\* The invariant says what the properties of Bitset say.
LEMMA BitsetInvTells == BitsetInv => CountTells /\ PassComplete
BY DEF BitsetInv, Sound, CountTells

\* For any sets and elements: the word arrays stay well formed through growth,
\* removal and union, their counts are right, and a pass of the iterator has
\* given the lasting elements behind setCurrentBit (bitset.c).
THEOREM BitsetInvariant == BitsetSpec => []BitsetInv
BY BitsetInvInit, BitsetInvStep, PTL DEF BitsetSpec

\* For any sets and elements: the count of a set tells whether it is empty,
\* and is exact for the sets elements are removed from (SET_IS_EMPTY,
\* setAddElement, setRemoveElement, setOperate).
THEOREM CountIsRight == BitsetSpec => []CountTells
BY BitsetInvariant, BitsetInvTells, PTL

\* For any sets and elements: a pass of setIteratorGetNextElement that ends
\* has returned whatever was in the set all the time.
THEOREM PassesMissNothing == BitsetSpec => []PassComplete
BY BitsetInvariant, BitsetInvTells, PTL
-----------------------------------------------------------------------------
\* The refinement: the elements of each word array, as one function.
ElementsOf == [s \in SetIds |-> Elements(bs[s])]

LEMMA ChangedElements ==
    ASSUME BitsetInv, NEW s \in SetIds, NEW b, Changed([bs EXCEPT ![s] = b])
    PROVE  /\ ElementsOf' = [ElementsOf EXCEPT ![s] = Elements(b)]
           /\ iter'.set = iter.set /\ iter'.cur = iter.cur
BY DEF Changed, BitsetInv, ElementsOf

LEMMA BitsetInitRefines == BitsetInit => Sets!SetInit
<1> SUFFICES ASSUME BitsetInit PROVE Sets!SetInit
  OBVIOUS
<1>1. ElementsOf = [s \in SetIds |-> {}]
  BY CreateMakesEmpty DEF BitsetInit, ElementsOf
<1>2. iter.set \in SetIds /\ iter.cur = 0 /\ result = <<"done", 0>>
  BY DEF BitsetInit
<1> QED
  BY <1>1, <1>2 DEF Sets!SetInit, Sets!Done, ElementsOf

LEMMA BitsetStepRefines == BitsetInv /\ [BitsetNext]_bsvars => [Sets!SetNext]_(Sets!avars)
<1> SUFFICES ASSUME BitsetInv, [BitsetNext]_bsvars PROVE [Sets!SetNext]_(Sets!avars)
  OBVIOUS
<1> USE BitsetAssumption
<1>0. /\ \A s \in SetIds : Sound(s, bs[s]) /\ IsBitset(bs[s]) /\ Elements(bs[s]) \subseteq Nat
      /\ \A s \in SetIds : ElementsOf[s] = Elements(bs[s])
      /\ iter.set \in SetIds /\ iter.cur \in Nat /\ iter \in [set : SetIds, cur : Nat]
  BY ElementsTest DEF BitsetInv, Sound, ElementsOf
<1>1. ASSUME NEW s \in SetIds, NEW x \in SetElems, AddElement(s, x)
      PROVE  Sets!Add(s, x)
  <2>1. /\ Elements(setAddElement(bs[s], x)) = Elements(bs[s]) \cup {x}
        /\ setAddRefuses(bs[s], x) <=> x \in Elements(bs[s])
    BY <1>0, AddKeeps
  <2>2. /\ Changed([bs EXCEPT ![s] = setAddElement(bs[s], x)])
        /\ result' = IF setAddRefuses(bs[s], x) THEN <<"error", 0>> ELSE <<"done", 0>>
    BY <1>1 DEF AddElement
  <2>3. /\ ElementsOf' = [ElementsOf EXCEPT ![s] = Elements(bs[s]) \cup {x}]
        /\ iter'.set = iter.set /\ iter'.cur = iter.cur
    BY <2>1, <2>2, ChangedElements
  <2> QED
    BY <1>0, <2>1, <2>2, <2>3 DEF Sets!Add, Sets!Refused, Sets!Done, ElementsOf
<1>2. ASSUME NEW s \in SetIds, NEW x \in SetElems, RemoveElement(s, x)
      PROVE  Sets!Remove(s, x)
  <2>1. Elements(setRemoveElement(bs[s], x)) = Elements(bs[s]) \ {x}
    BY <1>0, <1>2, RemoveKeeps DEF RemoveElement, Sound
  <2>2. Changed([bs EXCEPT ![s] = setRemoveElement(bs[s], x)]) /\ result' = <<"done", 0>>
    BY <1>2 DEF RemoveElement
  <2>3. /\ ElementsOf' = [ElementsOf EXCEPT ![s] = Elements(bs[s]) \ {x}]
        /\ iter'.set = iter.set /\ iter'.cur = iter.cur
    BY <2>1, <2>2, ChangedElements
  <2> QED
    BY <1>0, <2>2, <2>3 DEF Sets!Remove, Sets!Done, ElementsOf
<1>3. ASSUME NEW d \in SetIds, NEW s \in SetIds, NEW x \in SetElems, IncludeSet(d, x, s)
      PROVE  Sets!Include(d, x, s)
  <2> DEFINE added == setAddElement(bs[d], x)
             from == IF s = d THEN added ELSE bs[s]
  <2>1. IsBitset(added) /\ Elements(added) = Elements(bs[d]) \cup {x}
    BY <1>0, AddKeeps
  <2>2. Changed([bs EXCEPT ![d] = setOperate(added, from)]) /\ result' = <<"done", 0>>
    BY <1>3 DEF IncludeSet
  <2> HIDE DEF added
  <2>3. IsBitset(from) /\ Elements(added) \cup Elements(from) = Elements(bs[d]) \cup {x} \cup Elements(bs[s])
    BY <1>0, <2>1
  <2> HIDE DEF from
  <2>4. Elements(setOperate(added, from)) = Elements(bs[d]) \cup {x} \cup Elements(bs[s])
    BY <2>1, <2>3, OperateUnites
  <2>5. /\ ElementsOf' = [ElementsOf EXCEPT ![d] = Elements(bs[d]) \cup {x} \cup Elements(bs[s])]
        /\ iter'.set = iter.set /\ iter'.cur = iter.cur
    BY <2>2, <2>4, ChangedElements
  <2> QED
    BY <1>0, <2>2, <2>5 DEF Sets!Include, Sets!Done, ElementsOf
<1>4. ASSUME NEW s \in SetIds, ClearSet(s)
      PROVE  Sets!Clear(s)
  <2>1. Elements(setClear(bs[s])) = {}
    BY <1>0, ClearEmpties
  <2>2. Changed([bs EXCEPT ![s] = setClear(bs[s])]) /\ result' = <<"done", 0>>
    BY <1>4 DEF ClearSet
  <2>3. /\ ElementsOf' = [ElementsOf EXCEPT ![s] = {}]
        /\ iter'.set = iter.set /\ iter'.cur = iter.cur
    BY <2>1, <2>2, ChangedElements
  <2> QED
    BY <2>2, <2>3 DEF Sets!Clear, Sets!Done, ElementsOf
<1>5. ASSUME NEW s \in SetIds, NEW x \in SetElems, IsMember(s, x)
      PROVE  Sets!Ask(s, x)
  <2>0. x \in Elements(bs[s]) <=> x < setSize(bs[s]) /\ setTestValue(bs[s], x)
    BY <1>0, ElementsTest
  <2>1. setIsMember(bs[s], x) <=> x \in Elements(bs[s])
    <3>1. x \in Elements(bs[s]) => bs[s].num # 0
      BY <1>0 DEF Sound
    <3> QED
      BY <2>0, <3>1 DEF setIsMember, SET_IS_EMPTY
  <2> QED
    BY <1>0, <1>5, <2>1 DEF IsMember, Sets!Ask, Sets!Yes, Sets!No, ElementsOf
<1>6. ASSUME NEW s \in SetIds, setIteratorAttach(s)
      PROVE  Sets!Attach(s)
  BY <1>6 DEF setIteratorAttach, Sets!Attach, Sets!Done
<1>7. ASSUME setIteratorGetNextElement
      PROVE  Sets!NextElement \/ Sets!NoMore
  <2> DEFINE b == bs[iter.set]
  <2>0. bs' = bs /\ Elements(b) \subseteq Nat /\ ElementsOf[iter.set] = Elements(b)
    BY <1>0, <1>7 DEF setIteratorGetNextElement
  <2>1. CASE SET_IS_EMPTY(b) /\ result' = <<"null", 0>> /\ UNCHANGED <<iter, given>>
    <3>1. Elements(b) = {}
      BY <1>0, <2>1 DEF Sound, SET_IS_EMPTY
    <3> QED
      BY <1>0, <2>0, <2>1, <3>1 DEF Sets!NoMore, Sets!EndOfSet, ElementsOf
  <2>2. CASE /\ bitsLeft(b, iter.cur) = {}
             /\ iter' = [iter EXCEPT !.cur = IF @ < setSize(b) THEN setSize(b) ELSE @]
             /\ result' = <<"null", 0>> /\ UNCHANGED given
    <3>1. setSize(b) \in Nat
      BY <1>0, BitsetFields DEF setSize, WORDLENGTH
    <3>2. iter'.set = iter.set /\ iter'.cur \in Nat /\ iter'.cur >= iter.cur
      BY <1>0, <2>2, <3>1
    <3>3. \A e \in Elements(b) : e < iter.cur
      BY <1>0, <2>0, <2>2 DEF bitsLeft
    <3> QED
      BY <1>0, <2>0, <2>2, <3>2, <3>3 DEF Sets!NoMore, Sets!EndOfSet, ElementsOf
  <2>3. CASE NextBit
    <3>1. PICK x \in bitsLeft(b, iter.cur) : /\ \A y \in bitsLeft(b, iter.cur) : x <= y
                                             /\ iter' = [iter EXCEPT !.cur = x + 1]
                                             /\ result' = <<"element", x>> /\ given' = given \cup {x}
      BY <2>3 DEF NextBit
    <3>2. /\ x \in Elements(b) /\ x >= iter.cur
          /\ \A f \in Elements(b) : f >= iter.cur => f >= x
      BY <1>0, <2>0, <3>1 DEF bitsLeft
    <3>3. iter'.set = iter.set /\ iter'.cur = x + 1
      BY <1>0, <3>1
    <3>4. Sets!NextElement
      BY <1>0, <2>0, <3>1, <3>2, <3>3 DEF Sets!NextElement, Sets!Element, ElementsOf
    <3> QED
      BY <3>4
  <2> QED
    BY <1>7, <2>1, <2>2, <2>3 DEF setIteratorGetNextElement
<1>8. CASE UNCHANGED bsvars
  BY <1>8 DEF bsvars, Sets!avars
<1> QED
  BY <1>1, <1>2, <1>3, <1>4, <1>5, <1>6, <1>7, <1>8 DEF BitsetNext, Sets!SetNext

\* For any sets and elements: the calls of bitset.c return what they would
\* return for sets of numbers, whatever was added, removed, united or
\* cleared, and between the elements of a pass of the iterator.
THEOREM BitsetsAreSets == BitsetSpec => ImplementsSets
BY BitsetInitRefines, BitsetStepRefines, BitsetInvariant, PTL DEF BitsetSpec, ImplementsSets, Sets!SetsSpec
=============================================================================
