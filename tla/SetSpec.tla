------------------------------ MODULE SetSpec ------------------------------
(***************************************************************************)
(* What the sets of src/lsf/intlib/bitset.c promise the code that uses     *)
(* them, in mathematics: numbered sets of natural numbers, answers to      *)
(* questions, and an iterator that returns the elements in rising order,   *)
(* the set being free to change between two elements.                      *)
(***************************************************************************)
EXTENDS Naturals

CONSTANTS SetIds,           \* the sets of the program
          SetElems          \* what may be put into them

VARIABLES elems,            \* the elements of each set
          over,             \* the set the iterator is attached to
          pos,              \* the iterator has returned what is below pos
          result            \* what the last call returned
avars == <<elems, over, pos, result>>

Done == <<"done", 0>>
Refused == <<"error", 0>>
Yes == <<"yes", 0>>
No == <<"no", 0>>
EndOfSet == <<"null", 0>>
Element(e) == <<"element", e>>

SetInit == /\ elems = [s \in SetIds |-> {}] /\ over \in SetIds
           /\ pos = 0 /\ result = Done

Add(s, e) ==
    /\ elems' = [elems EXCEPT ![s] = @ \cup {e}]
    /\ result' = IF e \in elems[s] THEN Refused ELSE Done
    /\ UNCHANGED <<over, pos>>
Remove(s, e) ==
    /\ elems' = [elems EXCEPT ![s] = @ \ {e}]
    /\ result' = Done /\ UNCHANGED <<over, pos>>
\* An element, and all the elements of another set.
Include(s, e, from) ==
    /\ elems' = [elems EXCEPT ![s] = @ \cup {e} \cup elems[from]]
    /\ result' = Done /\ UNCHANGED <<over, pos>>
Clear(s) ==
    /\ elems' = [elems EXCEPT ![s] = {}]
    /\ result' = Done /\ UNCHANGED <<over, pos>>
Ask(s, e) ==
    /\ result' = IF e \in elems[s] THEN Yes ELSE No
    /\ UNCHANGED <<elems, over, pos>>
Attach(s) == over' = s /\ pos' = 0 /\ result' = Done /\ UNCHANGED elems
NextElement ==
    /\ \E e \in elems[over] : /\ e >= pos /\ \A f \in elems[over] : f >= pos => f >= e
                              /\ result' = Element(e) /\ pos' = e + 1
    /\ UNCHANGED <<elems, over>>
NoMore ==
    /\ \A e \in elems[over] : e < pos
    /\ result' = EndOfSet /\ pos' \in Nat /\ pos' >= pos
    /\ UNCHANGED <<elems, over>>

SetNext ==
    \/ \E s \in SetIds, e \in SetElems : Add(s, e) \/ Remove(s, e) \/ Ask(s, e)
    \/ \E s, from \in SetIds, e \in SetElems : Include(s, e, from)
    \/ \E s \in SetIds : Clear(s) \/ Attach(s)
    \/ NextElement \/ NoMore
SetsSpec == SetInit /\ [][SetNext]_avars
=============================================================================
