-------------------------------- MODULE Pool --------------------------------
(***************************************************************************)
(* What the memory pool promises the slots that allocate from it: a slot   *)
(* that asks for n blocks is given the highest n blocks in a row that      *)
(* nobody owns, it is refused only when there are none, and what it frees  *)
(* is exactly what it was given.  The pool knows no map and no search.     *)
(* Nobody looks whether memory was refused, so the program stops then.     *)
(***************************************************************************)
EXTENDS Naturals

CONSTANTS
    Blocks,         \* blocks in the pool
    Slots,          \* who can own some
    MaxCopy         \* most that is asked for at once

VARIABLES
    owned,          \* the blocks of each slot
    stopped         \* a refusal was not noticed

vars == <<owned, stopped>>

Table == 0..(Blocks - 1)
Unowned(b) == \A s \in Slots : b \notin owned[s]

Init == owned = [s \in Slots |-> {}] /\ stopped = FALSE

Run(o, n) == o..(o + n - 1)

Fits(o, n) == Run(o, n) \subseteq {b \in Table : Unowned(b)}

Free(s) ==
    /\ owned' = [owned EXCEPT ![s] = {}]
    /\ UNCHANGED stopped

Allocate(s, n) ==
    /\ owned[s] = {}
    /\ \E o \in Table :
          /\ Fits(o, n)
          /\ \A p \in Table : p > o => ~Fits(p, n)
          /\ owned' = [owned EXCEPT ![s] = Run(o, n)]
    /\ UNCHANGED stopped

Refuse(s, n) ==
    /\ owned[s] = {}
    /\ \A o \in Table : ~Fits(o, n)
    /\ stopped' = TRUE
    /\ UNCHANGED owned

Next ==
    /\ ~stopped
    /\ \E s \in Slots :
          \/ Free(s)
          \/ \E n \in 1..MaxCopy : Allocate(s, n) \/ Refuse(s, n)

Spec == Init /\ [][Next]_vars
=============================================================================
