------------------------------- MODULE Heap --------------------------------
(***************************************************************************)
(* The memory pool behind mymalloc and myfree, as the SIP parser uses it.  *)
(*                                                                         *)
(* The pool is divided into blocks.  memmap holds, for every block of an   *)
(* allocation, the number of blocks of that allocation, and 0 for a free   *)
(* block: myfree learns from it how much there is to free.  mymem_malloc   *)
(* searches from the last block down.                                      *)
(*                                                                         *)
(* The buffers of the drivers are allocated once, before the main loop.    *)
(* In the main loop each header of a SIP message (Via, From, To, ...) has  *)
(* a slot whose old text MymallocCopy frees before it allocates the new    *)
(* one.  No interrupt allocates or frees.                                  *)
(***************************************************************************)
EXTENDS Integers, FiniteSets

CONSTANTS
    Blocks,         \* memtblsize: blocks in the pool
    Slots,          \* pointers that own allocations
    MaxCopy,        \* largest header, in blocks
    NULL

ASSUME HeapAssumption ==
    /\ Blocks \in Nat \ {0}
    /\ MaxCopy \in Nat \ {0}
    /\ NULL \notin Nat \cup Slots

VARIABLES
    memmap,         \* mallco_dev.memmap[SRAMIN]
    ptr,            \* the block each slot points to, or NULL
    slot,           \* the slot MymallocCopy works for, or NULL between calls
    nmemb,          \* mymem_malloc: blocks it wants,
    offset,         \* the block it looks at next,
    cmemb,          \* free blocks in a row above that one
    held,           \* history: blocks each slot was given
    fault           \* strcpy to NULL: the processor has stopped

search == <<slot, nmemb, offset, cmemb>>
vars == <<memmap, ptr, search, held, fault>>

Table == 0..(Blocks - 1)

(* mymem_init, and the slots set to NULL by NET_MemMalloc.                 *)
Init ==
    /\ memmap = [b \in Table |-> 0]
    /\ ptr = [s \in Slots |-> NULL]
    /\ slot = NULL /\ nmemb = 0 /\ offset = 0 /\ cmemb = 0
    /\ held = [s \in Slots |-> 0]
    /\ fault = FALSE

-----------------------------------------------------------------------------
MarkBytes(map, o, n) ==             \* mutant: a size that is off by one
    [b \in Table |-> IF o <= b /\ b < o + n THEN n + 1 ELSE map[b]]

Mark(map, o, n) ==
    [b \in Table |-> IF o <= b /\ b < o + n THEN n ELSE map[b]]

(* mymem_free: the number of blocks is read from the first one.            *)
ClearFirst(map, o) ==               \* mutant: only the first block
    [map EXCEPT ![o] = 0]

Clear(map, o) ==
    [b \in Table |-> IF o <= b /\ b < o + map[o] THEN 0 ELSE map[b]]

AfterNoFree(s) == memmap            \* mutant: the old text is kept
AfterFree(s) == IF ptr[s] = NULL THEN memmap ELSE Clear(memmap, ptr[s])

(* MymallocCopy frees the old text and asks for n blocks for the new one;  *)
(* the pointer keeps its value until mymem_malloc has returned.            *)
MymallocCopy(s, n) ==
    /\ slot = NULL /\ ~fault
    /\ memmap' = AfterFree(s)
    /\ held' = [held EXCEPT ![s] = 0]
    /\ slot' = s /\ nmemb' = n /\ offset' = Blocks - 1 /\ cmemb' = 0
    /\ UNCHANGED <<ptr, fault>>

(* mymem_malloc, one turn of its loop each: Counted is cmemb once the      *)
(* block at offset was looked at.                                          *)
CountedTotal ==                     \* mutant: a used block does not reset it
    IF memmap[offset] = 0 THEN cmemb + 1 ELSE cmemb

Counted == IF memmap[offset] = 0 THEN cmemb + 1 ELSE 0

LookOn ==
    /\ slot # NULL /\ offset >= 0
    /\ Counted # nmemb
    /\ offset' = offset - 1
    /\ cmemb' = Counted
    /\ UNCHANGED <<memmap, ptr, slot, nmemb, held, fault>>

Return == slot' = NULL /\ nmemb' = 0 /\ offset' = 0 /\ cmemb' = 0

Found ==
    /\ slot # NULL /\ offset >= 0
    /\ Counted = nmemb
    /\ memmap' = Mark(memmap, offset, nmemb)
    /\ ptr' = [ptr EXCEPT ![slot] = offset]
    /\ held' = [held EXCEPT ![slot] = nmemb]
    /\ Return
    /\ UNCHANGED fault

(* Nothing found: the strcpy of MymallocCopy does not look whether there   *)
(* was memory for it.                                                      *)
NotFound ==
    /\ slot # NULL /\ offset < 0
    /\ ptr' = [ptr EXCEPT ![slot] = NULL]
    /\ fault' = TRUE
    /\ Return
    /\ UNCHANGED <<memmap, held>>

Next ==
    \/ \E s \in Slots, n \in 1..MaxCopy : MymallocCopy(s, n)
    \/ LookOn
    \/ Found
    \/ NotFound

Spec == Init /\ [][Next]_vars

-----------------------------------------------------------------------------
(* Properties.                                                             *)

TypeOK ==
    /\ memmap \in [Table -> 0..MaxCopy]
    /\ ptr \in [Slots -> Table \cup {NULL}]
    /\ slot \in Slots \cup {NULL}
    /\ nmemb \in 0..MaxCopy
    /\ offset \in -1..(Blocks - 1)
    /\ cmemb \in 0..MaxCopy
    /\ held \in [Slots -> 0..MaxCopy]
    /\ fault \in BOOLEAN

Owns(s, b) == ptr[s] # NULL /\ ptr[s] <= b /\ b < ptr[s] + held[s]

(* The map tells the truth: two slots never share a block, every block of  *)
(* a slot carries the size myfree will need, and a block no slot owns is   *)
(* free, so that nothing leaks however the headers grow and shrink.        *)
BlocksOwned ==
    /\ \A s \in Slots : s # slot /\ ptr[s] # NULL =>
          /\ held[s] > 0
          /\ ptr[s] + held[s] <= Blocks
          /\ \A b \in Table : Owns(s, b) => memmap[b] = held[s]
    /\ \A s, t \in Slots, b \in Table : Owns(s, b) /\ Owns(t, b) => s = t
    /\ \A b \in Table : memmap[b] # 0 => \E s \in Slots : Owns(s, b)

(* Seen by who owns which blocks, the map and its search are the pool of   *)
(* module Pool: a slot gets the highest run that is free, is refused only  *)
(* when there is none, and frees what it was given.                        *)
P == INSTANCE Pool WITH
       owned <- [s \in Slots |-> {b \in Table : Owns(s, b)}],
       stopped <- fault

ImplementsPool == P!Spec

(* MymallocCopy tests nothing, so how much room is enough matters.  Each   *)
(* slot that owns memory, at most m blocks, spoils at most 2m-1 places     *)
(* where a run of m could begin: with k such slots and k(2m-1)+m blocks or *)
(* more, no order of headers leads to a refusal.                           *)
Owners == {s \in Slots : ptr[s] # NULL}

FailsForLackOfRoom ==
    fault => Blocks < Cardinality(Owners) * (2 * MaxCopy - 1) + MaxCopy
=============================================================================
