---------------------------- MODULE HeapProofs -----------------------------
(***************************************************************************)
(* The memory pool, for every size of the pool, every set of slots and     *)
(* every size of header: the bookkeeping of its map, the search of         *)
(* mymem_malloc, and that together they are the pool of module Pool.  Then *)
(* how large a pool has to be for no copy ever to be refused.              *)
(***************************************************************************)
EXTENDS Heap, FiniteSetTheorems, TLAPS

(* What the loop of mymem_malloc knows after each turn: the blocks it has  *)
(* counted are free, the one above them is not, and no run of the size it  *)
(* wants begins above the block it looks at next.                          *)
FreeRun(map, o, n) ==
    /\ o + n <= Blocks
    /\ \A b \in Table : o <= b /\ b < o + n => map[b] = 0

SearchInv ==
    slot # NULL =>
      /\ nmemb > 0 /\ cmemb < nmemb
      /\ held[slot] = 0
      /\ FreeRun(memmap, offset + 1, cmemb)
      /\ offset + 1 + cmemb < Blocks => memmap[offset + 1 + cmemb] # 0
      /\ \A o \in Table : o > offset => ~FreeRun(memmap, o, nmemb)

IInv == TypeOK /\ BlocksOwned /\ SearchInv

LEMMA InitInv == Init => IInv
<1> SUFFICES ASSUME Init PROVE IInv
  OBVIOUS
<1>1. 0 \in 0..MaxCopy /\ 0 \in -1..(Blocks - 1)
  BY HeapAssumption
<1>2. TypeOK
  BY <1>1 DEF Init, TypeOK
<1>3. \A s \in Slots : ptr[s] = NULL
  BY DEF Init
<1>4. \A b \in Table : memmap[b] = 0
  BY DEF Init
<1>5. BlocksOwned
  BY <1>3, <1>4 DEF BlocksOwned, Owns
<1>6. SearchInv
  BY DEF Init, SearchInv
<1> QED
  BY <1>2, <1>5, <1>6 DEF IInv

-----------------------------------------------------------------------------
(* The steps of a call.                                                    *)

(* What MymallocCopy finds once it has freed the old text of a slot: the   *)
(* blocks of the other slots, and nothing else.                            *)
LEMMA FreeKeepsOthers ==
  ASSUME IInv, NEW s \in Slots, slot = NULL
  PROVE  /\ AfterFree(s) \in [Table -> 0..MaxCopy]
         /\ \A t \in Slots \ {s}, b \in Table :
               Owns(t, b) => AfterFree(s)[b] = held[t]
         /\ \A b \in Table :
               AfterFree(s)[b] # 0 => \E t \in Slots \ {s} : Owns(t, b)
<1>0. \A t \in Slots : t # slot
  BY HeapAssumption
<1>1. CASE ptr[s] = NULL
  BY <1>0, <1>1 DEF AfterFree, IInv, TypeOK, BlocksOwned, Owns
<1>2. CASE ptr[s] # NULL
  <2>1. ptr[s] \in Table /\ held[s] \in Nat /\ held[s] > 0
        /\ ptr[s] + held[s] <= Blocks
    BY <1>0, <1>2 DEF IInv, TypeOK, BlocksOwned
  <2>2. Owns(s, ptr[s])
    BY <1>2, <2>1, HeapAssumption DEF Owns, Table
  <2>3. memmap[ptr[s]] = held[s]
    BY <1>0, <1>2, <2>1, <2>2 DEF IInv, BlocksOwned
  <2>4. AfterFree(s) = [b \in Table |-> IF Owns(s, b) THEN 0 ELSE memmap[b]]
    BY <1>2, <2>3 DEF AfterFree, Clear, Owns
  <2>5. AfterFree(s) \in [Table -> 0..MaxCopy]
    BY <2>4, HeapAssumption DEF IInv, TypeOK
  <2>6. ASSUME NEW t \in Slots \ {s}, NEW b \in Table, Owns(t, b)
        PROVE  AfterFree(s)[b] = held[t]
    <3>1. ~Owns(s, b)
      BY <2>6 DEF IInv, BlocksOwned
    <3>2. ptr[t] # NULL
      BY <2>6 DEF Owns
    <3> QED
      BY <1>0, <2>4, <2>6, <3>1, <3>2 DEF IInv, BlocksOwned
  <2>7. ASSUME NEW b \in Table, AfterFree(s)[b] # 0
        PROVE  \E t \in Slots \ {s} : Owns(t, b)
    <3>1. ~Owns(s, b) /\ memmap[b] # 0
      BY <2>4, <2>7
    <3> QED
      BY <3>1 DEF IInv, BlocksOwned
  <2> QED
    BY <2>5, <2>6, <2>7
<1> QED
  BY <1>1, <1>2

(* The slot whose text was freed owns nothing, the others what they owned. *)
LEMMA CallOwns ==
  ASSUME IInv, NEW s \in Slots, NEW n \in 1..MaxCopy, MymallocCopy(s, n)
  PROVE  /\ \A b \in Table : ~Owns(s, b)'
         /\ \A t \in Slots \ {s}, b \in Table : Owns(t, b)' <=> Owns(t, b)
         /\ \A t \in Slots \ {s} : ptr'[t] = ptr[t] /\ held'[t] = held[t]
<1>1. held'[s] = 0 /\ ptr' = ptr /\ \A t \in Slots \ {s} : held'[t] = held[t]
  BY DEF MymallocCopy, IInv, TypeOK
<1>2. ASSUME NEW b \in Table PROVE ~Owns(s, b)'
  BY <1>1, HeapAssumption DEF Owns, IInv, TypeOK, Table
<1> QED
  BY <1>1, <1>2 DEF Owns

LEMMA CallInv ==
  ASSUME IInv, NEW s \in Slots, NEW n \in 1..MaxCopy, MymallocCopy(s, n)
  PROVE  IInv'
<1>1. /\ slot = NULL /\ slot' = s /\ memmap' = AfterFree(s)
      /\ nmemb' = n /\ offset' = Blocks - 1 /\ cmemb' = 0
      /\ ptr' = ptr /\ fault' = fault
      /\ held' = [held EXCEPT ![s] = 0]
  BY DEF MymallocCopy
<1>2. TypeOK'
  BY <1>1, FreeKeepsOthers, HeapAssumption DEF IInv, TypeOK
<1>3. \A t \in Slots : t # slot
  BY <1>1, HeapAssumption
<1>4. ASSUME NEW t \in Slots, t # slot', ptr'[t] # NULL
      PROVE  /\ held'[t] > 0
             /\ ptr'[t] + held'[t] <= Blocks
             /\ \A b \in Table : Owns(t, b)' => memmap'[b] = held'[t]
  <2>1. t \in Slots \ {s}
    BY <1>1, <1>4
  <2>2. held'[t] > 0 /\ ptr'[t] + held'[t] <= Blocks
    BY <1>1, <1>3, <1>4, <2>1, CallOwns DEF IInv, BlocksOwned
  <2> QED
    BY <1>1, <2>1, <2>2, CallOwns, FreeKeepsOthers
<1>5. \A t, u \in Slots, b \in Table : Owns(t, b)' /\ Owns(u, b)' => t = u
  BY CallOwns DEF IInv, BlocksOwned
<1>6. \A b \in Table : memmap'[b] # 0 => \E t \in Slots : Owns(t, b)'
  BY <1>1, CallOwns, FreeKeepsOthers
<1>7. BlocksOwned'
  BY <1>4, <1>5, <1>6 DEF BlocksOwned
<1>8. SearchInv'
  <2>1. held'[s] = 0
    BY <1>1 DEF IInv, TypeOK
  <2>2. FreeRun(memmap', offset' + 1, cmemb')
    BY <1>1, HeapAssumption DEF FreeRun, Table
  <2>3. \A o \in Table : ~(o > offset')
    BY <1>1, HeapAssumption DEF Table
  <2> QED
    BY <1>1, <2>1, <2>2, <2>3, HeapAssumption DEF SearchInv
<1> QED
  BY <1>2, <1>7, <1>8 DEF IInv

(* A turn of the loop that goes on: what it has counted stays free, and a  *)
(* run that began at the block it has just looked at would have been long  *)
(* enough.                                                                 *)
LEMMA LookInv ==
  ASSUME IInv, LookOn
  PROVE  IInv'
<1>1. /\ slot # NULL /\ offset >= 0 /\ Counted # nmemb
      /\ offset' = offset - 1 /\ cmemb' = Counted
      /\ UNCHANGED <<memmap, ptr, slot, nmemb, held, fault>>
  BY DEF LookOn
<1>2. /\ offset \in Table /\ offset \in Nat /\ Blocks \in Nat
      /\ cmemb \in Nat /\ nmemb \in Nat /\ nmemb <= MaxCopy /\ MaxCopy \in Nat
  BY <1>1, HeapAssumption DEF IInv, TypeOK, Table
<1>3. /\ cmemb < nmemb
      /\ FreeRun(memmap, offset + 1, cmemb)
      /\ offset + 1 + cmemb < Blocks => memmap[offset + 1 + cmemb] # 0
      /\ \A o \in Table : o > offset => ~FreeRun(memmap, o, nmemb)
  BY <1>1 DEF IInv, SearchInv
<1>4. Counted \in Nat /\ Counted < nmemb
  BY <1>1, <1>2, <1>3 DEF Counted
<1>5. TypeOK'
  BY <1>1, <1>2, <1>4 DEF IInv, TypeOK
<1>6. BlocksOwned'
  BY <1>1 DEF IInv, BlocksOwned, Owns
<1>7. FreeRun(memmap, offset, Counted)
  BY <1>2, <1>3 DEF Counted, FreeRun, Table
<1>8. offset + Counted < Blocks => memmap[offset + Counted] # 0
  BY <1>2, <1>3 DEF Counted
<1>9. ~FreeRun(memmap, offset, nmemb)
  <2> SUFFICES ASSUME FreeRun(memmap, offset, nmemb) PROVE FALSE
    OBVIOUS
  <2>1. offset + Counted \in Table /\ offset + Counted < offset + nmemb
    BY <1>2, <1>4 DEF FreeRun, Table
  <2> QED
    BY <1>2, <1>4, <1>8, <2>1 DEF FreeRun, Table
<1>10. \A o \in Table : o > offset - 1 => ~FreeRun(memmap, o, nmemb)
  BY <1>2, <1>3, <1>9 DEF Table
<1>11. SearchInv'
  <2>1. offset' + 1 = offset
    BY <1>1, <1>2
  <2> QED
    BY <1>1, <1>4, <1>7, <1>8, <1>10, <2>1 DEF IInv, SearchInv
<1> QED
  BY <1>5, <1>6, <1>11 DEF IInv

(* Where the loop ends: a run of the size it wants, the highest one.       *)
LEMMA FoundIsHighest ==
  ASSUME IInv, slot # NULL, offset >= 0, Counted = nmemb
  PROVE  /\ offset \in Table /\ nmemb \in 1..MaxCopy
         /\ FreeRun(memmap, offset, nmemb)
         /\ \A o \in Table : o > offset => ~FreeRun(memmap, o, nmemb)
<1>1. /\ offset \in Table /\ offset \in Nat /\ Blocks \in Nat
      /\ cmemb \in Nat /\ nmemb \in 1..MaxCopy
  BY HeapAssumption DEF IInv, TypeOK, Table, SearchInv
<1>2. /\ FreeRun(memmap, offset + 1, cmemb)
      /\ \A o \in Table : o > offset => ~FreeRun(memmap, o, nmemb)
  BY DEF IInv, SearchInv
<1>3. memmap[offset] = 0 /\ nmemb = cmemb + 1
  BY <1>1 DEF Counted
<1>4. FreeRun(memmap, offset, nmemb)
  BY <1>1, <1>2, <1>3 DEF FreeRun, Table
<1> QED
  BY <1>1, <1>2, <1>4

(* The new text takes blocks that no other slot owns.                      *)
LEMMA FoundOwns ==
  ASSUME IInv, Found, NEW s \in Slots, s = slot
  PROVE  /\ \A b \in Table : ~Owns(s, b)
         /\ \A b \in Table : Owns(s, b)' <=> offset <= b /\ b < offset + nmemb
         /\ \A t \in Slots \ {s}, b \in Table :
               /\ Owns(t, b)' <=> Owns(t, b)
               /\ Owns(t, b) => ~(offset <= b /\ b < offset + nmemb)
         /\ \A t \in Slots \ {s} : ptr'[t] = ptr[t] /\ held'[t] = held[t]
<1>1. /\ slot # NULL /\ offset >= 0 /\ Counted = nmemb
      /\ ptr' = [ptr EXCEPT ![s] = offset]
      /\ held' = [held EXCEPT ![s] = nmemb]
  BY DEF Found
<1>2. /\ offset \in Table /\ nmemb \in 1..MaxCopy
      /\ FreeRun(memmap, offset, nmemb)
  BY <1>1, FoundIsHighest
<1>3. held[s] = 0
  BY <1>1 DEF IInv, SearchInv
<1>4. \A b \in Table : ~Owns(s, b)
  BY <1>3 DEF Owns, IInv, TypeOK, Table
<1>5. \A b \in Table : Owns(s, b)' <=> offset <= b /\ b < offset + nmemb
  BY <1>1, <1>2, HeapAssumption DEF Owns, IInv, TypeOK, Table
<1>6. \A t \in Slots \ {s} : ptr'[t] = ptr[t] /\ held'[t] = held[t]
  BY <1>1 DEF IInv, TypeOK
<1>7. \A t \in Slots \ {s}, b \in Table : Owns(t, b)' <=> Owns(t, b)
  BY <1>6 DEF Owns
<1>8. ASSUME NEW t \in Slots \ {s}, NEW b \in Table, Owns(t, b)
      PROVE  ~(offset <= b /\ b < offset + nmemb)
  <2>1. memmap[b] = held[t] /\ held[t] > 0
    BY <1>8 DEF Owns, IInv, BlocksOwned
  <2> QED
    BY <1>2, <2>1 DEF FreeRun
<1> QED
  BY <1>4, <1>5, <1>6, <1>7, <1>8

LEMMA FoundInv ==
  ASSUME IInv, Found
  PROVE  IInv'
<1>1. /\ slot # NULL /\ offset >= 0 /\ Counted = nmemb
      /\ memmap' = Mark(memmap, offset, nmemb)
      /\ ptr' = [ptr EXCEPT ![slot] = offset]
      /\ held' = [held EXCEPT ![slot] = nmemb]
      /\ slot' = NULL /\ nmemb' = 0 /\ offset' = 0 /\ cmemb' = 0
      /\ fault' = fault
  BY DEF Found, Return
<1>2. /\ offset \in Table /\ nmemb \in 1..MaxCopy
      /\ FreeRun(memmap, offset, nmemb)
  BY <1>1, FoundIsHighest
<1>3. PICK s \in Slots : s = slot
  BY <1>1 DEF IInv, TypeOK
<1>4. TypeOK'
  <2>1. memmap' \in [Table -> 0..MaxCopy]
    BY <1>1, <1>2, HeapAssumption DEF Mark, IInv, TypeOK
  <2>2. 0 \in 0..MaxCopy /\ 0 \in -1..(Blocks - 1)
    BY HeapAssumption
  <2> QED
    BY <1>1, <1>2, <2>1, <2>2 DEF IInv, TypeOK
<1>5. ASSUME NEW t \in Slots, t # slot', ptr'[t] # NULL
      PROVE  /\ held'[t] > 0
             /\ ptr'[t] + held'[t] <= Blocks
             /\ \A b \in Table : Owns(t, b)' => memmap'[b] = held'[t]
  <2>1. CASE t = s
    <3>1. ptr'[t] = offset /\ held'[t] = nmemb
      BY <1>1, <1>3, <2>1 DEF IInv, TypeOK
    <3>2. \A b \in Table : offset <= b /\ b < offset + nmemb
                              => memmap'[b] = nmemb
      BY <1>1 DEF Mark
    <3>3. offset + nmemb <= Blocks
      BY <1>2 DEF FreeRun
    <3> QED
      BY <1>2, <1>3, <2>1, <3>1, <3>2, <3>3, FoundOwns
  <2>2. CASE t # s
    <3>1. ptr'[t] = ptr[t] /\ held'[t] = held[t]
      BY <1>3, <2>2, FoundOwns
    <3>2. held'[t] > 0 /\ ptr'[t] + held'[t] <= Blocks
      BY <1>3, <1>5, <2>2, <3>1 DEF IInv, BlocksOwned
    <3>3. ASSUME NEW b \in Table, Owns(t, b)'
          PROVE  memmap'[b] = held'[t]
      <4>1. Owns(t, b) /\ ~(offset <= b /\ b < offset + nmemb)
        BY <1>3, <2>2, <3>3, FoundOwns
      <4>2. memmap'[b] = memmap[b]
        BY <1>1, <4>1 DEF Mark
      <4>3. memmap[b] = held[t]
        BY <1>3, <2>2, <4>1 DEF IInv, BlocksOwned, Owns
      <4> QED
        BY <3>1, <4>2, <4>3
    <3> QED
      BY <3>2, <3>3
  <2> QED
    BY <2>1, <2>2
<1>6. ASSUME NEW t \in Slots, NEW u \in Slots, NEW b \in Table,
             Owns(t, b)', Owns(u, b)'
      PROVE  t = u
  <2>1. \A v, w \in Slots : Owns(v, b) /\ Owns(w, b) => v = w
    BY DEF IInv, BlocksOwned
  <2> QED
    BY <1>3, <1>6, <2>1, FoundOwns
<1>7. ASSUME NEW b \in Table, memmap'[b] # 0
      PROVE  \E t \in Slots : Owns(t, b)'
  <2>1. CASE offset <= b /\ b < offset + nmemb
    BY <1>3, <2>1, FoundOwns
  <2>2. CASE ~(offset <= b /\ b < offset + nmemb)
    <3>1. memmap[b] # 0
      BY <1>1, <1>7, <2>2 DEF Mark
    <3>2. PICK t \in Slots : Owns(t, b)
      BY <3>1 DEF IInv, BlocksOwned
    <3> QED
      BY <1>3, <3>2, FoundOwns
  <2> QED
    BY <2>1, <2>2
<1>8. BlocksOwned'
  BY <1>5, <1>6, <1>7 DEF BlocksOwned
<1> QED
  BY <1>1, <1>4, <1>8 DEF IInv, SearchInv

(* Without memory for the new text the blocks of the old one are free.     *)
LEMMA NotFoundOwns ==
  ASSUME IInv, NotFound
  PROVE  \A t \in Slots, b \in Table : Owns(t, b)' <=> Owns(t, b)
<1>1. /\ slot # NULL /\ ptr' = [ptr EXCEPT ![slot] = NULL] /\ held' = held
  BY DEF NotFound
<1>2. \A b \in Table : held[slot] = 0 /\ ptr'[slot] = NULL
  BY <1>1 DEF IInv, TypeOK, SearchInv
<1>3. ASSUME NEW t \in Slots, NEW b \in Table
      PROVE  Owns(t, b)' <=> Owns(t, b)
  <2>1. CASE t = slot
    <3>1. held[t] = 0 /\ ptr'[t] = NULL
      BY <1>2, <2>1
    <3>2. ~Owns(t, b)
      BY <3>1 DEF Owns, IInv, TypeOK, Table
    <3> QED
      BY <3>1, <3>2 DEF Owns
  <2>2. CASE t # slot
    BY <1>1, <2>2 DEF Owns, IInv, TypeOK
  <2> QED
    BY <2>1, <2>2
<1> QED
  BY <1>3

LEMMA NotFoundInv ==
  ASSUME IInv, NotFound
  PROVE  IInv'
<1>1. /\ slot # NULL /\ ptr' = [ptr EXCEPT ![slot] = NULL] /\ held' = held
      /\ memmap' = memmap /\ fault' = TRUE
      /\ slot' = NULL /\ nmemb' = 0 /\ offset' = 0 /\ cmemb' = 0
  BY DEF NotFound, Return
<1>2. 0 \in 0..MaxCopy /\ 0 \in -1..(Blocks - 1)
  BY HeapAssumption
<1>3. TypeOK'
  BY <1>1, <1>2 DEF IInv, TypeOK
<1>4. ASSUME NEW t \in Slots, ptr'[t] # NULL
      PROVE  /\ held'[t] > 0
             /\ ptr'[t] + held'[t] <= Blocks
             /\ \A b \in Table : Owns(t, b)' => memmap'[b] = held'[t]
  <2>1. t # slot /\ ptr'[t] = ptr[t]
    BY <1>1, <1>4 DEF IInv, TypeOK
  <2> QED
    BY <1>1, <1>4, <2>1, NotFoundOwns DEF IInv, BlocksOwned
<1>5. BlocksOwned'
  BY <1>1, <1>4, NotFoundOwns DEF IInv, BlocksOwned
<1> QED
  BY <1>1, <1>3, <1>5 DEF IInv, SearchInv

LEMMA NextInv == IInv /\ [Next]_vars => IInv'
<1> SUFFICES ASSUME IInv, [Next]_vars PROVE IInv'
  OBVIOUS
<1>1. CASE UNCHANGED vars
  BY <1>1 DEF vars, search, IInv, TypeOK, BlocksOwned, Owns, SearchInv
<1> QED
  BY <1>1, CallInv, LookInv, FoundInv, NotFoundInv DEF Next

LEMMA Invariance == Spec => []IInv
  BY InitInv, NextInv, PTL DEF Spec

(* The variables keep their types: the map counts no more than the largest *)
(* header, and the search of mymem_malloc stays in the table.              *)
THEOREM TypeCorrect == Spec => []TypeOK
<1>1. IInv => TypeOK
  BY DEF IInv
<1> QED
  BY <1>1, Invariance, PTL

(* No allocation overlaps another, none loses the size that frees it, and  *)
(* no block leaks: mymem_malloc and mymem_free (malloc.c) under every      *)
(* sequence of headers.                                                    *)
THEOREM PoolIsConsistent == Spec => []BlocksOwned
<1>1. IInv => BlocksOwned
  BY DEF IInv
<1> QED
  BY <1>1, Invariance, PTL

-----------------------------------------------------------------------------
(* The map and the search implement the pool of module Pool.               *)

(* A block is free in the map when nobody owns it.                         *)
LEMMA FreeIsUnowned ==
  ASSUME IInv
  PROVE  /\ P!Table = Table
         /\ \A b \in Table : P!Unowned(b) <=> memmap[b] = 0
<1>1. P!Table = Table
  BY DEF P!Table, Table
<1>2. ASSUME NEW b \in Table
      PROVE  P!Unowned(b) <=> \A s \in Slots : ~Owns(s, b)
  BY DEF P!Unowned
<1>3. ASSUME NEW b \in Table, NEW s \in Slots, Owns(s, b)
      PROVE  memmap[b] # 0
  <2>1. held[s] > 0 /\ ptr[s] # NULL
    BY <1>3 DEF Owns, IInv, TypeOK, Table
  <2>2. s # slot
    BY <2>1, HeapAssumption DEF IInv, SearchInv
  <2> QED
    BY <1>3, <2>1, <2>2 DEF IInv, BlocksOwned
<1>4. \A b \in Table : memmap[b] # 0 => \E s \in Slots : Owns(s, b)
  BY DEF IInv, BlocksOwned
<1> QED
  BY <1>1, <1>2, <1>3, <1>4

LEMMA FitsIsFreeRun ==
  ASSUME IInv, NEW o \in Table, NEW n \in 1..MaxCopy
  PROVE  P!Fits(o, n) <=> FreeRun(memmap, o, n)
<1>1. o \in Nat /\ n \in Nat /\ n > 0 /\ Blocks \in Nat
  BY HeapAssumption DEF Table
<1>2. P!Fits(o, n) <=> \A b \in o..(o + n - 1) : b \in Table /\ memmap[b] = 0
  BY FreeIsUnowned DEF P!Fits, P!Run
<1>3. ASSUME \A b \in o..(o + n - 1) : b \in Table /\ memmap[b] = 0
      PROVE  FreeRun(memmap, o, n)
  <2>1. o + n - 1 \in Table
    BY <1>1, <1>3
  <2> QED
    BY <1>1, <1>3, <2>1 DEF FreeRun, Table
<1>4. ASSUME FreeRun(memmap, o, n)
      PROVE  \A b \in o..(o + n - 1) : b \in Table /\ memmap[b] = 0
  BY <1>1, <1>4 DEF FreeRun, Table
<1> QED
  BY <1>2, <1>3, <1>4

LEMMA CallRefines ==
  ASSUME IInv, NEW s \in Slots, NEW n \in 1..MaxCopy, MymallocCopy(s, n)
  PROVE  P!Next
<1>1. [t \in Slots |-> {b \in Table : Owns(t, b)}]'
        = [[t \in Slots |-> {b \in Table : Owns(t, b)}] EXCEPT ![s] = {}]
  <2>1. \A b \in Table : ~Owns(s, b)'
    BY CallOwns
  <2>2. \A t \in Slots \ {s}, b \in Table : Owns(t, b)' <=> Owns(t, b)
    BY CallOwns
  <2> QED
    BY <2>1, <2>2
<1>2. ~fault /\ fault' = fault
  BY DEF MymallocCopy
<1> QED
  BY <1>1, <1>2 DEF P!Next, P!Free

LEMMA FoundRefines ==
  ASSUME IInv, Found, ~fault
  PROVE  P!Next
<1>1. PICK s \in Slots : s = slot
  BY DEF Found, IInv, TypeOK
<1>2. slot # NULL /\ offset >= 0 /\ Counted = nmemb /\ fault' = fault
  BY DEF Found
<1>3. /\ offset \in Table /\ nmemb \in 1..MaxCopy
      /\ FreeRun(memmap, offset, nmemb)
      /\ \A o \in Table : o > offset => ~FreeRun(memmap, o, nmemb)
  BY <1>2, FoundIsHighest
<1>4. P!Fits(offset, nmemb) /\ \A o \in Table : o > offset => ~P!Fits(o, nmemb)
  BY <1>3, FitsIsFreeRun
<1>5. [t \in Slots |-> {b \in Table : Owns(t, b)}]'
        = [[t \in Slots |-> {b \in Table : Owns(t, b)}]
             EXCEPT ![s] = P!Run(offset, nmemb)]
  <2>1. {b \in Table : Owns(s, b)'} = P!Run(offset, nmemb)
    <3>1. \A b \in Table : Owns(s, b)' <=> offset <= b /\ b < offset + nmemb
      BY <1>1, FoundOwns
    <3> QED
      BY <1>3, <3>1, HeapAssumption DEF P!Run, FreeRun, Table
  <2>2. \A t \in Slots \ {s}, b \in Table : Owns(t, b)' <=> Owns(t, b)
    BY <1>1, FoundOwns
  <2> QED
    BY <2>1, <2>2
<1>6. [t \in Slots |-> {b \in Table : Owns(t, b)}][s] = {}
  BY <1>1, FoundOwns
<1>7. P!Allocate(s, nmemb)
  BY <1>2, <1>3, <1>4, <1>5, <1>6, FreeIsUnowned DEF P!Allocate
<1> QED
  BY <1>3, <1>7 DEF P!Next

LEMMA NotFoundRefines ==
  ASSUME IInv, NotFound, ~fault
  PROVE  P!Next
<1>1. PICK s \in Slots : s = slot
  BY DEF NotFound, IInv, TypeOK
<1>2. slot # NULL /\ offset < 0 /\ fault' = TRUE
  BY DEF NotFound
<1>3. nmemb \in 1..MaxCopy
  BY <1>2 DEF IInv, TypeOK, SearchInv
<1>4. \A o \in Table : ~FreeRun(memmap, o, nmemb)
  BY <1>2, HeapAssumption DEF IInv, TypeOK, SearchInv, Table
<1>5. \A o \in Table : ~P!Fits(o, nmemb)
  BY <1>3, <1>4, FitsIsFreeRun
<1>6. [t \in Slots |-> {b \in Table : Owns(t, b)}]'
        = [t \in Slots |-> {b \in Table : Owns(t, b)}]
  BY NotFoundOwns
<1>7. [t \in Slots |-> {b \in Table : Owns(t, b)}][s] = {}
  <2>1. held[s] = 0
    BY <1>1, <1>2 DEF IInv, SearchInv
  <2> QED
    BY <2>1 DEF Owns, IInv, TypeOK, Table
<1>8. P!Refuse(s, nmemb)
  BY <1>2, <1>5, <1>6, <1>7, FreeIsUnowned DEF P!Refuse
<1> QED
  BY <1>3, <1>8 DEF P!Next

(* Nothing runs after a fault.                                             *)
Stopped == fault => slot = NULL

LEMMA StoppedInv ==
  /\ Init => Stopped
  /\ Stopped /\ [Next]_vars => Stopped'
  BY DEF Stopped, Init, Next, vars, search, MymallocCopy, LookOn, Found,
         NotFound, Return

LEMMA StepRefines ==
  ASSUME IInv, Stopped, [Next]_vars
  PROVE  [P!Next]_(P!vars)
<1>1. slot # NULL => ~fault
  BY DEF Stopped
<1>2. CASE LookOn
  BY <1>2 DEF LookOn, P!vars, Owns
<1>3. CASE UNCHANGED vars
  BY <1>3 DEF vars, P!vars, Owns
<1>4. CASE Found
  BY <1>1, <1>4, FoundRefines DEF Found
<1>5. CASE NotFound
  BY <1>1, <1>5, NotFoundRefines DEF NotFound
<1> QED
  BY <1>2, <1>3, <1>4, <1>5, CallRefines DEF Next

(* The memory pool does what module Pool says: whoever asks for memory is  *)
(* given the highest free run, is refused only when there is none, and     *)
(* frees what it was given (mymem_malloc, mymem_free in malloc.c).         *)
THEOREM RefinesPool == Spec => ImplementsPool
<1>1. Init => P!Init
  <2> SUFFICES ASSUME Init PROVE P!Init
    OBVIOUS
  <2>1. \A s \in Slots : ptr[s] = NULL
    BY DEF Init
  <2> QED
    BY <2>1 DEF P!Init, Init, Owns
<1>2. IInv /\ Stopped /\ [Next]_vars => [P!Next]_(P!vars)
  BY StepRefines
<1> QED
  BY <1>1, <1>2, Invariance, StoppedInv, PTL DEF Spec, ImplementsPool, P!Spec

-----------------------------------------------------------------------------
(* How large the pool has to be.                                           *)

(* Room for the largest header whatever the other slots hold.              *)
RoomForAll ==
    /\ IsFiniteSet(Slots)
    /\ Blocks >= (Cardinality(Slots) - 1) * (2 * MaxCopy - 1) + MaxCopy

(* A place where no run can begin lies close to a slot: the slot and the   *)
(* distance tell which place it is.                                        *)
LEMMA BlockedBySlot ==
  ASSUME IInv, NEW s \in Slots, s = slot,
         NEW o \in Table, o + MaxCopy <= Blocks,
         ~FreeRun(memmap, o, MaxCopy)
  PROVE  \E t \in Owners \ {s} :
            /\ ptr[t] \in Nat
            /\ o - ptr[t] + MaxCopy - 1 \in 0..(2 * MaxCopy - 2)
<1>1. PICK b \in Table : o <= b /\ b < o + MaxCopy /\ memmap[b] # 0
  BY DEF FreeRun
<1>2. PICK t \in Slots : Owns(t, b)
  BY <1>1 DEF IInv, BlocksOwned
<1>3. ptr[t] \in Nat /\ held[t] \in 0..MaxCopy
      /\ ptr[t] <= b /\ b < ptr[t] + held[t]
  BY <1>2 DEF Owns, IInv, TypeOK, Table
<1>4. t # s
  BY <1>3, HeapAssumption DEF IInv, SearchInv, Table
<1>6. t \in Owners
  BY <1>3, HeapAssumption DEF Owners
<1>5. o \in Nat /\ b \in Nat /\ MaxCopy \in Nat
  BY HeapAssumption DEF Table
<1> QED
  BY <1>1, <1>3, <1>4, <1>5, <1>6

LEMMA RoomIsFound ==
  ASSUME IInv, NEW s \in Slots, s = slot, IsFiniteSet(Slots),
         Blocks >= Cardinality(Owners \ {s}) * (2 * MaxCopy - 1) + MaxCopy
  PROVE  \E o \in Table : FreeRun(memmap, o, MaxCopy)
<1> SUFFICES ASSUME \A o \in Table : ~FreeRun(memmap, o, MaxCopy)
             PROVE  FALSE
  OBVIOUS
<1> DEFINE Others == Owners \ {s}
           Starts == 0..(Blocks - MaxCopy)
           Near == 0..(2 * MaxCopy - 2)
           Place(h) == h[2] + ptr[h[1]] - MaxCopy + 1
<1>1. IsFiniteSet(Others) /\ Cardinality(Others) \in Nat
  BY FS_Subset, FS_CardinalityType DEF Owners
<1>2. /\ Blocks \in Nat /\ MaxCopy \in Nat /\ MaxCopy > 0
      /\ Blocks >= Cardinality(Others) * (2 * MaxCopy - 1) + MaxCopy
  BY HeapAssumption
<1>3. /\ IsFiniteSet(Near) /\ Cardinality(Near) = 2 * MaxCopy - 1
  BY <1>2, FS_Interval
<1>4. /\ IsFiniteSet(Others \X Near)
      /\ Cardinality(Others \X Near) = Cardinality(Others) * (2 * MaxCopy - 1)
  BY <1>1, <1>3, FS_Product
<1>5. /\ Cardinality(Others \X Near) \in Nat
      /\ Blocks >= Cardinality(Others \X Near) + MaxCopy
  <2>1. Cardinality(Others \X Near) \in Nat
    BY <1>4, FS_CardinalityType
  <2>2. Blocks >= Cardinality(Others \X Near) + MaxCopy
    BY <1>2, <1>4, Zenon
  <2> QED
    BY <2>1, <2>2
<1>6. /\ IsFiniteSet(Starts)
      /\ Cardinality(Starts) = Blocks - MaxCopy + 1
  <2>1. Blocks - MaxCopy \in Int /\ ~(0 > Blocks - MaxCopy)
    BY <1>2, <1>5, SMT
  <2> QED
    BY <1>2, <2>1, FS_Interval
<1>7. Cardinality(Others \X Near) < Cardinality(Starts)
  <2> HIDE DEF Starts, Near, Others
  <2> QED
    BY <1>2, <1>5, <1>6
<1>8. ASSUME NEW o \in Starts
      PROVE  \E h \in Others \X Near : Place(h) = o
  <2>1. o \in Table /\ o + MaxCopy <= Blocks /\ o \in Nat
    BY <1>2 DEF Table
  <2>2. PICK t \in Others : /\ ptr[t] \in Nat
                            /\ o - ptr[t] + MaxCopy - 1 \in Near
    BY <2>1, BlockedBySlot
  <2>3. Place(<<t, o - ptr[t] + MaxCopy - 1>>) = o
    BY <1>2, <2>1, <2>2
  <2> QED
    BY <2>2, <2>3
<1> DEFINE hole == [o \in Starts |-> CHOOSE h \in Others \X Near : Place(h) = o]
<1>9. \A o \in Starts : hole[o] \in Others \X Near /\ Place(hole[o]) = o
  BY <1>8
<1>10. hole \in [Starts -> Others \X Near]
  BY <1>9
<1>11. PICK x, y \in Starts : x # y /\ hole[x] = hole[y]
  <2> HIDE DEF hole, Starts, Near, Others
  <2> QED
    BY <1>4, <1>6, <1>7, <1>10, FS_PigeonHole
<1> QED
  BY <1>9, <1>11

(* A search that ends without a run has seen that there is no room, not    *)
(* even for a shorter one.                                                 *)
LEMMA RefusalIsShortage ==
  ASSUME IInv, NotFound, IsFiniteSet(Slots)
  PROVE  Blocks < Cardinality(Owners \ {slot}) * (2 * MaxCopy - 1) + MaxCopy
<1>1. PICK s \in Slots : s = slot
  BY DEF NotFound, IInv, TypeOK
<1>2. nmemb \in Nat /\ nmemb <= MaxCopy /\ MaxCopy \in Nat /\ Blocks \in Nat
  BY HeapAssumption DEF IInv, TypeOK
<1>3. offset < 0 /\ slot # NULL /\ offset \in Int
  BY DEF NotFound, IInv, TypeOK
<1>4. ASSUME NEW o \in Table, FreeRun(memmap, o, MaxCopy)
      PROVE  FALSE
  <2>1. FreeRun(memmap, o, nmemb)
    BY <1>2, <1>4, HeapAssumption DEF FreeRun, Table
  <2> QED
    BY <1>3, <2>1 DEF IInv, SearchInv, Table
<1>5. ~(Blocks >= Cardinality(Owners \ {s}) * (2 * MaxCopy - 1) + MaxCopy)
  BY <1>1, <1>4, RoomIsFound
<1>6. Cardinality(Owners \ {s}) \in Nat
  BY FS_Subset, FS_CardinalityType DEF Owners
<1> QED
  BY <1>1, <1>2, <1>5, <1>6

(* The strcpy of MymallocCopy (StrInt.c) gets a NULL pointer only in a     *)
(* pool without room for the slots that own memory at that moment.         *)
THEOREM OnlyLackOfRoom ==
  ASSUME IsFiniteSet(Slots) PROVE Spec => []FailsForLackOfRoom
<1>1. Init => FailsForLackOfRoom
  BY DEF Init, FailsForLackOfRoom
<1>2. IInv /\ Stopped /\ FailsForLackOfRoom /\ [Next]_vars
      => FailsForLackOfRoom'
  <2> SUFFICES ASSUME IInv, Stopped, FailsForLackOfRoom, [Next]_vars
               PROVE  FailsForLackOfRoom'
    OBVIOUS
  <2>1. CASE NotFound
    <3>1. Owners' = Owners \ {slot}
      BY <2>1 DEF NotFound, Owners, IInv, TypeOK
    <3> QED
      BY <2>1, <3>1, RefusalIsShortage DEF FailsForLackOfRoom
  <2>2. CASE UNCHANGED vars
    BY <2>2 DEF vars, FailsForLackOfRoom, Owners
  <2>3. CASE LookOn
    BY <2>3 DEF LookOn, FailsForLackOfRoom, Owners
  <2>4. CASE Found
    BY <2>4 DEF Found, Stopped, FailsForLackOfRoom
  <2>5. CASE \E s \in Slots, n \in 1..MaxCopy : MymallocCopy(s, n)
    BY <2>5 DEF MymallocCopy, FailsForLackOfRoom
  <2> QED
    BY <2>1, <2>2, <2>3, <2>4, <2>5 DEF Next
<1> QED
  BY <1>1, <1>2, Invariance, StoppedInv, PTL DEF Spec

(* With room for all, whatever headers come in whatever order, it never    *)
(* does: somebody is always the one who asks, and owns nothing then.       *)
THEOREM NoCopyFails == ASSUME RoomForAll PROVE Spec => []~fault
<1>1. Init => ~fault
  BY DEF Init
<1>2. ASSUME IInv, NotFound PROVE FALSE
  <2>1. PICK s \in Slots : s = slot
    BY <1>2 DEF NotFound, IInv, TypeOK
  <2> DEFINE Rest == Slots \ {s}
             Others == Owners \ {s}
  <2>2. IsFiniteSet(Rest) /\ Cardinality(Rest) = Cardinality(Slots) - 1
    BY FS_RemoveElement DEF RoomForAll
  <2>3. Others \subseteq Rest
    BY DEF Owners
  <2>4. /\ IsFiniteSet(Others)
        /\ Cardinality(Others) <= Cardinality(Rest)
    <3> HIDE DEF Others, Rest
    <3> QED
      BY <2>2, <2>3, FS_Subset
  <2>5. Cardinality(Others) \in Nat /\ Cardinality(Rest) \in Nat
    BY <2>2, <2>4, FS_CardinalityType
  <2>6. Blocks < Cardinality(Others) * (2 * MaxCopy - 1) + MaxCopy
    BY <1>2, <2>1, RefusalIsShortage DEF RoomForAll
  <2>7. Blocks >= Cardinality(Rest) * (2 * MaxCopy - 1) + MaxCopy
    BY <2>2 DEF RoomForAll
  <2> QED
    <3> HIDE DEF Others, Rest
    <3> DEFINE a == Cardinality(Others)
               b == Cardinality(Rest)
               w == 2 * MaxCopy - 1
    <3>1. a \in Nat /\ b \in Nat /\ w \in Nat /\ a <= b
      BY <2>4, <2>5, HeapAssumption
    <3>2. a * w + MaxCopy > b * w + MaxCopy /\ a * w \in Nat /\ b * w \in Nat
      <4>1. a * w \in Nat /\ b * w \in Nat
        <5> HIDE DEF a, b, w
        <5> QED
          BY <3>1
      <4> QED
        BY <2>6, <2>7, <4>1, HeapAssumption
    <3>3. a * w <= b * w
      <4> HIDE DEF a, b, w
      <4> QED
        BY <3>1
    <3> HIDE DEF a, b, w
    <3> QED
      BY <3>2, <3>3, HeapAssumption
<1>3. IInv /\ ~fault /\ [Next]_vars => ~fault'
  BY <1>2 DEF Next, vars, MymallocCopy, LookOn, Found
<1> QED
  BY <1>1, <1>3, Invariance, PTL DEF Spec
=============================================================================
