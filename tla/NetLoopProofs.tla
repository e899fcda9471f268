--------------------------- MODULE NetLoopProofs ---------------------------
(***************************************************************************)
(* The invariants of NetLoop and the order of its answers, for rings of    *)
(* any size, any number of messages per turn and any number of datagrams.  *)
(***************************************************************************)
EXTENDS NetLoop, SequenceTheorems, TLAPS

(* Counting along a ring.                                                  *)
LEMMA SlotAfter ==
  ASSUME NEW i \in Rx!Slot
  PROVE  Rx!After(i) \in Rx!Slot /\ Rx!After(i) # i
  BY NetLoopAssumption DEF Rx!Slot, Rx!After

LEMMA AheadRange ==
  ASSUME NEW i \in Rx!Slot, NEW j \in Rx!Slot
  PROVE  Rx!Ahead(i, j) \in 0..(N - 1) /\ (Rx!Ahead(i, j) = 0 <=> i = j)
  BY NetLoopAssumption DEF Rx!Slot, Rx!Ahead

LEMMA AheadWrites ==
  ASSUME NEW i \in Rx!Slot, NEW j \in Rx!Slot
  PROVE  Rx!Ahead(i, Rx!After(j)) = IF Rx!Ahead(i, j) = N - 1 THEN 0
                                    ELSE Rx!Ahead(i, j) + 1
  BY NetLoopAssumption DEF Rx!Slot, Rx!Ahead, Rx!After

LEMMA AheadReads ==
  ASSUME NEW i \in Rx!Slot, NEW j \in Rx!Slot
  PROVE  Rx!Ahead(Rx!After(i), j) = IF i = j THEN N - 1
                                    ELSE Rx!Ahead(i, j) - 1
  BY NetLoopAssumption DEF Rx!Slot, Rx!Ahead, Rx!After

LEMMA AheadDiffers ==
  ASSUME NEW i \in Rx!Slot, NEW j \in Rx!Slot, NEW k \in Rx!Slot, j # k
  PROVE  Rx!Ahead(i, j) # Rx!Ahead(i, k)
  BY NetLoopAssumption DEF Rx!Slot, Rx!Ahead

(* Both rings count alike.                                                 *)
LEMMA SameRing ==
  /\ Tx!Slot = Rx!Slot
  /\ \A i : Tx!After(i) = Rx!After(i)
  /\ \A i, j : Tx!Ahead(i, j) = Rx!Ahead(i, j)
  BY DEF Tx!Slot, Rx!Slot, Tx!After, Rx!After, Tx!Ahead, Rx!Ahead

-----------------------------------------------------------------------------
(* The invariant.                                                          *)

RxType ==
    /\ rxSlot \in [Rx!Slot -> 0..MaxReceived]
    /\ rxWr \in Rx!Slot /\ rxRd \in Rx!Slot
    /\ first \in 0..MaxReceived /\ received \in 0..MaxReceived
    /\ parsed \in 0..MaxReceived /\ rxWaiting \in 0..MaxReceived

TxType ==
    /\ txSlot \in [Rx!Slot -> 0..MaxBuilt]
    /\ txWr \in Rx!Slot /\ txRd \in Rx!Slot
    /\ built \in 0..MaxBuilt /\ passed \in 0..MaxBuilt
    /\ sent \in 0..MaxBuilt /\ txWaiting \in 0..MaxBuilt

Flags == rxCongested \in BOOLEAN /\ txCongested \in BOOLEAN /\ netok \in BOOLEAN

(* The indices count what waits until N messages do.                       *)
RxCount ==
    /\ rxWaiting <= received
    /\ rxWaiting = Rx!Ahead(rxRd, rxWr) \/ rxWaiting >= N
    /\ first # 0 => rxWaiting >= 1

TxCount ==
    /\ txWaiting <= built
    /\ txWaiting = Rx!Ahead(txRd, txWr) \/ txWaiting >= N

(* The slots the reader will still visit.  While a datagram is handled the *)
(* reader is sure to move on, so that equal indices mean all of them.      *)
RxDepth == IF first # 0 /\ rxRd = rxWr THEN N ELSE Rx!Ahead(rxRd, rxWr)
TxDepth == Rx!Ahead(txRd, txWr)

(* They hold ever later messages, later than all that were handled.        *)
RxOrder ==
    /\ \A i \in Rx!Slot : Rx!Ahead(rxRd, i) < RxDepth
                            => parsed < rxSlot[i] /\ rxSlot[i] <= received
    /\ \A i, j \in Rx!Slot :
         Rx!Ahead(rxRd, i) < Rx!Ahead(rxRd, j) /\ Rx!Ahead(rxRd, j) < RxDepth
           => rxSlot[i] < rxSlot[j]
    /\ parsed <= received /\ first <= received
    /\ first # 0 => parsed < first /\ first <= rxSlot[rxRd]

TxOrder ==
    /\ \A i \in Rx!Slot : Rx!Ahead(txRd, i) < TxDepth
                            => passed < txSlot[i] /\ txSlot[i] <= built
    /\ \A i, j \in Rx!Slot :
         Rx!Ahead(txRd, i) < Rx!Ahead(txRd, j) /\ Rx!Ahead(txRd, j) < TxDepth
           => txSlot[i] < txSlot[j]
    /\ sent <= passed /\ passed <= built

(* Answers were built in the order of the datagrams.                       *)
AnswerOrder ==
    /\ answers \in [1..MaxBuilt -> 0..MaxReceived]
    /\ \A m \in 1..MaxBuilt : m > built => answers[m] = 0
    /\ \A m \in 1..MaxBuilt : answers[m] <= IF first # 0 THEN first ELSE parsed
    /\ \A m, n \in 1..MaxBuilt :
         m < n /\ answers[n] # 0 => answers[m] <= answers[n]

Control ==
    /\ pc \in {"tx", "rx", "parse", "keys", "others"}
    /\ left \in 0..PerTurn

RxInv == RxType /\ RxCount /\ HandledWhole /\ RxOrder
TxInv == TxType /\ TxCount /\ TxOrder
IInv == RxInv /\ TxInv /\ Flags /\ AnswerOrder /\ Control

LEMMA InitInv == Init => IInv
<1> SUFFICES ASSUME Init PROVE IInv
  OBVIOUS
<1> USE NetLoopAssumption DEF Init, Rx!Init, Tx!Init
<1>1. Flags
  BY DEF Flags
<1>2. Rx!Ahead(0, 0) = 0 /\ 0 \in Rx!Slot /\ Tx!Slot = Rx!Slot
  BY SameRing DEF Rx!Ahead, Rx!Slot
<1>3. \A i \in Rx!Slot : Rx!Ahead(0, i) \in 0..(N - 1)
  BY <1>2, AheadRange
<1>4. RxInv
  BY <1>2, <1>3 DEF RxInv, RxType, RxCount, HandledWhole, Rx!HandledWhole, RxOrder,
      RxDepth
<1>5. TxInv
  BY <1>2, <1>3 DEF TxInv, TxType, TxCount, TxOrder, TxDepth
<1>6. AnswerOrder /\ Control
  BY DEF AnswerOrder, Control
<1> QED
  BY <1>1, <1>4, <1>5, <1>6 DEF IInv

-----------------------------------------------------------------------------
(* The receive ring.                                                       *)

(* NET_UdpRx: the new datagram is the last of those ahead of the reader,   *)
(* or the only one when it has overtaken the reader.                       *)
LEMMA UdpRxInv == RxInv /\ Rx!NET_UdpRx => RxInv'
<1> SUFFICES ASSUME RxInv, Rx!NET_UdpRx PROVE RxInv'
  OBVIOUS
<1> USE DEF RxInv
<1>1. /\ received' = received + 1 /\ received' <= MaxReceived
      /\ rxSlot' = [rxSlot EXCEPT ![rxWr] = received']
      /\ rxWr' = Rx!After(rxWr) /\ rxWaiting' = rxWaiting + 1
      /\ rxRd' = rxRd /\ first' = first /\ parsed' = parsed
  BY NetLoopAssumption DEF Rx!NET_UdpRx, RxType
<1>2. /\ rxWr \in Rx!Slot /\ rxRd \in Rx!Slot /\ rxWr' \in Rx!Slot
      /\ received \in Nat /\ rxWaiting \in Nat /\ first \in Nat
      /\ parsed \in Nat /\ \A i \in Rx!Slot : rxSlot[i] \in Nat
  BY <1>1, SlotAfter, NetLoopAssumption DEF RxType
<1>3. \A i \in Rx!Slot : Rx!Ahead(rxRd, i) \in 0..(N - 1)
                           /\ (Rx!Ahead(rxRd, i) = 0 <=> rxRd = i)
  BY <1>2, AheadRange
<1>4. Rx!Ahead(rxRd, rxWr') = IF Rx!Ahead(rxRd, rxWr) = N - 1 THEN 0
                              ELSE Rx!Ahead(rxRd, rxWr) + 1
  BY <1>1, <1>2, AheadWrites
<1>5. /\ rxSlot'[rxWr] = received'
      /\ \A i \in Rx!Slot : i # rxWr =>
           rxSlot'[i] = rxSlot[i] /\ Rx!Ahead(rxRd, i) # Rx!Ahead(rxRd, rxWr)
  BY <1>1, <1>2, AheadDiffers DEF RxType
<1>6. RxType'
  BY <1>1, <1>2, NetLoopAssumption DEF RxType, RxCount
<1>7. RxCount'
  BY <1>1, <1>2, <1>3, <1>4, NetLoopAssumption DEF RxCount
<1>8. HandledWhole'
  BY <1>1, <1>2, <1>3, <1>5, NetLoopAssumption
  DEF HandledWhole, Rx!HandledWhole, RxCount
<1>9. RxDepth \in Nat /\ RxDepth' \in Nat
  BY <1>1, <1>2, <1>3, <1>4, NetLoopAssumption DEF RxDepth
<1>10. ASSUME NEW i \in Rx!Slot, Rx!Ahead(rxRd, i) < RxDepth', i # rxWr
       PROVE  /\ Rx!Ahead(rxRd, i) < Rx!Ahead(rxRd, rxWr)
              /\ Rx!Ahead(rxRd, i) < RxDepth
  <2>1. CASE first # 0 /\ rxRd = rxWr
    BY <1>1, <1>2, <1>3, <1>4, <1>5, <1>10, <2>1, NetLoopAssumption
    DEF RxDepth
  <2>2. CASE ~(first # 0 /\ rxRd = rxWr)
    BY <1>1, <1>2, <1>3, <1>4, <1>5, <1>10, <2>2, NetLoopAssumption
    DEF RxDepth
  <2> QED
    BY <2>1, <2>2
<1>11. RxOrder'
  <2>1. \A i \in Rx!Slot : Rx!Ahead(rxRd', i) < RxDepth'
          => parsed' < rxSlot'[i] /\ rxSlot'[i] <= received'
    BY <1>1, <1>2, <1>5, <1>10, NetLoopAssumption DEF RxOrder
  <2>2. \A i, j \in Rx!Slot :
          Rx!Ahead(rxRd', i) < Rx!Ahead(rxRd', j)
            /\ Rx!Ahead(rxRd', j) < RxDepth' => rxSlot'[i] < rxSlot'[j]
    <3> SUFFICES ASSUME NEW i \in Rx!Slot, NEW j \in Rx!Slot,
                        Rx!Ahead(rxRd, i) < Rx!Ahead(rxRd, j),
                        Rx!Ahead(rxRd, j) < RxDepth'
                 PROVE  rxSlot'[i] < rxSlot'[j]
      BY <1>1
    <3>1. Rx!Ahead(rxRd, i) < RxDepth'
      BY <1>3, <1>9
    <3>2. CASE j = rxWr
      <4>1. i # rxWr
        BY <1>3, <3>2
      <4>2. rxSlot'[i] <= received
        BY <1>5, <1>10, <3>1, <4>1 DEF RxOrder
      <4> QED
        BY <1>1, <1>2, <1>5, <3>2, <4>1, <4>2
    <3>3. CASE j # rxWr
      <4>1. i # rxWr
        BY <1>3, <1>10, <3>3
      <4> QED
        BY <1>5, <1>10, <3>3, <4>1 DEF RxOrder
    <3> QED
      BY <3>2, <3>3
  <2>3. /\ parsed' <= received' /\ first' <= received'
        /\ first' # 0 => parsed' < first' /\ first' <= rxSlot'[rxRd']
    BY <1>1, <1>2, <1>5 DEF RxOrder
  <2> QED
    BY <2>1, <2>2, <2>3 DEF RxOrder
<1> QED
  BY <1>6, <1>7, <1>8, <1>11

(* The first line is that of the oldest datagram.                          *)
LEMMA FirstLineInv == RxInv /\ Rx!ParseFirstLine => RxInv'
<1> SUFFICES ASSUME RxInv, Rx!ParseFirstLine PROVE RxInv'
  OBVIOUS
<1> USE DEF RxInv
<1>1. /\ first = 0 /\ rxRd # rxWr /\ first' = rxSlot[rxRd]
      /\ rxWaiting' = Rx!Ahead(rxRd, rxWr)
      /\ UNCHANGED <<rxSlot, rxWr, rxRd, received, parsed>>
  BY DEF Rx!ParseFirstLine
<1>2. rxRd \in Rx!Slot /\ rxWr \in Rx!Slot
  BY DEF RxType
<1>3. /\ Rx!Ahead(rxRd, rxWr) \in 1..(N - 1)
      /\ Rx!Ahead(rxRd, rxRd) = 0
  BY <1>1, <1>2, AheadRange, NetLoopAssumption
<1>4. RxDepth' = RxDepth
  BY <1>1 DEF RxDepth
<1>5. parsed < first' /\ first' <= received
  BY <1>1, <1>2, <1>3 DEF RxOrder, RxDepth
<1>6. RxType' /\ RxCount'
  BY <1>1, <1>3, NetLoopAssumption DEF RxType, RxCount
<1>7. HandledWhole'
  BY <1>1 DEF HandledWhole, Rx!HandledWhole
<1>8. RxOrder'
  BY <1>1, <1>2, <1>4, <1>5, NetLoopAssumption DEF RxOrder, RxType
<1> QED
  BY <1>6, <1>7, <1>8

(* The reader moves on: the slots ahead of it are those it had ahead of it *)
(* but the first.                                                          *)
LEMMA RestOfMessageInv == RxInv /\ Rx!ParseRest => RxInv'
<1> SUFFICES ASSUME RxInv, Rx!ParseRest PROVE RxInv'
  OBVIOUS
<1> USE DEF RxInv
<1>1. /\ first # 0 /\ first' = 0 /\ parsed' = rxSlot[rxRd]
      /\ rxRd' = Rx!After(rxRd) /\ rxWaiting' = Rx!Ahead(rxRd', rxWr)
      /\ UNCHANGED <<rxSlot, rxWr, received>>
  BY DEF Rx!ParseRest
<1>2. /\ rxRd \in Rx!Slot /\ rxWr \in Rx!Slot /\ rxRd' \in Rx!Slot
      /\ received \in Nat /\ rxWaiting \in Nat /\ first \in Nat
      /\ parsed \in Nat /\ \A i \in Rx!Slot : rxSlot[i] \in Nat
  BY <1>1, SlotAfter, NetLoopAssumption DEF RxType
<1>3. \A i \in Rx!Slot : /\ Rx!Ahead(rxRd, i) \in 0..(N - 1)
                         /\ Rx!Ahead(rxRd, i) = 0 <=> rxRd = i
                         /\ Rx!Ahead(rxRd', i) = IF rxRd = i THEN N - 1
                              ELSE Rx!Ahead(rxRd, i) - 1
  BY <1>1, <1>2, AheadRange, AheadReads
<1>4. RxDepth \in 1..N /\ RxDepth' = RxDepth - 1
  BY <1>1, <1>2, <1>3, NetLoopAssumption DEF RxDepth
<1>5. \A i \in Rx!Slot : Rx!Ahead(rxRd', i) < RxDepth'
        => /\ i # rxRd
           /\ Rx!Ahead(rxRd, i) = Rx!Ahead(rxRd', i) + 1
           /\ Rx!Ahead(rxRd, i) < RxDepth
           /\ Rx!Ahead(rxRd, rxRd) < Rx!Ahead(rxRd, i)
  BY <1>2, <1>3, <1>4, NetLoopAssumption
<1>6. RxType' /\ RxCount'
  BY <1>1, <1>2, <1>3, NetLoopAssumption DEF RxType, RxCount
<1>7. HandledWhole'
  BY <1>1 DEF HandledWhole, Rx!HandledWhole
<1>8. RxOrder'
  <2>1. parsed' <= received'
    BY <1>1, <1>2, <1>3, <1>4 DEF RxOrder
  <2>2. \A i \in Rx!Slot : Rx!Ahead(rxRd', i) < RxDepth'
          => parsed' < rxSlot'[i] /\ rxSlot'[i] <= received'
    BY <1>1, <1>2, <1>5 DEF RxOrder
  <2>3. \A i, j \in Rx!Slot :
          Rx!Ahead(rxRd', i) < Rx!Ahead(rxRd', j)
            /\ Rx!Ahead(rxRd', j) < RxDepth' => rxSlot'[i] < rxSlot'[j]
    <3> SUFFICES ASSUME NEW i \in Rx!Slot, NEW j \in Rx!Slot,
                        Rx!Ahead(rxRd', i) < Rx!Ahead(rxRd', j),
                        Rx!Ahead(rxRd', j) < RxDepth'
                 PROVE  rxSlot[i] < rxSlot[j]
      BY <1>1
    <3>1. Rx!Ahead(rxRd', i) < RxDepth'
      BY <1>1, <1>2, <1>3, <1>4, NetLoopAssumption
    <3> QED
      BY <1>3, <1>5, <3>1 DEF RxOrder
  <2> QED
    BY <1>1, <1>2, <2>1, <2>2, <2>3 DEF RxOrder
<1> QED
  BY <1>6, <1>7, <1>8

LEMMA RxFlushInv == RxInv /\ Rx!NET_VariateInit => RxInv'
<1> SUFFICES ASSUME RxInv, Rx!NET_VariateInit PROVE RxInv'
  OBVIOUS
<1> USE DEF RxInv
<1>1. /\ first = 0 /\ rxWr' = 0 /\ rxRd' = 0 /\ rxWaiting' = 0
      /\ UNCHANGED <<rxSlot, first, received, parsed>>
  BY DEF Rx!NET_VariateInit
<1>2. Rx!Ahead(0, 0) = 0 /\ 0 \in Rx!Slot
  BY NetLoopAssumption DEF Rx!Ahead, Rx!Slot
<1>3. \A i \in Rx!Slot : Rx!Ahead(0, i) \in 0..(N - 1)
  BY <1>2, AheadRange
<1>4. RxType' /\ RxCount' /\ HandledWhole'
  BY <1>1, <1>2, NetLoopAssumption
  DEF RxType, RxCount, HandledWhole, Rx!HandledWhole
<1>5. RxOrder'
  BY <1>1, <1>2, <1>3, NetLoopAssumption DEF RxOrder, RxDepth
<1> QED
  BY <1>4, <1>5

LEMMA RxStutterInv == RxInv /\ UNCHANGED rxVars => RxInv'
  BY DEF RxInv, rxVars, RxType, RxCount, HandledWhole, Rx!HandledWhole,
         RxOrder, RxDepth

-----------------------------------------------------------------------------
(* The transmit ring.                                                      *)

(* A builder: as NET_UdpRx, without a reader in the middle of a message.   *)
LEMMA BuildInv == TxInv /\ Tx!Build => TxInv' /\ sent' = sent
<1> SUFFICES ASSUME TxInv, Tx!Build PROVE TxInv' /\ sent' = sent
  OBVIOUS
<1> USE SameRing DEF TxInv
<1>1. /\ built' = built + 1 /\ built' <= MaxBuilt
      /\ txSlot' = [txSlot EXCEPT ![txWr] = built']
      /\ txWr' = Rx!After(txWr) /\ txWaiting' = txWaiting + 1
      /\ txRd' = txRd /\ passed' = passed /\ sent' = sent
  BY NetLoopAssumption DEF Tx!Build, TxType
<1>2. /\ txWr \in Rx!Slot /\ txRd \in Rx!Slot /\ txWr' \in Rx!Slot
      /\ built \in Nat /\ txWaiting \in Nat /\ passed \in Nat
      /\ \A i \in Rx!Slot : txSlot[i] \in Nat
  BY <1>1, SlotAfter, NetLoopAssumption DEF TxType
<1>3. \A i \in Rx!Slot : Rx!Ahead(txRd, i) \in 0..(N - 1)
  BY <1>2, AheadRange
<1>4. TxDepth' = IF TxDepth = N - 1 THEN 0 ELSE TxDepth + 1
  BY <1>1, <1>2, AheadWrites DEF TxDepth
<1>5. /\ txSlot'[txWr] = built'
      /\ \A i \in Rx!Slot : i # txWr =>
           txSlot'[i] = txSlot[i] /\ Rx!Ahead(txRd, i) # TxDepth
  BY <1>1, <1>2, AheadDiffers DEF TxType, TxDepth
<1>6. TxDepth \in 0..(N - 1)
  BY <1>2, <1>3 DEF TxDepth
<1>7. \A i \in Rx!Slot :
        Rx!Ahead(txRd, i) < TxDepth' /\ i # txWr => Rx!Ahead(txRd, i) < TxDepth
  BY <1>3, <1>4, <1>5, <1>6, NetLoopAssumption
<1>8. TxType' /\ TxCount'
  BY <1>1, <1>2, <1>4, <1>6, NetLoopAssumption DEF TxType, TxCount, TxDepth
<1>9. TxOrder'
  <2>1. \A i \in Rx!Slot : Rx!Ahead(txRd', i) < TxDepth'
          => passed' < txSlot'[i] /\ txSlot'[i] <= built'
    BY <1>1, <1>2, <1>5, <1>7 DEF TxOrder
  <2>2. \A i, j \in Rx!Slot :
          Rx!Ahead(txRd', i) < Rx!Ahead(txRd', j)
            /\ Rx!Ahead(txRd', j) < TxDepth' => txSlot'[i] < txSlot'[j]
    <3> SUFFICES ASSUME NEW i \in Rx!Slot, NEW j \in Rx!Slot,
                        Rx!Ahead(txRd, i) < Rx!Ahead(txRd, j),
                        Rx!Ahead(txRd, j) < TxDepth'
                 PROVE  txSlot'[i] < txSlot'[j]
      BY <1>1
    <3>1. Rx!Ahead(txRd, i) < TxDepth'
      BY <1>3, <1>4, <1>6, NetLoopAssumption
    <3>2. CASE j = txWr
      <4>1. i # txWr
        BY <1>3, <3>2
      <4>2. txSlot'[i] <= built
        BY <1>5, <1>7, <3>1, <4>1 DEF TxOrder
      <4> QED
        BY <1>1, <1>2, <1>5, <3>2, <4>1, <4>2
    <3>3. CASE j # txWr
      <4>1. i # txWr
        BY <1>3, <1>7, <3>3 DEF TxDepth
      <4> QED
        BY <1>5, <1>7, <3>3, <4>1 DEF TxOrder
    <3> QED
      BY <3>2, <3>3
  <2>3. sent' <= passed' /\ passed' <= built'
    BY <1>1, <1>2 DEF TxOrder, TxType
  <2> QED
    BY <2>1, <2>2, <2>3 DEF TxOrder
<1> QED
  BY <1>1, <1>8, <1>9

(* NET_UdpTx: what it takes is later than all that was taken before.       *)
LEMMA UdpTxInv ==
  TxInv /\ Tx!NET_UdpTx(netok)
    => TxInv' /\ (sent' = sent \/ (sent < sent' /\ sent' <= built))
<1> SUFFICES ASSUME TxInv, Tx!NET_UdpTx(netok)
             PROVE  TxInv' /\ (sent' = sent \/ (sent < sent' /\ sent' <= built))
  OBVIOUS
<1> USE SameRing DEF TxInv
<1>1. /\ txRd # txWr /\ passed' = txSlot[txRd]
      /\ sent' = passed' \/ sent' = sent
      /\ txRd' = Rx!After(txRd) /\ txWaiting' = Rx!Ahead(txRd', txWr)
      /\ UNCHANGED <<txSlot, txWr, built>>
  BY DEF Tx!NET_UdpTx
<1>2. /\ txRd \in Rx!Slot /\ txWr \in Rx!Slot /\ txRd' \in Rx!Slot
      /\ built \in Nat /\ txWaiting \in Nat /\ passed \in Nat /\ sent \in Nat
      /\ \A i \in Rx!Slot : txSlot[i] \in Nat
  BY <1>1, SlotAfter, NetLoopAssumption DEF TxType
<1>3. \A i \in Rx!Slot : /\ Rx!Ahead(txRd, i) \in 0..(N - 1)
                         /\ Rx!Ahead(txRd, i) = 0 <=> txRd = i
                         /\ Rx!Ahead(txRd', i) = IF txRd = i THEN N - 1
                              ELSE Rx!Ahead(txRd, i) - 1
  BY <1>1, <1>2, AheadRange, AheadReads
<1>4. TxDepth \in 1..(N - 1) /\ TxDepth' = TxDepth - 1
  BY <1>1, <1>2, <1>3, NetLoopAssumption DEF TxDepth
<1>5. \A i \in Rx!Slot : Rx!Ahead(txRd', i) < TxDepth'
        => /\ i # txRd
           /\ Rx!Ahead(txRd, i) = Rx!Ahead(txRd', i) + 1
           /\ Rx!Ahead(txRd, i) < TxDepth
           /\ Rx!Ahead(txRd, txRd) < Rx!Ahead(txRd, i)
  BY <1>2, <1>3, <1>4, NetLoopAssumption
<1>6. passed < passed' /\ passed' <= built /\ sent <= passed
  BY <1>1, <1>2, <1>3, <1>4 DEF TxOrder
<1>7. TxType' /\ TxCount'
  BY <1>1, <1>2, <1>3, NetLoopAssumption DEF TxType, TxCount
<1>8. TxOrder'
  <2>1. \A i \in Rx!Slot : Rx!Ahead(txRd', i) < TxDepth'
          => passed' < txSlot'[i] /\ txSlot'[i] <= built'
    BY <1>1, <1>2, <1>5 DEF TxOrder
  <2>2. \A i, j \in Rx!Slot :
          Rx!Ahead(txRd', i) < Rx!Ahead(txRd', j)
            /\ Rx!Ahead(txRd', j) < TxDepth' => txSlot'[i] < txSlot'[j]
    <3> SUFFICES ASSUME NEW i \in Rx!Slot, NEW j \in Rx!Slot,
                        Rx!Ahead(txRd', i) < Rx!Ahead(txRd', j),
                        Rx!Ahead(txRd', j) < TxDepth'
                 PROVE  txSlot[i] < txSlot[j]
      BY <1>1
    <3>1. Rx!Ahead(txRd', i) < TxDepth'
      BY <1>1, <1>2, <1>3, <1>4, NetLoopAssumption
    <3> QED
      BY <1>3, <1>5, <3>1 DEF TxOrder
  <2>3. sent' <= passed' /\ passed' <= built'
    BY <1>1, <1>2, <1>6
  <2> QED
    BY <2>1, <2>2, <2>3 DEF TxOrder
<1> QED
  BY <1>1, <1>2, <1>6, <1>7, <1>8

LEMMA TxFlushInv == TxInv /\ Tx!NET_VariateInit => TxInv' /\ sent' = sent
<1> SUFFICES ASSUME TxInv, Tx!NET_VariateInit PROVE TxInv' /\ sent' = sent
  OBVIOUS
<1> USE DEF TxInv
<1>1. /\ txWr' = 0 /\ txRd' = 0 /\ txWaiting' = 0
      /\ UNCHANGED <<txSlot, built, passed, sent>>
  BY DEF Tx!NET_VariateInit
<1>2. Rx!Ahead(0, 0) = 0 /\ 0 \in Rx!Slot
  BY NetLoopAssumption DEF Rx!Ahead, Rx!Slot
<1>3. \A i \in Rx!Slot : Rx!Ahead(0, i) \in 0..(N - 1)
  BY <1>2, AheadRange
<1>4. TxType' /\ TxCount'
  BY <1>1, <1>2, NetLoopAssumption DEF TxType, TxCount
<1>5. TxOrder'
  BY <1>1, <1>2, <1>3, NetLoopAssumption DEF TxOrder, TxDepth
<1> QED
  BY <1>1, <1>4, <1>5

LEMMA TxStutterInv == TxInv /\ UNCHANGED txVars => TxInv' /\ sent' = sent
  BY DEF TxInv, txVars, TxType, TxCount, TxOrder, TxDepth

-----------------------------------------------------------------------------
(* The turns of the main loop.                                             *)

(* The datagram that is being handled, or was handled last.                *)
Latest == IF first # 0 THEN first ELSE parsed

LEMMA LatestGrows ==
  RxInv /\ RxInv' /\ (\/ Rx!NET_UdpRx \/ Rx!NET_RxParse
                      \/ Rx!NET_VariateInit \/ UNCHANGED rxVars)
    => Latest <= Latest'
<1> SUFFICES ASSUME RxInv, RxInv',
                    \/ Rx!NET_UdpRx \/ Rx!NET_RxParse
                    \/ Rx!NET_VariateInit \/ UNCHANGED rxVars
             PROVE  Latest <= Latest'
  OBVIOUS
<1>1. first \in Nat /\ parsed \in Nat /\ first' \in Nat /\ parsed' \in Nat
  BY NetLoopAssumption DEF RxInv, RxType
<1>2. CASE Rx!NET_UdpRx \/ Rx!NET_VariateInit \/ UNCHANGED rxVars
  BY <1>1, <1>2 DEF Latest, Rx!NET_UdpRx, Rx!NET_VariateInit, rxVars
<1>3. CASE Rx!ParseFirstLine
  BY <1>1, <1>3 DEF Latest, Rx!ParseFirstLine, RxInv, RxOrder
<1>4. CASE Rx!ParseRest
  BY <1>1, <1>4 DEF Latest, Rx!ParseRest, RxInv, RxOrder
<1> QED
  BY <1>2, <1>3, <1>4 DEF Rx!NET_RxParse

LEMMA AnswersKept ==
  ASSUME RxInv, RxInv', TxInv, TxInv', AnswerOrder, Latest <= Latest',
         answers' = answers, built <= built'
  PROVE  AnswerOrder'
<1>1. \A m \in 1..MaxBuilt : answers[m] <= Latest'
  <2>1. Latest \in Nat /\ Latest' \in Nat
    BY NetLoopAssumption DEF Latest, RxInv, RxType
  <2>2. \A m \in 1..MaxBuilt : answers[m] <= Latest /\ answers[m] \in Nat
    BY NetLoopAssumption DEF AnswerOrder, Latest
  <2> QED
    BY <2>1, <2>2
<1>2. \A m \in 1..MaxBuilt : m > built' => answers[m] = 0
  BY NetLoopAssumption DEF AnswerOrder, TxInv, TxType
<1> QED
  BY <1>1, <1>2 DEF AnswerOrder, Latest

(* An answer is to the latest datagram.                                    *)
LEMMA AnswerAdds ==
  ASSUME RxInv, UNCHANGED rxVars, TxInv, Tx!Build, AnswerOrder,
         answers' = [answers EXCEPT ![built'] = first]
  PROVE  AnswerOrder'
<1>1. /\ built' = built + 1 /\ built' \in 1..MaxBuilt /\ built \in Nat
      /\ first' = first /\ parsed' = parsed
      /\ first \in 0..MaxReceived /\ parsed \in 0..MaxReceived
  BY NetLoopAssumption DEF Tx!Build, TxInv, TxType, RxInv, RxType, rxVars
<1>2. /\ answers' \in [1..MaxBuilt -> 0..MaxReceived]
      /\ answers'[built'] = first
      /\ \A m \in 1..MaxBuilt : m # built' => answers'[m] = answers[m]
  BY <1>1 DEF AnswerOrder
<1>3. \A m \in 1..MaxBuilt : m > built' => answers'[m] = 0
  BY <1>1, <1>2, NetLoopAssumption DEF AnswerOrder
<1>4. \A m \in 1..MaxBuilt : answers'[m] <= IF first' # 0 THEN first' ELSE parsed'
  BY <1>1, <1>2 DEF AnswerOrder
<1>5. \A m, n \in 1..MaxBuilt :
        m < n /\ answers'[n] # 0 => answers'[m] <= answers'[n]
  BY <1>1, <1>2, <1>3, NetLoopAssumption DEF AnswerOrder
<1> QED
  BY <1>2, <1>3, <1>4, <1>5 DEF AnswerOrder

(* What every step of NetLoop does to the two rings and to the answers.    *)
LEMMA RingSteps ==
  [Next]_vars =>
    /\ \/ Rx!NET_UdpRx \/ Rx!NET_RxParse
       \/ Rx!NET_VariateInit \/ UNCHANGED rxVars
    /\ \/ Tx!Build \/ Tx!NET_UdpTx(netok)
       \/ Tx!NET_VariateInit \/ UNCHANGED txVars
    /\ \/ answers' = answers
       \/ /\ UNCHANGED rxVars /\ Tx!Build
          /\ answers' = [answers EXCEPT ![built'] = first]
  BY DEF Next, MainLoop, Ethernet, Transmit, Receive, Answer, Parsed, Keys,
         NetlinkUp, Report, EndOfTurn, vars, Rx!NET_RxParse

LEMMA FlagsNext == Flags /\ [Next]_vars => Flags'
<1> SUFFICES ASSUME Flags, [Next]_vars PROVE Flags'
  OBVIOUS
<1>1. netok' = netok \/ netok' \in BOOLEAN
  BY DEF Next, MainLoop, Ethernet, Transmit, Receive, Answer, Parsed, Keys,
         NetlinkUp, Report, EndOfTurn, vars
<1>2. rxCongested' \in BOOLEAN
  BY RingSteps
  DEF Flags, Rx!NET_UdpRx, Rx!NET_RxParse, Rx!ParseFirstLine, Rx!ParseRest,
      Rx!NET_VariateInit, rxVars
<1>3. txCongested' \in BOOLEAN
  BY RingSteps
  DEF Flags, Tx!Build, Tx!NET_UdpTx, Tx!NET_VariateInit, txVars
<1> QED
  BY <1>1, <1>2, <1>3 DEF Flags

LEMMA ControlNext == Control /\ [Next]_vars => Control'
  BY NetLoopAssumption
  DEF Control, Next, MainLoop, Ethernet, Transmit, Receive, Answer, Parsed,
      Keys, NetlinkUp, Report, EndOfTurn, Goto, vars

LEMMA NextInv ==
  IInv /\ [Next]_vars
    => IInv' /\ (sent' = sent \/ (sent < sent' /\ sent' <= built))
<1> SUFFICES ASSUME IInv, [Next]_vars
             PROVE  IInv' /\ (sent' = sent \/ (sent < sent' /\ sent' <= built))
  OBVIOUS
<1> USE DEF IInv
<1>1. RxInv'
  BY RingSteps, UdpRxInv, FirstLineInv, RestOfMessageInv, RxFlushInv,
     RxStutterInv
  DEF Rx!NET_RxParse
<1>2. TxInv' /\ (sent' = sent \/ (sent < sent' /\ sent' <= built))
  BY RingSteps, BuildInv, UdpTxInv, TxFlushInv, TxStutterInv
<1>3. Latest <= Latest'
  BY <1>1, RingSteps, LatestGrows
<1>4. built <= built'
  <2>1. built' = built \/ built' = built + 1
    BY RingSteps DEF Tx!Build, Tx!NET_UdpTx, Tx!NET_VariateInit, txVars
  <2> QED
    BY <2>1, NetLoopAssumption DEF TxInv, TxType
<1>5. AnswerOrder'
  BY <1>1, <1>2, <1>3, <1>4, RingSteps, AnswersKept, AnswerAdds
<1>6. Flags' /\ Control'
  BY FlagsNext, ControlNext
<1> QED
  BY <1>1, <1>2, <1>5, <1>6

(* IInv is inductive: it holds in every state of every behaviour.          *)
THEOREM Invariance == Spec => []IInv
  BY InitInv, NextInv, PTL DEF Spec

(* For rings of any size, the indices stay inside them and the slots hold  *)
(* messages that came in or were built.                                    *)
THEOREM TypeCorrect == Spec => []TypeOK
<1>1. IInv => TypeOK
  <2> SUFFICES ASSUME IInv PROVE TypeOK
    OBVIOUS
  <2>1. Rx!TypeOK
    BY DEF IInv, RxInv, RxType, Flags, Rx!TypeOK
  <2>2. Tx!TypeOK
    BY SameRing DEF IInv, TxInv, TxType, Flags, Tx!TypeOK
  <2> QED
    BY <2>1, <2>2 DEF IInv, Flags, AnswerOrder, Control, TypeOK
<1> QED
  BY <1>1, Invariance, PTL

(* For rings of any size, a datagram is handled whole unless more of them  *)
(* came in meanwhile than there are slots.                                 *)
THEOREM WholeIsHandled == Spec => []HandledWhole
  BY Invariance, PTL DEF IInv, RxInv

(* For rings of any size and turns that build any number of messages,      *)
(* answers leave in the order of the requests and none leaves twice.       *)
THEOREM AnswersAreInOrder == Spec => AnswersInOrder
<1> DEFINE Kept == sent' # sent =>
                     /\ sent' > sent
                     /\ \A m \in 1..sent :
                          answers[sent'] # 0 => answers[m] <= answers[sent']
<1>1. IInv /\ [Next]_vars => Kept
  <2> SUFFICES ASSUME IInv, [Next]_vars, sent' # sent
               PROVE  /\ sent' > sent
                      /\ \A m \in 1..sent :
                           answers[sent'] # 0 => answers[m] <= answers[sent']
    OBVIOUS
  <2>1. sent < sent' /\ sent' <= built
    BY NextInv
  <2>2. sent \in Nat /\ sent' \in 1..MaxBuilt /\ built \in 0..MaxBuilt
    BY <2>1, NextInv, NetLoopAssumption DEF IInv, TxInv, TxType
  <2> QED
    BY <2>1, <2>2, NetLoopAssumption DEF IInv, AnswerOrder
<1> QED
  BY <1>1, Invariance, PTL DEF Spec, AnswersInOrder
-----------------------------------------------------------------------------
(* Both rings implement the safety part of DatagramQueue.                  *)

(* A ring that is not congested has counted right.                         *)
RxCounted == ~rxCongested => rxWaiting < N
TxCounted == ~txCongested => txWaiting < N

LEMMA RxCountedNext ==
  RxInv /\ RxInv' /\ RxCounted /\ [Next]_vars => RxCounted'
<1> SUFFICES ASSUME RxInv, RxInv', RxCounted, [Next]_vars PROVE RxCounted'
  OBVIOUS
<1>1. /\ rxWr \in Rx!Slot /\ rxRd \in Rx!Slot /\ rxWr' \in Rx!Slot
      /\ rxRd' \in Rx!Slot /\ rxWaiting' \in Nat
  BY NetLoopAssumption DEF RxInv, RxType
<1>2. CASE Rx!NET_UdpRx
  <2>1. ~rxCongested' => ~(rxWaiting' >= N)
    BY <1>2, Zenon DEF Rx!NET_UdpRx
  <2> QED
    BY <1>1, <2>1, NetLoopAssumption DEF RxCounted
<1>3. CASE Rx!NET_RxParse
  <2>1. rxWaiting' = Rx!Ahead(rxRd', rxWr)
    BY <1>3, Zenon DEF Rx!NET_RxParse, Rx!ParseFirstLine, Rx!ParseRest
  <2> QED
    BY <1>1, <2>1, AheadRange, NetLoopAssumption DEF RxCounted
<1>4. CASE Rx!NET_VariateInit
  BY <1>4, NetLoopAssumption DEF RxCounted, Rx!NET_VariateInit
<1>5. CASE UNCHANGED rxVars
  BY <1>5 DEF RxCounted, rxVars
<1> QED
  BY <1>2, <1>3, <1>4, <1>5, RingSteps

LEMMA TxCountedNext ==
  TxInv /\ TxInv' /\ TxCounted /\ [Next]_vars => TxCounted'
<1> SUFFICES ASSUME TxInv, TxInv', TxCounted, [Next]_vars PROVE TxCounted'
  OBVIOUS
<1>1. /\ txWr \in Rx!Slot /\ txRd \in Rx!Slot /\ txWr' \in Rx!Slot
      /\ txRd' \in Rx!Slot /\ txWaiting' \in Nat
  BY NetLoopAssumption DEF TxInv, TxType
<1>2. CASE Tx!Build
  <2>1. ~txCongested' => ~(txWaiting' >= N)
    BY <1>2, Zenon DEF Tx!Build
  <2> QED
    BY <1>1, <2>1, NetLoopAssumption DEF TxCounted
<1>3. CASE Tx!NET_UdpTx(netok)
  <2>1. txWaiting' = Rx!Ahead(txRd', txWr)
    BY <1>3, SameRing, Zenon DEF Tx!NET_UdpTx
  <2> QED
    BY <1>1, <2>1, AheadRange, NetLoopAssumption DEF TxCounted
<1>4. CASE Tx!NET_VariateInit
  BY <1>4, NetLoopAssumption DEF TxCounted, Tx!NET_VariateInit
<1>5. CASE UNCHANGED txVars
  BY <1>5 DEF TxCounted, txVars
<1> QED
  BY <1>2, <1>3, <1>4, <1>5, RingSteps

LEMMA CountedAlways == Spec => [](RxCounted /\ TxCounted)
<1>1. Init => RxCounted /\ TxCounted
  BY NetLoopAssumption DEF Init, Rx!Init, Tx!Init, RxCounted, TxCounted
<1>2. IInv /\ IInv' /\ RxCounted /\ TxCounted /\ [Next]_vars
        => RxCounted' /\ TxCounted'
  BY RxCountedNext, TxCountedNext DEF IInv
<1> QED
  BY <1>1, <1>2, Invariance, PTL DEF Spec

(* The slots from rd up to wr, as a sequence.                              *)
Content(slot, rd, wr) ==
    [i \in 1..Rx!Ahead(rd, wr) |-> slot[Rx!Further(rd, i - 1)]]

LEMMA FurtherSlot ==
  ASSUME NEW i \in Rx!Slot, NEW k \in 0..(N - 1)
  PROVE  /\ Rx!Further(i, k) \in Rx!Slot
         /\ Rx!Ahead(i, Rx!Further(i, k)) = k
  BY NetLoopAssumption DEF Rx!Slot, Rx!Further, Rx!Ahead

LEMMA FurtherEnd ==
  ASSUME NEW i \in Rx!Slot, NEW j \in Rx!Slot
  PROVE  Rx!Further(i, Rx!Ahead(i, j)) = j /\ Rx!Further(i, 0) = i
  BY NetLoopAssumption DEF Rx!Slot, Rx!Further, Rx!Ahead

LEMMA FurtherAfter ==
  ASSUME NEW i \in Rx!Slot, NEW k \in 0..(N - 2)
  PROVE  Rx!Further(Rx!After(i), k) = Rx!Further(i, k + 1)
  BY NetLoopAssumption DEF Rx!Slot, Rx!Further, Rx!After

LEMMA ContentType ==
  ASSUME NEW slot \in [Rx!Slot -> Nat], NEW rd \in Rx!Slot,
         NEW wr \in Rx!Slot
  PROVE  /\ Content(slot, rd, wr) \in Seq(Nat)
         /\ Len(Content(slot, rd, wr)) = Rx!Ahead(rd, wr)
         /\ \A i \in 1..Rx!Ahead(rd, wr) :
              Content(slot, rd, wr)[i] = slot[Rx!Further(rd, i - 1)]
<1>1. Rx!Ahead(rd, wr) \in Nat /\ Rx!Ahead(rd, wr) <= N - 1
  BY AheadRange, NetLoopAssumption
<1>2. \A i \in 1..Rx!Ahead(rd, wr) : slot[Rx!Further(rd, i - 1)] \in Nat
  BY <1>1, FurtherSlot, NetLoopAssumption
<1> QED
  BY <1>1, <1>2 DEF Content

LEMMA ContentEmpty ==
  ASSUME NEW slot \in [Rx!Slot -> Nat], NEW rd \in Rx!Slot
  PROVE  Content(slot, rd, rd) = <<>>
<1>1. Rx!Ahead(rd, rd) = 0
  BY AheadRange
<1>2. Content(slot, rd, rd) \in Seq(Nat) /\ Len(Content(slot, rd, rd)) = 0
  BY <1>1, ContentType
<1> QED
  BY <1>2, EmptySeq

LEMMA ContentWrites ==
  ASSUME NEW slot \in [Rx!Slot -> Nat], NEW rd \in Rx!Slot,
         NEW wr \in Rx!Slot, NEW e \in Nat, Rx!Ahead(rd, wr) < N - 1
  PROVE  Content([slot EXCEPT ![wr] = e], rd, Rx!After(wr))
           = Append(Content(slot, rd, wr), e)
<1> DEFINE after == [slot EXCEPT ![wr] = e]
           old == Content(slot, rd, wr)
           new == Content(after, rd, Rx!After(wr))
           n == Rx!Ahead(rd, wr)
<1>1. /\ after \in [Rx!Slot -> Nat] /\ Rx!After(wr) \in Rx!Slot
      /\ after[wr] = e
      /\ \A i \in Rx!Slot : i # wr => after[i] = slot[i]
  BY SlotAfter
<1> HIDE DEF after
<1>2. n \in Nat /\ Rx!Ahead(rd, Rx!After(wr)) = n + 1
  BY AheadWrites, AheadRange, NetLoopAssumption
<1>3. /\ old \in Seq(Nat) /\ Len(old) = n
      /\ \A i \in 1..n : old[i] = slot[Rx!Further(rd, i - 1)]
  BY ContentType
<1>4. /\ new \in Seq(Nat) /\ Len(new) = n + 1
      /\ \A i \in 1..(n + 1) : new[i] = after[Rx!Further(rd, i - 1)]
  <2>1. /\ new \in Seq(Nat) /\ Len(new) = Rx!Ahead(rd, Rx!After(wr))
        /\ \A i \in 1..Rx!Ahead(rd, Rx!After(wr)) :
             new[i] = after[Rx!Further(rd, i - 1)]
    BY <1>1, ContentType
  <2> QED
    BY <1>2, <2>1
<1> HIDE DEF old, new
<1>5. new[n + 1] = e
  <2>1. n + 1 \in 1..(n + 1) /\ (n + 1) - 1 = n
    BY <1>2
  <2>2. Rx!Further(rd, (n + 1) - 1) = wr
    BY <2>1, FurtherEnd
  <2> QED
    BY <1>1, <1>4, <2>1, <2>2
<1>6. ASSUME NEW i \in 1..n PROVE new[i] = old[i]
  <2>1. i - 1 \in 0..(N - 1) /\ i - 1 # n
    BY <1>2, NetLoopAssumption
  <2>2. Rx!Further(rd, i - 1) \in Rx!Slot /\ Rx!Further(rd, i - 1) # wr
    BY <2>1, FurtherSlot
  <2>3. i \in 1..(n + 1)
    BY <1>2
  <2> QED
    BY <1>1, <1>3, <1>4, <2>2, <2>3
<1> HIDE DEF n
<1> DEFINE app == Append(old, e)
<1>7. /\ app \in Seq(Nat) /\ Len(app) = n + 1
      /\ \A i \in 1..n : app[i] = old[i]
      /\ app[n + 1] = e
  <2>1. /\ app \in Seq(Nat) /\ Len(app) = Len(old) + 1
        /\ \A i \in 1..Len(old) : app[i] = old[i]
        /\ app[Len(old) + 1] = e
    BY <1>3, AppendProperties
  <2> QED
    BY <1>3, <2>1
<1> HIDE DEF app
<1>8. ASSUME NEW i \in 1..Len(new) PROVE new[i] = app[i]
  <2>1. i \in 1..n \/ i = n + 1
    BY <1>2, <1>4
  <2> QED
    BY <1>5, <1>6, <1>7, <2>1
<1>9. new = app
  BY <1>4, <1>7, <1>8, SeqEqual
<1> QED
  BY <1>9 DEF new, old, after, app

LEMMA ContentReads ==
  ASSUME NEW slot \in [Rx!Slot -> Nat], NEW rd \in Rx!Slot,
         NEW wr \in Rx!Slot, rd # wr
  PROVE  /\ Content(slot, rd, wr) # <<>>
         /\ Head(Content(slot, rd, wr)) = slot[rd]
         /\ Tail(Content(slot, rd, wr)) = Content(slot, Rx!After(rd), wr)
<1> DEFINE old == Content(slot, rd, wr)
           new == Content(slot, Rx!After(rd), wr)
           n == Rx!Ahead(rd, wr)
<1>1. Rx!After(rd) \in Rx!Slot
  BY SlotAfter
<1>2. n \in 1..(N - 1) /\ Rx!Ahead(Rx!After(rd), wr) = n - 1
  BY AheadReads, AheadRange, NetLoopAssumption
<1>3. /\ old \in Seq(Nat) /\ Len(old) = n
      /\ \A i \in 1..n : old[i] = slot[Rx!Further(rd, i - 1)]
  BY ContentType
<1>4. /\ new \in Seq(Nat) /\ Len(new) = n - 1
      /\ \A i \in 1..(n - 1) : new[i] = slot[Rx!Further(Rx!After(rd), i - 1)]
  <2>1. /\ new \in Seq(Nat) /\ Len(new) = Rx!Ahead(Rx!After(rd), wr)
        /\ \A i \in 1..Rx!Ahead(Rx!After(rd), wr) :
             new[i] = slot[Rx!Further(Rx!After(rd), i - 1)]
    BY <1>1, ContentType
  <2> QED
    BY <1>2, <2>1
<1> HIDE DEF old, new
<1>5. \A i \in 1..(n - 1) : new[i] = old[i + 1]
  <2> SUFFICES ASSUME NEW i \in 1..(n - 1) PROVE new[i] = old[i + 1]
    OBVIOUS
  <2>1. i - 1 \in 0..(N - 2) /\ i + 1 \in 1..n /\ (i + 1) - 1 = (i - 1) + 1
    BY <1>2, NetLoopAssumption
  <2>2. Rx!Further(Rx!After(rd), i - 1) = Rx!Further(rd, (i + 1) - 1)
    BY <2>1, FurtherAfter
  <2> QED
    BY <1>3, <1>4, <2>1, <2>2
<1>6. old[1] = slot[rd]
  BY <1>2, <1>3, FurtherEnd
<1> HIDE DEF n
<1>7. old # <<>> /\ Head(old) = old[1]
  BY <1>2, <1>3
<1>8. /\ Tail(old) \in Seq(Nat) /\ Len(Tail(old)) = n - 1
      /\ \A i \in 1..(n - 1) : Tail(old)[i] = old[i + 1]
  BY <1>2, <1>3, <1>7, HeadTailProperties
<1>9. Tail(old) = new
  BY <1>2, <1>4, <1>5, <1>8, SeqEqual
<1> QED
  BY <1>6, <1>7, <1>9 DEF new, old

(* What the receive ring holds for the queue.                              *)
LEMMA ReceiveInit == Init => Rx!Queue!Init
<1> SUFFICES ASSUME Init PROVE Rx!Queue!Init
  OBVIOUS
<1>1. rxRd \in Rx!Slot /\ rxWr \in Rx!Slot /\ rxRd = rxWr /\ ~rxCongested
      /\ received = 0 /\ parsed = 0 /\ rxCongested = FALSE
      /\ rxSlot \in [Rx!Slot -> Nat]
  BY NetLoopAssumption DEF Init, Rx!Init, Rx!Slot
<1>2. Rx!Waiting = Content(rxSlot, rxRd, rxWr)
  BY <1>1 DEF Rx!Waiting, Content
<1>3. Content(rxSlot, rxRd, rxWr) = <<>>
  BY <1>1, ContentEmpty
<1> QED
  BY <1>1, <1>2, <1>3 DEF Rx!Queue!Init

LEMMA ReceiveStep ==
  RxInv /\ RxInv' /\ Flags /\ RxCounted /\ [Next]_vars
    => [Rx!Queue!Next]_(Rx!Queue!vars)
<1> SUFFICES ASSUME RxInv, RxInv', Flags, RxCounted, [Next]_vars
             PROVE  Rx!Queue!Next \/ UNCHANGED Rx!Queue!vars
  OBVIOUS
<1> DEFINE content == Content(rxSlot, rxRd, rxWr)
<1>1. /\ rxSlot \in [Rx!Slot -> Nat]
      /\ rxWr \in Rx!Slot /\ rxRd \in Rx!Slot
      /\ received \in Nat /\ parsed \in Nat /\ rxWaiting \in Nat
      /\ received' \in 0..MaxReceived /\ received' \in Nat
      /\ parsed <= received
  BY NetLoopAssumption DEF RxInv, RxType, RxOrder
<1>2. /\ rxCongested => Rx!Waiting = <<>>
      /\ ~rxCongested => Rx!Waiting = content
      /\ rxCongested' => Rx!Waiting' = <<>>
      /\ ~rxCongested' => Rx!Waiting' = Content(rxSlot', rxRd', rxWr')
  BY DEF Rx!Waiting, Content
<1>3. Len(content) = Rx!Ahead(rxRd, rxWr)
  BY <1>1, ContentType
<1>4. ~rxCongested => rxWaiting = Rx!Ahead(rxRd, rxWr) /\ rxWaiting < N
  BY <1>1, NetLoopAssumption DEF RxInv, RxCount, RxCounted
<1> HIDE DEF content
<1>5. CASE Rx!NET_UdpRx
  <2>1. /\ received < MaxReceived /\ received' = received + 1
        /\ parsed' = parsed /\ rxRd' = rxRd
        /\ rxWaiting' = rxWaiting + 1
        /\ rxSlot' = [rxSlot EXCEPT ![rxWr] = received']
        /\ rxWr' = Rx!After(rxWr)
    BY <1>5 DEF Rx!NET_UdpRx
  <2>2. /\ rxWaiting' >= N => rxCongested'
        /\ ~(rxWaiting' >= N) /\ ~rxCongested => ~rxCongested'
        /\ rxCongested => rxCongested'
    BY <1>5, Zenon DEF Rx!NET_UdpRx
  <2>3. rxCongested' \in BOOLEAN
    BY <1>5, Zenon DEF Rx!NET_UdpRx
  <2>4. CASE rxCongested
    <3>1. Rx!Waiting = <<>> /\ Rx!Waiting' = <<>>
      BY <1>2, <2>2, <2>4, Zenon
    <3>2. received' \in received..MaxReceived /\ parsed' \in parsed..received
      BY <1>1, <2>1, NetLoopAssumption
    <3> QED
      BY <2>3, <2>4, <3>1, <3>2, Zenon DEF Rx!Queue!Next, Rx!Queue!Lose
  <2>5. CASE ~rxCongested /\ rxWaiting' >= N
    <3>1. Rx!Waiting = content /\ Rx!Waiting' = <<>>
      BY <1>2, <2>2, <2>5, Zenon
    <3>2. Len(Rx!Waiting) = N - 1
      BY <1>1, <1>3, <1>4, <2>1, <2>5, <3>1, NetLoopAssumption
    <3>3. rxCongested' = TRUE
      BY <2>2, <2>3, <2>5, Zenon
    <3> QED
      BY <2>1, <3>1, <3>2, <3>3, Zenon DEF Rx!Queue!Next, Rx!Queue!Congest
  <2>6. CASE ~rxCongested /\ ~(rxWaiting' >= N)
    <3>1. Rx!Waiting = content /\ Rx!Waiting' = Content(rxSlot', rxRd', rxWr')
      BY <1>2, <2>2, <2>6, Zenon
    <3>2. Rx!Ahead(rxRd, rxWr) < N - 1 /\ Len(Rx!Waiting) < N - 1
      BY <1>1, <1>3, <1>4, <2>1, <2>6, <3>1, NetLoopAssumption
    <3>3. Rx!Waiting' = Append(Rx!Waiting, received')
      <4>1. Content([rxSlot EXCEPT ![rxWr] = received'], rxRd, Rx!After(rxWr))
              = Append(Content(rxSlot, rxRd, rxWr), received')
        BY <1>1, <3>2, ContentWrites
      <4> QED
        BY <2>1, <3>1, <4>1, Zenon DEF content
    <3>4. rxCongested' = rxCongested
      BY <2>2, <2>3, <2>6, Zenon DEF Flags
    <3> QED
      BY <2>1, <2>6, <3>2, <3>3, <3>4, Zenon DEF Rx!Queue!Next, Rx!Queue!Receive
  <2> QED
    BY <2>4, <2>5, <2>6, Zenon
<1>6. CASE Rx!ParseFirstLine \/ UNCHANGED rxVars
  <2>1. /\ rxSlot' = rxSlot /\ rxRd' = rxRd /\ rxWr' = rxWr
        /\ received' = received /\ parsed' = parsed
        /\ rxCongested' = rxCongested
    BY <1>6, Zenon DEF Rx!ParseFirstLine, rxVars
  <2>2. Rx!Waiting' = Rx!Waiting
    BY <2>1 DEF Rx!Waiting
  <2> QED
    BY <2>1, <2>2, Zenon DEF Rx!Queue!vars
<1>7. CASE Rx!ParseRest
  <2>1. /\ parsed' = rxSlot[rxRd] /\ received' = received
        /\ rxRd' = Rx!After(rxRd) /\ rxWr' = rxWr /\ rxSlot' = rxSlot
        /\ rxWaiting' = Rx!Ahead(rxRd', rxWr) /\ first # 0
    BY <1>7 DEF Rx!ParseRest
  <2>2. /\ rxCongested' \in BOOLEAN
        /\ rxCongested /\ ~rxCongested' => rxRd' = rxWr
        /\ ~rxCongested => ~rxCongested'
    BY <1>7, Zenon DEF Rx!ParseRest
  <2>3. parsed <= rxSlot[rxRd] /\ rxSlot[rxRd] <= received
    <3>1. 0 < RxDepth /\ Rx!Ahead(rxRd, rxRd) = 0
      BY <1>1, <2>1, AheadRange, NetLoopAssumption DEF RxDepth
    <3> QED
      BY <1>1, <3>1, NetLoopAssumption DEF RxInv, RxOrder
  <2>4. CASE rxCongested
    <3>1. Rx!Waiting = <<>>
      BY <1>2, <2>4, Zenon
    <3>2. Rx!Waiting' = <<>>
      <4>1. CASE rxCongested'
        BY <1>2, <4>1, Zenon
      <4>2. CASE ~rxCongested'
        <5>1. rxRd' = rxWr /\ Rx!Waiting' = Content(rxSlot, rxRd', rxWr)
          BY <1>2, <2>1, <2>2, <2>4, <4>2, Zenon
        <5> QED
          BY <1>1, <5>1, ContentEmpty
      <4> QED
        BY <4>1, <4>2, Zenon
    <3>3. received' \in received..MaxReceived /\ parsed' \in parsed..received
      BY <1>1, <2>1, <2>3, NetLoopAssumption
    <3> QED
      BY <2>2, <2>4, <3>1, <3>2, <3>3, Zenon DEF Rx!Queue!Next, Rx!Queue!Lose
  <2>5. CASE ~rxCongested
    <3>1. Rx!Waiting = content /\ Rx!Waiting' = Content(rxSlot, rxRd', rxWr)
      BY <1>2, <2>1, <2>2, <2>5, Zenon
    <3>2. rxRd # rxWr
      BY <1>1, <1>4, <2>1, <2>5, AheadRange, NetLoopAssumption
      DEF RxInv, RxCount
    <3>3. /\ Rx!Waiting # <<>> /\ parsed' = Head(Rx!Waiting)
          /\ Rx!Waiting' = Tail(Rx!Waiting)
      BY <1>1, <2>1, <3>1, <3>2, ContentReads DEF content
    <3>4. rxCongested' = rxCongested
      BY <2>2, <2>5, Zenon DEF Flags
    <3> QED
      BY <2>1, <3>3, <3>4, Zenon DEF Rx!Queue!Next, Rx!Queue!Handle
  <2> QED
    BY <2>4, <2>5, Zenon
<1>8. CASE Rx!NET_VariateInit
  <2>1. /\ rxWr' = 0 /\ rxRd' = 0 /\ rxCongested' = FALSE
        /\ rxSlot' = rxSlot /\ received' = received /\ parsed' = parsed
    BY <1>8 DEF Rx!NET_VariateInit
  <2>2. Rx!Waiting' = Content(rxSlot, 0, 0)
    BY <1>2, <2>1
  <2>3. 0 \in Rx!Slot
    BY NetLoopAssumption DEF Rx!Slot
  <2>4. Rx!Waiting' = <<>>
    BY <1>1, <2>2, <2>3, ContentEmpty
  <2> QED
    BY <2>1, <2>4, Zenon DEF Rx!Queue!Next, Rx!Queue!Flush
<1> QED
  BY <1>5, <1>6, <1>7, <1>8, RingSteps, Zenon DEF Rx!NET_RxParse

(* The receive ring of NetLoop, of any size and in whatever turns, is the  *)
(* queue of DatagramQueue, overruns and flushes included (NET_UdpRx,       *)
(* NET_RxParse, NET_VariateInit).                                          *)
THEOREM ReceiveRefinesQueue == Spec => Rx!Queue!Safety
<1>1. IInv /\ IInv' /\ RxCounted /\ [Next]_vars
        => [Rx!Queue!Next]_(Rx!Queue!vars)
  BY ReceiveStep DEF IInv
<1> QED
  BY ReceiveInit, <1>1, Invariance, CountedAlways, PTL
  DEF Spec, Rx!Queue!Safety

(* The same of the transmit ring.                                          *)
LEMMA TransmitInit == Init => Tx!Queue!Init
<1> SUFFICES ASSUME Init PROVE Tx!Queue!Init
  OBVIOUS
<1>1. txRd \in Rx!Slot /\ txWr \in Rx!Slot /\ txRd = txWr /\ ~txCongested
      /\ built = 0 /\ passed = 0 /\ txCongested = FALSE
      /\ txSlot \in [Rx!Slot -> Nat]
  BY NetLoopAssumption, SameRing DEF Init, Tx!Init, Rx!Slot
<1>2. Tx!Waiting = Content(txSlot, txRd, txWr)
  BY <1>1
  DEF Tx!Waiting, Content, Tx!Ahead, Rx!Ahead, Tx!Further, Rx!Further
<1>3. Content(txSlot, txRd, txWr) = <<>>
  BY <1>1, ContentEmpty
<1> QED
  BY <1>1, <1>2, <1>3 DEF Tx!Queue!Init

LEMMA TransmitStep ==
  TxInv /\ TxInv' /\ Flags /\ TxCounted /\ [Next]_vars
    => [Tx!Queue!Next]_(Tx!Queue!vars)
<1> SUFFICES ASSUME TxInv, TxInv', Flags, TxCounted, [Next]_vars
             PROVE  Tx!Queue!Next \/ UNCHANGED Tx!Queue!vars
  OBVIOUS
<1> DEFINE content == Content(txSlot, txRd, txWr)
<1>1. /\ txSlot \in [Rx!Slot -> Nat]
      /\ txWr \in Rx!Slot /\ txRd \in Rx!Slot
      /\ built \in Nat /\ passed \in Nat /\ txWaiting \in Nat
      /\ built' \in 0..MaxBuilt /\ built' \in Nat
      /\ passed <= built
  BY NetLoopAssumption DEF TxInv, TxType, TxOrder
<1>2. /\ txCongested => Tx!Waiting = <<>>
      /\ ~txCongested => Tx!Waiting = content
      /\ txCongested' => Tx!Waiting' = <<>>
      /\ ~txCongested' => Tx!Waiting' = Content(txSlot', txRd', txWr')
  BY DEF Tx!Waiting, Content, Tx!Ahead, Rx!Ahead, Tx!Further, Rx!Further
<1>3. Len(content) = Rx!Ahead(txRd, txWr)
  BY <1>1, ContentType
<1>4. ~txCongested => txWaiting = Rx!Ahead(txRd, txWr) /\ txWaiting < N
  BY <1>1, NetLoopAssumption DEF TxInv, TxCount, TxCounted
<1> HIDE DEF content
<1>5. CASE Tx!Build
  <2>1. /\ built < MaxBuilt /\ built' = built + 1
        /\ passed' = passed /\ txRd' = txRd
        /\ txWaiting' = txWaiting + 1
        /\ txSlot' = [txSlot EXCEPT ![txWr] = built']
        /\ txWr' = Rx!After(txWr)
    BY <1>5, SameRing DEF Tx!Build
  <2>2. /\ txWaiting' >= N => txCongested'
        /\ ~(txWaiting' >= N) /\ ~txCongested => ~txCongested'
        /\ txCongested => txCongested'
    BY <1>5, Zenon DEF Tx!Build
  <2>3. txCongested' \in BOOLEAN
    BY <1>5, Zenon DEF Tx!Build
  <2>4. CASE txCongested
    <3>1. Tx!Waiting = <<>> /\ Tx!Waiting' = <<>>
      BY <1>2, <2>2, <2>4, Zenon
    <3>2. built' \in built..MaxBuilt /\ passed' \in passed..built
      BY <1>1, <2>1, NetLoopAssumption
    <3> QED
      BY <2>3, <2>4, <3>1, <3>2, Zenon DEF Tx!Queue!Next, Tx!Queue!Lose
  <2>5. CASE ~txCongested /\ txWaiting' >= N
    <3>1. Tx!Waiting = content /\ Tx!Waiting' = <<>>
      BY <1>2, <2>2, <2>5, Zenon
    <3>2. Len(Tx!Waiting) = N - 1
      BY <1>1, <1>3, <1>4, <2>1, <2>5, <3>1, NetLoopAssumption
    <3>3. txCongested' = TRUE
      BY <2>2, <2>3, <2>5, Zenon
    <3> QED
      BY <2>1, <3>1, <3>2, <3>3, Zenon DEF Tx!Queue!Next, Tx!Queue!Congest
  <2>6. CASE ~txCongested /\ ~(txWaiting' >= N)
    <3>1. Tx!Waiting = content /\ Tx!Waiting' = Content(txSlot', txRd', txWr')
      BY <1>2, <2>2, <2>6, Zenon
    <3>2. Rx!Ahead(txRd, txWr) < N - 1 /\ Len(Tx!Waiting) < N - 1
      BY <1>1, <1>3, <1>4, <2>1, <2>6, <3>1, NetLoopAssumption
    <3>3. Tx!Waiting' = Append(Tx!Waiting, built')
      <4>1. Content([txSlot EXCEPT ![txWr] = built'], txRd, Rx!After(txWr))
              = Append(Content(txSlot, txRd, txWr), built')
        BY <1>1, <3>2, ContentWrites
      <4> QED
        BY <2>1, <3>1, <4>1, Zenon DEF content
    <3>4. txCongested' = txCongested
      BY <2>2, <2>3, <2>6, Zenon DEF Flags
    <3> QED
      BY <2>1, <2>6, <3>2, <3>3, <3>4, Zenon DEF Tx!Queue!Next, Tx!Queue!Receive
  <2> QED
    BY <2>4, <2>5, <2>6, Zenon
<1>6. CASE Tx!NET_UdpTx(netok)
  <2>1. /\ passed' = txSlot[txRd] /\ built' = built
        /\ txRd' = Rx!After(txRd) /\ txWr' = txWr /\ txSlot' = txSlot
        /\ txRd # txWr
    BY <1>6, SameRing DEF Tx!NET_UdpTx
  <2>2. /\ txCongested' \in BOOLEAN
        /\ txCongested /\ ~txCongested' => txRd' = txWr
        /\ ~txCongested => ~txCongested'
    BY <1>6, Zenon DEF Tx!NET_UdpTx
  <2>3. passed <= txSlot[txRd] /\ txSlot[txRd] <= built
    <3>1. 0 < TxDepth /\ Rx!Ahead(txRd, txRd) = 0
      BY <1>1, <2>1, AheadRange, NetLoopAssumption DEF TxDepth
    <3> QED
      BY <1>1, <3>1, NetLoopAssumption DEF TxInv, TxOrder
  <2>4. CASE txCongested
    <3>1. Tx!Waiting = <<>>
      BY <1>2, <2>4, Zenon
    <3>2. Tx!Waiting' = <<>>
      <4>1. CASE txCongested'
        BY <1>2, <4>1, Zenon
      <4>2. CASE ~txCongested'
        <5>1. txRd' = txWr /\ Tx!Waiting' = Content(txSlot, txRd', txWr)
          BY <1>2, <2>1, <2>2, <2>4, <4>2, Zenon
        <5> QED
          BY <1>1, <5>1, ContentEmpty
      <4> QED
        BY <4>1, <4>2, Zenon
    <3>3. built' \in built..MaxBuilt /\ passed' \in passed..built
      BY <1>1, <2>1, <2>3, NetLoopAssumption
    <3> QED
      BY <2>2, <2>4, <3>1, <3>2, <3>3, Zenon DEF Tx!Queue!Next, Tx!Queue!Lose
  <2>5. CASE ~txCongested
    <3>1. Tx!Waiting = content /\ Tx!Waiting' = Content(txSlot, txRd', txWr)
      BY <1>2, <2>1, <2>2, <2>5, Zenon
    <3>2. /\ Tx!Waiting # <<>> /\ passed' = Head(Tx!Waiting)
          /\ Tx!Waiting' = Tail(Tx!Waiting)
      BY <1>1, <2>1, <3>1, ContentReads DEF content
    <3>3. txCongested' = txCongested
      BY <2>2, <2>5, Zenon DEF Flags
    <3> QED
      BY <2>1, <3>2, <3>3, Zenon DEF Tx!Queue!Next, Tx!Queue!Handle
  <2> QED
    BY <2>4, <2>5, Zenon
<1>7. CASE Tx!NET_VariateInit
  <2>1. /\ txWr' = 0 /\ txRd' = 0 /\ txCongested' = FALSE
        /\ txSlot' = txSlot /\ built' = built /\ passed' = passed
    BY <1>7 DEF Tx!NET_VariateInit
  <2>2. Tx!Waiting' = Content(txSlot, 0, 0)
    BY <1>2, <2>1
  <2>3. 0 \in Rx!Slot
    BY NetLoopAssumption DEF Rx!Slot
  <2>4. Tx!Waiting' = <<>>
    BY <1>1, <2>2, <2>3, ContentEmpty
  <2> QED
    BY <2>1, <2>4, Zenon DEF Tx!Queue!Next, Tx!Queue!Flush
<1>8. CASE UNCHANGED txVars
  <2>1. /\ txSlot' = txSlot /\ txRd' = txRd /\ txWr' = txWr
        /\ built' = built /\ passed' = passed
        /\ txCongested' = txCongested
    BY <1>8, Zenon DEF txVars
  <2>2. Tx!Waiting' = Tx!Waiting
    BY <2>1 DEF Tx!Waiting
  <2> QED
    BY <2>1, <2>2, Zenon DEF Tx!Queue!vars
<1> QED
  BY <1>5, <1>6, <1>7, <1>8, RingSteps, Zenon

(* The transmit ring of NetLoop, of any size and in whatever turns, is the *)
(* queue of DatagramQueue, overruns and flushes included (NET_TxPcbLenWr,  *)
(* NET_UdpTx, NET_VariateInit).                                            *)
THEOREM TransmitRefinesQueue == Spec => Tx!Queue!Safety
<1>1. IInv /\ IInv' /\ TxCounted /\ [Next]_vars
        => [Tx!Queue!Next]_(Tx!Queue!vars)
  BY TransmitStep DEF IInv
<1> QED
  BY TransmitInit, <1>1, Invariance, CountedAlways, PTL
  DEF Spec, Tx!Queue!Safety

-----------------------------------------------------------------------------
(* What the queue is good for: the messages that wait are the last ones    *)
(* that came in, without a gap.                                            *)
Consecutive(q, last) == \A i \in 1..Len(q) : q[i] + Len(q) = last + i

LEMMA EmptyConsecutive == ASSUME NEW last PROVE Consecutive(<<>>, last)
  BY DEF Consecutive

LEMMA AppendConsecutive ==
  ASSUME NEW q \in Seq(Nat), NEW last \in Nat, Consecutive(q, last)
  PROVE  Consecutive(Append(q, last + 1), last + 1)
<1> DEFINE new == Append(q, last + 1)
<1>1. /\ Len(new) = Len(q) + 1 /\ Len(q) \in Nat
      /\ \A i \in 1..Len(q) : new[i] = q[i]
      /\ new[Len(q) + 1] = last + 1
  BY AppendProperties
<1>2. \A i \in 1..Len(q) : q[i] \in Nat
  OBVIOUS
<1> HIDE DEF new
<1>3. ASSUME NEW i \in 1..Len(new) PROVE new[i] + Len(new) = (last + 1) + i
  <2>1. CASE i \in 1..Len(q)
    <3>1. q[i] \in Nat /\ new[i] = q[i] /\ q[i] + Len(q) = last + i
      BY <1>1, <1>2, <2>1 DEF Consecutive
    <3>2. Len(q) \in Nat /\ Len(new) = Len(q) + 1 /\ i \in Nat
      BY <1>1, <2>1
    <3> QED
      BY <3>1, <3>2
  <2>2. CASE i = Len(q) + 1
    BY <1>1, <2>2
  <2> QED
    BY <1>1, <2>1, <2>2
<1> QED
  BY <1>3 DEF new, Consecutive

LEMMA TailConsecutive ==
  ASSUME NEW q \in Seq(Nat), NEW last \in Nat, q # <<>>, Consecutive(q, last)
  PROVE  Consecutive(Tail(q), last)
<1>1. /\ Len(q) \in Nat \ {0} /\ Len(Tail(q)) = Len(q) - 1
      /\ \A i \in 1..Len(Tail(q)) : Tail(q)[i] = q[i + 1]
  BY HeadTailProperties, EmptySeq
<1>2. \A i \in 1..Len(q) : q[i] \in Nat
  OBVIOUS
<1>3. ASSUME NEW i \in 1..Len(Tail(q)) PROVE Tail(q)[i] + Len(Tail(q)) = last + i
  <2>1. i + 1 \in 1..Len(q) /\ q[i + 1] + Len(q) = last + (i + 1)
    BY <1>1 DEF Consecutive
  <2>2. /\ q[i + 1] \in Nat /\ Tail(q)[i] = q[i + 1]
        /\ Len(q) \in Nat /\ Len(Tail(q)) = Len(q) - 1 /\ i \in Nat
    BY <1>1, <1>2, <2>1
  <2> QED
    BY <2>1, <2>2
<1> QED
  BY <1>3 DEF Consecutive

(* Every step of the queue keeps its messages consecutive.                 *)
LEMMA ReceiveConsecutive ==
  ASSUME RxInv, Consecutive(Rx!Waiting, received),
         [Rx!Queue!Next]_(Rx!Queue!vars)
  PROVE  Consecutive(Rx!Waiting, received)'
<1>1. received \in Nat
  BY NetLoopAssumption DEF RxInv, RxType
<1>2. Rx!Waiting \in Seq(Nat)
  <2>1. Content(rxSlot, rxRd, rxWr) \in Seq(Nat)
    <3>1. rxSlot \in [Rx!Slot -> Nat] /\ rxRd \in Rx!Slot /\ rxWr \in Rx!Slot
      BY NetLoopAssumption DEF RxInv, RxType
    <3> QED
      BY <3>1, ContentType
  <2> QED
    BY <2>1 DEF Rx!Waiting, Content
<1>3. rxCongested => Rx!Waiting = <<>>
  BY DEF Rx!Waiting
<1>4. CASE Rx!Queue!Receive
  BY <1>1, <1>2, <1>4, AppendConsecutive DEF Rx!Queue!Receive
<1>5. CASE Rx!Queue!Handle
  BY <1>1, <1>2, <1>5, TailConsecutive DEF Rx!Queue!Handle
<1>6. CASE Rx!Queue!Congest \/ Rx!Queue!Lose \/ Rx!Queue!Flush
  <2>1. Rx!Waiting' = <<>>
    BY <1>3, <1>6, Zenon DEF Rx!Queue!Congest, Rx!Queue!Lose, Rx!Queue!Flush
  <2> QED
    BY <2>1, EmptyConsecutive
<1>7. CASE UNCHANGED Rx!Queue!vars
  BY <1>7 DEF Rx!Queue!vars
<1> QED
  BY <1>4, <1>5, <1>6, <1>7 DEF Rx!Queue!Next

LEMMA TransmitConsecutive ==
  ASSUME TxInv, Consecutive(Tx!Waiting, built),
         [Tx!Queue!Next]_(Tx!Queue!vars)
  PROVE  Consecutive(Tx!Waiting, built)'
<1>1. built \in Nat
  BY NetLoopAssumption DEF TxInv, TxType
<1>2. Tx!Waiting \in Seq(Nat)
  <2>1. Content(txSlot, txRd, txWr) \in Seq(Nat)
    <3>1. txSlot \in [Rx!Slot -> Nat] /\ txRd \in Rx!Slot /\ txWr \in Rx!Slot
      BY NetLoopAssumption DEF TxInv, TxType
    <3> QED
      BY <3>1, ContentType
  <2> QED
    <3>1. Tx!Waiting = IF txCongested THEN <<>> ELSE Content(txSlot, txRd, txWr)
      BY SameRing DEF Tx!Waiting, Content, Tx!Further, Rx!Further
    <3> QED
      BY <2>1, <3>1
<1>3. txCongested => Tx!Waiting = <<>>
  BY DEF Tx!Waiting
<1>4. CASE Tx!Queue!Receive
  BY <1>1, <1>2, <1>4, AppendConsecutive DEF Tx!Queue!Receive
<1>5. CASE Tx!Queue!Handle
  BY <1>1, <1>2, <1>5, TailConsecutive DEF Tx!Queue!Handle
<1>6. CASE Tx!Queue!Congest \/ Tx!Queue!Lose \/ Tx!Queue!Flush
  <2>1. Tx!Waiting' = <<>>
    BY <1>3, <1>6, Zenon DEF Tx!Queue!Congest, Tx!Queue!Lose, Tx!Queue!Flush
  <2> QED
    BY <2>1, EmptyConsecutive
<1>7. CASE UNCHANGED Tx!Queue!vars
  BY <1>7 DEF Tx!Queue!vars
<1> QED
  BY <1>4, <1>5, <1>6, <1>7 DEF Tx!Queue!Next

(* For rings of every size: what waits in a ring that is not congested is  *)
(* exactly the last messages that came in, none missing and none twice, so *)
(* that what was lost was lost by an overrun or by a flush (NET_UdpRx,     *)
(* NET_TxPcbLenWr).                                                        *)
THEOREM NoneIsMissing ==
  Spec => [](Consecutive(Rx!Waiting, received) /\ Consecutive(Tx!Waiting, built))
<1> DEFINE NoGap == Consecutive(Rx!Waiting, received) /\ Consecutive(Tx!Waiting, built)
<1>1. Init => NoGap
  BY ReceiveInit, TransmitInit, EmptyConsecutive DEF Rx!Queue!Init, Tx!Queue!Init
<1>2. IInv /\ IInv' /\ RxCounted /\ TxCounted /\ NoGap /\ [Next]_vars => NoGap'
  BY ReceiveStep, TransmitStep, ReceiveConsecutive, TransmitConsecutive DEF IInv
<1> QED
  BY <1>1, <1>2, Invariance, CountedAlways, PTL DEF Spec
=============================================================================
