-------------------------- MODULE AudioRingsProofs -------------------------
(***************************************************************************)
(* The invariants and the action properties of AudioRings, for rings of    *)
(* any size and any number of frames.                                      *)
(***************************************************************************)
EXTENDS AudioRings, TLAPS

TxIndices == {"rtp_tx_num", "gRtpTxNum"}

(* The slots ahead of a reader, oldest first, hold the last frames that    *)
(* came in.                                                                *)
Exact(buf, reader, depth, last) ==
    \A i \in Slot : Ahead(reader, i) < depth
                      => buf[i] + depth = last + 1 + Ahead(reader, i)

-----------------------------------------------------------------------------
(* Capture.                                                                *)

(* While a frame is copied its reader is sure to move on, so that equal    *)
(* indices mean a full ring.                                               *)
TxDepth == IF copying # 0 /\ gRtpTxNum = rtp_tx_num THEN N
           ELSE Ahead(gRtpTxNum, rtp_tx_num)

(* With both indices stored, the slots ahead of the reader are later than  *)
(* the last packet and than the opening of the recording.                  *)
CaptureExact ==
    stores \cap TxIndices = {} =>
      /\ Exact(gRtpTxBuf, gRtpTxNum, TxDepth, captured)
      /\ sent + TxDepth <= captured
      /\ fresh + TxDepth <= captured

(* With only the writer stored, it has written one frame at most.          *)
CaptureBegins ==
    "rtp_tx_num" \notin stores /\ "gRtpTxNum" \in stores =>
      \/ rtp_tx_num = 0
      \/ /\ rtp_tx_num = 1 /\ gRtpTxBuf[0] = captured
         /\ sent < captured /\ fresh < captured /\ "capture" \in dma

(* With only the reader stored, it waits at 0.                             *)
CaptureWaits ==
    "rtp_tx_num" \in stores /\ "gRtpTxNum" \notin stores => gRtpTxNum = 0

(* The slot that is copied is still there: one capture at most came in     *)
(* between, and not into this slot.                                        *)
CopyExact ==
    copying # 0 =>
      /\ stores = {} /\ stop = 0
      /\ gRtpTxBuf[gRtpTxNum] = copying
      /\ gRtpTxNum = rtp_tx_num => "capture" \in dma

CaptureInv ==
    /\ sent <= captured /\ fresh <= captured
    /\ CaptureExact /\ CaptureBegins /\ CaptureWaits /\ CopyExact

-----------------------------------------------------------------------------
(* Playback.                                                               *)

RxDepth == Ahead(rtp_rx_num, gRtpRxNum)

(* Unless the reset was cut, the slots ahead of the reader are later than  *)
(* the last frame played and, once both indices are stored, than the reset.*)
PlaybackExact ==
    cut = 0 /\ stores \cap PlayIndices \in {{}, PlayIndices} =>
      /\ Exact(gRtpRxBuf, rtp_rx_num, RxDepth, received)
      /\ played + RxDepth <= received
      /\ stores \cap PlayIndices = {} => old + RxDepth <= received

(* With only the writer stored, the frames since are those from slot 0.    *)
PlaybackBegins ==
    "gRtpRxNum" \notin stores /\ "rtp_rx_num" \in stores =>
      /\ Exact(gRtpRxBuf, 0, Ahead(0, gRtpRxNum), received)
      /\ old + Ahead(0, gRtpRxNum) <= received
      /\ cut = 0 => played + Ahead(0, gRtpRxNum) <= received

(* With only the reader stored, it is at 0, or at 1 if the reset was cut.  *)
PlaybackWaits ==
    "gRtpRxNum" \in stores /\ "rtp_rx_num" \notin stores =>
      rtp_rx_num = cut /\ (cut = 1 => "playback" \in dma)

(* After a reset that was cut, what is left of the old frames ends before  *)
(* slot 0.                                                                 *)
OldFramesEnd ==
    cut = 1 /\ stores \cap PlayIndices = {} =>
      \/ \A i \in Slot : Ahead(rtp_rx_num, i) < RxDepth => gRtpRxBuf[i] > old
      \/ /\ stale + Ahead(rtp_rx_num, 0) < N
         /\ \A i \in Slot : Ahead(rtp_rx_num, 0) <= Ahead(rtp_rx_num, i)
                              /\ Ahead(rtp_rx_num, i) < RxDepth
                              => gRtpRxBuf[i] > old

PlaybackInv ==
    /\ played <= received /\ old <= received
    /\ \A i \in Slot : gRtpRxBuf[i] <= received
    /\ stores # {} => stale = 0
    /\ PlaybackExact /\ PlaybackBegins /\ PlaybackWaits /\ OldFramesEnd
    /\ StaleBounded

IInv == TypeOK /\ CaptureInv /\ PlaybackInv

-----------------------------------------------------------------------------
(* Counting along a ring.                                                  *)
LEMMA SlotAfter ==
  ASSUME NEW i \in Slot
  PROVE  After(i) \in Slot /\ After(i) # i
  BY RingAssumption DEF Slot, After

LEMMA AheadRange ==
  ASSUME NEW i \in Slot, NEW j \in Slot
  PROVE  Ahead(i, j) \in 0..(N - 1) /\ (Ahead(i, j) = 0 <=> i = j)
  BY RingAssumption DEF Slot, Ahead

LEMMA AheadWrites ==
  ASSUME NEW i \in Slot, NEW j \in Slot
  PROVE  Ahead(i, After(j)) = IF Ahead(i, j) = N - 1 THEN 0
                              ELSE Ahead(i, j) + 1
  BY RingAssumption DEF Slot, Ahead, After

LEMMA AheadReads ==
  ASSUME NEW i \in Slot, NEW j \in Slot
  PROVE  Ahead(After(i), j) = IF i = j THEN N - 1 ELSE Ahead(i, j) - 1
  BY RingAssumption DEF Slot, Ahead, After

LEMMA AheadDiffers ==
  ASSUME NEW i \in Slot, NEW j \in Slot, NEW k \in Slot, j # k
  PROVE  Ahead(i, j) # Ahead(i, k)
  BY RingAssumption DEF Slot, Ahead

LEMMA ZeroOne == 0 \in Slot /\ 1 \in Slot /\ After(0) = 1
  BY RingAssumption DEF Slot, After

(* A frame that is written is the last of those ahead of the reader, or,   *)
(* when the writer reaches the reader, the ring is empty.                  *)
LEMMA ExactWrites ==
  ASSUME NEW buf \in [Slot -> 0..MaxFrames], NEW r \in Slot, NEW w \in Slot,
         NEW last \in Nat, last + 1 <= MaxFrames, NEW d,
         Exact(buf, r, Ahead(r, w), last),
         d = 0 \/ d = Ahead(r, w) + 1
  PROVE  Exact([buf EXCEPT ![w] = last + 1], r, d, last + 1)
<1> DEFINE new == [buf EXCEPT ![w] = last + 1]
<1> SUFFICES ASSUME NEW i \in Slot, Ahead(r, i) < d
             PROVE  new[i] + d = (last + 1) + 1 + Ahead(r, i)
  BY DEF Exact
<1>1. Ahead(r, i) \in Nat /\ Ahead(r, w) \in Nat /\ buf[i] \in Nat
  BY AheadRange, FramesAssumption
<1>2. d = Ahead(r, w) + 1
  BY <1>1
<1>3. CASE i = w
  BY <1>1, <1>2, <1>3
<1>4. CASE i # w
  <2>1. Ahead(r, i) < Ahead(r, w) /\ new[i] = buf[i]
    BY <1>1, <1>2, <1>4, AheadDiffers
  <2> QED
    BY <1>1, <1>2, <2>1 DEF Exact
<1> QED
  BY <1>3, <1>4

(* A frame that is read is the first of those ahead of the reader.         *)
LEMMA ExactReads ==
  ASSUME NEW buf \in [Slot -> 0..MaxFrames], NEW r \in Slot,
         NEW last \in Nat, NEW d \in 1..N, Exact(buf, r, d, last)
  PROVE  /\ Exact(buf, After(r), d - 1, last)
         /\ buf[r] + d = last + 1
<1>1. ASSUME NEW i \in Slot, Ahead(After(r), i) < d - 1
      PROVE  /\ Ahead(r, i) = Ahead(After(r), i) + 1
             /\ Ahead(r, i) < d
             /\ Ahead(r, i) \in Nat /\ Ahead(After(r), i) \in Nat
  <2>1. /\ Ahead(r, i) \in 0..(N - 1) /\ Ahead(After(r), i) \in 0..(N - 1)
        /\ Ahead(After(r), i) = IF r = i THEN N - 1 ELSE Ahead(r, i) - 1
    BY SlotAfter, AheadRange, AheadReads
  <2> QED
    BY <1>1, <2>1, RingAssumption
<1>2. \A i \in Slot : buf[i] \in Nat
  BY FramesAssumption
<1>3. Exact(buf, After(r), d - 1, last)
  <2> SUFFICES ASSUME NEW i \in Slot, Ahead(After(r), i) < d - 1
               PROVE  buf[i] + (d - 1) = last + 1 + Ahead(After(r), i)
    BY DEF Exact
  <2>1. buf[i] + d = last + 1 + Ahead(r, i)
    BY <1>1 DEF Exact
  <2> QED
    BY <1>1, <1>2, <2>1
<1>4. Ahead(r, r) = 0
  BY AheadRange
<1>5. buf[r] + d = last + 1
  BY <1>2, <1>4 DEF Exact
<1> QED
  BY <1>3, <1>5

-----------------------------------------------------------------------------
(* Types.                                                                  *)
LEMMA TypeInit == Init => TypeOK
  BY RingAssumption, FramesAssumption DEF Init, TypeOK, Slot

LEMMA TypeNext == TypeOK /\ [Next]_vars => TypeOK'
<1> SUFFICES ASSUME TypeOK, [Next]_vars PROVE TypeOK'
  OBVIOUS
<1> USE RingAssumption, FramesAssumption
    DEF TypeOK, streams, capture, playback, control
<1>1. CASE DmaCapture
  <2>1. dma' \subseteq {"capture", "playback"}
    BY <1>1 DEF DmaCapture, Interrupts
  <2> QED
    BY <1>1, <2>1, SlotAfter DEF DmaCapture
<1>2. CASE UdpRtp
  BY <1>2, SlotAfter DEF UdpRtp
<1>3. CASE DmaPlay
  <2>1. dma' \subseteq {"capture", "playback"}
    BY <1>3 DEF DmaPlay, Interrupts
  <2> QED
    BY <1>3, <2>1, SlotAfter DEF DmaPlay
<1>4. CASE AUDIO_rec_mode \/ TEL_OffInit
  BY <1>4 DEF AUDIO_rec_mode, TEL_OffInit, ResetIndices
<1>5. CASE Store
  <2>1. stores' \subseteq Indices
    BY <1>5 DEF Store
  <2>2. /\ rtp_rx_num' \in Slot /\ gRtpRxNum' \in Slot
        /\ rtp_tx_num' \in Slot /\ gRtpTxNum' \in Slot
    BY <1>5, ZeroOne DEF Store, Zero
  <2>3. cut' \in {0, 1}
    BY <1>5 DEF Store
  <2> QED
    BY <1>5, <2>1, <2>2, <2>3 DEF Store
<1>6. CASE AUDIO_stop_mode \/ Ringing \/ CloseRecording
  BY <1>6 DEF AUDIO_stop_mode, Ringing, CloseRecording
<1>7. CASE CopyFrame
  BY <1>7 DEF CopyFrame
<1>8. CASE SendFrame
  BY <1>8, SlotAfter DEF SendFrame
<1>9. CASE UNCHANGED vars
  BY <1>9 DEF vars
<1> QED
  BY <1>1, <1>2, <1>3, <1>4, <1>5, <1>6, <1>7, <1>8, <1>9
  DEF Next, MainLoop

(* For rings of any size, the indices stay inside the rings.               *)
THEOREM TypeCorrect == Spec => []TypeOK
  BY TypeInit, TypeNext, PTL DEF Spec

-----------------------------------------------------------------------------
(* Capture.                                                                *)
CaptureType ==
    /\ rtp_tx_num \in Slot /\ gRtpTxNum \in Slot
    /\ captured \in Nat /\ sent \in Nat /\ fresh \in Nat /\ copying \in Nat
    /\ gRtpTxBuf \in [Slot -> 0..MaxFrames]

LEMMA TypeOfCapture == TypeOK => CaptureType
  BY FramesAssumption DEF TypeOK, CaptureType

LEMMA DmaCaptureInv == TypeOK /\ CaptureInv /\ DmaCapture => CaptureInv'
<1> SUFFICES ASSUME TypeOK, CaptureInv, DmaCapture PROVE CaptureInv'
  OBVIOUS
<1> USE DEF CaptureInv
<1>1. CaptureType /\ N \in Nat /\ N > 1
  BY TypeOfCapture, RingAssumption
<1>2. /\ captured' = captured + 1 /\ captured' <= MaxFrames
      /\ gRtpTxBuf' = [gRtpTxBuf EXCEPT ![rtp_tx_num] = captured + 1]
      /\ rtp_tx_num' = After(rtp_tx_num)
      /\ UNCHANGED <<gRtpTxNum, sent, fresh, stores, stop, copying>>
  BY FramesAssumption DEF DmaCapture, control, streams, TypeOK
<1>3. \/ stores = {} /\ stop = 0 /\ copying = 0
      \/ "capture" \notin dma /\ "capture" \in dma'
  BY DEF DmaCapture, Interrupts, Between
<1>4. sent' <= captured' /\ fresh' <= captured'
  BY <1>1, <1>2 DEF CaptureType
<1>5. /\ gRtpTxBuf'[rtp_tx_num] = captured'
      /\ \A i \in Slot : i # rtp_tx_num => gRtpTxBuf'[i] = gRtpTxBuf[i]
  BY <1>1, <1>2 DEF CaptureType
<1>6. CaptureExact'
  <2> SUFFICES ASSUME stores \cap TxIndices = {}
               PROVE  /\ Exact(gRtpTxBuf', gRtpTxNum, TxDepth', captured')
                      /\ sent + TxDepth' <= captured'
                      /\ fresh + TxDepth' <= captured'
    BY <1>2 DEF CaptureExact
  <2>1. Ahead(gRtpTxNum, rtp_tx_num) \in 0..(N - 1)
        /\ (Ahead(gRtpTxNum, rtp_tx_num) = 0 <=> gRtpTxNum = rtp_tx_num)
    BY <1>1, AheadRange DEF CaptureType
  <2>2. TxDepth = Ahead(gRtpTxNum, rtp_tx_num)
    BY <1>3 DEF TxDepth, CopyExact
  <2>3. TxDepth' = 0 \/ TxDepth' = TxDepth + 1
    <3>1. Ahead(gRtpTxNum, rtp_tx_num') = IF TxDepth = N - 1 THEN 0
                                          ELSE TxDepth + 1
      BY <1>1, <1>2, <2>2, AheadWrites DEF CaptureType
    <3>2. Ahead(gRtpTxNum, rtp_tx_num') = 0 <=> gRtpTxNum = rtp_tx_num'
      BY <1>1, <1>2, SlotAfter, AheadRange DEF CaptureType
    <3> QED
      BY <1>1, <1>2, <2>1, <2>2, <3>1, <3>2 DEF TxDepth
  <2>4. Exact(gRtpTxBuf', gRtpTxNum, TxDepth', captured')
    BY <1>1, <1>2, <2>2, <2>3, ExactWrites DEF CaptureType, CaptureExact
  <2> QED
    BY <1>1, <1>2, <2>1, <2>2, <2>3, <2>4 DEF CaptureExact, CaptureType
<1>7. CaptureBegins'
  <2> SUFFICES ASSUME "rtp_tx_num" \notin stores, "gRtpTxNum" \in stores
               PROVE  CaptureBegins'
    BY <1>2 DEF CaptureBegins
  <2>1. rtp_tx_num = 0 /\ "capture" \in dma'
    BY <1>3 DEF CaptureBegins
  <2>2. rtp_tx_num' = 1
    BY <1>2, <2>1, ZeroOne
  <2> QED
    BY <1>1, <1>2, <1>5, <2>1, <2>2 DEF CaptureBegins, CaptureType
<1>8. CaptureWaits'
  BY <1>2 DEF CaptureWaits
<1>9. CopyExact'
  <2> SUFFICES ASSUME copying # 0 PROVE CopyExact'
    BY <1>2 DEF CopyExact
  <2>1. gRtpTxNum # rtp_tx_num /\ "capture" \in dma'
    BY <1>3 DEF CopyExact
  <2> QED
    BY <1>1, <1>2, <1>5, <2>1 DEF CopyExact, CaptureType
<1> QED
  BY <1>4, <1>6, <1>7, <1>8, <1>9

(* The stores of the indices, in any order.                                *)
LEMMA StoreCaptureInv == TypeOK /\ CaptureInv /\ Store => CaptureInv'
<1> SUFFICES ASSUME TypeOK, CaptureInv, Store PROVE CaptureInv'
  OBVIOUS
<1> USE DEF CaptureInv
<1>1. CaptureType /\ N \in Nat /\ N > 1
  BY TypeOfCapture, RingAssumption
<1>2. PICK index \in stores : stores' = stores \ {index}
  BY DEF Store
<1>3. /\ rtp_tx_num' = IF index = "rtp_tx_num" THEN 0 ELSE rtp_tx_num
      /\ gRtpTxNum' = IF index = "gRtpTxNum" THEN 0 ELSE gRtpTxNum
      /\ UNCHANGED <<gRtpTxBuf, captured, sent, fresh, copying, stop, dma>>
  BY <1>2 DEF Store, Zero
<1>4. copying = 0
  BY <1>2 DEF CopyExact
<1>5. 0 \in Slot /\ 1 \in Slot /\ Ahead(0, 0) = 0 /\ Ahead(0, 1) = 1
  BY ZeroOne DEF Ahead
<1>6. CaptureExact'
  <2> SUFFICES ASSUME stores' \cap TxIndices = {} PROVE CaptureExact'
    BY DEF CaptureExact
  <2>1. CASE index = "gRtpTxNum"
    <3>1. CASE rtp_tx_num = 0
      <4>1. TxDepth' = 0
        BY <1>3, <1>4, <1>5, <2>1, <3>1 DEF TxDepth
      <4>2. Exact(gRtpTxBuf', gRtpTxNum', 0, captured')
        <5>1. \A i \in Slot : ~(Ahead(gRtpTxNum', i) < 0)
          BY <1>3, <1>5, <2>1, AheadRange
        <5> QED
          BY <5>1 DEF Exact
      <4> QED
        BY <1>1, <1>3, <4>1, <4>2 DEF CaptureExact, CaptureType
    <3>2. CASE /\ rtp_tx_num = 1 /\ gRtpTxBuf[0] = captured
               /\ sent < captured /\ fresh < captured
      <4>1. TxDepth' = 1
        BY <1>3, <1>4, <1>5, <2>1, <3>2 DEF TxDepth
      <4>2. Exact(gRtpTxBuf', gRtpTxNum', 1, captured')
        <5>1. \A i \in Slot : Ahead(gRtpTxNum', i) < 1
                => i = 0 /\ Ahead(gRtpTxNum', i) = 0
          BY <1>3, <1>5, <2>1, AheadRange
        <5> QED
          BY <1>1, <1>3, <3>2, <5>1 DEF Exact, CaptureType
      <4> QED
        BY <1>1, <1>3, <3>2, <4>1, <4>2 DEF CaptureExact, CaptureType
    <3> QED
      BY <1>2, <2>1, <3>1, <3>2 DEF CaptureBegins, TxIndices
  <2>2. CASE index = "rtp_tx_num"
    <3>1. gRtpTxNum' = 0 /\ rtp_tx_num' = 0
      BY <1>2, <1>3, <2>2 DEF CaptureWaits, TxIndices
    <3>2. TxDepth' = 0
      BY <1>3, <1>4, <1>5, <3>1 DEF TxDepth
    <3>3. Exact(gRtpTxBuf', gRtpTxNum', 0, captured')
      <4>1. \A i \in Slot : ~(Ahead(gRtpTxNum', i) < 0)
        BY <1>5, <3>1, AheadRange
      <4> QED
        BY <4>1 DEF Exact
    <3> QED
      BY <1>1, <1>3, <3>2, <3>3 DEF CaptureExact, CaptureType
  <2>3. CASE index \notin TxIndices
    <3>1. stores \cap TxIndices = {} /\ UNCHANGED <<rtp_tx_num, gRtpTxNum>>
      BY <1>2, <1>3, <2>3 DEF TxIndices
    <3> QED
      BY <1>3, <3>1 DEF CaptureExact, TxDepth
  <2> QED
    BY <2>1, <2>2, <2>3 DEF TxIndices
<1>7. CaptureBegins'
  BY <1>2, <1>3 DEF CaptureBegins
<1>8. CaptureWaits'
  BY <1>2, <1>3 DEF CaptureWaits
<1>9. CopyExact'
  BY <1>3, <1>4 DEF CopyExact
<1>10. sent' <= captured' /\ fresh' <= captured'
  BY <1>3
<1> QED
  BY <1>6, <1>7, <1>8, <1>9, <1>10

LEMMA ResetCaptureInv ==
  TypeOK /\ CaptureInv /\ (AUDIO_rec_mode \/ TEL_OffInit) => CaptureInv'
<1> SUFFICES ASSUME TypeOK, CaptureInv, AUDIO_rec_mode \/ TEL_OffInit
             PROVE  CaptureInv'
  OBVIOUS
<1>1. /\ stores' = Indices /\ copying' = 0
      /\ captured' = captured /\ sent' = sent
      /\ fresh' = fresh \/ fresh' = captured
  BY DEF AUDIO_rec_mode, TEL_OffInit, ResetIndices, Between, capture
<1>2. captured \in Nat
  BY TypeOfCapture DEF CaptureType
<1> QED
  BY <1>1, <1>2
  DEF CaptureInv, CaptureExact, CaptureBegins, CaptureWaits, CopyExact,
      Indices, TxIndices

(* The copy takes the oldest frame, and the reader moves on past it.       *)
LEMMA CopyInv == TypeOK /\ CaptureInv /\ CopyFrame => CaptureInv'
<1> SUFFICES ASSUME TypeOK, CaptureInv, CopyFrame PROVE CaptureInv'
  OBVIOUS
<1>1. /\ stores = {} /\ stop = 0 /\ copying = 0 /\ rtp_tx_num # gRtpTxNum
      /\ copying' = gRtpTxBuf[gRtpTxNum]
      /\ UNCHANGED <<stores, stop, rtp_tx_num, gRtpTxNum, gRtpTxBuf, captured,
                     sent, fresh>>
  BY DEF CopyFrame, Between, capture, control
<1>2. TxDepth' = TxDepth
  BY <1>1 DEF TxDepth
<1> QED
  BY <1>1, <1>2
  DEF CaptureInv, CaptureExact, CaptureBegins, CaptureWaits, CopyExact

LEMMA SendInv ==
  TypeOK /\ CaptureInv /\ SendFrame
    => /\ CaptureInv'
       /\ gRtpTxBuf[gRtpTxNum] = copying
       /\ sent < copying /\ fresh < copying /\ captured < copying + N
<1> SUFFICES ASSUME TypeOK, CaptureInv, SendFrame
             PROVE  /\ CaptureInv'
                    /\ gRtpTxBuf[gRtpTxNum] = copying
                    /\ sent < copying /\ fresh < copying
                    /\ captured < copying + N
  OBVIOUS
<1> USE DEF CaptureInv
<1>1. CaptureType /\ N \in Nat /\ N > 1
  BY TypeOfCapture, RingAssumption
<1>2. /\ copying # 0 /\ sent' = copying /\ gRtpTxNum' = After(gRtpTxNum)
      /\ copying' = 0
      /\ UNCHANGED <<gRtpTxBuf, rtp_tx_num, captured, fresh, stores, stop>>
  BY DEF SendFrame, control
<1>3. stores = {} /\ stop = 0 /\ gRtpTxBuf[gRtpTxNum] = copying
  BY <1>2 DEF CopyExact
<1>4. TxDepth \in 1..N
  <2>1. Ahead(gRtpTxNum, rtp_tx_num) \in 0..(N - 1)
        /\ (Ahead(gRtpTxNum, rtp_tx_num) = 0 <=> gRtpTxNum = rtp_tx_num)
    BY <1>1, AheadRange DEF CaptureType
  <2> QED
    BY <1>1, <1>2, <2>1 DEF TxDepth
<1>5. /\ Exact(gRtpTxBuf, gRtpTxNum, TxDepth, captured)
      /\ sent + TxDepth <= captured /\ fresh + TxDepth <= captured
  BY <1>3 DEF CaptureExact
<1>6. /\ Exact(gRtpTxBuf, gRtpTxNum', TxDepth - 1, captured)
      /\ copying + TxDepth = captured + 1
  BY <1>1, <1>2, <1>3, <1>4, <1>5, ExactReads DEF CaptureType
<1>7. TxDepth' = TxDepth - 1
  BY <1>1, <1>2, <1>4, AheadReads DEF TxDepth, CaptureType
<1>8. sent < copying /\ fresh < copying /\ captured < copying + N
  BY <1>1, <1>4, <1>5, <1>6 DEF CaptureType
<1>9. CaptureExact'
  <2>1. Exact(gRtpTxBuf', gRtpTxNum', TxDepth', captured')
    BY <1>2, <1>6, <1>7
  <2>2. sent' + TxDepth' <= captured' /\ fresh' + TxDepth' <= captured'
    BY <1>1, <1>2, <1>4, <1>5, <1>6, <1>7 DEF CaptureType
  <2> QED
    BY <2>1, <2>2 DEF CaptureExact
<1>10. sent' <= captured' /\ fresh' <= captured'
  BY <1>1, <1>2, <1>4, <1>6 DEF CaptureType
<1>11. CaptureBegins' /\ CaptureWaits' /\ CopyExact'
  BY <1>2, <1>3 DEF CaptureBegins, CaptureWaits, CopyExact
<1> QED
  BY <1>3, <1>8, <1>9, <1>10, <1>11

(* Nobody else touches the capture ring; playback may be noted in dma.     *)
LEMMA OtherCaptureInv ==
  CaptureInv /\ (\/ UdpRtp \/ DmaPlay \/ AUDIO_stop_mode \/ Ringing
                 \/ CloseRecording \/ UNCHANGED vars) => CaptureInv'
<1> SUFFICES ASSUME CaptureInv,
                    \/ UdpRtp \/ DmaPlay \/ AUDIO_stop_mode \/ Ringing
                    \/ CloseRecording \/ UNCHANGED vars
             PROVE  CaptureInv'
  OBVIOUS
<1>1. /\ UNCHANGED <<gRtpTxBuf, rtp_tx_num, gRtpTxNum, captured, sent, fresh,
                     stores, copying>>
      /\ stop' = stop \/ stop' = 0
  BY DEF UdpRtp, DmaPlay, AUDIO_stop_mode, Ringing, CloseRecording, vars,
         capture, control
<1>2. "capture" \in dma => "capture" \in dma'
  BY DEF UdpRtp, DmaPlay, AUDIO_stop_mode, Ringing, CloseRecording, vars,
         Interrupts
<1>3. TxDepth' = TxDepth
  BY <1>1 DEF TxDepth
<1> QED
  BY <1>1, <1>2, <1>3
  DEF CaptureInv, CaptureExact, CaptureBegins, CaptureWaits, CopyExact

-----------------------------------------------------------------------------
(* Playback.                                                               *)
PlaybackType ==
    /\ rtp_rx_num \in Slot /\ gRtpRxNum \in Slot
    /\ received \in Nat /\ played \in Nat /\ old \in Nat /\ stale \in Nat
    /\ cut \in {0, 1} /\ stores \subseteq Indices
    /\ gRtpRxBuf \in [Slot -> 0..MaxFrames]

LEMMA TypeOfPlayback == TypeOK => PlaybackType
  BY FramesAssumption DEF TypeOK, PlaybackType

(* With the reader at r, a new frame keeps the slots ahead exact, and puts *)
(* no more of them ahead than frames have come in.                         *)
LEMMA UdpExact ==
  ASSUME TypeOK, UdpRtp, NEW r \in Slot,
         Exact(gRtpRxBuf, r, Ahead(r, gRtpRxNum), received)
  PROVE  /\ Exact(gRtpRxBuf', r, Ahead(r, gRtpRxNum'), received')
         /\ \A bound \in Nat : bound + Ahead(r, gRtpRxNum) <= received
              => bound + Ahead(r, gRtpRxNum') <= received'
<1>1. PlaybackType /\ N \in Nat /\ N > 1
  BY TypeOfPlayback, RingAssumption
<1>2. /\ received' = received + 1 /\ received + 1 <= MaxFrames
      /\ gRtpRxBuf' = [gRtpRxBuf EXCEPT ![gRtpRxNum] = received + 1]
      /\ gRtpRxNum' = After(gRtpRxNum)
  BY FramesAssumption DEF UdpRtp, TypeOK
<1>3. /\ Ahead(r, gRtpRxNum) \in Nat
      /\ \/ Ahead(r, gRtpRxNum') = 0
         \/ Ahead(r, gRtpRxNum') = Ahead(r, gRtpRxNum) + 1
  BY <1>1, <1>2, AheadRange, AheadWrites DEF PlaybackType
<1>4. Exact(gRtpRxBuf', r, Ahead(r, gRtpRxNum'), received')
  BY <1>1, <1>2, <1>3, ExactWrites DEF PlaybackType
<1>5. \A bound \in Nat : bound + Ahead(r, gRtpRxNum) <= received
              => bound + Ahead(r, gRtpRxNum') <= received'
  BY <1>1, <1>2, <1>3 DEF PlaybackType
<1> QED
  BY <1>4, <1>5

LEMMA UdpInv == TypeOK /\ PlaybackInv /\ UdpRtp => PlaybackInv'
<1> SUFFICES ASSUME TypeOK, PlaybackInv, UdpRtp PROVE PlaybackInv'
  OBVIOUS
<1> USE DEF PlaybackInv
<1>1. PlaybackType /\ N \in Nat /\ N > 1
  BY TypeOfPlayback, RingAssumption
<1>2. /\ received' = received + 1
      /\ gRtpRxBuf' = [gRtpRxBuf EXCEPT ![gRtpRxNum] = received + 1]
      /\ gRtpRxNum' = After(gRtpRxNum)
      /\ UNCHANGED <<rtp_rx_num, played, stale, cut, old, stores, dma>>
  BY DEF UdpRtp, control, streams
<1>3. /\ played' <= received' /\ old' <= received'
      /\ \A i \in Slot : gRtpRxBuf'[i] <= received'
  BY <1>1, <1>2, FramesAssumption DEF PlaybackType
<1>4. PlaybackExact'
  <2> SUFFICES ASSUME cut = 0, stores \cap PlayIndices \in {{}, PlayIndices}
               PROVE  PlaybackExact'
    BY <1>2 DEF PlaybackExact
  <2>1. /\ Exact(gRtpRxBuf', rtp_rx_num, Ahead(rtp_rx_num, gRtpRxNum'), received')
        /\ \A bound \in Nat : bound + RxDepth <= received
              => bound + RxDepth' <= received'
    BY <1>1, <1>2, UdpExact DEF PlaybackExact, PlaybackType, RxDepth
  <2> QED
    BY <1>1, <1>2, <2>1 DEF PlaybackExact, PlaybackType, RxDepth
<1>5. PlaybackBegins'
  <2> SUFFICES ASSUME "gRtpRxNum" \notin stores, "rtp_rx_num" \in stores
               PROVE  PlaybackBegins'
    BY <1>2 DEF PlaybackBegins
  <2>1. /\ Exact(gRtpRxBuf', 0, Ahead(0, gRtpRxNum'), received')
        /\ \A bound \in Nat : bound + Ahead(0, gRtpRxNum) <= received
              => bound + Ahead(0, gRtpRxNum') <= received'
    BY ZeroOne, UdpExact DEF PlaybackBegins
  <2> QED
    BY <1>1, <1>2, <2>1 DEF PlaybackBegins, PlaybackType
<1>6. PlaybackWaits'
  BY <1>2 DEF PlaybackWaits
<1>7. OldFramesEnd'
  <2> SUFFICES ASSUME cut = 1, stores \cap PlayIndices = {}
               PROVE  OldFramesEnd'
    BY <1>2 DEF OldFramesEnd
  <2>1. /\ RxDepth \in 0..(N - 1)
        /\ RxDepth' = IF RxDepth = N - 1 THEN 0 ELSE RxDepth + 1
    BY <1>1, <1>2, AheadRange, AheadWrites DEF RxDepth, PlaybackType
  <2>2. \A i \in Slot : /\ gRtpRxBuf'[i] = received + 1 \/
                             (gRtpRxBuf'[i] = gRtpRxBuf[i] /\ i # gRtpRxNum)
                        /\ Ahead(rtp_rx_num, i) \in 0..(N - 1)
                        /\ i # gRtpRxNum => Ahead(rtp_rx_num, i) # RxDepth
    BY <1>1, <1>2, AheadRange, AheadDiffers DEF PlaybackType, RxDepth
  <2>3. \A i \in Slot : Ahead(rtp_rx_num, i) < RxDepth' =>
          gRtpRxBuf'[i] > old
            \/ (Ahead(rtp_rx_num, i) < RxDepth /\ gRtpRxBuf'[i] = gRtpRxBuf[i])
    BY <1>1, <2>1, <2>2 DEF PlaybackType
  <2> QED
    BY <1>2, <2>3 DEF OldFramesEnd
<1>8. StaleBounded'
  BY <1>2 DEF StaleBounded
<1> QED
  BY <1>2, <1>3, <1>4, <1>5, <1>6, <1>7, <1>8

(* Playback takes the oldest frame; a frame that came in before the reset  *)
(* only after a reset that was cut, and then from the end of the ring.     *)
LEMMA DmaPlayInv ==
  TypeOK /\ PlaybackInv /\ DmaPlay
    => /\ PlaybackInv'
       /\ cut' = 0 => gRtpRxBuf[rtp_rx_num] > played
<1> SUFFICES ASSUME TypeOK, PlaybackInv, DmaPlay
             PROVE  /\ PlaybackInv'
                    /\ cut' = 0 => gRtpRxBuf[rtp_rx_num] > played
  OBVIOUS
<1> USE DEF PlaybackInv
<1> DEFINE half == stores \cap PlayIndices \notin {{}, PlayIndices}
           first == gRtpRxBuf[rtp_rx_num]
<1>1. PlaybackType /\ N \in Nat /\ N > 1
  BY TypeOfPlayback, RingAssumption
<1>2. /\ rtp_rx_num # gRtpRxNum
      /\ played' = first
      /\ rtp_rx_num' = After(rtp_rx_num)
      /\ cut' = IF half THEN 1 ELSE cut
      /\ stale' = IF stores = {} /\ first <= old THEN stale + 1 ELSE stale
      /\ UNCHANGED <<gRtpRxBuf, gRtpRxNum, received, old, stores>>
  BY DEF DmaPlay, control
<1>3. stores # {} => "playback" \notin dma /\ "playback" \in dma'
  BY DEF DmaPlay, Interrupts, Between
<1>4. /\ first \in Nat /\ first <= received
      /\ RxDepth \in 1..(N - 1)
      /\ RxDepth' = RxDepth - 1
  <2>1. Ahead(rtp_rx_num, gRtpRxNum) \in 0..(N - 1)
        /\ Ahead(rtp_rx_num, gRtpRxNum) # 0
    BY <1>1, <1>2, AheadRange DEF PlaybackType
  <2>2. Ahead(rtp_rx_num', gRtpRxNum') = Ahead(rtp_rx_num, gRtpRxNum) - 1
    BY <1>1, <1>2, AheadReads DEF PlaybackType
  <2> QED
    BY <1>1, <2>1, <2>2, FramesAssumption DEF RxDepth, PlaybackType
<1>5. cut = 0 /\ ~half =>
        /\ Exact(gRtpRxBuf, rtp_rx_num', RxDepth - 1, received)
        /\ first + RxDepth = received + 1
        /\ played + RxDepth <= received
        /\ stores \cap PlayIndices = {} => old + RxDepth <= received
  <2> SUFFICES ASSUME cut = 0, ~half
               PROVE  /\ Exact(gRtpRxBuf, rtp_rx_num', RxDepth - 1, received)
                      /\ first + RxDepth = received + 1
                      /\ played + RxDepth <= received
                      /\ stores \cap PlayIndices = {}
                           => old + RxDepth <= received
    OBVIOUS
  <2>1. /\ Exact(gRtpRxBuf, rtp_rx_num, RxDepth, received)
        /\ played + RxDepth <= received
        /\ stores \cap PlayIndices = {} => old + RxDepth <= received
    BY DEF PlaybackExact
  <2>2. RxDepth \in 1..N
    BY <1>1, <1>4
  <2>3. /\ Exact(gRtpRxBuf, After(rtp_rx_num), RxDepth - 1, received)
        /\ gRtpRxBuf[rtp_rx_num] + RxDepth = received + 1
    BY <1>1, <2>1, <2>2, ExactReads DEF PlaybackType
  <2> QED
    BY <1>2, <2>1, <2>3
<1>6. cut' = 0 => first > played
  BY <1>1, <1>2, <1>4, <1>5 DEF PlaybackType
<1>7. /\ played' <= received' /\ old' <= received'
      /\ \A i \in Slot : gRtpRxBuf'[i] <= received'
  BY <1>2, <1>4
<1>8. PlaybackExact'
  <2> SUFFICES ASSUME cut' = 0, ~half PROVE PlaybackExact'
    BY <1>2 DEF PlaybackExact
  <2>1. cut = 0
    BY <1>2
  <2>2. Exact(gRtpRxBuf', rtp_rx_num', RxDepth', received')
    BY <1>2, <1>4, <1>5, <2>1
  <2>3. /\ played' + RxDepth' <= received'
        /\ stores' \cap PlayIndices = {} => old' + RxDepth' <= received'
    BY <1>1, <1>2, <1>4, <1>5, <2>1 DEF PlaybackType
  <2> QED
    BY <2>2, <2>3 DEF PlaybackExact
<1>9. PlaybackBegins'
  <2> SUFFICES ASSUME "gRtpRxNum" \notin stores, "rtp_rx_num" \in stores
               PROVE  PlaybackBegins'
    BY <1>2 DEF PlaybackBegins
  <2>1. cut' = 1
    BY <1>2 DEF PlayIndices
  <2> QED
    BY <1>2, <2>1 DEF PlaybackBegins
<1>10. PlaybackWaits'
  <2> SUFFICES ASSUME "gRtpRxNum" \in stores, "rtp_rx_num" \notin stores
               PROVE  PlaybackWaits'
    BY <1>2 DEF PlaybackWaits
  <2>1. cut' = 1 /\ "playback" \in dma' /\ "playback" \notin dma
    BY <1>2, <1>3 DEF PlayIndices
  <2>2. rtp_rx_num = 0
    BY <1>1, <2>1 DEF PlaybackWaits, PlaybackType
  <2> QED
    BY <1>2, <2>1, <2>2, ZeroOne DEF PlaybackWaits
<1>11. ASSUME NEW i \in Slot, Ahead(rtp_rx_num', i) < RxDepth'
       PROVE  /\ Ahead(rtp_rx_num, i) \in Nat /\ Ahead(rtp_rx_num', i) \in Nat
              /\ Ahead(rtp_rx_num, i) = Ahead(rtp_rx_num', i) + 1
              /\ Ahead(rtp_rx_num, i) < RxDepth
  <2>1. /\ Ahead(rtp_rx_num, i) \in 0..(N - 1)
        /\ Ahead(rtp_rx_num', i) \in 0..(N - 1)
        /\ Ahead(rtp_rx_num', i) = IF rtp_rx_num = i THEN N - 1
                                   ELSE Ahead(rtp_rx_num, i) - 1
    BY <1>1, <1>2, SlotAfter, AheadRange, AheadReads DEF PlaybackType
  <2> QED
    BY <1>1, <1>4, <1>11, <2>1
<1>12. CASE /\ cut = 1 /\ stores \cap PlayIndices = {}
            /\ ~\A i \in Slot : Ahead(rtp_rx_num, i) < RxDepth
                                 => gRtpRxBuf[i] > old
  <2>1. /\ stale + Ahead(rtp_rx_num, 0) < N
        /\ \A i \in Slot : Ahead(rtp_rx_num, 0) <= Ahead(rtp_rx_num, i)
                             /\ Ahead(rtp_rx_num, i) < RxDepth
                             => gRtpRxBuf[i] > old
    BY <1>12 DEF OldFramesEnd
  <2>2. /\ Ahead(rtp_rx_num, 0) \in 1..(N - 1)
        /\ Ahead(rtp_rx_num', 0) = Ahead(rtp_rx_num, 0) - 1
    <3>1. rtp_rx_num # 0
      <4> SUFFICES ASSUME rtp_rx_num = 0 PROVE FALSE
        OBVIOUS
      <4>1. Ahead(rtp_rx_num, 0) = 0
        BY ZeroOne, AheadRange
      <4>2. \A i \in Slot : Ahead(rtp_rx_num, i) \in 0..(N - 1)
        BY <1>1, AheadRange DEF PlaybackType
      <4> QED
        BY <1>1, <1>12, <2>1, <4>1, <4>2
    <3>2. /\ Ahead(rtp_rx_num, 0) \in 0..(N - 1)
          /\ Ahead(rtp_rx_num, 0) # 0
      BY <1>1, <3>1, ZeroOne, AheadRange DEF PlaybackType
    <3>3. Ahead(rtp_rx_num', 0) = Ahead(rtp_rx_num, 0) - 1
      BY <1>1, <1>2, <3>1, ZeroOne, AheadReads DEF PlaybackType
    <3> QED
      BY <1>1, <3>2, <3>3
  <2>3. stale' <= stale + 1 /\ stale' \in Nat
    BY <1>1, <1>2 DEF PlaybackType
  <2>4. stale' + Ahead(rtp_rx_num', 0) < N
    BY <1>1, <2>1, <2>2, <2>3 DEF PlaybackType
  <2>5. \A i \in Slot : Ahead(rtp_rx_num', 0) <= Ahead(rtp_rx_num', i)
                         /\ Ahead(rtp_rx_num', i) < RxDepth'
                         => gRtpRxBuf'[i] > old'
    BY <1>2, <1>11, <2>1, <2>2
  <2>6. stale' < N
    BY <1>1, <2>2, <2>3, <2>4
  <2>7. OldFramesEnd'
    BY <2>4, <2>5 DEF OldFramesEnd
  <2>8. StaleBounded'
    BY <1>2, <1>12, <2>6 DEF StaleBounded
  <2>9. stores = {} \/ stale' = 0
    BY <1>2
  <2> QED
    BY <1>2, <1>6, <1>7, <1>8, <1>9, <1>10, <2>7, <2>8, <2>9
<1>13. CASE ~(/\ cut = 1 /\ stores \cap PlayIndices = {}
              /\ ~\A i \in Slot : Ahead(rtp_rx_num, i) < RxDepth
                                   => gRtpRxBuf[i] > old)
  <2>1. stores = {} => first > old
    <3> SUFFICES ASSUME stores = {} PROVE first > old
      OBVIOUS
    <3>1. CASE cut = 0
      <4>1. ~half /\ stores \cap PlayIndices = {}
        OBVIOUS
      <4>2. first + RxDepth = received + 1 /\ old + RxDepth <= received
        BY <1>5, <3>1, <4>1
      <4> QED
        BY <1>1, <1>4, <4>2 DEF PlaybackType
    <3>2. CASE cut = 1
      <4>1. Ahead(rtp_rx_num, rtp_rx_num) = 0
        BY <1>1, AheadRange DEF PlaybackType
      <4> QED
        BY <1>1, <1>4, <1>13, <3>2, <4>1 DEF PlaybackType
    <3> QED
      BY <1>1, <3>1, <3>2 DEF PlaybackType
  <2>2. stale' = stale
    BY <1>1, <1>2, <1>4, <2>1 DEF PlaybackType
  <2>3. StaleBounded'
    BY <1>1, <1>2, <2>2 DEF StaleBounded, PlaybackType
  <2>4. OldFramesEnd'
    <3> SUFFICES ASSUME cut' = 1, stores \cap PlayIndices = {}
                 PROVE  \A i \in Slot : Ahead(rtp_rx_num', i) < RxDepth'
                                         => gRtpRxBuf'[i] > old'
      BY <1>2 DEF OldFramesEnd
    <3>1. cut = 1
      BY <1>2
    <3> QED
      BY <1>2, <1>11, <1>13, <3>1
  <2> QED
    BY <1>2, <1>6, <1>7, <1>8, <1>9, <1>10, <2>2, <2>3, <2>4
<1> QED
  BY <1>12, <1>13

(* The two stores of playback, in either order.                            *)
LEMMA StorePlaybackInv == TypeOK /\ PlaybackInv /\ Store => PlaybackInv'
<1> SUFFICES ASSUME TypeOK, PlaybackInv, Store PROVE PlaybackInv'
  OBVIOUS
<1> USE DEF PlaybackInv
<1>1. PlaybackType /\ N \in Nat /\ N > 1
  BY TypeOfPlayback, RingAssumption
<1>2. PICK index \in stores : stores' = stores \ {index}
  BY DEF Store
<1>3. /\ rtp_rx_num' = IF index = "rtp_rx_num" THEN 0 ELSE rtp_rx_num
      /\ gRtpRxNum' = IF index = "gRtpRxNum" THEN 0 ELSE gRtpRxNum
      /\ UNCHANGED <<gRtpRxBuf, received, played, old, stale, dma>>
  BY <1>2 DEF Store, Zero
<1>4. cut' = IF index \in PlayIndices /\ PlayIndices \subseteq stores
             THEN 0 ELSE cut
  BY <1>2 DEF Store, PlayIndices
<1>5. stale = 0 /\ stale' = 0 /\ StaleBounded'
  BY <1>1, <1>2, <1>3 DEF StaleBounded
<1>6. 0 \in Slot /\ 1 \in Slot /\ Ahead(0, 0) = 0 /\ Ahead(1, 0) = N - 1
  BY <1>1, ZeroOne DEF Ahead
<1>7. \A r \in Slot : Exact(gRtpRxBuf, r, 0, received)
  <2> SUFFICES ASSUME NEW r \in Slot, NEW i \in Slot
               PROVE  ~(Ahead(r, i) < 0)
    BY DEF Exact
  <2> QED
    BY <1>1, AheadRange
<1>8. CASE index \notin PlayIndices
  <2>1. /\ UNCHANGED <<rtp_rx_num, gRtpRxNum, cut>>
        /\ stores' \cap PlayIndices = stores \cap PlayIndices
        /\ \A k \in PlayIndices : k \in stores' <=> k \in stores
    BY <1>2, <1>3, <1>4, <1>8 DEF PlayIndices
  <2>2. RxDepth' = RxDepth
    BY <2>1 DEF RxDepth
  <2>3. PlaybackExact'
    BY <1>3, <2>1, <2>2 DEF PlaybackExact
  <2>4. PlaybackBegins' /\ PlaybackWaits'
    BY <1>3, <2>1 DEF PlaybackBegins, PlaybackWaits, PlayIndices
  <2>5. OldFramesEnd'
    BY <1>3, <2>1, <2>2 DEF OldFramesEnd
  <2> QED
    BY <1>3, <1>5, <2>3, <2>4, <2>5
<1>9. CASE index = "gRtpRxNum" /\ "rtp_rx_num" \in stores
  <2>1. /\ cut' = 0 /\ gRtpRxNum' = 0
        /\ "gRtpRxNum" \notin stores' /\ "rtp_rx_num" \in stores'
    BY <1>2, <1>3, <1>4, <1>9 DEF PlayIndices
  <2>2. PlaybackBegins'
    BY <1>1, <1>3, <1>6, <1>7, <2>1 DEF PlaybackBegins, PlaybackType
  <2> QED
    BY <1>3, <1>5, <2>1, <2>2
    DEF PlaybackExact, PlaybackWaits, OldFramesEnd, PlayIndices
<1>10. CASE index = "rtp_rx_num" /\ "gRtpRxNum" \in stores
  <2>1. /\ cut' = 0 /\ rtp_rx_num' = 0
        /\ "rtp_rx_num" \notin stores' /\ "gRtpRxNum" \in stores'
    BY <1>2, <1>3, <1>4, <1>10 DEF PlayIndices
  <2> QED
    BY <1>3, <1>5, <2>1
    DEF PlaybackExact, PlaybackBegins, PlaybackWaits, OldFramesEnd, PlayIndices
<1>11. CASE index = "gRtpRxNum" /\ "rtp_rx_num" \notin stores
  <2>1. /\ cut' = cut /\ gRtpRxNum' = 0 /\ rtp_rx_num' = cut
        /\ "gRtpRxNum" \notin stores' /\ "rtp_rx_num" \notin stores'
    BY <1>2, <1>3, <1>4, <1>11 DEF PlayIndices, PlaybackWaits
  <2>2. PlaybackExact'
    <3> SUFFICES ASSUME cut = 0 PROVE PlaybackExact'
      BY <2>1 DEF PlaybackExact
    <3>1. RxDepth' = 0
      BY <1>6, <2>1 DEF RxDepth
    <3> QED
      BY <1>1, <1>3, <1>6, <1>7, <2>1, <3>1 DEF PlaybackExact, PlaybackType
  <2>3. OldFramesEnd'
    <3> SUFFICES ASSUME cut = 1 PROVE OldFramesEnd'
      BY <2>1 DEF OldFramesEnd
    <3>1. RxDepth' = N - 1 /\ Ahead(rtp_rx_num', 0) = N - 1
      BY <1>6, <2>1 DEF RxDepth
    <3>2. \A i \in Slot : ~(N - 1 <= Ahead(rtp_rx_num', i)
                             /\ Ahead(rtp_rx_num', i) < RxDepth')
      BY <1>1, <1>6, <2>1, <3>1, AheadRange
    <3> QED
      BY <1>1, <1>5, <3>1, <3>2 DEF OldFramesEnd
  <2> QED
    BY <1>3, <1>5, <2>1, <2>2, <2>3 DEF PlaybackBegins, PlaybackWaits
<1>12. CASE index = "rtp_rx_num" /\ "gRtpRxNum" \notin stores
  <2>1. /\ cut' = cut /\ rtp_rx_num' = 0 /\ gRtpRxNum' = gRtpRxNum
        /\ "gRtpRxNum" \notin stores' /\ "rtp_rx_num" \notin stores'
    BY <1>2, <1>3, <1>4, <1>12 DEF PlayIndices
  <2>2. /\ Exact(gRtpRxBuf, 0, RxDepth', received)
        /\ old + RxDepth' <= received
        /\ cut = 0 => played + RxDepth' <= received
    BY <1>2, <1>12, <2>1 DEF PlaybackBegins, RxDepth
  <2>3. PlaybackExact'
    BY <1>3, <2>1, <2>2 DEF PlaybackExact
  <2>4. OldFramesEnd'
    <3>1. \A i \in Slot : /\ Ahead(0, i) \in Nat /\ RxDepth' \in Nat
                          /\ gRtpRxBuf[i] \in Nat
      BY <1>1, <1>6, <2>1, AheadRange, FramesAssumption
      DEF PlaybackType, RxDepth
    <3>2. \A i \in Slot : Ahead(rtp_rx_num', i) < RxDepth'
                           => gRtpRxBuf'[i] > old'
      BY <1>1, <1>3, <2>1, <2>2, <3>1 DEF Exact, PlaybackType
    <3> QED
      BY <3>2 DEF OldFramesEnd
  <2> QED
    BY <1>3, <1>5, <2>1, <2>3, <2>4 DEF PlaybackBegins, PlaybackWaits
<1> QED
  BY <1>8, <1>9, <1>10, <1>11, <1>12 DEF PlayIndices

LEMMA ResetPlaybackInv ==
  TypeOK /\ PlaybackInv /\ (AUDIO_rec_mode \/ TEL_OffInit) => PlaybackInv'
<1> SUFFICES ASSUME TypeOK, PlaybackInv, AUDIO_rec_mode \/ TEL_OffInit
             PROVE  PlaybackInv'
  OBVIOUS
<1>1. PlaybackType /\ N \in Nat /\ N > 1
  BY TypeOfPlayback, RingAssumption
<1>2. /\ stores = {} /\ stores' = Indices /\ old' = received /\ stale' = 0
      /\ UNCHANGED <<gRtpRxBuf, gRtpRxNum, rtp_rx_num, received, played, cut>>
  BY DEF AUDIO_rec_mode, TEL_OffInit, ResetIndices, Between
<1>3. RxDepth' = RxDepth
  BY <1>2 DEF RxDepth
<1>4. PlaybackExact'
  BY <1>2, <1>3 DEF PlaybackInv, PlaybackExact, Indices, PlayIndices
<1>5. StaleBounded'
  BY <1>1, <1>2 DEF StaleBounded
<1> QED
  BY <1>1, <1>2, <1>4, <1>5
  DEF PlaybackInv, PlaybackBegins, PlaybackWaits, OldFramesEnd, Indices,
      PlayIndices, PlaybackType

(* Nobody else touches the playback ring; capture may be noted in dma.     *)
LEMMA OtherPlaybackInv ==
  PlaybackInv /\ (\/ DmaCapture \/ AUDIO_stop_mode \/ Ringing \/ CloseRecording
                  \/ CopyFrame \/ SendFrame \/ UNCHANGED vars) => PlaybackInv'
<1> SUFFICES ASSUME PlaybackInv,
                    \/ DmaCapture \/ AUDIO_stop_mode \/ Ringing
                    \/ CloseRecording \/ CopyFrame \/ SendFrame
                    \/ UNCHANGED vars
             PROVE  PlaybackInv'
  OBVIOUS
<1>1. UNCHANGED <<gRtpRxBuf, gRtpRxNum, rtp_rx_num, received, played, stale,
                  cut, old, stores>>
  BY DEF DmaCapture, AUDIO_stop_mode, Ringing, CloseRecording, CopyFrame,
         SendFrame, vars, playback, control
<1>2. "playback" \in dma /\ stores # {} => "playback" \in dma'
  BY DEF DmaCapture, AUDIO_stop_mode, Ringing, CloseRecording, CopyFrame,
         SendFrame, vars, Interrupts, Between
<1>3. RxDepth' = RxDepth
  BY <1>1 DEF RxDepth
<1> QED
  BY <1>1, <1>2, <1>3
  DEF PlaybackInv, PlaybackExact, PlaybackBegins, PlaybackWaits, OldFramesEnd,
      StaleBounded

-----------------------------------------------------------------------------
(* Both rings.                                                             *)
LEMMA InitInv == Init => IInv
<1> SUFFICES ASSUME Init PROVE IInv
  OBVIOUS
<1>1. TypeOK
  BY TypeInit
<1>2. 0 \in Slot /\ Ahead(0, 0) = 0 /\ N \in Nat /\ N > 1
  BY ZeroOne, RingAssumption DEF Ahead
<1>3. TxDepth = 0 /\ RxDepth = 0
  BY <1>2 DEF Init, TxDepth, RxDepth
<1>4. Exact(gRtpTxBuf, 0, 0, 0) /\ Exact(gRtpRxBuf, 0, 0, 0)
  <2>1. \A i \in Slot : ~(Ahead(0, i) < 0)
    BY <1>2, AheadRange
  <2> QED
    BY <2>1 DEF Exact
<1>5. CaptureInv
  BY <1>3, <1>4
  DEF Init, CaptureInv, CaptureExact, CaptureBegins, CaptureWaits, CopyExact
<1>6. PlaybackInv
  <2>1. PlaybackExact
    BY <1>3, <1>4 DEF Init, PlaybackExact
  <2>2. PlaybackBegins /\ PlaybackWaits /\ OldFramesEnd
    BY DEF Init, PlaybackBegins, PlaybackWaits, OldFramesEnd
  <2>3. StaleBounded
    BY <1>2 DEF Init, StaleBounded
  <2>4. \A i \in Slot : gRtpRxBuf[i] <= received
    BY DEF Init
  <2> QED
    BY <2>1, <2>2, <2>3, <2>4 DEF Init, PlaybackInv
<1> QED
  BY <1>1, <1>5, <1>6 DEF IInv

LEMMA NextInv == IInv /\ [Next]_vars => IInv'
<1> SUFFICES ASSUME IInv, [Next]_vars PROVE IInv'
  OBVIOUS
<1>1. TypeOK'
  BY TypeNext DEF IInv
<1>2. CaptureInv'
  BY DmaCaptureInv, StoreCaptureInv, ResetCaptureInv, CopyInv, SendInv,
     OtherCaptureInv
  DEF IInv, Next, MainLoop
<1>3. PlaybackInv'
  BY UdpInv, DmaPlayInv, StorePlaybackInv, ResetPlaybackInv, OtherPlaybackInv
  DEF IInv, Next, MainLoop
<1> QED
  BY <1>1, <1>2, <1>3 DEF IInv

(* The inductive invariant of the two rings.                               *)
THEOREM Invariance == Spec => []IInv
  BY InitInv, NextInv, PTL DEF Spec

(* AUDIO_playfill, after TEL_OffInit or AUDIO_rec_mode: no frame from      *)
(* before the reset is played, unless playback came between the two        *)
(* stores, and then less than a ring of them.                              *)
THEOREM OldSoundEnds == Spec => []StaleBounded
<1>1. IInv => StaleBounded
  BY DEF IInv, PlaybackInv
<1> QED
  BY <1>1, Invariance, PTL

(* RTP_build against AUDIO_recfill: each packet carries one whole frame of *)
(* this recording, later than the one before.                              *)
THEOREM PacketsInOrder == Spec => SentInOrder
<1>1. IInv /\ [Next]_vars
        => [copying # 0 /\ copying' = 0 =>
              /\ gRtpTxBuf[gRtpTxNum] = copying
              /\ sent < copying /\ fresh < copying
              /\ captured < copying + N]_vars
  <2> SUFFICES ASSUME IInv, Next, copying # 0, copying' = 0
               PROVE  /\ gRtpTxBuf[gRtpTxNum] = copying
                      /\ sent < copying /\ fresh < copying
                      /\ captured < copying + N
    BY DEF vars
  <2>1. SendFrame
    BY DEF Next, MainLoop, DmaCapture, UdpRtp, DmaPlay, AUDIO_rec_mode,
           TEL_OffInit, Store, AUDIO_stop_mode, Ringing, CloseRecording,
           CopyFrame, Between
  <2> QED
    BY <2>1, SendInv DEF IInv
<1> QED
  BY <1>1, Invariance, PTL DEF Spec, SentInOrder

(* AUDIO_playfill against NET_UdpRx: frames leave the ring in the order    *)
(* they came in, once.                                                     *)
THEOREM SoundInOrder == Spec => PlayedInOrder
<1>1. IInv /\ [Next]_vars
        => [rtp_rx_num' # rtp_rx_num /\ UNCHANGED stores /\ cut' = 0
              => gRtpRxBuf[rtp_rx_num] > played]_vars
  <2> SUFFICES ASSUME IInv, Next, rtp_rx_num' # rtp_rx_num,
                      UNCHANGED stores, cut' = 0
               PROVE  gRtpRxBuf[rtp_rx_num] > played
    BY DEF vars
  <2>1. DmaPlay
    BY DEF Next, MainLoop, DmaCapture, UdpRtp, AUDIO_rec_mode, TEL_OffInit,
           Store, AUDIO_stop_mode, Ringing, CloseRecording, CopyFrame,
           SendFrame, playback
  <2> QED
    BY <2>1, DmaPlayInv DEF IInv
<1> QED
  BY <1>1, Invariance, PTL DEF Spec, PlayedInOrder
=============================================================================
