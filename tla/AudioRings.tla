----------------------------- MODULE AudioRings ----------------------------
(***************************************************************************)
(* The two audio rings.                                                    *)
(*                                                                         *)
(* Capture: every 20 ms the DMA interrupt of the recording stream writes a *)
(* frame (AUDIO_recfill) and the main loop builds an RTP packet from the   *)
(* next one (RTP_build).  Playback: the Ethernet interrupt writes the      *)
(* frame of an RTP packet (NET_UdpRx) and the DMA interrupt of the playing *)
(* stream takes the next one (AUDIO_playfill) unless it plays the ring     *)
(* tone.  Neither writer looks at the reader.                              *)
(*                                                                         *)
(* The main loop sets the four indices to 0 with the streams enabled, in   *)
(* AUDIO_rec_mode and in TEL_OffInit: four plain stores in whatever order  *)
(* the compiler puts them, with the interrupts between any two.  The       *)
(* interrupts have one priority and never interrupt one another.           *)
(***************************************************************************)
EXTENDS Ring

CONSTANT MaxFrames      \* bound on the frames captured and received

ASSUME FramesAssumption == MaxFrames \in Nat

VARIABLES
    recording, playing, \* the streams are enabled
    rtp, ringing,       \* gsSipTxFlag
    stores,             \* the index stores the main loop has still to do
    stop,               \* the streams are disabled after them (TEL_OffInit)
    gRtpTxBuf, rtp_tx_num, gRtpTxNum,   \* capture: slots, writer, reader
    gRtpRxBuf, gRtpRxNum, rtp_rx_num,   \* playback: slots, writer, reader
    copying,            \* the frame RTP_build began to copy, or 0
    dma,                \* streams that interrupted this copy or these stores
    captured, received, \* history: frames so far
    sent, played,       \* history: the last frame of either ring that left
    fresh,              \* history: captured when the recording was opened
    old,                \* history: received when the indices were set to 0
    stale,              \* history: frames up to old played since then
    cut                 \* history: playback came between its last two stores

streams == <<recording, playing>>
capture == <<gRtpTxBuf, rtp_tx_num, gRtpTxNum, captured, sent>>
playback == <<gRtpRxBuf, gRtpRxNum, rtp_rx_num, received, played, stale, cut>>
control == <<rtp, ringing, stores, stop, fresh, old>>
vars == <<streams, capture, playback, control, copying, dma>>

Indices == {"rtp_rx_num", "gRtpRxNum", "rtp_tx_num", "gRtpTxNum"}
PlayIndices == {"rtp_rx_num", "gRtpRxNum"}

(* AUDIO_Init.                                                             *)
Init ==
    /\ recording = 0 /\ playing = 0
    /\ rtp = 0 /\ ringing = 0
    /\ stores = {} /\ stop = 0
    /\ gRtpTxBuf = [i \in Slot |-> 0] /\ gRtpRxBuf = [i \in Slot |-> 0]
    /\ rtp_tx_num = 0 /\ gRtpTxNum = 0 /\ gRtpRxNum = 0 /\ rtp_rx_num = 0
    /\ copying = 0 /\ dma = {}
    /\ captured = 0 /\ received = 0 /\ sent = 0 /\ played = 0
    /\ fresh = 0 /\ old = 0 /\ stale = 0 /\ cut = 0

(* The main loop is between two functions.                                 *)
Between == stores = {} /\ stop = 0 /\ copying = 0

-----------------------------------------------------------------------------
(* The interrupts.  A copy or the stores take much less than the 20 ms of  *)
(* a frame: each stream interrupts them once at most.                      *)
Interrupts(stream) ==
    \/ Between /\ UNCHANGED dma
    \/ ~Between /\ stream \notin dma /\ dma' = dma \cup {stream}

(* AUDIO_i2s_dma_rx_callback, AUDIO_recfill.                               *)
DmaCapture ==
    /\ recording = 1
    /\ Interrupts("capture")
    /\ captured + received < MaxFrames
    /\ captured' = captured + 1
    /\ gRtpTxBuf' = [gRtpTxBuf EXCEPT ![rtp_tx_num] = captured']
    /\ rtp_tx_num' = After(rtp_tx_num)
    /\ UNCHANGED <<streams, gRtpTxNum, sent, playback, control, copying>>

(* NET_UdpRx, the part for RTP.                                            *)
UdpRtp ==
    /\ captured + received < MaxFrames
    /\ received' = received + 1
    /\ gRtpRxBuf' = [gRtpRxBuf EXCEPT ![gRtpRxNum] = received']
    /\ gRtpRxNum' = After(gRtpRxNum)
    /\ UNCHANGED <<streams, capture, rtp_rx_num, played, stale, cut, control,
                   copying, dma>>

(* AUDIO_i2s_dma_tx_callback, AUDIO_playfill.  With nothing to play, or    *)
(* with the ring tone, no index moves.                                     *)
DmaPlayAnyway ==                    \* mutant: no test for an empty ring
    /\ playing = 1 /\ ringing = 0
    /\ Interrupts("playback")
    /\ played' = gRtpRxBuf[rtp_rx_num]
    /\ rtp_rx_num' = After(rtp_rx_num)
    /\ cut' = IF stores \cap PlayIndices \notin {{}, PlayIndices} THEN 1 ELSE cut
    /\ stale' = IF stores = {} /\ played' <= old THEN stale + 1 ELSE stale
    /\ UNCHANGED <<streams, capture, gRtpRxBuf, gRtpRxNum, received, control,
                   copying>>

DmaPlay ==
    /\ playing = 1 /\ ringing = 0
    /\ rtp_rx_num # gRtpRxNum
    /\ Interrupts("playback")
    /\ played' = gRtpRxBuf[rtp_rx_num]
    /\ rtp_rx_num' = After(rtp_rx_num)
    /\ cut' = IF stores \cap PlayIndices \notin {{}, PlayIndices} THEN 1 ELSE cut
    /\ stale' = IF stores = {} /\ played' <= old THEN stale + 1 ELSE stale
    /\ UNCHANGED <<streams, capture, gRtpRxBuf, gRtpRxNum, received, control,
                   copying>>

-----------------------------------------------------------------------------
(* The main loop.                                                          *)

(* The stores begin.                                                       *)
ResetPlayReader ==                  \* mutant: gRtpRxNum is forgotten
    /\ stores' = Indices \ {"gRtpRxNum"}
    /\ dma' = {}
    /\ old' = received
    /\ stale' = 0

ResetIndices ==
    /\ stores' = Indices
    /\ dma' = {}
    /\ old' = received
    /\ stale' = 0

(* RTP_tx opens a recording: AUDIO_rec_mode enables the streams first.     *)
AUDIO_rec_mode ==
    /\ Between /\ rtp = 0
    /\ rtp' = 1 /\ ringing' = 0
    /\ recording' = 1 /\ playing' = 1
    /\ ResetIndices
    /\ fresh' = captured
    /\ UNCHANGED <<stop, capture, gRtpRxBuf, gRtpRxNum, rtp_rx_num, received,
                   played, cut, copying>>

(* TEL_OffInit: the flags, the stores, and the streams last.               *)
TEL_OffInit ==
    /\ Between
    /\ rtp' = 0 /\ ringing' = 0
    /\ ResetIndices
    /\ stop' = 1
    /\ UNCHANGED <<streams, fresh, capture, gRtpRxBuf, gRtpRxNum, rtp_rx_num,
                   received, played, cut, copying>>

(* One of the stores.  The first of the two of playback begins anew.       *)
Zero(index, value) == IF index \in stores \ stores' THEN 0 ELSE value

Store ==
    /\ \E index \in stores : stores' = stores \ {index}
    /\ rtp_rx_num' = Zero("rtp_rx_num", rtp_rx_num)
    /\ gRtpRxNum' = Zero("gRtpRxNum", gRtpRxNum)
    /\ rtp_tx_num' = Zero("rtp_tx_num", rtp_tx_num)
    /\ gRtpTxNum' = Zero("gRtpTxNum", gRtpTxNum)
    /\ cut' = IF PlayIndices \subseteq stores /\ ~(PlayIndices \subseteq stores')
              THEN 0 ELSE cut
    /\ UNCHANGED <<streams, rtp, ringing, stop, fresh, old, gRtpTxBuf,
                   gRtpRxBuf, captured, received, sent, played, stale,
                   copying, dma>>

AUDIO_stop_mode ==
    /\ stop = 1 /\ stores = {}
    /\ stop' = 0
    /\ recording' = 0 /\ playing' = 0
    /\ UNCHANGED <<rtp, ringing, stores, fresh, old, capture, playback,
                   copying, dma>>

(* 180 Ringing: AUDIO_play_mode, and the flag that DMA plays the tone for. *)
Ringing ==
    /\ Between
    /\ ringing' = 1
    /\ playing' = 1
    /\ UNCHANGED <<recording, rtp, stores, stop, fresh, old, capture,
                   playback, copying, dma>>

(* FSK_RTP_stop, or the first ring of a call: the streams go on.           *)
CloseRecording ==
    /\ Between /\ rtp = 1
    /\ rtp' = 0
    /\ UNCHANGED <<streams, ringing, stores, stop, fresh, old, capture,
                   playback, copying, dma>>

(* RTP_build: the frame is copied byte by byte, then the reader moves.  An *)
(* empty ring makes a packet of silence.                                   *)
CopyAnyway ==                       \* mutant: reads run ahead of writes
    /\ Between /\ rtp = 1
    /\ copying' = gRtpTxBuf[gRtpTxNum]
    /\ dma' = {}
    /\ UNCHANGED <<streams, capture, playback, control>>

CopyFrame ==
    /\ Between /\ rtp = 1
    /\ rtp_tx_num # gRtpTxNum
    /\ copying' = gRtpTxBuf[gRtpTxNum]
    /\ dma' = {}
    /\ UNCHANGED <<streams, capture, playback, control>>

SendFrame ==
    /\ copying # 0
    /\ sent' = copying
    /\ gRtpTxNum' = After(gRtpTxNum)
    /\ copying' = 0
    /\ UNCHANGED <<streams, gRtpTxBuf, rtp_tx_num, captured, playback,
                   control, dma>>

MainLoop ==
    \/ AUDIO_rec_mode \/ TEL_OffInit \/ Store \/ AUDIO_stop_mode
    \/ Ringing \/ CloseRecording \/ CopyFrame \/ SendFrame

Next == DmaCapture \/ UdpRtp \/ DmaPlay \/ MainLoop

Spec == Init /\ [][Next]_vars

-----------------------------------------------------------------------------
(* Properties.                                                             *)

TypeOK ==
    /\ {recording, playing, rtp, ringing, stop, cut} \subseteq {0, 1}
    /\ stores \subseteq Indices
    /\ dma \subseteq {"capture", "playback"}
    /\ gRtpTxBuf \in [Slot -> 0..MaxFrames]
    /\ gRtpRxBuf \in [Slot -> 0..MaxFrames]
    /\ {rtp_tx_num, gRtpTxNum, gRtpRxNum, rtp_rx_num} \subseteq Slot
    /\ {copying, captured, received, sent, played, fresh, old}
         \subseteq 0..MaxFrames
    /\ stale \in Nat

(* A packet carries one frame, of this recording, later than that of the   *)
(* packet before and fewer than N frames old, whatever the capture did to  *)
(* the ring meanwhile (RTP_build against AUDIO_recfill and the stores of   *)
(* AUDIO_rec_mode; "so that reading does not run ahead of writing").       *)
SentInOrder ==
    [][copying # 0 /\ copying' = 0 =>
         /\ gRtpTxBuf[gRtpTxNum] = copying
         /\ sent < copying /\ fresh < copying
         /\ captured < copying + N]_vars

(* Frames are played in the order they came in and none is played twice,   *)
(* unless playback came between the two stores that set its indices to 0   *)
(* (AUDIO_playfill against NET_UdpRx, AUDIO_rec_mode and TEL_OffInit).     *)
PlayedInOrder ==
    [][rtp_rx_num' # rtp_rx_num /\ UNCHANGED stores /\ cut' = 0
         => gRtpRxBuf[rtp_rx_num] > played]_vars

(* After a reset nothing that came in before it is played; if playback     *)
(* came between the two stores, less than a ring of it is.                 *)
StaleBounded ==
    /\ stale > 0 => cut = 1
    /\ stale < N
=============================================================================
