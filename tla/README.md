# Verification of the telephone-line recorder

The program in `src/program` runs on a bare STM32F407. It watches one analogue
telephone line, reports incoming, answered and ended calls to a server as UDP
datagrams, streams the audio of a call as RTP, answers SIP requests and lets a
management program change its configuration. There is no operating system:
`USER/main.c` is a loop that calls every component in turn, and interrupts run
between any two of its instructions. This directory holds TLA+ models of that
program, the TLC configurations that check them and the proofs that TLAPS
checks.

## 1. The system

All paths are under `src/program`. Contexts: **M** main loop, **T** TIM3
interrupt (1 ms), **E** Ethernet interrupt (runs lwIP and its callbacks), **U3**
USART3 interrupt (caller number), **D** I2S DMA interrupts (audio). E and D have
priority 0, T 1, U3 2.

| Component | State | Operations (context) | What is hard |
|---|---|---|---|
| Line monitor `HARDWARE/CW2015/cw2015.c`, `HARDWARE/FSK/usart3_FSK.C`, `HHDX/rtp.c` | `gsBatFlag`, `gRingCount`, `gsCidFlag`, `gCallerIDBuffer`, the 100 ms counters in `gpsT3`, `gsSipTxFlag.rtp` | `CW2015_BatSample`, `FSK_ringing`, `FSK_parse`, `FSK_RTP_stop`, `RTP_tx` (M), counters (T), `USART3_IRQHandler` (U3) | two independent sources (voltage, ring detector) drive the same flags and timers; debouncing spread over four branches; buffer that outlives a call |
| Call-report retransmission `HHDX/SipMsgBuilding.c`, `HARDWARE/TIMER/timer.c`, `HHDX/SipMain.c`, `HHDX/SipMsgAnalysis.c` | retry fields of `gpsUaInfo`, `gsSipTxFlag.retry` | `BUILD_CID_*`, `SIP_TxFlow`, `handle_server_response` (M), countdown (T) | unprotected fields shared by M and T, compiler-ordered stores, read-modify-write of a bit field, one slot for three reports, lost and late answers |
| Datagram rings `HHDX/net_rxtx.c` | `gpsNetRx`, `gpNetRxBuf`, `gpsNetTx`, `gpNetTxBuf` | `NET_UdpRx` (E), `NET_RxParse`, `NET_TxPcbLenWr`, `NET_UdpTx`, `NET_VariateInit` (M) | producer in an interrupt; several messages built per turn and one sent; no test for a full ring; messages dropped without a buffer of lwIP |
| SIP dialog `HHDX/SipMsgAnalysis.c`, `SipMain.c`, `tel_func.c` | `gSipTxFlow`, `gsMsg`, `gsSipRxFlag`, `gsSipTxFlag`, the audio switches | `ANALYSIS_line_to_msg`, `SIP_TxFlow`, `TEL_OffInit` (M) | one slot for the pending answer, headers looked up a turn after the request, audio shared with the recording of the line |
| Audio rings `AUDIO/Audio.c`, `HHDX/rtp.c`, `HHDX/tel_func.c` | `gRtpTxBuf`, `gRtpRxBuf` and their four indices | `AUDIO_recfill`, `AUDIO_playfill` (D), `NET_UdpRx` (E), `RTP_build`, `AUDIO_rec_mode`, `TEL_OffInit` (M) | rings between interrupts and main loop; indices set to 0 with the streams running |
| Keys, cable, DTMF `HARDWARE/KEY/key.c`, `HARDWARE/DTMF/dtmf_rx.c` | step machines, u8 counters of `gpsT3`, `gsNetFlag` | `KEY_reset_scan`, `KEY_netlink_scan`, `DTMF_rx` (M), counters (T) | pins that bounce between two readings, counters that wrap while a scan waits |
| Configuration `HARDWARE/24CXX/24cxx.c`, `HHDX/HhdxMsg.c`, `HARDWARE/KEY/key.c` | `*gpsEeprom`, the EEPROM, `eepromwr`, `writed_len` | `EEPROM_Write`, `HHDX_AnalyseJsonValue`, `KEY_reset_scan`, `KEY_netlink_scan` (M) | background copy in pages against later changes, cable, power loss |
| Memory pool `MALLOC/malloc.c`, `HHDX/StrInt.c` | `memmap` | `mymem_malloc`, `mymem_free`, `MymallocCopy` (M) | fragmentation, allocation that is not tested |
| Ethernet driver and lwIP glue `LWIP/lwip-1.4.1/src/netif/ethernetif.c`, `LWIP/lwip_app`, `HARDWARE/ETHERNET` | transmit descriptors, `lwipdev`, pcbs | `low_level_output` (M and E), `lwip_periodic_handle` (M), `ETH_IRQHandler` (E) | lwIP entered from E and M without protection |
| Registration `SipMain.c` | `ok_reg`, `sip_reg` | `SIP_RegisterTx` | not called (`main.c:157`) |
| Port negotiation `SipMsgBuilding.c`, `timer.c` | port fields of `gpsUaInfo` | `BUILD_port_request`, `BUILD_port_verify` (M, T) | dormant: nothing starts it |
| Serial IP configuration (`USER/ip_config*`), USMART | - | - | not in the build or never called |
| Drivers, FWLIB, CORE, lwIP 1.4.1 | - | - | hardware access, vendored |

How they interact. A turn of the loop is: send one datagram, handle one
datagram, keys, `SIP_TxFlow` (registered terminals only), reconnect RTP,
`RTP_tx`, `EEPROM_Write`, `TEL_OnOffFunc`, then the line: `CW2015_BatSample`,
`FSK_ringing`, `FSK_parse`, `FSK_RTP_stop`, `DTMF_rx`. The line monitor calls
`BUILD_CID_start/offhook/stop`, which put a message in the transmit ring and arm
the retransmission timer. TIM3 counts that timer and asks for a retransmission
in a flag that `SIP_TxFlow` serves. Datagrams come in through the receive ring;
a 200 OK ends the wait for an answer; a SIP request leaves an answer pending that
`SIP_TxFlow` sends later in the turn, and its end stops the audio streams a
recording of the line may be using; a management message changes the
configuration and starts an EEPROM write; RTP goes straight from the Ethernet
interrupt into the playback ring. The cable that is plugged in resets both rings.
The SIP parser copies headers into the memory pool.

What makes each component correct, and where it is stated:

- line monitor: one line state at a time; a recording always belongs to a call and
  is closed when the call is hung up; debouncing and the ring pause do what they
  are for; the reports follow the calls; the reported number belongs to the reported
  call (`LineMonitor`, which implements `CallReports`);
- retransmission: a wait always has a running timer, only the latest report is
  repeated, waits end, what the timer asks for is sent (`CidRetry`; the last does not
  always hold, section 4);
- rings: each is a FIFO while it does not overrun and again once it ran empty;
  datagrams are handed over whole; answers leave in the order of the requests
  (`RxRing`, `TxRing` and `NetLoop`, which implement `DatagramQueue`);
- SIP dialog: an answer quotes the request it answers, a ring tone ends with its
  call, what is recorded is captured, a caller who goes is heard (`SipDialog`);
- audio rings: packets carry whole, recent frames in order; no sound of the last
  call is played in the next one (`AudioRings`);
- inputs: only a long press resets, only a settled cable starts lwIP, one digit per
  tone, the cable flag settles (`Inputs`);
- configuration: nothing but a change behind the write is lost, writes end
  (`EepromStore`);
- pool: map and search are the abstract pool, no copy is refused (`Heap`, which
  implements `Pool`);
- Ethernet output: a frame that is being sent is not written to (`EthOutput`; it
  does not hold, section 4).

## 2. Modules

| Module | Models | Used by |
|---|---|---|
| `LineMonitor` | line monitor, its timers and interrupts, the environment of the line | `MCLineMonitor`, `LineMonitorProofs` |
| `CallReports` | abstract: what the server is told of a call | instance in `LineMonitor` |
| `RecordedLine` | interface: the line as far as its recording goes | instances in `SipDialog`, `LineMonitorProofs` |
| `CidRetry` | retransmission of call reports, the part of the receive path that answers them | `MCCidRetry`, `CidRetryProofs` |
| `Ring` | what all rings of the program share: `++` and `& ~N` | `RxRing`, `TxRing`, `AudioRings`, `EthOutput` |
| `DatagramQueue` | abstract: a bounded FIFO whose messages are handled, or flushed | instances in `RxRing`, `TxRing` |
| `RxRing`, `TxRing` | the receive and the transmit ring, each on its own | instances in `NetLoop` |
| `NetLoop` | both rings in the turns of the main loop, with cable and answers | `NetLoopProofs` |
| `SipDialog` | called-party side of the SIP dialog, audio switches | `SipDialogProofs` |
| `AudioRings` | capture and playback rings with their interrupts | `AudioRingsProofs` |
| `Inputs` | reset key, cable detection, DTMF receiver | `InputsProofs` |
| `EepromStore` | configuration in RAM and EEPROM | `MCEepromStore`, `EepromStoreProofs` |
| `Pool` | abstract: a pool that gives the highest free run | instance in `Heap` |
| `Heap` | memory pool under the SIP header slots | `HeapProofs` |
| `EthOutput` | transmit descriptors of the Ethernet DMA | - |

The `MC*` modules name the sets that the configurations give to constants; the
`*Proofs` modules hold theorems and proofs only.

Definitions written as `mutant: ...` next to an action are faulty variants of
it, used to make sure that each property can fail.

Flags of the C code that are bits are 0 or 1 where the module is proved about.

### LineMonitor

`pc` says which function of the loop runs next; one action is one call of that
function, complete, with interrupts and changes of the line (`Tick`, `Receive`,
`LineChange`) between calls. `line` is the world: a voltage class
(`cut` < 1.68 V, `offhook`, `onhook`, `ring` > 2.8 V, `gap` for every voltage
that no branch of `CW2015_BatStatus` covers) and the ring-detector pin. The
variables named like fields are those fields: `gsBatFlag` (`discon` ... `flag3`;
`flag4` is written and never read, and is left out), the counters of `gpsT3` in 100 ms
ticks, `gsCidFlag.parse`, `gsSipTxFlag.rtp`. `report` is the message
built in this step. `caller`, `offSeen` and `quiet` are histories for the
properties. `SIP_TxFlow` appears only with its effect on this state: `TEL_OffInit`
clears `gsSipTxFlag.rtp` when a BYE or CANCEL is answered.

The caller buffer has `CidLen` parts, each a run of bytes that the decoder treats
alike: `header` (enough of the preamble, type, length and date), a number, `other`
(noise, or a message cut before its header was complete), or zeros. `USART3_IRQHandler`
writes part `gCidIndex + 1` and leaves the rest of the buffer as it is (`Receive`). The exchange sends
noise at any time, a header once per call and the number right behind it, and may stop
anywhere. `FSK_parse` takes the first header from the beginning of the buffer (`Found`)
and the part behind it as the number (`Number`), and wipes the first `gCidIndex` parts
only (`Wiped`); a header with no number behind it decodes to `Garbled`. Three
abstractions: numbers have one length, so that a number received in part over an
older one is `other` or the number, not a mixture of digits; noise does not happen
to look like a header; and a number whose header was lost is `other`.

`BatDiscon`, `BatRing`, `BatOnhook`, `BatOffhook`/`BatAnswered`, `BatNothing`
are the branches of `CW2015_BatStatus`, with one disjunct per case of its nested
tests. `NewState` is the block of assignments three of them share.

`CallReports` is what the server can rely on. Its phases are read off the four flags
(`Phase`), `announced` is `gsCidFlag.parse`, `recorded` the recording flag. It says
that a start message comes in a ringing call and once, an offhook message exactly
when a call is taken for answered, and a stop message exactly when a recorded call
has been hung up, with nothing but the first ring of the next call allowed in between
(`Closing`). It also says what is not promised: a call whose cable is pulled ends
without a message.

`RecordedLine` is the part of the line that the SIP dialog shares: its state and the
recording flag. `SipDialog` takes its steps for the line, and section 5 proves that
both modules keep to it, so that neither assumes more of the other than it gives.

Atomicity. The flags of this component are written by the main loop only. The
interrupts write the counters (single bytes) and the caller buffer, and read
`gRingCount` and `ringing`, each once, so that a call of a function can be one step.

### CidRetry

The grain is finer here, because the state is shared with an interrupt. The six
stores at the end of `BUILD_CID_*` happen in any order (`Store`; the fields are
neither volatile nor protected, and the code is built with optimisation), and a
write to another bit of `gsSipTxFlag` is a load and a store of its halfword
(`LoadFlags`, `StoreFlags`). The bit that is written while a retransmission can be
pending is `rtp`, and it is written only when the line gives a reason: `RTP_tx` opens the
recording of a busy line (`Opens`), the first ring of a call clears it
(`FirstRing`), the answer to a BYE or a CANCEL does (`TEL_OffInit`), and
`FSK_RTP_stop` closes it just before it builds the stop report (`Closes`). `line` and
`rtp` carry that much of the line, and `FlagsUntouched` is a turn without such a write.
There is one per turn; the write of `RTP_tx` in the turn after an answer is taken as
done with the answer (`Event`), since the timer that has just been set cannot run out
by then. The SIP code writes other bits of the halfword when it handles a request,
which is left out. The interrupt (`Tick`) can come between any two
of them, once per such section: both take well under a millisecond.
`handle_server_response` is one step, because an interrupt between its stores
finds either the wait or the timer already cleared.
`current`, `nReports` are histories. A datagram from port 5060 is a 200 OK to a
REGISTER, another 200 OK, or a JSON reply, which `ANALYSIS_line` drops.

### Ring, DatagramQueue, RxRing, TxRing, NetLoop

Messages are numbered as they arrive or are built. `NET_UdpRx` runs in the
Ethernet interrupt, which the main loop cannot interrupt, so it is one step.
`NET_RxParse` reads its slot twice, for the kind of message and for its contents
(`ParseFirstLine`, `ParseRest`), and the interrupt may come between. `NET_UdpTx`
moves `rd` whether `pbuf_alloc` gave it a buffer or not; `sent` is the last message
that got one.

The refinement mapping to `DatagramQueue` is `Waiting`: the slots from `rd` up to
`wr`, or nothing while the ring is `congested`. `congested` is a history: it is
raised when N messages wait, because the ring then looks empty and the next ones
run over it, and falls when the ring has really run empty or is reset by
`NET_VariateInit`. The mapping therefore says two things: until it overruns a
ring is a queue of capacity N-1, and an overrun does no lasting harm. What is still
true during an overrun is said separately, by `HandledWhole` and `AnswersInOrder`.

`NetLoop` puts both instances into the turns of the loop: `Transmit`, `Receive`,
`Answer` (the parser answers a management message, several times if it asks for
several things), `Keys` or `NetlinkUp` (`KEY_netlink_scan` with its call of
`NET_VariateInit`), then up to `PerTurn` messages of the other components.
`answers` notes the datagram a message answers. Without a cable at power-up
(`netok` FALSE) messages are built and dropped, and no interrupt comes. A cable that is
plugged in empties the rings, and lwIP may still fail to start (`NetlinkUp`).

### SipDialog

`pc` is the place in the turn. `NET_RxParse` is one message of the server:
`Invite`, `Bye`, `Cancel`, `OkInvite`, `OkOther`, `Terminated` are the branches of
`ANALYSIS_line_to_msg` that keep headers or leave an answer, `NoAnswer` the rest.
`quoted` is what `gsMsg` holds, which is looked up when the answer is built
(`Quoting`). `cseq_num` is a field of its own, from which an ACK and a 487 take their
number (`NumberOf`): every INVITE, 200 OK and 487 of the server writes it, whatever answer is
pending, unless the number has six digits or more (`ReadNumber`, `LongNumbers`).
`numbered` is a history: the call whose number came last, taken over or not. `SIP_TxFlow` has one
disjunct per case it can reach, with the report that is sent again first, as in
the code. `TEL_OffInit` clears the flags and stops all streams; `OpenRecording` is
`AUDIO_rec_mode` in `RTP_tx`. The line is that of `RecordedLine`. `open` and
`delayed` are histories too; `rested` states the
one assumption on time: the retransmission timer runs for 2 s, so between two
reports sent again `SIP_TxFlow` is called at least once without one.

### AudioRings

Frames are numbered as they are captured or received. The interrupts of the DMA
and of the Ethernet have one priority, so each is one step. The main loop is cut
where it shares indices with them: `RTP_build` into the copy and the move of the
reader (`CopyFrame`, `SendFrame`), `AUDIO_rec_mode` and `TEL_OffInit` into their four
stores, in any order (`Store`), with the streams enabled before or disabled after
them as in the code. `dma` notes which stream has interrupted the current
section; each does so once at most, as a frame takes 20 ms. The Ethernet interrupt
may come any number of times. `FSK_RTP_stop` leaves the streams on, so capture
runs over the ring between two recordings (`CloseRecording`). `fresh`, `old`,
`stale`, `cut` are histories: `cut` says that playback came between the two stores
that set its own indices to 0.

### Inputs

One action, `Turn`, is the three scans of a turn, each a disjunction of the
branches of its step machine. `pin` is 0, 1 or bouncing; a pin that bounces gives
each of the two readings of a scan a value of its own, and nobody looks between.
`timer` holds the four counters, which wrap at `U8`. `since` is a history: ticks
since a pin was last read as a value. `missed` says that the link pin bounced
exactly when it was sampled. What a reset and a cable do to the configuration
and to the rings is in `EepromStore` and `NetLoop`.

### EepromStore

One field of `struct stEeprom` per variable entry, `PageOf` gives its page.
`Above` gives the fields in the three bytes behind a one-byte number, which
`String2Int` zeroes because it stores an `unsigned int`. `page` is `writed_len / 8`,
a static that only a finished write or a power cycle resets. `WritePage` and
`WriteDone` are the two cases of `EEPROM_Write`. `NetlinkUp` is the branch of
`KEY_netlink_scan` that initialises lwIP and, with `HHDX_VariateInit`, stops a
write. `PowerCycle` can come between any two pages. `late` is a history: pages
changed after the write under way had passed them, or left out when it stopped.

### Heap

`memmap` as in the code, one entry per block. A slot is a header of `gsMsg`;
`MymallocCopy` frees its old text and asks for a new one. The search of
`mymem_malloc` then goes block by block from the top, one step per turn of its loop:
`offset` and `cmemb` are the variables of the loop, `LookOn` goes on, `Found` marks
the run, `NotFound` returns NULL, and the copy goes to whatever came back (`fault`:
it was NULL). `slot` and `nmemb` say for whom and for how many blocks.

`Pool` is what the pool promises: `Free`, `Allocate` of the highest run of free blocks
that is long enough, `Refuse` only if there is none. A search is one step of it, the
one in which it ends; the refinement mapping gives each slot the blocks it was given.

### EthOutput

`low_level_output` of the main loop in four steps (buffer of the current
descriptor, two halves of the copy, `ETH_Tx_Packet`), that of the interrupt in one,
the DMA giving descriptors back. `promised` is a history: the frame each
descriptor was handed over for.

## 3. Runs

| Run | Shows | Bounds |
|---|---|---|
| `line_monitor` | `OneLineState`, `ReportsCalls`, `NoFalseHangup`, `OffhookDebounced` on a line that rings, is answered, hung up, pulled out in any order, ring counter wrapping included | 3.3 million states |
| `line_calls` | `FreshNumberWins`; `HangupClosesRecording` under `FairSpec` | 2 rings per call, so that the u8 counter does not wrap; a buffer of three parts, the smallest thresholds; 1.4 million states |
| `line_stale_caller` | violation of `StartCarriesCaller` | 2 rings per call, a buffer of two parts |
| `retry` | `WaitIsTimed`, `RetransmitsLatest`, `GivesUpLast`; `UnregisteredGivesUp`, `RetryIsServed` under `FairSpec` | three reports, three kinds, all datagrams; 97,612 states |
| `retry_race` | violation of `RetryIsSent` | one stop report |
| `net_loop` | `HandledWhole`, `AnswersInOrder`; `ReceiveIsQueue`, `TransmitIsQueue` (liveness included) under `FairSpec` | 4 slots per ring, 6 datagrams, 5 messages, 2 per turn; 703,869 states |
| `sip_dialog` | `AnswersQuoteRequest`, `ToneHasInvite`, `RecordingCaptures`, `AnswersReplaced`; `EndIsServed` under `FairSpec` | three calls, the number of one too long; 308,535 states |
| `audio` | `SentInOrder`, `PlayedInOrder`, `StaleBounded` | 4 slots per ring, 6 frames; 2.9 million states |
| `inputs` | `NoShortReset`, `InitDebounced`, `DigitOnce`; `NetlinkSettles` under `FairSpec` | thresholds 2, 2, 1, counters modulo 5; 90,704 states |
| `eeprom` | `OnlyLateChangesAreLost`; `WriteEnds` under `FairSpec` | four fields on three of five pages |
| `heap` | `BlocksOwned`, `ImplementsPool`, `FailsForLackOfRoom` | three slots of one to three blocks, 8 blocks; 36,712 states |
| `eth_tx` | violation of `FramesWhole` | two descriptors, three frames |

Why the bounds are enough.

- *LineMonitor.* The thresholds are scaled (12, 30, 60 and 10 ticks of 100 ms to
  2, 1, 2 and 1; one sample per tick), keeping `ShortDelay < LongDelay` and every
  comparison (`>` against `>=`) as it is in the code. `U8` is 5, large
  enough for every threshold to be reached before a counter wraps and small
  enough that counters do wrap. `LineChange` offers every condition before each
  of the two calls that read the line (a change anywhere else is seen at the next of
  them), and `MaxRings` bounds only the ring edges of one call. `line_monitor` runs without
  a caller buffer (`CidLen` 0), as the number has no influence on the other state.
  `line_calls` needs the room for the buffer: its thresholds are all 1, both delays
  included, and `U8` is 4. Three parts are the smallest buffer with room for noise before
  a header and a number, and for parts of an earlier call behind them. The proofs
  (section 5) remove the scaling.
- *CidRetry.* `Timeout` 2 is the smallest value at which counting down and running
  out differ. `MaxReports` bounds the reports, the turns are unbounded.
- *NetLoop.* Six datagrams run once around a ring of four slots and over it; five
  messages do so for the transmit ring. `MaxReceived` and `MaxBuilt` bound the
  run, which is why deadlock checking is off: a system that has handled all its
  messages turns without changing anything. A turn builds two messages and takes
  out one, so the transmit ring does fill. The proofs hold for every size.
- *SipDialog.* Three calls are enough to have the headers of one, the number of
  another in `cseq_num`, and a third whose number is not taken over. Messages are not bounded: the server sends any at every turn.
- *AudioRings.* With four slots and six frames in all, either ring can overrun
  (a fifth frame). The number of resets and recordings is not bounded.
- *Inputs.* `U8` 5 lets the counters wrap while a scan waits (a tick more than a
  turn above the threshold), `LongPress` 2 is the smallest number of periods at
  which holding and starting again differ. One pin moves in a behaviour: the
  three machines share only the interrupt. The assumption
  `InputsAssumption`, that a turn is shorter than what a counter has left above its
  threshold (155 ms in the program), is needed: a longer turn could skip the
  whole window.
- *EepromStore.* Fields on the first, a middle and the last page, two on the
  same page, one value besides the factory value and the zero.
- *Heap.* 8 blocks are exactly what `FailsForLackOfRoom` asks for next to one
  header of up to three blocks, and 5 fewer than it asks for next to two: with one
  neighbour no order of headers may lead to a refusal, with two some do. A refusal is a
  copy to NULL and ends the program, which is why deadlock checking is off.
  `NoCopyFails` (section 5) proves that (k-1)(2m-1)+m blocks are enough for k slots
  of at most m blocks. For the program, 14 header slots of up to ten blocks,
  it is 257. Its pool has 2560 blocks, but
  the Ethernet, lwIP, network and audio buffers taken at the start occupy about
  72 KB of the 80 KB, so some 260 remain by our estimate: the bound is close to
  what the program has, and the start itself does not test whether those
  buffers were granted.
- *EthOutput.* Deadlock checking is off because the number of frames is bounded.

Fairness. `WF(MainLoop)` says that the processor executes the loop (`Turn` in
`Inputs`, `EEPROM_Write` in `EepromStore`), `WF(Tick)` that the timer keeps
interrupting it; both hold for a program without blocking
waits (the loop only polls). Nothing is assumed of the line, the server,
the cable or the management software. `EndIsServed` rests on `rested` as well (a
report is sent again every 2 s, a turn is far shorter), and says what it leaves
open: another message that asks for an answer may take the slot first.
`NetlinkSettles` excepts the cable that bounced at the sample, for which the flag
really stays wrong (section 4).

## 4. Where code and documents disagree

| Run | Code | Text |
|---|---|---|
| `line_stale_caller` | `usart3_FSK.C:253`, `:188`: a new call resets the index of the caller buffer and not its bytes; the number of a call that ended before its second ring is still there, and a next call without an announced number is reported with it | `SipMsgBuilding.c:34` |
| `retry_race` | `usart3_FSK.C:269`, `timer.c:97`: the first ring of a call clears `rtp` by a load and a store of the flag halfword; the retransmission of the last call's stop report, if it is asked for in between, is lost (the timer asks again 2 s later) | `USER/协议.txt:23` |
| `eth_tx` | `ethernetif.c:50`: a reply of the Ethernet interrupt takes the descriptor whose buffer the main loop is filling, and the main loop goes on writing to it while the DMA sends it | `lwip-1.4.1/doc/rawapi.txt:28` |

Met on the way, visible without a model and therefore without a run.

Reports:
- no report is ever repeated by a terminal that has not registered, and the call
  that registers is commented out (`main.c:157`, `:160`);
- every retransmission arms a new wait with a count of 0 (`SipMsgBuilding.c:57`), so
  a registered terminal repeats its report for ever, not three times
  (`SipStructure.h:49`, `USER/协议.txt:23`);
- the JSON replies of `USER/协议.txt` are dropped, because port 5060 is parsed as
  SIP (`net_rxtx.c:60`);
- when the timer runs out among the stores of `BUILD_CID_*`, and had reached its limit,
  the wait for the new report may be given up with the old one
  (`SipMsgBuilding.c:56`, `timer.c:102`);
- a response that comes after the timeout does not clear the retry flag
  (`SipMsgAnalysis.c:57`), so an answered report is sent again;
- `TEL_OffInit` empties `called_number` (`tel_func.c:84`), from which a
  retransmitted start message takes its caller (`SipMsgBuilding.c:40`).

SIP:
- an ACK and a 487 take their number from `cseq_num` and not from the headers they
  quote (`SipMsgBuilding.c:292`, `:537`), so that a 200 OK to another request that comes
  while they wait gives them its number;
- a number of six digits or more is not stored (`SipMsgAnalysis.c:856`), and such an
  ACK or 487 bears the number of an earlier message.

Configuration:
- a change behind the write under way is never written, although the flag is
  raised for it (`24cxx.c:83`, `HhdxMsg.c:132`);
- `HhdxMsg.c:272` stores four bytes to a field of one (`24cxx.h:32`); the settings
  behind it are zeroed and saved.

Line, audio, inputs:
- an idle line counts as disconnected from power-up to its first ring
  (`cw2015.c:135`, against `cw2015.h:10`);
- a ring tone has no timeout, and a line call that ends it leaves the speaker on
  (`AUDIO_rec_mode` clears `ringing` only);
- with nothing to play `AUDIO_playfill` leaves the DMA buffer alone, and its last
  40 ms are repeated (`Audio.c:289`);
- once `TEL_OffInit` has cleared `rtp_port`, the RTP that still comes in goes to
  the parse ring (`net_rxtx.c:84`);
- a cable that bounces at its sample is not noticed until it moves again
  (`key.c:136`), `gsNetFlag.netlink` is a reading of its own (`key.c:137`), and with the
  cable in, a failed start of lwIP is not tried again (`key.c:116`).

## 5. Proofs

The theorems hold for every value of the constants that the named assumptions of
the modules admit: `ConditionAssumption`, `CallerAssumption`, `TickAssumption`
(thresholds are positive, fit their counters, and the hang-up delay cannot wrap
before the next voltage sample), `RetryAssumption`, `RingAssumption` (at least two
slots), `NetLoopAssumption`,
`CallsAssumption`, `FramesAssumption`, `InputsAssumption`, `EepromAssumption`,
`HeapAssumption`. Each module proves an inductive invariant and draws the
properties of the runs from it.

`LineMonitorProofs`: `Spec => []IInv` (`Invariance`), then
`TypeCorrect`, `LineStateExclusive` (`OneLineState`), `RecordingJustified`
(a recording has a call, is closed in this turn, or was torn off) and the action
properties `PauseIsNoHangup`
(`NoFalseHangup`), `AnswerIsDebounced` (`OffhookDebounced`),
`AnnouncedNumberSent` (`FreshNumberWins`). `OneLineState` is not inductive:
`RingingNow` raises `ringing` without looking at the other flags, and is safe
only because a ring count of 1 excludes them (`RingExcludes`). The action
properties compare a history with a timer that any branch may restart, so the
invariant relates the two: `QuietBoundsTimer` (while a call rings with its
hang-up pending, the timer is not older than the last ring edge),
`SampleBoundsTimer` (the same for the off-hook samples). For the number,
`BufferIsFresh` says which parts of the buffer are of this call: before the exchange
announces, none of the first `gCidIndex` parts is a header; with a number
announced, they hold one header and the number behind it, so that what earlier calls
left further on is never the first header found.
`ServerIsTold` proves the refinement `ReportsCalls`: every step of `LineMonitor` is one of
`CallReports` or a stutter. What carries it is `RecordingHasCall`: between the sample
that hangs up and `FSK_RTP_stop` in the same turn, only `FSK_ringing` and `FSK_parse`
run, so that no answer and no pulled cable can come before the stop message; and
`RingExcludes`, by which a call with rings is in no other state.
`ImplementsRecordedLine` is the same for `RecordedLine`.

`CidRetryProofs`: `TypeCorrect`, `WaitsAreTimed`, `LatestIsRetransmitted`,
`GiveUpIsLast`. The invariant says what the fields hold while stores are missing
(`StoredFields`) and why no interrupt among them does harm: a timer that runs has
its limit beside it or is too young to run out before it is stored
(`RunningTimer`), which needs a timeout of more than one tick. `RetriesAreServed` is
the liveness property `RetryIsServed`, see below.

`NetLoopProofs`: `TypeCorrect`, `WholeIsHandled` (`HandledWhole`),
`AnswersAreInOrder` (`AnswersInOrder`), for rings of every size and any overrun.
The order of answers is not about the indices but about contents: the slots the
reader will still visit hold ever later messages, all later than what it handled
(`RxOrder`, `TxOrder`), even when the writer has run over them. While a datagram
is handled, equal indices mean all slots (`RxDepth`), since the reader is sure to
move. `ReceiveRefinesQueue` and `TransmitRefinesQueue` prove the safety part of
`ReceiveIsQueue` and `TransmitIsQueue` (`Safety` of `DatagramQueue`): every step of
`NetLoop` is a step of the abstract queue under the mapping `Waiting`, or a stutter.
They rest on the same invariant, on `RxCounted` and `TxCounted` (a ring that is not
congested has counted right) and on three lemmas about `Content`, the sequence of the
slots between two indices: a write appends to it, a read takes its head, equal indices
leave it empty. `NoneIsMissing` draws from the refinement what it is good for: the
messages in a ring that is not congested are the last ones that came in, without a
gap, so that only an overrun or a flush loses any.

`SipDialogProofs`: `TypeCorrect`, `AnswersQuote` (`AnswersQuoteRequest`),
`ToneJustified` (`ToneHasInvite`), `RecordingIsCaptured` (`RecordingCaptures`),
`AnswerIsServed` (`AnswersReplaced`), for every set of calls. The invariant
relates the two things the code keeps apart: the headers in `gsMsg` are those of
the message the pending answer is for (`PendingQuotes`), because every branch that
stores headers also replaces the pending answer; `cseq_num` holds the number that
came last unless it was too long (`NumberKept`); and `SIP_TxFlow` leaves nothing
but a 180 for the next turn (`ServedEachTurn`). `RecordsTheLine` shows that the dialog
keeps to `RecordedLine`; with `ImplementsRecordedLine`, each of the two modules makes
true what the other assumes. `EndsAreServed` is the liveness property `EndIsServed`.

Liveness, where it can be proved. `RetriesAreServed` and `EndsAreServed` start from
`FairSpec`. Both follow one argument: `Ahead` counts the steps of the loop before
`SIP_TxFlow` acts (up to 18 and up to 9: the six stores of a report in progress, the rest of a
turn, one more turn if a report is sent again first), no step of an interrupt raises
it, every step of the loop lowers it or serves the request (`Nearer`), and the
temporal prover chains these facts, one per value. A numeric bound on the delay is
proved with it. One hypothesis is written out, `LoopCanTurn`: a step of the main loop is
possible in every state. The provers know nothing of ENABLED; that it holds can be
read off the actions, since each place `pc` can be in has an action, or a last
disjunct of one, without a further guard. (The place `Stop` of `CidRetry` has the
event of the stop report only; `Closes`, which leads there, has its guard.)

`AudioRingsProofs`: `TypeCorrect`, `PacketsInOrder` (`SentInOrder`),
`SoundInOrder` (`PlayedInOrder`), `OldSoundEnds` (`StaleBounded`), for rings of every
size. The slots ahead of a reader hold exactly the last frames that came in
(`Exact`), so their number bounds their age. Between the stores of a reset this
fails, and the invariant says what is left: a writer stored alone has written one
frame at most (`CaptureBegins`, `PlaybackBegins`), a reader stored alone waits at 0
(`CaptureWaits`, `PlaybackWaits`); if playback moved its reader in between, what
it will repeat ends before slot 0 (`OldFramesEnd`), fewer than N frames.

`InputsProofs`: `TypeCorrect`, `ResetNeedsLongPress` (`NoShortReset`),
`StartIsDebounced` (`InitDebounced`), `OneDigitPerTone` (`DigitOnce`), for any
thresholds. Counters that wrap cannot be compared with time directly; the
invariant bounds them from one side only: a reading is at least as old as the
counted periods and the current value of the counter say (`ResetInv`, `LinkInv`,
`DigitInv`).

`EepromStoreProofs`: `TypeCorrect` and `NothingElseIsLost`
(`OnlyLateChangesAreLost`, inductive together with the type invariant).

`HeapProofs`: `TypeCorrect`, `PoolIsConsistent` (`BlocksOwned`), `RefinesPool`
(`ImplementsPool`), `OnlyLackOfRoom` (`FailsForLackOfRoom`), `NoCopyFails`, for every
number of blocks and slots and every size. The invariant adds the loop invariant of the
search (`SearchInv`): the `cmemb` blocks above `offset` are free, and no run of `nmemb`
free blocks begins higher. From it, what `Found` marks is the highest run and `NotFound`
is right. `OnlyLackOfRoom` is a pigeonhole argument without any counting of gaps: a
place where a run of m blocks could begin is spoiled by some block of another slot, and
each slot that owns memory spoils at most 2m-1 places, fewer in all than there are.
`NoCopyFails` adds that at most k-1 slots own memory while the last one asks; it assumes
`RoomForAll`, a finite set of k slots and at least (k-1)(2m-1)+m blocks.

Only model-checked. Every safety invariant and action property of the runs is
proved. What remains is liveness whose number of steps depends on a constant: the
hang-up delay (`HangupClosesRecording`), the timeout (`UnregisteredGivesUp`), the pages of
a write (`WriteEnds`), the sampling period (`NetlinkSettles`), the messages of a turn
(the fairness part of `ReceiveIsQueue` and `TransmitIsQueue`). A proof needs induction
over temporal formulas, whose theorems the provers cannot instantiate.

## 6. Not modelled

- *Vendored code.* More than four fifths of the repository's lines are lwIP 1.4.1, the STM32
  libraries, CMSIS and examples. They are outside the models, except for the port
  of lwIP to the driver (`EthOutput`), where the program's own use of it matters.
  The map therefore covers a small share of all lines.
- *Receive descriptors, `lwip_periodic_handle`* and the state of lwIP itself. The
  re-entrance is the same as for the transmit side.
- *Dormant code*: port negotiation, registration, recording transfer, serial
  IP configuration, `TEL_OnOffFunc` and with it the cases of `SIP_TxFlow` for calls
  of the terminal itself (its hook flags are set nowhere): no call leads to them.
  The modules leave their state out.
- *Data*: voltages, the bytes of a part of the caller buffer and the digits of a number, JSON and SIP text, samples, the SDP
  body except for its port.
- *Across modules*: the line in `SipDialog` is its effect on the recording, the
  report in `SipDialog` its effect on the turn; SIP requests write other bits next to the
  retry flag, which `CidRetry` leaves out; the caller's number is not carried
  through a retransmission.
- *Assumed EEPROM*: `EepromStore` starts from a programmed one.
- *Start-up*: what `main` does before its loop, and the allocations it does not test.

## 7. Plan

Done, in this order: line monitor, retransmission, configuration, pool,
rings and their turns, SIP dialog, audio rings, inputs, Ethernet output, and proofs
for every module that keeps what it promises.

What would come next:

1. Composition of `LineMonitor`, `CidRetry` and `SipDialog` with the caller's number,
   which `TEL_OffInit` clears before a retransmission.
2. Receive descriptors and `lwip_periodic_handle` next to `EthOutput`.
3. The allocations of the start, which decide whether `RoomForAll` holds in the program.
