# A verification model of gr-lora_sdr

gr-lora_sdr is a LoRa transmitter and receiver for GNU Radio.  Each stage is a block with a thread
of its own; blocks exchange streams of items with tags on them, and asynchronous messages.  The
signal processing is well covered by listening to it.  What is hard to test is the control: blocks
are called with windows of any size, count symbols independently of each other and must agree, and
the receiver waits in the middle of a frame for an answer from a block far down the chain.  That
control is what these modules model and check with TLC; the safety properties of the transmit chain,
of the receive loop, of the search for a frame, of the end of the receive chain, of the frame
detectors, of the C-RAN and of the two blocks that take two overlapping users apart are proved with TLAPS.

Paths below are relative to the repository (`lib/...` is `src/lib/...` in PROJECT.json).

The program is C++ in `lib/` and a few Python blocks and applications in `python/` and `apps/`.  Most
of the repository's *Python* lines are not the program: generated doxygen classes, `qa_*.py` tests,
flow graphs written by GNU Radio Companion, plot and measurement tools.  They hold no state to
model.  The Python with control flow of its own is modelled (`frame_sender.py`, `frame_reciever.py`,
`mu_demod.py`, `apps/runner.py`, the `main` of `apps/cran_recieve12.py`), so is every C++ block
whose control outlives a call, except those of section 5; hence a share counted over all Python
lines stays small whatever more is modelled.

## 1. Inventory

| Component | State it keeps | Operations | Interaction | What makes it correct |
|---|---|---|---|---|
| `frame_sync` | `m_state` (DETECT, SYNC, FRAC_CFO_CORREC), `symbol_cnt`, `bin_idx`, `k_hat`, `net_id_off`, `down_val`, `m_received_head`, `m_symb_numb` | one symbol window per call of `general_work`; `frame_info_handler` | symbols and tags `frame_info` to `fft_demod`; message `frame_info` from `header_decoder` | finds the header at its first sample; an answer meets the wait it is for; every frame ends |
| `fft_demod` | `is_header`, `m_cr`, the block being collected | one symbol per call, one block written when full | reads the first tag of an item only and adds it to its next output item | blocks are consecutive symbols of one frame; nothing is dropped |
| `gray_enc`, `deinterleaver`, `hamming_dec` | mode of the block (`sf_app`, `cw_len`, header or not) | item by item, block by block | pass tags on | the mode belongs to the block |
| `header_decoder` | `is_header`, decoded header, `pay_cnt` | header window, payload window | answers on the port `frame_info`; nibbles to `dewhitening` | answers every header once; outputs payload and CRC of an accepted frame, no more and no less |
| `dewhitening` | `m_payload_len`, `m_crc_presence`, `offset` | pairs of nibbles of one window | tag passed on; `work_done` | each byte decoded with its own entry of the sequence, the CRC with none |
| `crc_verif` | `m_payload_len`, `m_crc_presence`, collected bytes | waits for a whole frame, publishes it | message `msg`; `std::exit` on `work_done` | messages are the frames, in order |
| `whitening` | queue of payloads | a whole payload or nothing | message in, nibbles and tags out | a payload is never split |
| `header` | two counters of nibbles | header nibbles before the payload's | changes the length in the tag | the header once, before its own payload |
| `add_crc` | payload, frame length, count | CRC behind the last nibble | changes the length in the tag | the CRC once, of this payload only |
| `hamming_enc`, `interleaver` | a count of codewords each | coding rate and block size by count | tag becomes a number of symbols | both counts agree, the last block is sent |
| `gray_decode` | none | one-to-one map of symbols | | |
| `modulate` | `symb_cnt`, `preamb_symb_cnt`, `padd_cnt`, `m_frame_len` | preamble, symbols, padding as room allows | samples to the radio | whole frames, separated by padding |
| `data_source`, `data_source_sim` | frame and error counters | send a payload, `work_done` at the end | messages | all payloads leave before `work_done` ends the simulation |
| `frame_detector_timeout`, `_threshold`, `_sequence` | state machines over symbol windows | pass on the samples of a frame | samples to the cloud | the samples passed on contain the frame |
| `signal_detector`, `mu_detection` | preamble search under another frame | windows of samples | tags `new_user`, `power`, ... | a tag on the first sample of each frame |
| `mu_synchro` | `m_sync_state`, two users with their counts of samples, `m_tau`, `m_item_to_consume` | one window per call of `sync_frame`; five exchanges of the users that consume nothing | windows with tags to `partial_ml` | the counts tell where in both frames a window begins |
| `partial_ml` | none beyond a call | demodulates a window, whole and in the parts before and after `tau` | candidates to `ml_aggreg` | parts belong to one symbol |
| `mu_demod.py` (`ml_aggreg`) | for each user: state, powers of its upchirps, parts of a symbol | puts parts together, attributes them to users | symbols of both users | every symbol of both frames, once, in order |
| `frame_sender.py` | two buffers, tags read, `send_packet`, `retries`, statistics | one call of `work` reads items, cuts at most one packet and sends it until it is settled | samples and tags of a frame detector; request and reply of the broker | no sample lost; retries end; statistics add up |
| `apps/runner.py` | requests since the start, the answer not yet sent | starts a process per request, waits for it, kills it after a time, replaces itself | broker; pair socket to the process | an answer is of the packet it answers |
| `frame_reciever.py`, `apps/cran_recieve12.py` | `state`, buffer | takes one packet from the socket, passes it on to `hier_rx` | pair socket; prints the message | the packet in order, then the end |
| `frame_src`, `err_measures`, `noise_est`, `RH_RF95_header` | fixed data, error counts | measurements | | |
| `kiss_fft`, `helpers`, tables, bindings, GRC, apps | | numerical code, glue, examples | | |

Hard behaviours, each at its line in the hazards of PROJECT.json:

* **Waiting on a later block.**  `frame_sync` passes on 8 symbols, then consumes nothing until
  `header_decoder` answers.  The answer carries no frame number and is accepted in every state.
  One lost tag, one dropped symbol or one header without an answer stops the receiver for good.
* **Independent counting.**  `frame_sync`, `fft_demod`, `header_decoder`, `dewhitening` and
  `crc_verif` each count the same frame in their own unit; `header`, `add_crc`, `hamming_enc`,
  `interleaver` and `modulate` do so on the way out.
* **Windows of any size.**  The scheduler decides how much a call sees; a frame is cut anywhere.
* **First tag only.**  Most blocks look at `tags[0]`; two tags on an item lose one.
* **Arithmetic at the edges.**  Unsigned subtraction in `m_symb_numb`, a carrier offset reduced
  modulo N and then used as a distance, -1 both as "no energy" and as a neighbour of bin 0.
* **End of simulation.**  `work_done` is searched for in whole input windows and overtakes data.
* **Two clocks.**  `mu_synchro` follows one user and counts whole samples for both; every symbol of
  the other is cut in two, or in three by the quarter downchirp, and put together two blocks later.
* **Processes that die.**  The worker's socket outlives the process it was meant for; a killed
  process leaves data or a `W_REPLY` behind for the next.  The worker ends with an answer unsent.

## 2. Modules

| Module | Models |
|---|---|
| `RxLinks` | the links of `hier_rx_impl.cc` between frame_sync, fft_demod, header_decoder |
| `FrameSync` | `frame_sync_impl.cc`: one action per branch of `general_work`, one for `frame_info_handler` |
| `FftDemod` | `fft_demod_impl.cc`: tags and collecting of blocks |
| `HeaderDecoder` | `header_decoder_impl.cc`: both header modes, the answer, the count of nibbles |
| `RxLoop` | the three composed: `Next`, fairness, the properties |
| `RxLoopInv`, `RxLoopProofs` | the inductive invariant of the receive loop and the theorems that follow from it; what the loop delivers: whole blocks, complete payloads |
| `SyncAlign`, `SyncAlignProofs` | `FrameSync` on one transmitted frame, with the read position followed by the sample; the theorems |
| `RxTail`, `RxTailProofs` | `dewhitening_impl.cc` and `crc_verif_impl.cc` behind `header_decoder`; the theorems |
| `TxLinks` | the links of `hier_tx_impl.cc` |
| `TxFraming` | `whitening_impl.cc`, `header_impl.cc`, `add_crc_impl.cc` |
| `TxCoding` | `hamming_enc_impl.cc`, `interleaver_impl.cc` |
| `Modulate` | `modulate_impl.cc` |
| `TxPath`, `TxPathProofs` | the transmit blocks composed, and the reference `Promised`: what the air should carry; the theorems |
| `FrameDetector` | what the three frame detectors share: search, buffer, tags |
| `DetectorTimeout`, `DetectorThreshold`, `DetectorSequence` | `frame_detector_*_impl.cc`, one each |
| `FrameDetectors`, `DetectorsProofs` | the three side by side, and the properties; the theorems |
| `MuSynchro` | `mu_synchro_impl.cc`: one action per way out of the switch of `sync_frame` |
| `MlAggreg` | `python/mu_demod.py` (`ml_aggreg`) and which samples `partial_ml_impl.cc` gives it |
| `TwoUser`, `TwoUserProofs` | the two composed, with the properties; the theorems about `mu_synchro` and `ml_aggreg` |
| `TwoUserOverlapProofs` | what is output while two frames overlap: all symbols of both |
| `CranLinks` | requests and answers between sensor and worker |
| `FrameSender` | `python/frame_sender.py` |
| `FrameReciever` | `python/frame_reciever.py` in a process of `apps/cran_recieve12.py` |
| `Runner` | `apps/runner.py` |
| `PacketService` | abstract: what the sensor's half promises; `Cran` implements it |
| `Cran`, `CranProofs` | the C-RAN composed, its properties, and the theorems |
| `MC*` | values of the constants for TLC |

### How state and actions correspond to the code

*Streams* are sequences of items written and not yet consumed.  GNU Radio keeps tags by absolute
offset; here an item carries its tags, and tags added at `nitems_written(0)` for an item not yet
written wait in `sync_tags` and `demod_tags`.  *Message ports* are queues; GNU Radio runs a
handler in the thread of its block between two calls of `general_work`, so a handler is one action.
*A call of `general_work`* is one action: state and tags read, all assignments, `consume_each` and
the items returned.  Members a constructor leaves unset (`m_received_head`, `cfo_sto_est`,
`is_header`) start with any value.

*The signal* is reduced to what `get_symbol_val` returns: in `RxLoop` any bin of a small set at
every window (any noise, any frames, false detections included), in `SyncAlign` any value before the
frame and the value a clean frame yields at the present read position from there on.  There
`noise_run` and `lost` are history variables: how many windows of the last run of upchirps began before the
frame, and that such a run was given up within it.  *A symbol* is its frame and index.  *The outcome of a
header* is any element of `Headers`, with a right or a wrong checksum.  *A nibble* of the transmit
chain says what it is computed from, so a CRC over two payloads is visible as such.

### Abstractions taken, and what they rest on

* `samp_rate = bandwidth`, as in all flow graphs of the repository.
* gray_enc, deinterleaver and hamming_dec are one link of whole blocks.  `fft_demod` writes whole
  blocks and the buffers hold thousands of items while `frame_sync` stops after each header, so a
  partial block is not offered.  (With one, the tag would be written twice,
  `deinterleaver_impl.cc:84`; with fewer than 5 nibbles `header_decoder_impl.cc:131` would publish a
  header and consume nothing.  Neither is reached from the chain as it is wired.)
* `header_decoder` sees all blocks written up to the next tag.
* `RxTail` takes frames written in full by `header_decoder`; that is `PayloadComplete` of `RxLoop`.
  CRCs are over two bytes or more (`TailAssumption`): a frame of one byte with CRC is refused by
  `crc_verif_impl.cc:98` without being consumed.
* `add_crc` XORs in the last *two* bytes of the payload; of a payload of one byte the second last is
  `m_payload[-1]` (`add_crc_impl.cc:136`), whatever lies in front of the vector.  `TxPath` has such frames:
  the upper two nibbles of their CRC are computed from a byte of no frame (`CrcSource`, `Stray`), and of them
  `BlocksAreFrames` says only that they are at their place.  Every other CRC is claimed to be computed
  from its own frame's payload and nothing else.
* `work_done` is modelled in `RxTail` and in the frame detectors only.
* `MuSynchro`: an input item has a number, and fractions of a sample are whole items, so rounding of
  `m_tau` to samples is kept.  Tags come from `mu_detection`, which is the environment: one
  "new_user" on the first item of each of two frames, which are numbered in the order in which they
  begin (`MuAssumption`).  Carrier offsets, the choice of the polyphase
  and the second output (sync states for measurements) are left out.
* `MlAggreg`: a demodulated value is the pair of items it was computed from, so that a symbol put
  together from the wrong parts is visible as such; one candidate per demodulation (`Ku = 1`).
* `FrameSender`: items are numbers too, and a frame detector is the environment (`FramesTagged` of
  `FrameDetectors` is what it promises).  loudify (client, broker, `worker_api`) and ZeroMQ are
  external and modelled by how they are used: in order, without loss, except that the client may
  give up and a process may be killed.  Answers carry what they were decoded from.
* A process: whether `hier_rx` decodes a packet is free, so the process may end at any time after
  the data were passed on, or never.  Its standard output is the message or not utf-8.
* An item of a frame detector is its position in the input, so that gaps, repetitions and the place
  of a tag can be told; the bin of a window is any of `Bins`, the fall of the power any choice.  The
  history variables `passed` (what has been output, padding left out), `run`, `same`, `last_bin`,
  `began` and `room_kept` are read by properties only.
* The estimators of fractional offsets, the bits of header, CRC, Hamming code and interleaving are data.

## 3. Runs

| Run | Model | Shows |
|---|---|---|
| `rx_loop` | `MCRxLoop`, SF 7, two headers (1 and 2 payload blocks, two coding rates), both header modes | `AnswerInTurn`, `TagsApart`, `NoSymbolDropped`, `BlocksWhole`, `PayloadComplete`, `FrameEnds`, and that `IInv` is an invariant |
| `rx_short_frame` | `MCRxShort`, SF 9, 1 byte without CRC | **violation** of `FrameEnds`: without a payload block the payload tag falls on the next frame's first symbol, and the receiver waits for ever |
| `sync_align` | `MCSyncAlign`, 16 bins, all sampling offsets, carrier offsets 0..3, up to 7 windows of any noise or silence before the frame | `HeaderAligned`, `CoarseOffset`, `Synchronises`, each unless noise spoilt the run that led into the frame (below) |
| `sync_negative_cfo` | the same, offsets -3..-1 | **violation** of `HeaderAligned`: the read position skips N too many samples |
| `rx_tail` | `MCRxTail`, 3 frames of 1 to 3 bytes, with and without CRC | `MessagesAreFrames`, `CrcNotDewhitened`, `AllPublished` |
| `rx_tail_crc` | the same | **violation** of `OnlyVerifiedPublished`: the CRC is never compared |
| `tx_path` | `MCTxPath`, SF 7, 2 frames of 1 or 3 bytes, header and CRC on and off | `BlocksAreFrames`, `AirIsFrames`, `AllSent` |
| `detectors` | `MCDetectors`, symbols of 8 samples, preambles of 3, 16 symbols of any input, one and two packets per window | `NothingLostInside`, `StartsInPreamble`, `PreambleFound`, `RoomKept`, `FramesTagged` |
| `cran` | `MCCran`, three frames of 2 or 3 samples, three parameter sets, a worker that replaces itself after 3 requests | `StreamCovered`, `AttemptsBounded`, `PacketsCounted`, `PassedOn`, `OwnPacketTaken`, `AnswerComes`, and the refinement `KeepsPromise` of `PacketService` |
| `cran_stale` | the same, a client that waits, processes killed before they bind | **violation** of `AnswersOwnPacket`: the data of a killed process are decoded by the next |
| `two_user` | `MCTwoUser`, two frames at every distance from 0 to 150 items (a frame is 130), three relations of their powers | `CountsTrue`, `BothDecoded`, `FirstUndisturbed`, `RefusedCostsOne`, `NeverRaised`, `InputConsumed` |
| `two_user_last` | the same, the second frame stronger and within the first | **violation** of `LastSymbolKept`: a last symbol divided in three is never output |

What the detectors' properties leave open is what the code leaves open: the upchirp that ends an
earlier run is dropped with it, so one upchirp of a preamble may be missing; the first item behind
the "start" of a second packet may be a symbol older than its preamble; `n_bytes` counts symbols,
and the first of them is a quarter symbol unless `detect_second_packet` is set; with it set, the end
of a window forgets a run in progress (`frame_detector_timeout_impl.cc:302-305`), so `PreambleFound`
is stated for the other modes.  `if(m_cnt = 6)` (`frame_detector_sequence_impl.cc:238`) assigns, and
is modelled as it runs.

What the C-RAN's and the two-user receiver's properties except, likewise, is what the code does:

* An answer is waited for in vain if it is the last before the worker replaces itself
  (`apps/runner.py:57-63`: `os.execv` before `worker.recv` sends it).  The comment there speaks of
  "500 requests"/5 s, the code of 250 and 20 s.
* Without a reply, or in the asynchronous mode, nothing counts the attempts of `frame_sender` and the
  loop does not end.  Outside `debug_mode` the first packet given up raises, as `num_error` is
  only created there (`frame_sender.py:245`).
* Two tags "end" in one call of `frame_sender.work` cut one packet; the next waits for a call.
* `frame_reciever` returns -1 together with the items of the last call: they are not passed on.
* `socket.recv` of the worker has no timeout: the runs assume that a process binds its socket.
* A frame that begins in the preamble of another, or in the symbol behind its end, is not noticed
  (`mu_synchro_impl.cc:231`).  A frame refused for its power costs the symbol its tag is in; in the
  first payload symbol all later windows are out of step (`:251`).
* When the second frame goes over to its payload in the last symbol of the first (`TurnsInLast`),
  that symbol is lost or the first payload symbol of the second is attributed to user 1.
* When the symbols of a weaker second frame begin with those of the first, to a sample (`Together`),
  `Ti2` is theirs from the sample on and each is output a window late; behind the end of the first frame
  one that waits is taken for another symbol of user 1 (`mu_demod.py:118-119`), who has one too many
  then and user 2 one too few.
* With three frames, a weak one right behind the end of one of two consumes 0 items for ever; users of
  equal power cannot be told apart by `ml_aggreg`.  The runs have two frames of different powers.

What the properties of `sync_align` except is what `frame_sync` does with noise in front of a frame:

* A window within one bin of the last one counts as an upchirp (`frame_sync_impl.cc:395`), so noise
  may begin the run that the frame goes on with, and `k_hat` is the mean of both.  A run of 8 upchirps
  bears 3 windows of noise, the one over the edge of the frame and the `bin_idx` left over from before
  included (`NoiseBorne`).  Four that drift, say 4, 5, 6, 7 and then 8, 8, 8, can move the mean by
  two bins: then `NET_ID1` does not match, and by the time the search goes on the frame is missed.  Such a
  run is `Spoilt`.  The bound is tight: with 4 windows allowed TLC finds `CoarseOffset` violated.
* A run that noise alone completed is given up after its synchronisation.  If that happens before
  the frame, the frame must still be found, and is; if the frame has begun by then, it may be missed
  (`lost`).
* Silence (-1) is within one of bin 0.  A run that begins with it and goes on with 0 only has the sum -1,
  which is divided as an unsigned: the distance to consume is far outside the input (`Underflow`), and
  what follows is undefined.

Other behaviour met while modelling, which no run states as a property: `work_done` overtakes frames and ends the
process (`crc_verif_impl.cc:68`); `frame_detector_threshold` (`:498`) and `_sequence` (`:239`) write
more than the room offered; the wrap-around of the numerator of `m_symb_numb` (`frame_sync_impl.cc:354`) needs a
frame without payload block and happens in `rx_short_frame` only; that no nibbles of a header with a wrong
checksum are output follows from the return at `header_decoder_impl.cc:196` and is not a property.

For every property of a passing run PROJECT.json has a mutant of the code it depends on (forgotten
CRC nibbles, a header not answered, a counter not reset, ...) under which TLC finds it violated;
the mutated definitions stand next to the originals in the modules, marked "Mutant".

### Bounds, and why they are enough

* `NUp = 3` in `rx_loop` keeps a preamble short; the run of upchirps is one counter with one
  threshold, and `sync_align` has the 8 of the code.  `Bins` are one value per outcome of the
  comparisons in DETECT and SYNC.
* Both buffers of `rx_loop` hold 2 items: a symbol can wait behind the one that fills a block, and
  a payload block behind a header.  `frame_sync` stops after the eighth symbol, so at most two
  frames are in flight; numbering them modulo 3 (`FrameIds`) confuses none.
* `UIntRange` is 2^16 in the runs, as TLC computes in 32 bits; any value above every numerator
  behaves alike, and the theorems do not depend on it.
* 16 bins in `sync_align` leave room for offsets up to a quarter of the band on either side and for
  both sync words; the frame is followed to the first symbol of its header.  `NoiseWindows` is 7, the
  number of windows DETECT counts: a run of noise may drift by up to 6 bins, be completed before the frame
  and send SYNC off, or lead into the frame with any number of its windows.  The theorems bound neither
  the number of windows nor what they show.
* `RxTail`: 3 frames, so that a frame has a predecessor and a successor; a buffer of 7 nibbles
  cannot hold a whole frame with CRC, so every frame is cut.
* `TxPath`: frames of one to three blocks; the smallest buffer behind each block with which it can
  run at all, or one item more, and the scheduler may offer any part of the room; 2 symbols of
  padding (80 in the code) and preambles of 2 upchirps (8), both plain counters; calls of `modulate`
  with room for up to 3 symbols end inside preamble, frame and padding.
* `FrameDetectors`: preambles of 3 upchirps (8 in the code, one counter), windows of 2 symbols, so
  that 16 symbols hold up to three frames and a second packet moves the window past the range of
  `m_cnt` (4 in the run for 2^16), with its end behind that (if `m_n_bytes` is not reduced to its 16 bits, TLC finds
  `FramesTagged` violated from 16 symbols on); 8 samples per symbol keep a quarter symbol, half of one and a
  whole one apart; room for 1, 4, 8 or 9 items lies on either side of every comparison.
* `Cran`: calls of `work` read 1 to 5 items of frames of 2 or 3, so a call ends within a frame, at
  either tag, or has two tags "end"; `MaxRetries` is 2, so that a packet is sent again (1 in the
  code, where none is); `RestartAfter` is 3 (250), so that three processes share a socket and the
  fourth request meets the new worker; `AttemptBound` bounds the loop of the asynchronous mode.
  Output buffers of 1 and 3 are smaller than, and as large as, a packet.
* `TwoUser`: 4 samples of 2 items each, so that a quarter symbol is a sample and half of one does not
  fall on a sample; the payload of 10 symbols is longer than preamble and quarter downchirp by more
  than three, so the second frame's preamble may lie wholly, partly or not in the first's payload, and
  its first payload symbols anywhere in it or behind it; every distance, hence every `m_tau`, is tried.

### Fairness

GNU Radio calls a block again while it has input and room for output: weak fairness of each block's
step, and of the handler, which is run for every queued message.  Nothing else is assumed; which
window a call sees, the signal and the outcome of a header are free.  `FrameEnds`, `AllPublished`,
`AllSent` and `InputConsumed` (`mu_synchro` and `ml_aggreg`) need it, `Synchronises` needs only that
`frame_sync` runs.  In `Cran` the sender, the worker and a started process are processes of an
operating system: weak fairness of each (`AnswerComes`), none for the client giving up or for the end
of the decoding, which may never happen and then the worker's timeout answers.  The padding behind the
*last* frame is not awaited in `AllSent`: `modulate` is called with input only.

Deadlock is checked in `rx_loop`, where the receiver must never stop.  In the other runs the
input ends, and so may the system.

## 4. What is proved

`RxLoopProofs` proves for every value of the constants that satisfies the named assumptions
(any spreading factor, buffer capacities, set of headers, number of upchirps, set of bins):

| Theorem | States |
|---|---|
| `TypeCorrect` | `Spec => []TypeOK` |
| `InductiveInvariant` | `Spec => []IInv` |
| `AnswersComeInTurn` | `Spec => []AnswerInTurn` |
| `TagsStayApart` | `Spec => []TagsApart` |
| `NoSymbolIsDropped` | `Spec => []NoSymbolDropped` |
| `BlocksAreWhole` | `Spec => []BlocksWhole` |
| `PayloadIsComplete` | `Spec => []PayloadComplete` |

Assumptions: `LinkAssumption` (README: SF 7 to 12, coding rates 0 to 4), `SyncAssumption`, and
`PayloadAssumption`: every frame has at least one payload block.  The last is needed; the run
`rx_short_frame` shows what happens without it.

None of these properties is inductive.  That an answer meets its wait depends on everything that is
on its way: a second header block anywhere on the link would produce a second answer.  `IInv`
(`RxLoopInv`) therefore ties `symbol_cnt` of frame_sync to the contents of the links: which of the
symbols in flight are the rest of a payload and which the header now asked about
(`SymbolsInOrder`), how far fft_demod is in a block and that the symbols still to come fill whole
blocks of the size it has read off the tag (`DemodInHeader`, `DemodBeforePayload`,
`DemodInPayload`), that at most one header block is on the link, at its end (`HeaderBlockLast`),
and that a header read is still a block or is the answer (`HeaderPending`, `AnswerExpected`).
The proof takes one lemma per action, with one step per conjunct the action disturbs.

`IInv` says where the symbols are, not to which payload they belong.  For `BlocksWhole`, `BlocksInv` adds
that the payload symbols on the link are of one frame (`FramesInOrder`) and that the block fft_demod is
collecting goes on with the next symbol on the link (`OutputInOrder`).  For `PayloadComplete`,
`PayloadInv` adds what three blocks have counted of one payload: if fft_demod has read `q` blocks of it
and `BlocksWaiting` of them are still on their way, then `pay_cnt` of header_decoder is what the header
block had room for and `q - BlocksWaiting` blocks more, cut off at the end of the payload
(`PayloadCounted`).  At the next header block nothing is waiting, so `q` is the number of blocks that
frame_info_handler computed, and that number of blocks has room for all nibbles (`BlockCount`).

`CranProofs` proves about the C-RAN, for any number of frames and any lengths of theirs, any sizes of
the calls of `work` and of the output buffers, any bound on the retries and any number of restarts:

| Theorem | States |
|---|---|
| `StreamIsCovered` | `Spec => []StreamCovered` |
| `SenderKeepsPromise` | `Spec => KeepsPromise`, that is: `Cran` implements `PacketService` |
| `AttemptsAreBounded`, `PacketsAreCounted` | `Spec => []AttemptsBounded`, `Spec => []PacketsCounted` |
| `OwnPacketIsTaken`, `PacketIsPassedOn` | `Spec => []OwnPacketTaken`, `Spec => []PassedOn` |
| `CranTypeCorrect` | `Spec => []TypeOK` |

Assumptions: `SenderAssumption`, `RecieverAssumption` and `RunnerAssumption`.  They bound the lengths of
frames and of output buffers by the largest of their sets, which need not be finite otherwise.

`frame_sender` cuts `diff` items off its second buffer, the distance of two tags, although what is in
front of that buffer has moved on by what is in `old_buffer`.  That it works rests on three facts that
each need the others: the two buffers together are the stream from the last cut to the read offset
(`BuffersInOrder`); the lists of tags hold exactly the tags between the frames cut and the read
offset (`TagsInOrder`), so a packet always ends at or behind its own frame's end; and a frame whose
"end" is known is in the buffers whole.  With them `SenderInv` is inductive (`BufferInv`,
`AttemptInv`, `CountInv`; the last ties the statistics to where the sender is).  The refinement
needs the invariant and one lemma: a step of `work` that cuts a packet appends its offset to
`CutOffsets` and leaves the others, every other step leaves all.  `WorkerInv` says what may be in the
socket in each state of the worker and its process (`LinkInv`, `ProcessInv`, `SocketInv`, `RunnerInv`).

### The search for a frame

`SyncAlignProofs` proves `HeaderIsAligned` (`AlignSpec => []HeaderAligned`) and
`CoarseOffsetIsClose` (`AlignSpec => []CoarseOffset`) under `AlignParameters`: any number N of bins
divisible by 4, a preamble of 7 upchirps or more (8 in the code), every sampling offset, every
carrier offset c with 0 <= 4c < N.  Of the noise before and over the edge of the frame nothing is
assumed, neither what it shows (silence included) nor how long it lasts; the properties themselves except
a run with more noise than `NoiseBorne`, one given up within the frame, and `Underflow` (section 3).
The constants of the run `sync_align` satisfy the assumption.  That c is not negative is needed:
`sync_negative_cfo` shows the opposite.

Within the frame all windows of DETECT show the same bin, (read position + c) modulo N, so all depends on
how much the run differs from a run of that bin only (`Deviation`).  A window that is off by one bin from
the last adds its difference once for every window counted before it, so a run that has drifted over `n`
windows deviates by at most `n (n - 1) / 2` (`DriftBound`, `DriftGrows`).  Once the frame is seen it drifts no
more: with `m` windows of noise in front, the last step into the frame included, the bound is
`m (m + 1) / 2`.  `NoiseBorne` says that this is less than `n_up - 1`, so the mean is the bin or
one less (`MeanOfRun`).  So SYNC starts c samples before an upchirp or c - 1 (`SymbolBySymbol`); both
network identifiers are then off by the same bin, `NET_ID2` takes that sample back, and the second
downchirp shows exactly 2c.  Of a run that is spoilt the invariant says nothing but how much noise is in
it; when it is given up before the frame, the search starts afresh (`SpoiltSync`, `FreshRun`).

### The end of the receive chain

`RxTailProofs` proves `TailTypes`, `TailMessages` (`Spec => []MessagesAreFrames`) and `TailCrcRaw`
(`Spec => []CrcNotDewhitened`) for any number of frames of 1 to 255 bytes, any capacity of the buffer
and any cutting into windows, under `TailAssumption`.  dewhitening and crc_verif take many items in a
step, so neighbour to neighbour is not enough: `IInv` gives each item a place in the stream of all
frames (`PlaceAt`) and says of every item behind it in the same frame that its place is as much
further (`NibblesInOrder`, `BytesInOrder`).  `OffsetOfPlace` ties the three members of dewhitening to the
place of the next nibble, `DoneLast` keeps "work_done" behind all frames, and `AtFrameStart` says that
crc_verif, which consumes only whole frames, is at the beginning of the next message.

### The transmit chain

`TxPathProofs` proves `TxPathTypeOK` (`Spec => []TypeOK`), `TxBlocksAreFrames`
(`Spec => []BlocksAreFrames`) and `TxAirIsFrames` (`Spec => []AirIsFrames`) for any number of payloads of
1 to 255 bytes, spreading factors 7 to 12, coding rates 0 to 4, header and CRC on and off, buffers of
any size, a preamble and a padding of any length and any room in a call of `modulate`, under
`TxAssumption` and `ModAssumption`.  The latter asks for padding (the code has 80 symbols,
`modulate_impl.cc:41`): with none, `modulate` would begin a frame again in every call that finds its
tag still there, which is every call until the preamble is out.  A CRC is of its own frame only, the upper
byte of that of a one-byte payload excepted (section 2, `CrcSource`).

Every item on a link has a *place*, its frame and its number in the frame, that can be read off it
(`NibbleIndex`, `SymIndex`).  `Ordered` says that the places on a link follow each other, across the
ends of frames, up to the place at which the writer goes on; that one is computed from the place the
writer has read up to.  So the links are chained: `WhitePlaces` ends at the next payload, `HeadPlaces`
where `header` is, and so on to `SymPlaces` (`add_crc` and `hamming_enc` write the places they read,
`interleaver` is always behind a whole number of blocks).  What a block has counted is tied to the place it
reads at (`HeaderCounts`, `CrcCounts`, `EncCounts`, `BlockCounts`, `ModCounts`), and the history is what
lies before that place (`BlocksInOrder`, `AirInOrder`).  A step moves one block's place and leaves the
first place of the link behind it alone, so every conjunct further down is kept by a lemma about
the link alone (`HeadKept`, `CodeKept`, ...).  TLC checked each part of `InOrder` as an invariant of
`tx_path` before it was proved.

`Promised` puts frames together with `FlattenSeq`, a recursive function; that it appends the sequences
one by one (`FlattenIs`, `UpToNext`) is proved with the least-number principle in place of induction.

### The frame detectors

`DetectorsProofs` proves all invariants of `FrameDetectors` for all three blocks, for symbols of any
length divisible by 4, any room offered, any `n_bytes` below the range of `m_cnt`, and any input:
`DetectorsTypes`, `FramesWhole` (`NothingLostInside`), `FramesFromPreamble` (`StartsInPreamble`),
`PreamblesFound` (`PreambleFound`, which leaves `detect_second_packet` out: there the code forgets a run),
`RoomAlwaysKept` (`RoomKept`, of `frame_detector_timeout` only) and `TagsRight` (`FramesTagged`).
The parts of `IInv`: the buffer is a piece of the input that ends at the read position
(`BufferOfInput`) and as long as the run says, or a symbol shorter (`BufferLength`); the run ends at
the read position (`RunBegins`) and holds all equal symbols (`EqualInRun`); every frame but the last has
begun to be output (`FramesBegun`, `NextInFrame`, `PreambleNext`); tags alternate (`TagsOfFrames`).
Hardest is the place of an "end" when `detect_second_packet` moves the end of the window while
`m_cnt`, 16 bits wide, wraps: `WindowPlace` states `m_n_bytes - m_cnt` modulo the range, and the
comparison of the two is exact because fewer than a range of symbols ever remain.

### Two users

`TwoUserProofs` proves `TwoUserTypes` and `CountsAreTrue` (`Spec => []CountsTrue`) for symbols, payloads
and oversampling of any size, any two powers and any distance of the frames, under `MuAssumption`.
`mu_synchro` counts samples while it consumes items, and `m_tau` is rounded when it becomes samples.
`IInv` says how much may be off in each state of `sync_frame`: the user followed is within a
sample, the other within less than one (`TwoUsers`), and that the item to which `m_tau`
leads is *exactly* the beginning of a symbol (`TauToSymbol`), so that the error made when going
over to the other user cancels instead of adding up.  A frame refused for its power puts the
windows out of step (section 3), so the counts are claimed for `~Refused` only.

What `ml_aggreg` does depends on all windows written so far, and those in the buffer it has not seen.
But they determine it: `Step` is `process_window` as an operator on a record of its state, and
`Leads(Current, windows, v)` says that `v` is the state after the waiting windows.  A window written by
`mu_synchro` takes `v` one step further (`LeadsAppend`), one processed by `ml_aggreg` leaves `v` as it is
(`LeadsTail`), so that the two sides may run at any speeds and an invariant about `v` speaks of `mu_synchro`
only.  Three invariants are of this kind.

* `PaceInv`: `v` keeps pace with `mu_synchro` (`KeepsPace`).  For each state of `sync_frame` it says which
  users `ml_aggreg` has found, with which powers, and that a user in its preamble has an upchirp that counted;
  the counts of `IInv` say when the payload of either may begin.  It implies that no window raises:
  `NothingRaises` (`Spec => []NeverRaised`), under `Distinguishable`: a frame has upchirps, and the two powers
  differ.  Both are needed.  TLC finds `NeverRaised` violated without either: `ml_aggreg` knows the users
  by their powers alone.
* `AloneInv`: as long as there is one user (`OneAtATime`: the second frame is not noticed, comes behind the
  first, or is refused behind the first payload symbol), `v` has output the first `n` symbols, each from
  exactly its own samples, with `n` told by the count of `mu_synchro`; and the next window is the
  next symbol.  For a refused frame it says that the call before consumed a whole symbol and that the
  count is a symbol behind from there on (`Skipped`).  It gives `FirstStaysWhole`
  (`Spec => []FirstUndisturbed`) and `RefusalCostsOne` (`Spec => []RefusedCostsOne`), for `NUp > 0` and an input
  that holds both frames (`FramesInside`): `sync_frame` is not called for what is left of an
  input that ends within a symbol.
* `BothInv`, in `TwoUserOverlapProofs`: while two frames overlap (`Overlap`: the second begins in the
  payload of the first, is accepted, and its payload begins in neither of the two places where a symbol
  is known to be lost),
  `v` has output the right symbols of *both* so far and holds what it needs of the next (`TwoFrames`).
  It gives `BothFramesDecoded` (`Spec => []BothDecoded`), under `Distinguishable` and `FramesInside`: every
  payload symbol of both frames is output once, in order, for its user, from parts that cover
  its samples to within one.

A window of the frame followed cuts a symbol of the other in two, a window shortened for its quarter downchirp
in three, and which frame is followed depends on the powers and changes where the first ends.
What `TwoFrames` says of `prev_Mi2` and `prev_Ti2` is therefore by state of `sync_frame` and by which of
the two is the stronger.  `WeakTwo` (the second is weaker): its next symbol `g` begins `m_tau` items on, its
symbols up to `g - 2` are output, and the pieces kept of symbol `g - 1` lead from its start to `nread`,
each beginning where the one before ends, to within a sample (`Covers`).  `StrongTwo` says the same with the
two frames exchanged, and has two more cases: the second begins exactly with a symbol of the first, of
which no piece is kept yet (`AtOnceTwo`), and the first is output in full while the second goes on
(`Settled`).  `PrevTwo` is the call in which `mu_synchro` goes over from the first frame, which has ended, to
a weaker second.  `Covers` is what makes the invariant inductive: that a symbol is whole can be said only
once its last part has come, but by then nothing of the state tells where the first one was taken.
`IInv` is needed for the exact start of each symbol, `KeepsPace` for the user a part is added to: a window
in the right place that finds its user not yet, or no more, in its payload loses the part.

### Only model-checked

* The liveness properties (`FrameEnds`, `AllPublished`, `AllSent`, `Synchronises`, `AnswerComes`,
  `InputConsumed`): the prover does not handle fairness with ENABLED.

Every safety and action property of a passing run has a theorem.

## 5. Not modelled, and why

Fourier transforms, estimators, `partial_ml`, `kiss_fft` and tables are numerical.  `frame_src`,
`err_measures`, `noise_est` and `RH_RF95_header` measure or format and do not interact.  Bindings,
GRC descriptions, example applications, documentation and plot tools have no state of their own.
`mu_detection` and `signal_detector` detect preambles numerically; `mu_synchro` is modelled with the tags
they ought to set.  `data_source` and `data_source_sim` count what they send; nothing in the repository
says what becomes of payloads still queued when `work_done` arrives, so neither they nor `whitening`
under `work_done` have a property to check.

## 6. Plan

1. Receive loop, its invariant and proofs; alignment; tail; transmit path (done).
2. The three frame detectors over symbol windows (done).
3. `TwoUser`: `mu_synchro`, `partial_ml`, `ml_aggreg` on two frames (done).
4. `Cran`: `frame_sender`, `frame_reciever`, `runner`, with retries, timeouts and restarts; the
   refinement of `PacketService` and its proof (done).
5. Three frames in `TwoUser`, and the tags of `mu_detection` off by a symbol.
6. `BlockStages`: deinterleaver and hamming_dec with partial blocks, if a flow graph offers them.
7. An abstract specification of the receive chain: frames are delivered in order, each once.
8. Theorems: the receive loop, the transmit chain, the C-RAN, `SyncAlign`, `RxTail`, the frame
   detectors and `TwoUser` (done); that sender and receiver count the same symbols (`TxSymbNumb` and
   `SymbNumb`) whenever a frame has a payload block.
