------------------------------- MODULE TxPath -------------------------------
(***************************************************************************)
(* The transmit chain of lib/hier_tx_impl.cc: every block is a thread of   *)
(* its own and is called with as many items and as much room as the        *)
(* scheduler has.  What is sent must not depend on that.                   *)
(***************************************************************************)
EXTENDS TxFraming, TxCoding, Modulate, SequencesExt

vars == <<parameters, whitened, headed, checked, coded, tx_symbols,
          framingVars, codingVars, modVars>>

Init == LinksInit /\ FramingInit /\ CodingInit /\ ModInit

WhiteningStep   == Whiten /\ UNCHANGED <<codingVars, modVars>>
HeaderStep      == AddHeader /\ UNCHANGED <<codingVars, modVars>>
CrcStep         == AddCrc /\ UNCHANGED <<codingVars, modVars>>
HammingStep     == HammingEnc /\ UNCHANGED <<framingVars, modVars>>
InterleaverStep == (InterleaveBlock \/ InterleaverWaits) /\ UNCHANGED <<framingVars, modVars>>
ModulateStep    == Modulate /\ UNCHANGED <<framingVars, codingVars>>

Next ==
  \/ WhiteningStep \/ HeaderStep \/ CrcStep
  \/ HammingStep \/ InterleaverStep \/ ModulateStep

(***************************************************************************)
(* The scheduler runs each block again while it has input and room; the    *)
(* room it offers grows as the next block consumes.                        *)
(***************************************************************************)
Spec ==
  /\ Init /\ [][Next]_vars
  /\ WF_vars(WhiteningStep) /\ WF_vars(HeaderStep) /\ WF_vars(CrcStep)
  /\ WF_vars(HammingStep) /\ WF_vars(InterleaverStep) /\ WF_vars(ModulateStep)
----------------------------------------------------------------------------

\* The parameters of hier_tx and the payloads given to it.
Parameters == [impl_head : BOOLEAN, has_crc : BOOLEAN, cr : CodingRates,
               payloads : [1 .. NFrames -> PayloadLens]]
Given == [impl_head |-> m_impl_head, has_crc |-> m_has_crc, cr |-> m_cr, payloads |-> payloads]

\* What frame f consists of.  The upper byte of the CRC of a single byte is not determined by the frame.
NibblesOf(p, f) ==
  (IF p.impl_head THEN <<>> ELSE [i \in 1 .. 5 |-> Nibble("hdr", i - 1, <<p.payloads[f]>>)])
  \o [i \in 1 .. 2 * p.payloads[f] |-> Nibble("pay", i - 1, <<>>)]
  \o (IF p.has_crc
      THEN [i \in 1 .. 4 |-> Nibble("crc", i - 1, CrcSource(<<f>>, p.payloads, i - 1))]
      ELSE <<>>)

\* Its blocks: SF - 2 nibbles at coding rate 4, then SF at a time at the frame's.
BlocksOf(p, f) ==
  LET all   == NibblesOf(p, f)
      count == 1 + Max({CeilDiv(Len(all) - (SF - 2), SF), 0})
      first(b) == IF b = 1 THEN 1 ELSE SF - 1 + (b - 2) * SF
      last(b)  == Min({first(b + 1) - 1, Len(all)})
      cr(b)    == IF b = 1 THEN 4 ELSE p.cr
  IN  [b \in 1 .. count |->
        [cw_len |-> 4 + cr(b),
         cws |-> [k \in 1 .. last(b) - first(b) + 1 |->
                    [frame |-> f, nibble |-> all[first(b) + k - 1], cr |-> cr(b)]]]]

\* The blocks of the frames up to f.
BlocksUpTo(p, f) == FlattenSeq([g \in 1 .. f |-> BlocksOf(p, g)])

AirItem(kind, block, i) == [kind |-> kind, block |-> block, i |-> i]

\* Its symbols; blocks are numbered through all frames.
SymbolsOf(p, f) ==
  LET before == Len(BlocksUpTo(p, f - 1)) IN
  FlattenSeq([b \in 1 .. Len(BlocksOf(p, f)) |->
    [i \in 1 .. BlocksOf(p, f)[b].cw_len |-> AirItem("symbol", before + b, i)]])

PreambleOf ==
  [k \in 1 .. NUp |-> "upchirp"]
    \o <<"sync_word_1", "sync_word_2", "downchirp", "downchirp", "quarter_downchirp">>

\* What a frame is on the air: preamble, symbols of its blocks, silence.
AirOf(p, f) ==
  [k \in 1 .. Len(PreambleOf) |-> AirItem(PreambleOf[k], 0, 0)]
    \o SymbolsOf(p, f)
    \o [k \in 1 .. InterFramePadding |-> AirItem("silence", 0, 0)]

\* The air up to frame f.
AirUpTo(p, f) == FlattenSeq([g \in 1 .. f |-> AirOf(p, g)])

\* What should be sent, for all parameters.
Promised ==
  [p \in Parameters |->
     [blocks |-> BlocksUpTo(p, NFrames),
      air    |-> AirUpTo(p, NFrames)]]

Bare(block) ==
  [cw_len |-> block.cw_len,
   cws |-> [k \in 1 .. Len(block.cws) |->
              [frame |-> block.cws[k].frame, nibble |-> block.cws[k].nibble, cr |-> block.cws[k].cr]]]

TypeOK ==
  /\ m_impl_head \in BOOLEAN /\ m_has_crc \in BOOLEAN /\ m_cr \in CodingRates
  /\ m_cnt_header_nibbles \in 0 .. 5
  /\ symb_cnt \in 0 .. (mod_frame_len + InterFramePadding)
  /\ preamb_symb_cnt \in 0 .. PreambleLen
  /\ padd_cnt \in 0 .. InterFramePadding
  /\ Len(whitened) <= Capacity.whitened /\ Len(headed) <= Capacity.headed
  /\ Len(checked) <= Capacity.checked /\ Len(coded) <= Capacity.coded
  /\ Len(tx_symbols) <= Capacity.tx_symbols

(***************************************************************************)
(* The blocks interleaved are those of the frames, one after the other,    *)
(* however the frames were cut into pieces on the way: header and CRC at   *)
(* their place and computed from this frame alone, the first SF - 2        *)
(* codewords and no others at coding rate 4, each block as long as its     *)
(* codewords (whitening, header, add_crc, hamming_enc, interleaver).  Not  *)
(* claimed, because it does not hold, is that the upper byte of the CRC of *)
(* a frame of one byte is computed from the frame: of these two nibbles    *)
(* only the place is.                                                      *)
(***************************************************************************)
BlocksAreFrames ==
  LET b == Len(blocks)
      promised == Promised[Given].blocks
  IN  b > 0 => b <= Len(promised) /\ Bare(blocks[b]) = promised[b]

(***************************************************************************)
(* On the air every frame has its whole preamble, all symbols of its       *)
(* blocks in order, and the padding behind it before the next begins.      *)
(***************************************************************************)
AirIsFrames == IsPrefix(air, Promised[Given].air)

(***************************************************************************)
(* Every payload is sent: no block waits for items that never come.  The   *)
(* padding behind the last frame is not awaited: modulate is only called   *)
(* with input, so that padding is sent when another frame follows.         *)
(***************************************************************************)
AllSent == <>(Len(air) >= Len(Promised[Given].air) - InterFramePadding)
=============================================================================
