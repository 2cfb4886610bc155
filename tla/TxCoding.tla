------------------------------ MODULE TxCoding ------------------------------
(***************************************************************************)
(* lib/hamming_enc_impl.cc and lib/interleaver_impl.cc: the nibbles of a   *)
(* frame become codewords, SF (in the header block SF - 2) codewords a     *)
(* block of symbols.  Each of the two keeps its own count of codewords to  *)
(* tell the header block, sent at coding rate 4, from the rest.            *)
(***************************************************************************)
EXTENDS TxLinks

VARIABLES
  enc_cnt,                  \* m_cnt of hamming_enc
  cw_cnt, inter_frame_len,  \* of interleaver
  blocks                    \* history: the blocks interleaved

codingVars == <<enc_cnt, cw_cnt, inter_frame_len, blocks>>

CodingInit == enc_cnt = 0 /\ cw_cnt = 0 /\ inter_frame_len = 0 /\ blocks = <<>>

\* Is the codeword number cnt of a frame in its header block?
InHeaderBlock(cnt) == cnt < SF - 2

EncCntNow == IF checked[1].len # 0 THEN 0 ELSE enc_cnt

CrApp(cnt) == IF InHeaderBlock(cnt) THEN 4 ELSE m_cr

HammingEnc ==
  /\ checked # <<>>
  /\ \E noutput \in Offers(coded, "coded") :
       LET n == Min({Window(checked), noutput}) IN
       /\ coded' = coded \o
            [k \in 1 .. n |-> [frame |-> checked[k].frame, nibble |-> checked[k].nibble,
                               len |-> checked[k].len, cr |-> CrApp(EncCntNow + k - 1)]]
       /\ checked' = Taken(checked, n)
       /\ enc_cnt' = EncCntNow + n
  /\ UNCHANGED <<parameters, whitened, headed, tx_symbols, cw_cnt, inter_frame_len, blocks>>

----------------------------------------------------------------------------
\* interleaver

CeilDiv(x, y) == -((-x) \div y)

\* The symbols of a frame of len nibbles: the value of its frame_len tag.
TxSymbNumb(len) == 8 + Max({CeilDiv(len - SF + 2, SF) * (m_cr + 4), 0})

CwCntNow == IF coded[1].len # 0 THEN 0 ELSE cw_cnt
InterFrameLenNow == IF coded[1].len # 0 THEN coded[1].len ELSE inter_frame_len

CwLen == 4 + (IF InHeaderBlock(CwCntNow) THEN 4 ELSE m_cr)
SfApp == IF InHeaderBlock(CwCntNow) THEN SF - 2 ELSE SF

\* Codewords for the next block.
BlockItems == Min({Window(coded), SfApp})

\* A full block, or the rest of the frame, which is padded.
\* Mutant: a block is only sent when it is full.
BlockReadyFull == BlockItems >= SfApp

BlockReady == BlockItems >= SfApp \/ CwCntNow + BlockItems = InterFrameLenNow

SymbolsOfBlock ==
  [i \in 1 .. CwLen |->
     [frame |-> coded[1].frame, block |-> Len(blocks) + 1, i |-> i,
      len |-> IF i = 1 /\ CwCntNow = 0 THEN TxSymbNumb(InterFrameLenNow) ELSE 0]]

InterleaveBlock ==
  /\ coded # <<>>
  /\ \E noutput \in Offers(tx_symbols, "tx_symbols") : noutput >= CwLen
  /\ BlockReady
  /\ blocks' = Append(blocks, [cw_len |-> CwLen, cws |-> SubSeq(coded, 1, BlockItems)])
  /\ tx_symbols' = tx_symbols \o SymbolsOfBlock
  /\ cw_cnt' = CwCntNow + SfApp
  /\ inter_frame_len' = InterFrameLenNow
  /\ coded' = Taken(coded, BlockItems)
  /\ UNCHANGED <<parameters, whitened, headed, checked, enc_cnt>>

\* Not enough codewords or room yet: only the tag is read.
InterleaverWaits ==
  /\ coded # <<>>
  /\ \/ \E noutput \in Offers(tx_symbols, "tx_symbols") : noutput < CwLen
     \/ Len(tx_symbols) < Capacity.tx_symbols /\ ~BlockReady
  /\ cw_cnt' = CwCntNow
  /\ inter_frame_len' = InterFrameLenNow
  /\ UNCHANGED <<parameters, whitened, headed, checked, coded, tx_symbols, enc_cnt, blocks>>
=============================================================================
