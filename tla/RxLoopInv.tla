----------------------------- MODULE RxLoopInv -----------------------------
(***************************************************************************)
(* The receive loop for frames that have at least one payload block after  *)
(* the header block, and the inductive invariant that ties the counter of  *)
(* frame_sync to what is still on its way to header_decoder.               *)
(***************************************************************************)
EXTENDS RxLoop

\* Some nibbles of the frame are left over for the payload blocks.
ASSUME PayloadAssumption ==
  \A impl \in ImplicitModes, h \in Headers : PayloadNibbles(impl, h) > 0

----------------------------------------------------------------------------
(***************************************************************************)
(* frame_sync is passing on a header and has no answer yet (Asking), or    *)
(* has the answer and passes on the payload (Taking).                      *)
(***************************************************************************)
Asking == m_state = "FRAC_CFO_CORREC" /\ ~m_received_head
Taking == m_state = "FRAC_CFO_CORREC" /\ m_received_head

\* fft_demod has begun to read the header that frame_sync asks about; it has
\* read HeaderRead symbols of it.
HeaderBegun == Asking /\ symbol_cnt > Len(symbols)
HeaderRead == symbol_cnt - Len(symbols)

\* Of the symbols on the link the first PayloadIn belong to a payload, the
\* others to the header that frame_sync asks about.
PayloadIn ==
  IF ~Asking THEN Len(symbols)
  ELSE IF HeaderBegun THEN 0 ELSE Len(symbols) - symbol_cnt

\* One more than the idx of the last payload symbol written.
PayloadEnd == IF Taking THEN symbol_cnt ELSE m_symb_numb

\* The last frame answered consists of whole blocks.
WholeFrame == \E k \in 1 .. m_symb_numb : m_symb_numb = 8 + k * (4 + symb_cr)

\* The tags of the symbol idx, added when frame_sync wrote it or will write it.
TagsOfIndex(idx) ==
  IF idx = 0 THEN <<HeaderTag>> ELSE IF idx = 8 THEN <<PayloadTag(symb_cr)>> ELSE <<>>

Counting ==
  /\ Asking => symbol_cnt \in 0 .. 8
  /\ Taking => symbol_cnt \in 8 .. m_symb_numb
  /\ m_symb_numb = 0 \/ WholeFrame
  /\ m_symb_numb = 0 => ~Taking /\ PayloadIn = 0
  /\ PayloadIn > 0 => PayloadEnd - PayloadIn >= 8

TagsToCome ==
  sync_tags = CASE Asking /\ symbol_cnt = 0 -> <<HeaderTag>>
                [] Taking /\ symbol_cnt = 8 -> <<PayloadTag(symb_cr)>>
                [] OTHER -> <<>>

SymbolsInOrder ==
  \A i \in 1 .. Len(symbols) :
    /\ symbols[i].idx = IF i <= PayloadIn THEN PayloadEnd - PayloadIn + i - 1
                                          ELSE HeaderRead + i - 1
    /\ symbols[i].tags = TagsOfIndex(symbols[i].idx)
    /\ i > PayloadIn => symbols[i].frame = frame

\* fft_demod in the header that frame_sync asks about.
DemodInHeader ==
  HeaderBegun =>
    /\ is_header
    /\ HeaderRead < 8 => /\ Len(output) = HeaderRead
                         /\ output[1].frame = frame
                         /\ demod_tags = <<HeaderTag>>
    /\ HeaderRead = 8 => output = <<>> /\ demod_tags = <<>>

\* fft_demod done with a header and before the payload that follows it, if any.
DemodBeforePayload ==
  ~HeaderBegun /\ is_header =>
    /\ output = <<>> /\ demod_tags = <<>>
    /\ Taking \/ PayloadIn > 0 => PayloadEnd - PayloadIn = 8

\* fft_demod has read q payload blocks and part of the next.
DemodInPayload ==
  ~HeaderBegun /\ ~is_header =>
    \/ m_symb_numb = 0 /\ output = <<>> /\ demod_tags = <<>>
    \/ /\ demod_cr = symb_cr
       /\ \E q \in 0 .. m_symb_numb :
            /\ PayloadEnd - PayloadIn = 8 + q * (4 + symb_cr) + Len(output)
            /\ q = 0 => output # <<>> /\ demod_tags = <<PayloadTag(symb_cr)>>
            /\ q # 0 => demod_tags = <<>>
       /\ Len(output) < 4 + symb_cr

\* A header block is the last on its link, and is the one frame_sync asks about.
HeaderBlockLast ==
  \A i \in 1 .. Len(codewords) :
    OpensHeader(codewords[i]) =>
      /\ i = Len(codewords)
      /\ HeaderBegun /\ HeaderRead = 8
      /\ frame_info = <<>>
      /\ codewords[i].syms[1].frame = frame

\* The header that was read is still a block, or has become the answer.
HeaderPending ==
  HeaderBegun /\ HeaderRead = 8 =>
    \/ codewords # <<>> /\ OpensHeader(codewords[Len(codewords)])
    \/ codewords = <<>> /\ Len(frame_info) = 1 /\ frame_info[1].of = frame

AnswerExpected ==
  frame_info # <<>> => HeaderBegun /\ HeaderRead = 8 /\ codewords = <<>>

\* In header mode header_decoder next meets a tag.
TagAfterHeader ==
  header_mode =>
    \/ codewords # <<>> /\ IsTagged(codewords[1])
    \/ codewords = <<>> /\ (is_header \/ demod_tags # <<>> \/ m_symb_numb = 0)

IInv ==
  /\ TypeOK
  /\ Counting /\ TagsToCome /\ SymbolsInOrder
  /\ DemodInHeader /\ DemodBeforePayload /\ DemodInPayload
  /\ HeaderBlockLast /\ HeaderPending /\ AnswerExpected /\ TagAfterHeader
============================================================================
