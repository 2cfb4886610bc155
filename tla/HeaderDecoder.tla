--------------------------- MODULE HeaderDecoder ---------------------------
(***************************************************************************)
(* lib/header_decoder_impl.cc: reads the header out of the first block of  *)
(* a frame, answers frame_sync with the message "frame_info", and passes   *)
(* on the nibbles of the payload.                                          *)
(*                                                                         *)
(* The scheduler offers general_work everything written so far; the code   *)
(* cuts that window at the next "frame_info" tag.  The content of a header *)
(* is the nondeterministic choice of an element of Headers, or of a header *)
(* whose checksum does not match.                                          *)
(***************************************************************************)
EXTENDS RxLinks

VARIABLES
  header_mode,   \* is_header of this block
  header,        \* m_cr, m_payload_len and m_has_crc
  pay_cnt,       \* payload nibbles output
  head_err       \* history: no header read yet, or the last one answered with err = 1

headerVars == <<header_mode, header, pay_cnt, head_err>>

\* Mutant: the header is taken to be one nibble longer.
header_len_long == 6

header_len == 5

HeaderInit ==
  /\ header_mode \in BOOLEAN   \* not initialised by the constructor
  /\ header \in Headers
  /\ pay_cnt = 0
  /\ head_err = TRUE

\* The window: the first n blocks, up to the next tag (tags[0] if that is not
\* on the first item, else tags[1]) or to the end of what has been written.
IsWindow(n) ==
  /\ \A i \in 2 .. n : ~IsTagged(codewords[i])
  /\ n < Len(codewords) => IsTagged(codewords[n + 1])

\* Payload and CRC nibbles of a frame.
FrameNibbles(h) == 2 * h.pay_len + 4 * h.crc

\* The nibbles of a window of n that are output when at most FrameNibbles may be.
Bounded(n, cnt, h) ==
  LET room == FrameNibbles(h) - cnt
  IN  IF room <= 0 THEN 0 ELSE IF n <= room THEN n ELSE room

\* The mode after the tag of the first block, if there is one.
ModeNow ==
  IF IsTagged(codewords[1]) THEN FirstTag(codewords[1]).is_header ELSE header_mode

\* pay_cnt after that tag: a header restarts the count.
CountNow == IF OpensHeader(codewords[1]) THEN 0 ELSE pay_cnt

\* nitem_to_process.
Nibbles(n) == n * SfApp(ModeNow)

Message(h, err) == [header |-> h, err |-> err, of |-> codewords[1].syms[1].frame]

Consume(n) == codewords' = SubSeq(codewords, n + 1, Len(codewords))

\* Implicit header: the answer is what the block was configured with.
ImplicitHeader(n) ==
  /\ m_impl_head
  /\ frame_info' = Append(frame_info, Message(header, FALSE))
  /\ pay_cnt' = CountNow + Bounded(Nibbles(n), CountNow, header)
  /\ head_err' = FALSE
  /\ UNCHANGED header

\* Explicit header: the rest of the first block is counted whatever the header
\* says, and whether or not its checksum is right.
\* Mutant: a header whose checksum is wrong is not answered.
ExplicitHeaderSilent(n, h, err) ==
  /\ ~m_impl_head
  /\ header' = h
  /\ head_err' = err
  /\ frame_info' = IF err THEN frame_info ELSE Append(frame_info, Message(h, err))
  /\ pay_cnt' = CountNow + (Nibbles(n) - header_len)

ExplicitHeader(n, h, err) ==
  /\ ~m_impl_head
  /\ header' = h
  /\ head_err' = err
  /\ frame_info' = Append(frame_info, Message(h, err))
  /\ pay_cnt' = CountNow + (Nibbles(n) - header_len)

HeaderBlock ==
  \E n \in 1 .. Len(codewords) :
    /\ IsWindow(n)
    /\ ModeNow
    /\ header_mode' = TRUE
    /\ ImplicitHeader(n) \/ \E h \in Headers, err \in BOOLEAN : ExplicitHeader(n, h, err)
    /\ Consume(n)
    /\ UNCHANGED <<m_impl_head, symbols, sync_tags>>

PayloadBlocks ==
  \E n \in 1 .. Len(codewords) :
    /\ IsWindow(n)
    /\ ~ModeNow
    /\ header_mode' = FALSE
    /\ pay_cnt' = CountNow + Bounded(Nibbles(n), CountNow, header)
    /\ Consume(n)
    /\ UNCHANGED <<header, head_err, m_impl_head, symbols, sync_tags, frame_info>>
============================================================================
