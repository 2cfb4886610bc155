----------------------------- MODULE TxFraming -----------------------------
(***************************************************************************)
(* The nibbles of a frame: lib/whitening_impl.cc writes the payload,       *)
(* lib/header_impl.cc puts the explicit header before it and               *)
(* lib/add_crc_impl.cc the CRC behind it.  Each call of a block handles a  *)
(* piece of a frame, whose size the scheduler decides.                     *)
(***************************************************************************)
EXTENDS TxLinks

VARIABLES
  payload_str,  \* of whitening: payloads not yet written
  m_payload_len, m_tag_len, m_cnt_nibbles, m_cnt_header_nibbles,  \* of header
  m_payload, m_frame_len, m_cnt   \* of add_crc

framingVars == <<payload_str, m_payload_len, m_tag_len, m_cnt_nibbles, m_cnt_header_nibbles,
                 m_payload, m_frame_len, m_cnt>>

FramingInit ==
  /\ payload_str = [f \in 1 .. NFrames |-> f]
  /\ m_payload_len = 0 /\ m_tag_len = 0
  /\ m_cnt_nibbles = 0 /\ m_cnt_header_nibbles = 0
  /\ m_payload = <<>> /\ m_frame_len = 0 /\ m_cnt = 0

\* whitening: a whole payload or nothing.
Whiten ==
  /\ payload_str # <<>>
  /\ LET f == Head(payload_str)
         n == 2 * payloads[f]
     IN /\ n <= Capacity.whitened - Len(whitened)
        /\ whitened' = whitened \o
             [k \in 1 .. n |-> [frame |-> f, nibble |-> Nibble("pay", k - 1, <<>>),
                                len |-> IF k = 1 THEN n ELSE 0]]
  /\ payload_str' = Tail(payload_str)
  /\ UNCHANGED <<parameters, headed, checked, coded, tx_symbols,
                 m_payload_len, m_tag_len, m_cnt_nibbles, m_cnt_header_nibbles,
                 m_payload, m_frame_len, m_cnt>>

----------------------------------------------------------------------------
\* header

HeaderLen == IF m_impl_head THEN 0 ELSE 5

\* The counters as the tag on the first item of the input leaves them.
CntNibblesNow == IF whitened[1].len # 0 THEN 0 ELSE m_cnt_nibbles

\* How many of n output items are nibbles of the header.
\* Mutant: the nibbles already output by the call before are not counted.
HeaderPartAgain(n) ==
  IF m_impl_head \/ CntNibblesNow # 0 THEN 0 ELSE Min({n, 5})

HeaderPart(n) ==
  IF m_impl_head \/ CntNibblesNow # 0 THEN 0 ELSE Min({n, 5 - m_cnt_header_nibbles})

\* The frame_len tag goes on the first item of a frame.
OpensFrame == CntNibblesNow = 0 /\ m_cnt_header_nibbles = 0

AddHeader ==
  /\ whitened # <<>>
  /\ \E noutput \in Offers(headed, "headed") :
       LET n == Min({Window(whitened), noutput})
           h == HeaderPart(n)
           item(k) ==
             [frame |-> whitened[1].frame,
              nibble |-> IF k <= h
                         THEN Nibble("hdr", m_cnt_header_nibbles + k - 1, <<m_payload_len'>>)
                         ELSE whitened[k - h].nibble,
              len |-> IF k = 1 /\ OpensFrame THEN m_tag_len' ELSE 0]
       IN /\ m_payload_len' = IF whitened[1].len # 0 THEN whitened[1].len \div 2 ELSE m_payload_len
          /\ m_tag_len' = IF whitened[1].len # 0 THEN whitened[1].len + HeaderLen ELSE m_tag_len
          /\ headed' = headed \o [k \in 1 .. n |-> item(k)]
          /\ whitened' = Taken(whitened, n - h)
          /\ m_cnt_nibbles' = CntNibblesNow + (n - h)
          /\ m_cnt_header_nibbles' = IF n > h THEN 0 ELSE m_cnt_header_nibbles + h
  /\ UNCHANGED <<parameters, checked, coded, tx_symbols, payload_str, m_payload, m_frame_len, m_cnt>>

----------------------------------------------------------------------------
\* add_crc; four items of the room offered are kept for the CRC.

FrameLenNow == IF headed[1].len # 0 THEN headed[1].len ELSE m_frame_len
CntNow == IF headed[1].len # 0 THEN 0 ELSE m_cnt

\* The payload of a new frame is added to what is there.
PayloadNow == IF headed[1].len # 0 THEN Append(m_payload, headed[1].frame) ELSE m_payload

\* The CRC follows the last nibble of the frame.
\* Mutant: the CRC follows the last nibble of every piece.
EndsFrameAlways(n) == m_has_crc

EndsFrame(n) == m_has_crc /\ CntNow + n = FrameLenNow

(***************************************************************************)
(* What nibble i of the CRC is computed from when m_payload holds the      *)
(* payloads of these frames.  The last two bytes are XORed in; of a single *)
(* byte the second last is m_payload[-1], whatever lies in front of the    *)
(* vector (Stray, the number of no frame), and it fills the upper byte of  *)
(* the CRC.                                                                *)
(***************************************************************************)
Stray == 0

CrcSource(frames, lens, i) ==
  IF Len(frames) = 1 /\ lens[frames[1]] = 1 /\ i > 1 THEN Append(frames, Stray) ELSE frames

CrcNibbles ==
  [k \in 1 .. 4 |-> [frame |-> headed[1].frame,
                    nibble |-> Nibble("crc", k - 1, CrcSource(PayloadNow, payloads, k - 1)),
                    len |-> 0]]

AddCrc ==
  /\ headed # <<>>
  /\ \E noutput \in Offers(checked, "checked") :
       LET n == Min({Window(headed), noutput - 4}) IN
       /\ n > 0
       /\ checked' = checked
            \o [k \in 1 .. n |-> [headed[k] EXCEPT
                  !.len = IF @ # 0 THEN @ + (IF m_has_crc THEN 4 ELSE 0) ELSE 0]]
            \o (IF EndsFrame(n) THEN CrcNibbles ELSE <<>>)
       /\ headed' = Taken(headed, n)
       /\ m_cnt' = CntNow + n
       /\ m_frame_len' = FrameLenNow
       /\ m_payload' = IF EndsFrame(n) THEN <<>> ELSE PayloadNow
  /\ UNCHANGED <<parameters, whitened, coded, tx_symbols, payload_str,
                 m_payload_len, m_tag_len, m_cnt_nibbles, m_cnt_header_nibbles>>
============================================================================
