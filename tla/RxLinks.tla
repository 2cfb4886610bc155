------------------------------ MODULE RxLinks ------------------------------
(***************************************************************************)
(* The links of the receive chain that hier_rx_impl.cc builds: the stream  *)
(* of symbols from frame_sync to fft_demod, the stream of blocks from      *)
(* fft_demod to header_decoder, and the message queue "frame_info" on      *)
(* which header_decoder answers frame_sync.                                *)
(*                                                                         *)
(* A stream is the sequence of the items written and not yet consumed.     *)
(* GNU Radio keeps stream tags by absolute item offset, in the order they  *)
(* were added; a tag added at nitems_written(0) belongs to the next item   *)
(* written.  Each item therefore carries the sequence of its tags, and     *)
(* sync_tags holds the tags whose item is still to come.                   *)
(*                                                                         *)
(* A symbol is identified by the frame it was cut from and its place idx   *)
(* in that frame (0 is the first symbol after the preamble); its samples   *)
(* are abstracted away.  gray_enc, deinterleaver and hamming_dec turn each *)
(* block of fft_demod into sf_app nibbles, one block at a time, and pass   *)
(* the tag of its first item on; the link codewords stands for the three.  *)
(* All blocks from one tag to the next have the mode that tag sets.        *)
(***************************************************************************)
EXTENDS Integers, Sequences

CONSTANTS
  SF,               \* m_sf, the spreading factor
  SymbolsCapacity,  \* items the buffer between frame_sync and fft_demod holds
  BlocksCapacity,   \* blocks the buffers between fft_demod and header_decoder hold
  ImplicitModes,    \* the values of impl_head explored
  Headers           \* the header contents [cr, pay_len, crc] a frame may carry

\* "Spreading factors: 7-12" and "Coding rates: 0-4" (README.md).
ASSUME LinkAssumption ==
  /\ SF \in 7 .. 12
  /\ SymbolsCapacity \in Nat \ {0}
  /\ BlocksCapacity \in Nat \ {0}
  /\ ImplicitModes \subseteq BOOLEAN
  /\ Headers \subseteq [cr : 0 .. 4, pay_len : 0 .. 255, crc : {0, 1}]
  /\ Headers # {}

VARIABLES
  m_impl_head,  \* implicit header mode: a parameter of hier_rx given to both ends
  symbols,      \* frame_sync -> fft_demod
  sync_tags,    \* tags frame_sync added at its nitems_written(0)
  codewords,    \* fft_demod -> header_decoder
  frame_info    \* messages header_decoder -> frame_sync

links == <<m_impl_head, symbols, sync_tags, codewords, frame_info>>

\* The "frame_info" tag that opens a frame and the one that opens its payload.
HeaderTag      == [is_header |-> TRUE, cr |-> 0]
PayloadTag(cr) == [is_header |-> FALSE, cr |-> cr]
FrameInfoTags  == {HeaderTag} \cup {PayloadTag(cr) : cr \in 0 .. 4}

IsTagged(item) == item.tags # <<>>
FirstTag(item) == item.tags[1]
OpensHeader(item) == IsTagged(item) /\ FirstTag(item).is_header

\* sf_app of the deinterleaver: the header is sent at a reduced rate.
SfApp(mode) == IF mode THEN SF - 2 ELSE SF

LinksInit ==
  /\ m_impl_head \in ImplicitModes
  /\ symbols = <<>>
  /\ sync_tags = <<>>
  /\ codewords = <<>>
  /\ frame_info = <<>>
============================================================================
