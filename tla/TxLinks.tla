------------------------------ MODULE TxLinks ------------------------------
(***************************************************************************)
(* The links of the transmit chain that hier_tx_impl.cc builds, from       *)
(* whitening to modulate, and what a frame consists of.                    *)
(*                                                                         *)
(* A nibble says what it is: the i-th of the explicit header, of the       *)
(* payload or of the payload CRC.  about is what it was computed from: the *)
(* payload length in a header, the payloads added up in a CRC.  len is the *)
(* value of the tag "frame_len" on the item, 0 for none; where the code    *)
(* also has a tag "payload_str" it is on the same item.                    *)
(***************************************************************************)
EXTENDS Integers, Sequences, FiniteSetsExt

CONSTANTS
  SF,           \* m_sf
  CodingRates,  \* the values of m_cr explored
  NFrames,      \* payloads given to whitening
  PayloadLens,  \* their lengths in bytes
  Capacity      \* items the buffer behind each block holds: a record of naturals

ASSUME TxAssumption ==
  /\ SF \in 7 .. 12
  /\ CodingRates \subseteq 0 .. 4
  /\ NFrames \in Nat
  /\ PayloadLens \subseteq 1 .. 255
  /\ Capacity \in [{"whitened", "headed", "checked", "coded", "tx_symbols"} -> Nat]

VARIABLES
  m_impl_head, m_has_crc, m_cr,   \* parameters of hier_tx
  payloads,    \* the lengths of the payloads, by frame
  whitened,    \* whitening -> header
  headed,      \* header -> add_crc
  checked,     \* add_crc -> hamming_enc
  coded,       \* hamming_enc -> interleaver
  tx_symbols   \* interleaver -> gray_decode -> modulate

parameters == <<m_impl_head, m_has_crc, m_cr, payloads>>

Nibble(part, i, about) == [part |-> part, i |-> i, about |-> about]

\* Room for items behind a block; the scheduler may offer any part of it.
Offers(link, name) == 1 .. (Capacity[name] - Len(link))

\* Items up to the next "frame_len" tag that is not on the first item, or all.
Window(link) ==
  LET next == {k \in 2 .. Len(link) : link[k].len # 0}
  IN  IF next = {} THEN Len(link) ELSE Min(next) - 1

Taken(link, n) == SubSeq(link, n + 1, Len(link))

LinksInit ==
  /\ m_impl_head \in BOOLEAN /\ m_has_crc \in BOOLEAN /\ m_cr \in CodingRates
  /\ payloads \in [1 .. NFrames -> PayloadLens]
  /\ whitened = <<>> /\ headed = <<>> /\ checked = <<>> /\ coded = <<>>
  /\ tx_symbols = <<>>
============================================================================
