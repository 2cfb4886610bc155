------------------------------- MODULE RxLoop -------------------------------
(***************************************************************************)
(* The receive chain as a loop: frame_sync passes the 8 symbols of a       *)
(* header on and waits; they travel through fft_demod and the decoding     *)
(* blocks; header_decoder answers on the message port "frame_info"; the    *)
(* answer tells frame_sync how many symbols the frame still has.  Every    *)
(* block runs in a thread of its own (lib/hier_rx_impl.cc).                *)
(***************************************************************************)
EXTENDS FrameSync, FftDemod, HeaderDecoder

vars == <<links, syncVars, demodVars, headerVars>>

Init == LinksInit /\ SyncInit /\ DemodInit /\ HeaderInit

SyncStep    == FrameSyncWork /\ UNCHANGED <<demodVars, headerVars>>
HandlerStep == FrameInfoHandler /\ UNCHANGED <<demodVars, headerVars>>
DemodStep   == FftDemodWork /\ UNCHANGED <<syncVars, headerVars>>
HeaderStep  == (HeaderBlock \/ PayloadBlocks) /\ UNCHANGED <<syncVars, demodVars>>

Next == SyncStep \/ HandlerStep \/ DemodStep \/ HeaderStep

\* The scheduler runs a block again and again as long as it has input and room.
Fairness ==
  /\ WF_vars(SyncStep)
  /\ WF_vars(HandlerStep)
  /\ WF_vars(DemodStep)
  /\ WF_vars(HeaderStep)

Spec == Init /\ [][Next]_vars /\ Fairness
----------------------------------------------------------------------------

Tags == Seq(FrameInfoTags)
Symbols == [frame : 0 .. FrameIds - 1, idx : Nat]

LinksTypeOK ==
  /\ m_impl_head \in ImplicitModes
  /\ symbols \in Seq([frame : 0 .. FrameIds - 1, idx : Nat, tags : Tags])
  /\ sync_tags \in Tags
  /\ codewords \in Seq([tags : Tags, syms : Seq(Symbols) \ {<<>>}])
  /\ frame_info \in Seq([header : Headers, err : BOOLEAN, of : 0 .. FrameIds - 1])

SyncTypeOK ==
  /\ m_state \in {"DETECT", "SYNC", "FRAC_CFO_CORREC"}
  /\ symbol_cnt \in Nat
  /\ bin_idx \in Int /\ k_hat \in Int /\ net_id_off \in Int /\ down_val \in Int
  /\ items_to_consume \in Int
  /\ cfo_sto_est \in BOOLEAN
  /\ m_received_head \in BOOLEAN
  /\ symb_cr \in 0 .. 4
  /\ m_symb_numb \in Nat
  /\ frame \in 0 .. FrameIds - 1

DemodTypeOK ==
  /\ is_header \in BOOLEAN
  /\ demod_cr \in 0 .. 4
  /\ output \in Seq(Symbols)
  /\ demod_tags \in Tags

HeaderTypeOK ==
  /\ header_mode \in BOOLEAN
  /\ header \in Headers
  /\ pay_cnt \in Nat
  /\ head_err \in BOOLEAN

TypeOK == LinksTypeOK /\ SyncTypeOK /\ DemodTypeOK /\ HeaderTypeOK

Waiting == m_state = "FRAC_CFO_CORREC" /\ symbol_cnt = 8 /\ ~m_received_head

(***************************************************************************)
(* frame_info_handler checks neither the state of the block nor which      *)
(* frame the message is about.  That is right only if a message never      *)
(* meets any other state than the wait for this frame's header.            *)
(***************************************************************************)
AnswerInTurn ==
  frame_info # <<>> =>
    Len(frame_info) = 1 /\ Waiting /\ frame_info[1].of = frame

(***************************************************************************)
(* fft_demod, deinterleaver and hamming_dec look at the first tag of an    *)
(* item only (tags[0]), so two tags must never meet on one item: the one   *)
(* that opens the header is on the first symbol of a frame, the one that   *)
(* opens the payload on the ninth.                                         *)
(***************************************************************************)
TagsApart ==
  /\ Len(sync_tags) <= 1
  /\ \A i \in 1 .. Len(symbols) :
       /\ symbols[i].idx = 0 => symbols[i].tags = <<HeaderTag>>
       /\ symbols[i].idx = 8 => /\ Len(symbols[i].tags) = 1
                                /\ ~symbols[i].tags[1].is_header
       /\ symbols[i].idx \notin {0, 8} => symbols[i].tags = <<>>

(***************************************************************************)
(* new_frame_handler of fft_demod empties the block it is collecting.  No  *)
(* symbol is lost by that: the symbols frame_sync counts out for a frame   *)
(* fill whole blocks of the size fft_demod reads off the tags.             *)
(***************************************************************************)
NoSymbolDropped ==
  symbols # <<>> /\ OpensHeader(symbols[1]) => output = <<>>

(***************************************************************************)
(* A block holds consecutive symbols of one frame; a header block the      *)
(* first eight, a payload block the cr + 4 from the ninth on.              *)
(***************************************************************************)
BlocksWhole ==
  \A i \in 1 .. Len(codewords) :
    LET syms == codewords[i].syms IN
    /\ \A j \in 1 .. Len(syms) :
         syms[j] = [frame |-> syms[1].frame, idx |-> syms[1].idx + j - 1]
    /\ OpensHeader(codewords[i]) <=> syms[1].idx = 0
    /\ syms[1].idx # 0 => syms[1].idx >= 8 /\ (syms[1].idx - 8) % Len(syms) = 0

(***************************************************************************)
(* When header_decoder turns to the next frame, it has output all nibbles  *)
(* of payload and CRC of a frame whose header it accepted, and no more.    *)
(***************************************************************************)
PayloadComplete ==
  codewords # <<>> /\ OpensHeader(codewords[1]) /\ ~head_err =>
    pay_cnt = FrameNibbles(header)

(***************************************************************************)
(* A frame whose preamble was accepted ends: the header is answered and    *)
(* frame_sync listens for the next preamble.                               *)
(***************************************************************************)
FrameEnds == m_state = "FRAC_CFO_CORREC" ~> m_state = "DETECT"
============================================================================
