------------------------------ MODULE Modulate ------------------------------
(***************************************************************************)
(* lib/modulate_impl.cc: the chirps of a frame, preamble first, and the    *)
(* silence between two frames.  One action per call of general_work with   *)
(* room for a number of symbols; samp_rate = bw.  What goes on the air is  *)
(* recorded symbol by symbol.                                              *)
(***************************************************************************)
EXTENDS TxLinks

CONSTANTS
  NUp,                 \* n_up
  InterFramePadding,   \* m_inter_frame_padding
  MaxSymbols           \* the largest room offered to one call, in symbols

ASSUME ModAssumption ==
  /\ NUp \in Nat /\ InterFramePadding \in Nat \ {0} /\ MaxSymbols \in Nat \ {0}

VARIABLES
  mod_frame_len, symb_cnt, preamb_symb_cnt, padd_cnt,
  air    \* history: what was sent

modVars == <<mod_frame_len, symb_cnt, preamb_symb_cnt, padd_cnt, air>>

ModInit ==
  /\ mod_frame_len = 0   \* set by the first tag, before it is used
  /\ symb_cnt = 0 /\ preamb_symb_cnt = 0
  /\ padd_cnt = InterFramePadding
  /\ air = <<>>

\* The preamble: upchirps, network identifier, 2.25 downchirps.
PreambleSymbol(k) ==
  CASE k < NUp -> "upchirp"
    [] k = NUp -> "sync_word_1"
    [] k = NUp + 1 -> "sync_word_2"
    [] k \in {NUp + 2, NUp + 3} -> "downchirp"
    [] k = NUp + 4 -> "quarter_downchirp"

PreambleLen == NUp + 5

\* A tag on the first symbol starts a frame once the padding of the last is out.
\* Mutant: a frame starts although padding of the last is still to be sent.
StartsFrameAtOnce == tx_symbols[1].len # 0

StartsFrame == tx_symbols[1].len # 0 /\ padd_cnt = InterFramePadding

FrameLenOf == IF StartsFrame THEN tx_symbols[1].len ELSE mod_frame_len
SymbCntNow == IF StartsFrame THEN 0 ELSE symb_cnt
PreambleNow == IF StartsFrame THEN 0 ELSE preamb_symb_cnt
PaddNow == IF StartsFrame THEN 0 ELSE padd_cnt

\* Preamble symbols sent by a call with room for n; the room that leaves for
\* whole symbols, of which the quarter downchirp takes one up.
PreamblePart(n) ==
  IF SymbCntNow = 0 THEN Min({n, PreambleLen - PreambleNow}) ELSE 0

PreambleSent(n) == [k \in 1 .. PreamblePart(n) |-> [kind |-> PreambleSymbol(PreambleNow + k - 1),
                                                    block |-> 0, i |-> 0]]

SendsSymbols(n) == SymbCntNow < FrameLenOf /\ PreambleNow + PreamblePart(n) = PreambleLen

\* Symbols of the frame sent behind the preamble.
SymbolPart(n) == Min({Window(tx_symbols), n - PreamblePart(n)})

\* Symbols of silence behind the last symbol of the frame.
PaddingPart(n) ==
  IF SymbCntNow >= FrameLenOf
  THEN Min({n - PreamblePart(n), FrameLenOf + InterFramePadding - SymbCntNow}) ELSE 0

Modulate ==
  /\ tx_symbols # <<>>
  /\ \E n \in 1 .. MaxSymbols :
       /\ mod_frame_len' = FrameLenOf
       /\ preamb_symb_cnt' = PreambleNow + PreamblePart(n)
       /\ \/ /\ SendsSymbols(n)
             /\ air' = air \o PreambleSent(n) \o
                  [k \in 1 .. SymbolPart(n) |->
                     [kind |-> "symbol", block |-> tx_symbols[k].block, i |-> tx_symbols[k].i]]
             /\ symb_cnt' = SymbCntNow + SymbolPart(n)
             /\ tx_symbols' = Taken(tx_symbols, SymbolPart(n))
             /\ padd_cnt' = PaddNow
          \/ /\ ~SendsSymbols(n)
             /\ air' = air \o PreambleSent(n) \o
                  [k \in 1 .. PaddingPart(n) |-> [kind |-> "silence", block |-> 0, i |-> 0]]
             /\ symb_cnt' = SymbCntNow + PaddingPart(n)
             /\ padd_cnt' = PaddNow + PaddingPart(n)
             /\ UNCHANGED tx_symbols
  /\ UNCHANGED <<parameters, whitened, headed, checked, coded>>
=============================================================================
