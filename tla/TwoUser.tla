------------------------------ MODULE TwoUser ------------------------------
(***************************************************************************)
(* The two-user receiver: mu_synchro, partial_ml and ml_aggreg on two      *)
(* frames that may overlap.  The two sides are joined by the buffer of     *)
(* windows and run side by side.                                           *)
(***************************************************************************)
EXTENDS MlAggreg, SequencesExt

vars == <<starts, powers, synchroVars, aggregVars>>

Init == SynchroInit /\ AggregInit

Synchro == SyncFrame /\ UNCHANGED <<starts, powers, aggregVars>>
Aggregate ==
  /\ ProcessWindow
  /\ UNCHANGED <<starts, powers, nread, m_sync_state, user_u, user_i, m_power1, m_power2, m_tau,
                 m_item_to_consume>>

Next == Synchro \/ Aggregate

Spec == Init /\ [][Next]_vars /\ WF_vars(Synchro) /\ WF_vars(Aggregate)
----------------------------------------------------------------------------
\* Where the parts of frame f are, in items.

QuarterStart(f) == starts[f] + (NUp + 4) * SymbolItems
PayloadStart(f) == QuarterStart(f) + SymbolItems \div 4
SymbolStart(f, j) == PayloadStart(f) + (j - 1) * SymbolItems
FrameEnd(f) == SymbolStart(f, PayloadSymbols + 1)

Near(a, b) == a - b \in -OS .. OS

\* The pieces are symbol j of frame f, all of it and no more, to a sample.
IsSymbol(pieces, f, j) ==
  /\ pieces # <<>>
  /\ Near(pieces[1][1], SymbolStart(f, j))
  /\ Near(Last(pieces)[2], SymbolStart(f, j + 1))
  /\ \A k \in 1 .. Len(pieces) - 1 : Near(pieces[k][2], pieces[k + 1][1])

\* out are the symbols js of the frames fs, in this order.
Are(out, fs, js) ==
  /\ Len(out) = Len(js)
  /\ \A k \in 1 .. Len(out) : IsSymbol(out[k], fs[k], js[k])

AllOf(f, out) == Are(out, [k \in 1 .. PayloadSymbols |-> f], [k \in 1 .. PayloadSymbols |-> k])

Finished == nread + SymbolItems > MaxItems /\ windows = <<>>

\* How the second frame lies to the first.
InPayloadOfFirst == starts[2] \in PayloadStart(1) .. FrameEnd(1) - 1
Apart == starts[2] >= FrameEnd(1) + SymbolItems
Unnoticed == starts[2] \in starts[1] + SymbolItems .. PayloadStart(1) - 1
               \/ starts[2] \in FrameEnd(1) .. FrameEnd(1) + SymbolItems - 1
Stronger == powers[2] > powers[1]
Refused == InPayloadOfFirst /\ powers[2] < powers[1] - 3

\* The second frame goes over from its preamble to its payload in the last symbol of the
\* first, which is thereby divided in three.
TurnsInLast ==
  IF Stronger
  THEN LET left == FrameEnd(1) - QuarterStart(2)
       IN  left = 0 \/ left \in SymbolItems \div 4 .. SymbolItems - 1
  ELSE PayloadStart(2) \in FrameEnd(1) - SymbolItems .. FrameEnd(1) - 1

\* The symbols of a weaker second frame begin with those of the first, to a sample.  Each is
\* output a window late, and the first of them behind the first frame as a symbol of user 1.
Together ==
  /\ ~Stronger /\ PayloadStart(2) < FrameEnd(1)
  /\ (PayloadStart(2) - PayloadStart(1)) % SymbolItems < OS
----------------------------------------------------------------------------

TypeOK ==
  /\ starts \in Starts /\ powers \in Powers
  /\ nread \in 0 .. MaxItems
  /\ m_sync_state \in {"IDLE", "SINGLE_USER", "REALIGN_TO_NEW", "REALIGN_TO_PREV", "MULTI_USER"}
  /\ m_tau \in 0 .. SymbolItems /\ m_item_to_consume \in 0 .. SymbolItems
  /\ Len(windows) <= Room
  /\ \A k \in 1 .. Len(windows) :
       windows[k].win_len \in 1 .. N /\ windows[k].tau \in 0 .. SymbolItems
  /\ user_states \in [Users -> {"NONE", "PREAMBLE", "PAYLOAD"}]
  /\ user_powers \in [Users -> Nat] /\ upchirps \in [Users -> Nat]

(***************************************************************************)
(* The counts of samples, kept apart from the input that is consumed, say  *)
(* to a sample where in the two frames mu_synchro is, through every        *)
(* exchange of the two users; and m_tau is exactly the distance to the     *)
(* next symbol of the interferer (sync_frame).                             *)
(***************************************************************************)
CountsTrue ==
  m_sync_state \in {"SINGLE_USER", "REALIGN_TO_NEW", "MULTI_USER"} /\ ~Refused =>
    /\ Near(nread, starts[user_u.frame] + user_u.cnt * OS)
    /\ m_sync_state = "MULTI_USER" =>
         LET i == user_i.frame
             in_payload == user_i.cnt + Samples(m_tau) >= (NUp + 4) * N + N \div 4
             first == IF in_payload THEN PayloadStart(i) ELSE starts[i] IN
         /\ Near(nread, starts[i] + user_i.cnt * OS)
         /\ (nread + m_tau - first) % SymbolItems = 0

(***************************************************************************)
(* Every symbol of both frames is demodulated from its own samples, whole, *)
(* once, in order, and attributed to its user, although the windows follow *)
(* the other frame and cut it in two or three: S1 is the first frame's     *)
(* payload and S2 the second's.  (qa_mu_demod.py:172 and following compare *)
(* S1 and S2 like this for a few offsets.)  Except where TurnsInLast or    *)
(* Together.                                                               *)
(***************************************************************************)
BothDecoded ==
  Finished /\ InPayloadOfFirst /\ ~Refused /\ ~TurnsInLast /\ ~Together =>
    AllOf(1, symbols[1]) /\ AllOf(2, symbols[2])

(***************************************************************************)
(* A second frame that mu_synchro does not notice, in the preamble of the  *)
(* first or right behind it, leaves the first undisturbed; one further     *)
(* behind is decoded too, again as that of user 1.                         *)
(***************************************************************************)
FirstUndisturbed ==
  Finished =>
    /\ Unnoticed => AllOf(1, symbols[1]) /\ symbols[2] = <<>>
    /\ Apart => /\ symbols[2] = <<>>
                /\ Len(symbols[1]) = 2 * PayloadSymbols
                /\ AllOf(1, SubSeq(symbols[1], 1, PayloadSymbols))
                /\ AllOf(2, SubSeq(symbols[1], PayloadSymbols + 1, 2 * PayloadSymbols))

(***************************************************************************)
(* A frame refused for its power costs the first no more than the symbol   *)
(* its tag is in, if this is not the first of the payload: the symbols in  *)
(* front of it and behind it are output, whole (sync_frame leaves with the *)
(* m_item_to_consume of the call before).                                  *)
(***************************************************************************)
RefusedCostsOne ==
  Finished /\ Refused /\ starts[2] >= SymbolStart(1, 2) =>
    LET lost == (starts[2] - PayloadStart(1)) \div SymbolItems + 1
        kept == [k \in 1 .. PayloadSymbols - 1 |-> IF k < lost THEN k ELSE k + 1] IN
    /\ symbols[2] = <<>>
    /\ Are(SubSeq(symbols[1], 1, PayloadSymbols - 1), [k \in DOMAIN kept |-> 1], kept)

(***************************************************************************)
(* When the payload of a user begins at least one of its upchirps was      *)
(* seen: the mode of an empty list raises in track_user, and no more       *)
(* window of either user would be processed.                               *)
(***************************************************************************)
NeverRaised == ~raised

(***************************************************************************)
(* The receiver gets through its input, although many steps of sync_frame  *)
(* consume nothing and one consumes what was consumed before.              *)
(***************************************************************************)
InputConsumed == <>Finished

(***************************************************************************)
(* qa_mu_demod.py:170-173 expect all symbols of user 1 and of user 2 for a *)
(* second, stronger frame; "quarter downchirp window falls inside a symbol *)
(* of interferer cutting it in three and not two parts" (mu_demod.py:131)  *)
(* says that a symbol divided in three is put together again: any symbol,  *)
(* the last one too.                                                       *)
(***************************************************************************)
LastSymbolKept ==
  Finished /\ InPayloadOfFirst /\ Stronger => AllOf(1, symbols[1])
============================================================================
