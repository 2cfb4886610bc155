------------------------------ MODULE MlAggreg ------------------------------
(***************************************************************************)
(* The two-user demodulator of python/mu_demod.py: partial_ml              *)
(* (lib/partial_ml_impl.cc) demodulates the stronger user of a window and  *)
(* correlates what is left with the parts of the other's symbols;          *)
(* ml_aggreg puts these parts together and says whose symbol it was.       *)
(*                                                                         *)
(* The value demodulated is abstracted to the input it was computed from:  *)
(* a sequence of pieces <<from, to>>.  Ku = 1.  The synchronisation errors *)
(* that are subtracted are left out; how many upchirps were seen is kept.  *)
(***************************************************************************)
EXTENDS MuSynchro

VARIABLES
  user_states, user_powers, upchirps,  \* by user
  prev_Mi2, prev_Ti2,
  symbols,    \* history: the payload symbols of each user, S1 and S2
  raised      \* the mode of an empty list of upchirps was asked for

aggregVars == <<user_states, user_powers, upchirps, prev_Mi2, prev_Ti2, symbols, raised>>

Users == 1 .. 2
Other(u) == 3 - u

AggregInit ==
  /\ user_states = [u \in Users |-> "NONE"]
  /\ user_powers = [u \in Users |-> 0]
  /\ upchirps = [u \in Users |-> 0]
  /\ prev_Mi2 = <<>> /\ prev_Ti2 = "NONE"
  /\ symbols = [u \in Users |-> <<>>]
  /\ raised = FALSE

----------------------------------------------------------------------------
\* partial_ml: the input behind Su, Mi1 and Mi2.

Piece(w, from, to) == IF from < to THEN <<<<w.at + from * OS, w.at + to * OS>>>> ELSE <<>>

IsUpchirp(type) == type \in {"UPCHIRP", "SYNC_WORD", "PAYLOAD"}

\* Windows that tau divides into two parts.
IsDivided(w) == w.win_len = N \/ (w.win_len = N \div 4 /\ w.Tu = "QUARTER_DOWN")

Mi1(w) ==
  IF ~IsUpchirp(w.Ti1) THEN <<>>
  ELSE Piece(w, 0, IF IsDivided(w) THEN Min({SamplesUp(w.tau), w.win_len}) ELSE w.win_len)

Mi2(w) ==
  IF ~IsUpchirp(w.Ti2) THEN <<>>
  ELSE Piece(w, IF IsDivided(w) THEN SamplesUp(w.tau) ELSE 0, w.win_len)

Su(w) == Piece(w, 0, w.win_len)

----------------------------------------------------------------------------
\* track_user

PowerOf(w, u) == IF u = 1 THEN w.power1 ELSE w.power2
WinState(w, u) == IF PowerOf(w, u) > PowerOf(w, Other(u)) THEN w.Tu ELSE w.Ti1

\* Evaluated for user 1 first: two_users sees the new state of user 1 when it is
\* asked for user 2.
Detected(w, u) == user_states[u] = "NONE" /\ PowerOf(w, u) # 0
InPayload(w, u) == user_states[u] = "PREAMBLE" /\ WinState(w, u) = "PAYLOAD"
Gone(w, u) == user_states[u] = "PAYLOAD" /\ WinState(w, u) = "VOID" /\ PowerOf(w, u) = 0
NextFrame(w, u, other) ==
  /\ user_states[u] = "PAYLOAD" /\ ~Gone(w, u)
  /\ other = "NONE" /\ WinState(w, u) = "UPCHIRP"

StateAfter(w, u, other) ==
  CASE Detected(w, u) \/ NextFrame(w, u, other) -> "PREAMBLE"
    [] InPayload(w, u) -> "PAYLOAD"
    [] Gone(w, u) -> "NONE"
    [] OTHER -> user_states[u]

\* Both users after track_users.
Tracked(w) ==
  LET first == StateAfter(w, 1, user_states[2])
  IN  <<first, StateAfter(w, 2, first)>>

PowersAfter(w) ==
  [u \in Users |->
     CASE Tracked(w)[u] = "PREAMBLE" /\ user_states[u] # "PREAMBLE" -> PowerOf(w, u)
       [] Gone(w, u) -> 0
       [] OTHER -> user_powers[u]]

\* Mutant: only whole windows count, for the weak user too.
SeenWhole(w, u, strong) ==
  /\ Tracked(w)[u] = "PREAMBLE" /\ w.win_len = N
  /\ IF strong THEN w.Tu = "UPCHIRP" ELSE w.Ti1 = "UPCHIRP" /\ w.Ti2 = "VOID"

\* An upchirp of the preamble of u, from which its synchronisation error is taken.
Seen(w, u, strong) ==
  /\ Tracked(w)[u] = "PREAMBLE"
  /\ IF strong THEN w.win_len = N /\ w.Tu = "UPCHIRP" ELSE w.Ti1 = "UPCHIRP"

\* Mutant: a symbol has two parts.
InThreePartsNever(w) == FALSE

\* A quarter of a downchirp inside a symbol: its third part is to come.
InThreeParts(w) == w.Tu = "QUARTER_DOWN" /\ w.tau >= w.win_len * OS

----------------------------------------------------------------------------
\* process_window

ProcessWindow ==
  /\ windows # <<>> /\ ~raised
  /\ LET w == Head(windows)
         states == Tracked(w)
         strong(u) == PowersAfter(w)[u] >= PowersAfter(w)[Other(u)]
         M == prev_Mi2 \o Mi1(w)
         ending(u) == states[u] = "NONE" /\ prev_Ti2 = "PAYLOAD"
         expected(u) == states[u] = "PAYLOAD" \/ ending(u)
         cut(u) == expected(u) /\ ~strong(u) /\ InThreeParts(w)
         output(u) ==
           IF ~expected(u) THEN <<>>
           ELSE IF strong(u) THEN IF w.win_len = N THEN <<Su(w)>> ELSE <<>>
           ELSE IF ~cut(u) /\ (prev_Ti2 = "PAYLOAD" \/ SamplesUp(w.tau) = N) THEN <<M>>
           ELSE <<>>
         forgets(u) == Gone(w, u) \/ (user_states[u] = "PAYLOAD" /\ states[u] = "PREAMBLE")
     IN
       /\ raised' = \E u \in Users : InPayload(w, u) /\ upchirps[u] = 0
       /\ user_states' = states
       /\ user_powers' = PowersAfter(w)
       /\ symbols' = [u \in Users |-> symbols[u] \o output(u)]
       /\ upchirps' = [u \in Users |->
            (IF forgets(u) THEN 0 ELSE upchirps[u]) + (IF Seen(w, u, strong(u)) THEN 1 ELSE 0)]
       /\ prev_Mi2' = IF \E u \in Users : cut(u) THEN M ELSE Mi2(w)
       /\ prev_Ti2' = w.Ti2
       /\ windows' = Tail(windows)
============================================================================
