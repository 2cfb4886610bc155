----------------------------- MODULE MuSynchro -----------------------------
(***************************************************************************)
(* lib/mu_synchro_impl.cc, which cuts the samples of up to two overlapping *)
(* frames into windows.  The windows follow the symbols of the stronger    *)
(* user; tau says where in a window the next symbol of the other begins.   *)
(*                                                                         *)
(* Input items are numbered; OS of them make a sample and SymbolItems a    *)
(* symbol.  Times that are fractions of a sample in the code (m_tau, sto)  *)
(* are whole numbers of items here, Samples truncates and SamplesUp rounds *)
(* up.  mu_detection is the environment: it puts a tag "new_user" on the   *)
(* first item of each frame.  Carrier offsets are left out.                *)
(***************************************************************************)
EXTENDS Integers, Sequences, FiniteSetsExt

CONSTANTS
  N,            \* m_N, samples of a symbol
  OS,           \* m_os_factor
  NUp,          \* m_n_up
  PayloadSymbols,  \* m_len
  Starts,       \* where the frames begin: a set of pairs of items
  Powers,       \* their powers: a set of pairs
  MaxItems,     \* length of the input
  Room          \* windows that the output buffer holds

ASSUME MuAssumption ==
  /\ N \in Nat \ {0} /\ N % 4 = 0
  /\ OS \in Nat \ {0} /\ NUp \in Nat /\ PayloadSymbols \in Nat \ {0}
  /\ Starts \subseteq Nat \X Nat /\ Powers \subseteq (Nat \ {0}) \X (Nat \ {0})
  /\ \A s \in Starts : s[1] <= s[2]   \* frames are numbered in the order in which they begin
  /\ MaxItems \in Nat /\ Room \in Nat \ {0}

VARIABLES
  starts, powers,     \* the frames received
  nread,              \* items consumed
  m_sync_state,
  user_u, user_i,     \* [cnt, power, sto, frame]: synchronised user and interferer
  m_power1, m_power2,
  m_tau,
  m_item_to_consume,
  windows             \* the windows written and not yet read

synchroVars == <<nread, m_sync_state, user_u, user_i, m_power1, m_power2, m_tau,
                 m_item_to_consume, windows>>

SymbolItems == N * OS
Samples(items) == items \div OS
SamplesUp(items) == (items + OS - 1) \div OS

\* get_type; a quarter of a downchirp follows the two downchirps.
GetType(cnt) ==
  LET quarter == (NUp + 4) * N + N \div 4 IN
  CASE cnt < 0             -> "VOID"
    [] cnt \in 0 .. NUp * N - 1 -> "UPCHIRP"
    [] cnt \in NUp * N .. (NUp + 2) * N - 1 -> "SYNC_WORD"
    [] cnt \in (NUp + 2) * N .. (NUp + 4) * N - 1 -> "DOWNCHIRP"
    [] cnt \in (NUp + 4) * N .. quarter - 1 -> "QUARTER_DOWN"
    [] cnt \in quarter .. quarter + PayloadSymbols * N - 1 -> "PAYLOAD"
    [] OTHER -> "VOID"

\* The frames whose tag is in the next symbol.
TagsAhead == {f \in 1 .. 2 : starts[f] \in nread .. nread + SymbolItems - 1}

Void == [cnt |-> 0, power |-> 0, sto |-> 0, frame |-> 0]
UserOf(f, cnt) == [cnt |-> cnt, power |-> powers[f], sto |-> starts[f] % SymbolItems, frame |-> f]

\* Mutant: the quarter downchirp of the synchronised user is forgotten.
TauBetweenNoQuarter(i, u) == (i.sto - u.sto) % SymbolItems

\* m_tau from the offsets of the two users; u is beyond its quarter downchirp.
TauBetween(i, u) == (i.sto - u.sto - SymbolItems \div 4) % SymbolItems

Window(p1, p2, win_len, Tu, Ti1, Ti2, tau) ==
  [power1 |-> p1, power2 |-> p2, win_len |-> win_len, Tu |-> Tu, Ti1 |-> Ti1, Ti2 |-> Ti2,
   tau |-> tau, at |-> nread]

\* Mutant: windows of length 0 are tagged too.
AddWindowAlways(w) == windows' = Append(windows, w)

\* add_tag, and the samples of the window: none if it is empty.
AddWindow(w) == windows' = IF w.win_len > 0 THEN Append(windows, w) ELSE windows

Consume(items) == m_item_to_consume' = items /\ nread' = nread + items

SynchroInit ==
  /\ starts \in Starts /\ powers \in Powers
  /\ nread = 0
  /\ m_sync_state = "IDLE"
  /\ user_u = Void /\ user_i = Void
  /\ m_power1 = 0 /\ m_power2 = 0
  /\ m_tau = 0 /\ m_item_to_consume = 0
  /\ windows = <<>>

----------------------------------------------------------------------------
\* case IDLE

FirstUser ==
  /\ m_sync_state = "IDLE"
  /\ \E f \in 1 .. 2 :
       /\ TagsAhead = {f}
       /\ m_power1' = powers[f]
       /\ user_u' = UserOf(f, 0)
       /\ Consume(starts[f] - nread)
  /\ m_sync_state' = "SINGLE_USER"
  /\ UNCHANGED <<user_i, m_power2, m_tau, windows>>

Idle ==
  /\ m_sync_state = "IDLE" /\ Cardinality(TagsAhead) # 1
  /\ Consume(SymbolItems)
  /\ UNCHANGED <<m_sync_state, user_u, user_i, m_power1, m_power2, m_tau, windows>>

----------------------------------------------------------------------------
\* case SINGLE_USER

FrameEnds ==
  /\ m_sync_state = "SINGLE_USER" /\ GetType(user_u.cnt) = "VOID"
  /\ m_sync_state' = "IDLE"
  /\ m_power1' = 0 /\ m_power2' = 0
  /\ user_u' = [user_u EXCEPT !.cnt = 0]
  /\ Consume(SymbolItems)
  /\ UNCHANGED <<user_i, m_tau, windows>>

\* Mutant: a second frame at any time, the tag of the frame itself too.
SecondUserAlways == m_sync_state = "SINGLE_USER" /\ GetType(user_u.cnt) # "VOID"
                      /\ Cardinality(TagsAhead) = 1

\* A second frame during the payload.
SecondUser == m_sync_state = "SINGLE_USER" /\ GetType(user_u.cnt) = "PAYLOAD"
                /\ Cardinality(TagsAhead) = 1

PowerOfFirst == IF m_power1 # 0 THEN m_power1 ELSE m_power2

\* Mutant: nobody is too weak.
TooWeakNever(f) == FALSE

TooWeak(f) == powers[f] < PowerOfFirst - 3

\* break: what was consumed the last time is consumed again.
IgnoreWeak ==
  /\ SecondUser
  /\ \E f \in TagsAhead : TooWeak(f)
  /\ Consume(m_item_to_consume)
  /\ UNCHANGED <<m_sync_state, user_u, user_i, m_power1, m_power2, m_tau, windows>>

AcceptSecond ==
  /\ SecondUser
  /\ \E f \in TagsAhead :
       LET i == UserOf(f, 0) IN
       /\ ~TooWeak(f)
       /\ m_power1' = IF m_power1 = 0 THEN i.power ELSE m_power1
       /\ m_power2' = IF m_power1 # 0 /\ m_power2 = 0 THEN i.power ELSE m_power2
       /\ \/ /\ i.power > user_u.power
             /\ m_sync_state' = "REALIGN_TO_NEW"
             /\ user_i' = i
             /\ UNCHANGED m_tau
          \/ /\ i.power <= user_u.power
             /\ m_sync_state' = "MULTI_USER"
             /\ m_tau' = TauBetween(i, user_u)
             /\ user_i' = [i EXCEPT !.cnt = -Samples(m_tau')]
  /\ Consume(0)
  /\ UNCHANGED <<user_u, windows>>

SingleWindow ==
  /\ m_sync_state = "SINGLE_USER"
  /\ GetType(user_u.cnt) # "VOID" /\ ~SecondUser
  /\ LET type == GetType(user_u.cnt)
         win_len == IF type = "QUARTER_DOWN" THEN N \div 4 ELSE N IN
       /\ AddWindow(Window(m_power1, m_power2, win_len, type, "VOID", "VOID", win_len * OS))
       /\ user_u' = [user_u EXCEPT !.cnt = @ + win_len]
       /\ Consume(win_len * OS)
  /\ UNCHANGED <<m_sync_state, user_i, m_power1, m_power2, m_tau>>

----------------------------------------------------------------------------
\* case REALIGN_TO_NEW: up to the first symbol of the new user.

RealignToNew ==
  /\ m_sync_state = "REALIGN_TO_NEW"
  /\ LET tau == TauBetween(user_i, user_u)
         win_len == Samples(tau) IN
       /\ m_tau' = (SymbolItems - tau) % SymbolItems
       /\ AddWindow(Window(IF m_power1 > m_power2 THEN 0 ELSE m_power1,
                           IF m_power1 > m_power2 THEN m_power2 ELSE 0,
                           win_len, "VOID", "VOID", GetType(user_u.cnt), m_tau'))
       /\ user_i' = [user_u EXCEPT !.cnt = @ + win_len]
       /\ user_u' = user_i
       /\ Consume(tau)
  /\ m_sync_state' = "MULTI_USER"
  /\ UNCHANGED <<m_power1, m_power2>>

\* case REALIGN_TO_PREV: up to the next symbol of the user who is left.
RealignToPrev ==
  /\ m_sync_state = "REALIGN_TO_PREV"
  /\ LET win_len == Samples(m_tau) IN
       /\ AddWindow(Window(m_power1, m_power2, win_len, "VOID", GetType(user_i.cnt), "VOID", m_tau))
       /\ user_u' = [user_i EXCEPT !.cnt = @ + win_len]
       /\ user_i' = user_u
       /\ Consume(m_tau)
  /\ m_tau' = SymbolItems
  /\ m_sync_state' = "SINGLE_USER"
  /\ UNCHANGED <<m_power1, m_power2>>

----------------------------------------------------------------------------
\* case MULTI_USER

SynchronisedEnds == GetType(user_u.cnt) = "VOID"

\* Mutant: an interferer who has not begun counts as one who has ended.
InterfererEndsEarly == GetType(user_i.cnt) = "VOID"

InterfererEnds == GetType(user_i.cnt) = "VOID" /\ user_i.cnt >= 0

UserEnds ==
  /\ m_sync_state = "MULTI_USER"
  /\ \/ /\ SynchronisedEnds
        /\ m_power1' = IF m_power1 > m_power2 THEN 0 ELSE m_power1
        /\ m_power2' = IF m_power1 > m_power2 THEN m_power2 ELSE 0
        /\ m_sync_state' = "REALIGN_TO_PREV"
     \/ /\ ~SynchronisedEnds /\ InterfererEnds
        /\ m_power1' = IF m_power1 > m_power2 THEN m_power1 ELSE 0
        /\ m_power2' = IF m_power1 > m_power2 THEN 0 ELSE m_power2
        /\ m_sync_state' = "SINGLE_USER"
  /\ Consume(0)
  /\ UNCHANGED <<user_u, user_i, m_tau, windows>>

\* A window of both users, win_len samples; tau is what its tag says.
Both(win_len, Ti1, tau) ==
  /\ AddWindow(Window(m_power1, m_power2, win_len, GetType(user_u.cnt), Ti1,
                      GetType(user_i.cnt + SamplesUp(tau)), tau))
  /\ user_u' = [user_u EXCEPT !.cnt = @ + win_len]
  /\ user_i' = [user_i EXCEPT !.cnt = @ + win_len]
  /\ Consume(win_len * OS)

MultiWindow ==
  /\ m_sync_state = "MULTI_USER" /\ ~SynchronisedEnds /\ ~InterfererEnds
  /\ LET own    == GetType(user_u.cnt) = "QUARTER_DOWN"
         others == GetType(user_i.cnt + Samples(m_tau)) = "QUARTER_DOWN" IN
     \/ /\ own
        /\ Both(N \div 4, GetType(user_i.cnt), m_tau)
        /\ m_tau' = (m_tau - SymbolItems \div 4) % SymbolItems
     \/ /\ ~own /\ others
        /\ m_tau' = (m_tau + SymbolItems \div 4) % SymbolItems
        /\ Both(N, "DOWNCHIRP", m_tau')
     \/ /\ ~own /\ ~others
        /\ Both(N, GetType(user_i.cnt), m_tau)
        /\ UNCHANGED m_tau
  /\ UNCHANGED <<m_sync_state, m_power1, m_power2>>

\* sync_frame, called with a symbol of input and room for a symbol.
SyncFrame ==
  /\ nread + SymbolItems <= MaxItems
  /\ Len(windows) < Room
  /\ \/ FirstUser \/ Idle
     \/ FrameEnds \/ IgnoreWeak \/ AcceptSecond \/ SingleWindow
     \/ RealignToNew \/ RealignToPrev
     \/ UserEnds \/ MultiWindow
============================================================================
