---------------------------- MODULE TwoUserProofs ----------------------------
(***************************************************************************)
(* Proofs about TwoUser, for symbols and frames of any length, any         *)
(* oversampling and any two places in the input and powers of the frames:  *)
(* mu_synchro knows where it is in both; ml_aggreg never asks for the mode *)
(* of an empty list; and what is output when one frame is received.        *)
(***************************************************************************)
EXTENDS TwoUser, TLAPS, FiniteSetTheorems

\* Where the first symbol of a frame's payload begins, in samples.
PayloadCount == (NUp + 4) * N + N \div 4

WindowTypes == {"VOID", "UPCHIRP", "SYNC_WORD", "DOWNCHIRP", "QUARTER_DOWN", "PAYLOAD"}
UserSet == [cnt : Int, power : Nat, sto : Nat, frame : 0 .. 2]
WindowSet == [power1 : Nat, power2 : Nat, win_len : 1 .. N, Tu : WindowTypes, Ti1 : WindowTypes,
              Ti2 : WindowTypes, tau : 0 .. SymbolItems, at : Nat]

Typed ==
  /\ TypeOK
  /\ user_u \in UserSet /\ user_i \in UserSet
  /\ m_power1 \in Nat /\ m_power2 \in Nat
  /\ windows \in Seq(WindowSet)

\* The count of samples of a user is that of its frame, exactly or to a sample.
Exact(u) == nread = starts[u.frame] + u.cnt * OS
CountNear(u) == Near(nread, starts[u.frame] + u.cnt * OS)
CountWithin(u) == nread - (starts[u.frame] + u.cnt * OS) \in 1 - OS .. OS - 1

\* A user at the beginning of a symbol.
AtSymbol(cnt) ==
  \/ \E k \in 0 .. NUp + 4 : cnt = k * N
  \/ \E k \in Nat : cnt = PayloadCount + k * N

\* The only user: the other frame has begun, or the user is the first and has
\* been followed symbol by symbol.
OneUser ==
  m_sync_state = "SINGLE_USER" =>
    /\ user_u.frame \in 1 .. 2
    /\ CountNear(user_u)
    /\ \/ starts[3 - user_u.frame] < nread
       \/ /\ user_u.frame = 1 /\ user_u.sto = starts[1] % SymbolItems
          /\ Exact(user_u) /\ AtSymbol(user_u.cnt)
          /\ m_power1 = powers[1]

\* The new user begins in the symbol of the old one that comes next.
NewUserNext ==
  m_sync_state = "REALIGN_TO_NEW" =>
    /\ user_u.frame = 1 /\ user_i.frame = 2 /\ user_i.cnt = 0
    /\ Exact(user_u)
    /\ user_u.cnt >= PayloadCount
    /\ starts[2] \in nread .. nread + SymbolItems - 1
    /\ TauBetween(user_i, user_u) = starts[2] - nread
    /\ \E k \in Int : nread - PayloadStart(1) = k * SymbolItems

\* The interferer's samples up to the beginning of its next symbol.
NextSymbolCount == user_i.cnt + Samples(m_tau)

\* m_tau leads to the beginning of a symbol of the interferer.
TauToSymbol ==
  LET i == user_i.frame IN
  \/ /\ \E k \in 0 .. NUp + 4 : NextSymbolCount = k * N
     /\ \E k \in Int : nread + m_tau - starts[i] = k * SymbolItems
     /\ user_u.cnt >= PayloadCount
  \/ /\ NextSymbolCount >= PayloadCount
     /\ \E k \in Int : nread + m_tau - PayloadStart(i) = k * SymbolItems

TwoUsers ==
  m_sync_state \in {"MULTI_USER", "REALIGN_TO_PREV"} =>
    /\ user_u.frame \in 1 .. 2 /\ user_i.frame = 3 - user_u.frame
    /\ user_u.cnt >= 0 /\ CountNear(user_u)
    /\ CountWithin(user_i)
    /\ m_tau < SymbolItems
    /\ TauToSymbol

\* The user who has ended began before.
OtherEnded == m_sync_state = "REALIGN_TO_PREV" => starts[user_u.frame] < nread

\* What the state of sync_frame says about both frames.
SyncInv == OneUser /\ NewUserNext /\ TwoUsers /\ OtherEnded

\* The inductive invariant: a frame refused for its power upsets the counts.
IInv == Typed /\ (~Refused => SyncInv)

----------------------------------------------------------------------------
(***************************************************************************)
(* Facts about samples, items and symbols.                                 *)
(***************************************************************************)

\* The sizes: a quarter of a symbol is a whole number of samples.
LEMMA Sizes ==
  /\ N \in Nat /\ OS \in Nat /\ OS > 0 /\ NUp \in Nat /\ PayloadSymbols \in Nat
  /\ N \div 4 \in Nat /\ N \div 4 > 0 /\ N = 4 * (N \div 4)
  /\ SymbolItems \in Nat /\ SymbolItems = N * OS /\ SymbolItems > 0
  /\ SymbolItems \div 4 = (N \div 4) * OS /\ (N \div 4) * OS \in Nat
  /\ SymbolItems = 4 * ((N \div 4) * OS) /\ OS <= (N \div 4) * OS
<1>1. N \in Nat \ {0} /\ N % 4 = 0 /\ OS \in Nat /\ OS > 0
  BY MuAssumption
<1>2. PICK q \in Nat : q = N \div 4 /\ N = 4 * q /\ q > 0
  <2>1. N \div 4 \in Nat /\ N = 4 * (N \div 4) /\ N \div 4 > 0
    BY <1>1
  <2> QED  BY <2>1
<1>3. PICK r \in Nat : r = q * OS /\ OS <= r
  <2>1. q * OS \in Nat
    BY <1>1
  <2>2. PICK p \in Nat : q = p + 1
    <3>1. q - 1 \in Nat /\ q = (q - 1) + 1
      BY <1>2
    <3> QED  BY <3>1
  <2>3. (p + 1) * OS = p * OS + OS /\ p * OS \in Nat
    BY <1>1
  <2>4. OS <= q * OS
    BY <1>1, <2>1, <2>2, <2>3
  <2> QED  BY <2>1, <2>4
<1>4. (4 * q) * OS = 4 * (q * OS)
  BY <1>1
<1>5. SymbolItems = 4 * r
  BY <1>2, <1>3, <1>4 DEF SymbolItems
<1>6. (4 * r) \div 4 = r
  OBVIOUS
<1>7. SymbolItems > 0 /\ SymbolItems \in Nat /\ SymbolItems \div 4 = r
  BY <1>1, <1>3, <1>5, <1>6
<1> QED  BY <1>1, <1>2, <1>3, <1>5, <1>7, MuAssumption DEF SymbolItems

\* Products distribute over the two sums that occur.
LEMMA Distribute ==
  ASSUME NEW a \in Int, NEW b \in Int, NEW c \in Int
  PROVE  /\ a * c \in Int
         /\ (a + b) * c = a * c + b * c
         /\ (a - b) * c = a * c - b * c
OBVIOUS

\* Counts of samples and of items when a window of whole samples is read.
LEMMA CountGrows ==
  ASSUME NEW a \in Int, NEW b \in Int
  PROVE  a * OS \in Int /\ b * OS \in Int /\ (a + b) * OS = a * OS + b * OS
BY Sizes

\* Whole samples of a number of items.
LEMMA SamplesOf ==
  ASSUME NEW x \in Int
  PROVE  /\ Samples(x) \in Int
         /\ x - Samples(x) * OS \in 0 .. OS - 1
         /\ \A y \in Int : Samples(x + y * OS) = Samples(x) + y
<1>1. OS \in Nat /\ OS > 0
  BY Sizes
<1>2. PICK s \in Int, r \in 0 .. OS - 1 : s = Samples(x) /\ x = s * OS + r
  <2>1. x \div OS \in Int /\ x % OS \in 0 .. OS - 1 /\ x = (x \div OS) * OS + (x % OS)
    BY <1>1
  <2> QED  BY <2>1 DEF Samples
<1>3. s * OS \in Int /\ x - s * OS \in 0 .. OS - 1
  BY <1>1, <1>2
<1>4. ASSUME NEW y \in Int PROVE Samples(x + y * OS) = s + y
  <2>1. (s + y) * OS = s * OS + y * OS /\ y * OS \in Int
    BY <1>1
  <2>2. PICK t \in Int, v \in 0 .. OS - 1 : t = Samples(x + y * OS) /\ x + y * OS = t * OS + v
    <3>1. x + y * OS \in Int
      BY <2>1
    <3> DEFINE z == x + y * OS
    <3>2. z \div OS \in Int /\ z % OS \in 0 .. OS - 1 /\ z = (z \div OS) * OS + (z % OS)
      <4> HIDE DEF z
      <4>1. z \in Int
        BY <3>1 DEF z
      <4> QED  BY <1>1, <4>1
    <3> QED  BY <3>2 DEF Samples
  <2>3. PICK d \in Int : t = (s + y) + d
    <3>1. t - (s + y) \in Int /\ t = (s + y) + (t - (s + y))
      OBVIOUS
    <3> QED  BY <3>1
  <2>4. t * OS = (s + y) * OS + d * OS /\ d * OS \in Int
    BY <1>1, <2>3
  <2>5. d * OS = r - v
    BY <1>1, <1>2, <1>3, <2>1, <2>2, <2>4
  <2>6. d * OS < OS /\ d * OS > 0 - OS
    BY <1>1, <2>5
  <2>7. d = 0
    <3>1. CASE d >= 1
      <4>1. PICK e \in Nat : d = e + 1
        <5>1. d - 1 \in Nat /\ d = (d - 1) + 1
          BY <3>1
        <5> QED  BY <5>1
      <4>2. (e + 1) * OS = e * OS + OS /\ e * OS \in Nat
        BY <1>1
      <4> QED  BY <1>1, <2>6, <4>1, <4>2
    <3>2. CASE d <= -1
      <4>1. PICK e \in Nat : d = (0 - e) - 1
        <5>1. (0 - d) - 1 \in Nat /\ d = (0 - ((0 - d) - 1)) - 1
          BY <3>2
        <5> QED  BY <5>1
      <4>2. ((0 - e) - 1) * OS = (0 - (e * OS)) - OS /\ e * OS \in Nat
        BY <1>1
      <4> QED  BY <1>1, <2>6, <4>1, <4>2
    <3> QED  BY <3>1, <3>2
  <2> QED  BY <2>2, <2>3, <2>7
<1> QED  BY <1>2, <1>3, <1>4

\* What % SymbolItems takes away is a number of symbols.
LEMMA ModSymbols ==
  ASSUME NEW x \in Int
  PROVE  /\ x % SymbolItems \in 0 .. SymbolItems - 1
         /\ \E k \in Int : x % SymbolItems = x + k * SymbolItems
<1>1. SymbolItems \in Nat /\ SymbolItems > 0
  BY Sizes
<1>2. PICK s \in Int, r \in 0 .. SymbolItems - 1 : r = x % SymbolItems /\ x = s * SymbolItems + r
  <2>1. /\ x \div SymbolItems \in Int /\ x % SymbolItems \in 0 .. SymbolItems - 1
        /\ x = (x \div SymbolItems) * SymbolItems + (x % SymbolItems)
    BY <1>1
  <2> QED  BY <2>1
<1>3. (0 - s) * SymbolItems = 0 - s * SymbolItems /\ s * SymbolItems \in Int /\ 0 - s \in Int
  BY <1>1
<1>4. r = x + (0 - s) * SymbolItems
  BY <1>1, <1>2, <1>3
<1> QED  BY <1>2, <1>3, <1>4

\* The remainder of what differs by whole symbols.
LEMMA ModUnique ==
  ASSUME NEW r \in 0 .. SymbolItems - 1, NEW k \in Int
  PROVE  (r + k * SymbolItems) % SymbolItems = r
<1>1. SymbolItems \in Nat /\ SymbolItems > 0 /\ k * SymbolItems \in Int
  BY Sizes
<1> DEFINE x == r + k * SymbolItems
<1>2. x \in Int
  BY <1>1
<1>3. PICK v \in 0 .. SymbolItems - 1, m \in Int : v = x % SymbolItems /\ v = x + m * SymbolItems
  <2> HIDE DEF x
  <2> QED  BY <1>2, ModSymbols
<1>4. PICK d \in Int : d = k + m
  BY <1>1
<1>5. d * SymbolItems = k * SymbolItems + m * SymbolItems /\ m * SymbolItems \in Int
  BY <1>1, <1>4
<1>6. v = r + d * SymbolItems
  BY <1>1, <1>3, <1>5
<1>7. d = 0
  <2>1. CASE d >= 1
    <3>1. PICK e \in Nat : d = e + 1
      <4>1. d - 1 \in Nat /\ d = (d - 1) + 1
        BY <2>1
      <4> QED  BY <4>1
    <3>2. (e + 1) * SymbolItems = e * SymbolItems + SymbolItems /\ e * SymbolItems \in Nat
      BY <1>1
    <3> QED  BY <1>1, <1>6, <3>1, <3>2
  <2>2. CASE d <= -1
    <3>1. PICK e \in Nat : d = (0 - e) - 1
      <4>1. (0 - d) - 1 \in Nat /\ d = (0 - ((0 - d) - 1)) - 1
        BY <2>2
      <4> QED  BY <4>1
    <3>2. ((0 - e) - 1) * SymbolItems = (0 - (e * SymbolItems)) - SymbolItems /\ e * SymbolItems \in Nat
      BY <1>1
    <3> QED  BY <1>1, <1>6, <3>1, <3>2
  <2> QED  BY <2>1, <2>2
<1>8. v = r
  BY <1>1, <1>6, <1>7
<1> QED  BY <1>3, <1>8

----------------------------------------------------------------------------
(***************************************************************************)
(* Types.                                                                  *)
(***************************************************************************)

SyncStates == {"IDLE", "SINGLE_USER", "REALIGN_TO_NEW", "REALIGN_TO_PREV", "MULTI_USER"}

\* The two frames: they are given.
FramesTyped == starts \in Starts /\ powers \in Powers

\* The state of mu_synchro and the windows it has written.
SynchroTyped ==
  /\ nread \in 0 .. MaxItems /\ m_sync_state \in SyncStates
  /\ m_tau \in 0 .. SymbolItems /\ m_item_to_consume \in 0 .. SymbolItems
  /\ user_u \in UserSet /\ user_i \in UserSet
  /\ m_power1 \in Nat /\ m_power2 \in Nat
  /\ windows \in Seq(WindowSet) /\ Len(windows) <= Room

\* The state of ml_aggreg.
AggregTyped ==
  /\ user_states \in [Users -> {"NONE", "PREAMBLE", "PAYLOAD"}]
  /\ user_powers \in [Users -> Nat] /\ upchirps \in [Users -> Nat]

LEMMA TypedParts == Typed <=> FramesTyped /\ SynchroTyped /\ AggregTyped
<1>1. ASSUME windows \in Seq(WindowSet), NEW k \in 1 .. Len(windows)
      PROVE  windows[k].win_len \in 1 .. N /\ windows[k].tau \in 0 .. SymbolItems
  <2>1. windows[k] \in WindowSet
    BY <1>1
  <2> QED  BY <2>1 DEF WindowSet
<1> QED  BY <1>1 DEF Typed, TypeOK, FramesTyped, SynchroTyped, AggregTyped, SyncStates

\* What is known of the two frames.
LEMMA FrameFacts ==
  ASSUME FramesTyped
  PROVE  /\ starts[1] \in Nat /\ starts[2] \in Nat /\ starts[1] <= starts[2]
         /\ \A f \in 1 .. 2 : starts[f] \in Nat /\ powers[f] \in Nat /\ powers[f] # 0
         /\ \A f \in 1 .. 2 : starts[f] % SymbolItems \in Nat
<1>1. starts \in Nat \X Nat /\ powers \in (Nat \ {0}) \X (Nat \ {0}) /\ starts[1] <= starts[2]
  BY MuAssumption DEF FramesTyped
<1>2. /\ starts[1] \in Nat /\ starts[2] \in Nat
      /\ powers[1] \in Nat \ {0} /\ powers[2] \in Nat \ {0}
  BY <1>1
<1>3. \A f \in 1 .. 2 : starts[f] \in Nat /\ powers[f] \in Nat /\ powers[f] # 0
  BY <1>2
<1>4. ASSUME NEW f \in 1 .. 2 PROVE starts[f] % SymbolItems \in Nat
  <2>1. starts[f] \in Int
    BY <1>3
  <2>2. starts[f] % SymbolItems \in 0 .. SymbolItems - 1
    BY <2>1, ModSymbols
  <2>3. SymbolItems \in Nat
    BY Sizes
  <2> QED  BY <2>2, <2>3
<1> QED  BY <1>1, <1>2, <1>3, <1>4

LEMMA TypeOfCount == ASSUME NEW cnt \in Int PROVE GetType(cnt) \in WindowTypes
BY DEF GetType, WindowTypes

LEMMA UserTyped ==
  ASSUME FramesTyped, NEW f \in 1 .. 2, NEW cnt \in Int
  PROVE  UserOf(f, cnt) \in UserSet
BY FrameFacts DEF UserOf, UserSet

\* A window with proper fields is added or is empty.
LEMMA WindowAdded ==
  ASSUME windows \in Seq(WindowSet), Len(windows) < Room, nread \in Nat,
         NEW p1 \in Nat, NEW p2 \in Nat, NEW len \in 0 .. N, NEW Tu \in WindowTypes,
         NEW Ti1 \in WindowTypes, NEW Ti2 \in WindowTypes, NEW tau \in 0 .. SymbolItems,
         AddWindow(Window(p1, p2, len, Tu, Ti1, Ti2, tau))
  PROVE  windows' \in Seq(WindowSet) /\ Len(windows') <= Room
<1>1. Len(windows) \in Nat /\ Room \in Nat /\ N \in Nat
  BY MuAssumption
<1>2. CASE len = 0
  <2>1. windows' = windows
    BY <1>2 DEF AddWindow, Window
  <2> QED  BY <1>1, <2>1
<1>3. CASE len > 0
  <2>1. Window(p1, p2, len, Tu, Ti1, Ti2, tau) \in WindowSet
    BY <1>1, <1>3 DEF Window, WindowSet
  <2>2. windows' = Append(windows, Window(p1, p2, len, Tu, Ti1, Ti2, tau))
    BY <1>3 DEF AddWindow, Window
  <2>3. /\ Append(windows, Window(p1, p2, len, Tu, Ti1, Ti2, tau)) \in Seq(WindowSet)
        /\ Len(Append(windows, Window(p1, p2, len, Tu, Ti1, Ti2, tau))) = Len(windows) + 1
    BY <2>1
  <2> QED  BY <1>1, <2>2, <2>3
<1> QED  BY <1>1, <1>2, <1>3

\* sync_frame reads no further than the symbol of input that it was called with.
LEMMA Consumed ==
  ASSUME nread \in 0 .. MaxItems, nread + SymbolItems <= MaxItems,
         NEW items \in 0 .. SymbolItems, Consume(items)
  PROVE  nread' \in 0 .. MaxItems /\ m_item_to_consume' \in 0 .. SymbolItems
BY Sizes, MuAssumption DEF Consume

LEMMA SamplesWithin == ASSUME NEW x \in 0 .. SymbolItems PROVE Samples(x) \in 0 .. N
<1>1. SymbolItems \in Nat /\ SymbolItems = N * OS /\ N \in Nat /\ OS \in Nat /\ OS > 0
  BY Sizes
<1>2. PICK s \in Nat : s = x \div OS /\ s * OS <= N * OS
  <2>1. x \div OS \in Nat /\ (x \div OS) * OS <= x
    BY <1>1
  <2> QED  BY <1>1, <2>1
<1>3. SUFFICES ASSUME s > N PROVE FALSE
  BY <1>1, <1>2 DEF Samples
<1>4. PICK d \in Nat : s = N + 1 + d
  <2>1. s - (N + 1) \in Nat /\ s = N + 1 + (s - (N + 1))
    BY <1>1, <1>3
  <2> QED  BY <2>1
<1>5. (N + 1 + d) * OS = N * OS + OS + d * OS /\ d * OS \in Nat /\ N * OS \in Nat
  BY <1>1, <1>4
<1> QED  BY <1>1, <1>2, <1>4, <1>5

LEMMA TauTyped ==
  ASSUME NEW x \in Int
  PROVE  x % SymbolItems \in 0 .. SymbolItems
BY ModSymbols, Sizes

\* A step of mu_synchro keeps the types of its state.
LEMMA SynchroTypes ==
  ASSUME FramesTyped, SynchroTyped, SyncFrame
  PROVE  SynchroTyped'
<1> USE DEF SynchroTyped
<1>1. nread + SymbolItems <= MaxItems /\ Len(windows) < Room /\ nread \in Nat
  BY MuAssumption DEF SyncFrame
<1>2. /\ SymbolItems \in Nat /\ N \in Nat /\ N \div 4 \in 0 .. N /\ 0 \in 0 .. SymbolItems
      /\ N * OS = SymbolItems /\ (N \div 4) * OS \in 0 .. SymbolItems /\ N \in 0 .. N
  BY Sizes
<1>3. /\ user_u \in [cnt : Int, power : Nat, sto : Nat, frame : 0 .. 2]
      /\ user_i \in [cnt : Int, power : Nat, sto : Nat, frame : 0 .. 2]
  BY DEF UserSet
<1>4. user_u.cnt \in Int /\ user_i.cnt \in Int /\ user_u.sto \in Nat /\ user_i.sto \in Nat
  BY <1>3
<1>5. \A c \in Int : [user_u EXCEPT !.cnt = c] \in UserSet /\ [user_i EXCEPT !.cnt = c] \in UserSet
  BY <1>3 DEF UserSet
<1>6. "VOID" \in WindowTypes /\ "DOWNCHIRP" \in WindowTypes
  BY DEF WindowTypes
<1>7. windows' = windows => windows' \in Seq(WindowSet) /\ Len(windows') <= Room
  BY <1>1
<1>8. \A items \in 0 .. SymbolItems : Consume(items) =>
        nread' \in 0 .. MaxItems /\ m_item_to_consume' \in 0 .. SymbolItems
  BY <1>1, Consumed
<1>9. ASSUME FirstUser PROVE SynchroTyped'
  <2>1. PICK f \in 1 .. 2 : /\ TagsAhead = {f} /\ m_power1' = powers[f]
                            /\ user_u' = UserOf(f, 0) /\ Consume(starts[f] - nread)
    BY <1>9 DEF FirstUser
  <2>2. starts[f] \in nread .. nread + SymbolItems - 1
    BY <2>1 DEF TagsAhead
  <2>3. starts[f] - nread \in 0 .. SymbolItems /\ powers[f] \in Nat
    <3>1. starts[f] \in Nat /\ powers[f] \in Nat
      BY FrameFacts
    <3>2. PICK s \in Nat : s = starts[f]
      BY <3>1
    <3>3. s - nread \in 0 .. SymbolItems
      BY <1>1, <1>2, <2>2, <3>2
    <3> QED  BY <3>1, <3>2, <3>3
  <2>4. user_u' \in UserSet
    BY <2>1, UserTyped
  <2>5. nread' \in 0 .. MaxItems /\ m_item_to_consume' \in 0 .. SymbolItems
    BY <1>8, <2>1, <2>3
  <2> QED  BY <1>7, <1>9, <2>1, <2>3, <2>4, <2>5 DEF FirstUser, SyncStates
<1>10. ASSUME Idle PROVE SynchroTyped'
  <2>1. nread' \in 0 .. MaxItems /\ m_item_to_consume' \in 0 .. SymbolItems
    BY <1>2, <1>8, <1>10 DEF Idle
  <2> QED  BY <1>7, <1>10, <2>1 DEF Idle
<1>11. ASSUME FrameEnds PROVE SynchroTyped'
  <2>1. nread' \in 0 .. MaxItems /\ m_item_to_consume' \in 0 .. SymbolItems
    BY <1>2, <1>8, <1>11 DEF FrameEnds
  <2>2. user_u' \in UserSet
    <3>1. [user_u EXCEPT !.cnt = 0] \in UserSet
      BY <1>3, SMTT(60) DEF UserSet
    <3>2. user_u' = [user_u EXCEPT !.cnt = 0]
      BY <1>11 DEF FrameEnds
    <3> QED  BY <3>1, <3>2
  <2> QED  BY <1>7, <1>11, <2>1, <2>2 DEF FrameEnds, SyncStates
<1>12. ASSUME IgnoreWeak PROVE SynchroTyped'
  <2>1. nread' \in 0 .. MaxItems /\ m_item_to_consume' \in 0 .. SymbolItems
    BY <1>8, <1>12 DEF IgnoreWeak
  <2> QED  BY <1>7, <1>12, <2>1 DEF IgnoreWeak
<1>13. ASSUME AcceptSecond PROVE SynchroTyped'
  <2>1. nread' \in 0 .. MaxItems /\ m_item_to_consume' \in 0 .. SymbolItems
    BY <1>2, <1>8, <1>13 DEF AcceptSecond
  <2>2. PICK f \in TagsAhead :
          LET i == UserOf(f, 0) IN
          /\ m_power1' = IF m_power1 = 0 THEN i.power ELSE m_power1
          /\ m_power2' = IF m_power1 # 0 /\ m_power2 = 0 THEN i.power ELSE m_power2
          /\ \/ /\ m_sync_state' = "REALIGN_TO_NEW" /\ user_i' = i /\ UNCHANGED m_tau
             \/ /\ m_sync_state' = "MULTI_USER"
                /\ m_tau' = TauBetween(i, user_u)
                /\ user_i' = [i EXCEPT !.cnt = -Samples(m_tau')]
    BY <1>13 DEF AcceptSecond
  <2>3. f \in 1 .. 2 /\ UserOf(f, 0) \in UserSet
    BY UserTyped DEF TagsAhead
  <2>4. UserOf(f, 0) \in [cnt : Int, power : Nat, sto : Nat, frame : 0 .. 2]
    BY <2>3 DEF UserSet
  <2>5. UserOf(f, 0).power \in Nat /\ UserOf(f, 0).sto \in Nat
    BY <2>4
  <2>6. m_power1' \in Nat /\ m_power2' \in Nat
    BY <2>2, <2>5
  <2>7. UserOf(f, 0).sto - user_u.sto - SymbolItems \div 4 \in Int
    BY <1>4, <2>5, Sizes
  <2>8. TauBetween(UserOf(f, 0), user_u) \in 0 .. SymbolItems
    BY <2>7, TauTyped DEF TauBetween
  <2>9. m_tau' \in 0 .. SymbolItems /\ m_sync_state' \in SyncStates
    BY <2>2, <2>8 DEF SyncStates
  <2>10. Samples(m_tau') \in 0 .. N
    BY <2>9, SamplesWithin
  <2>11. -Samples(m_tau') \in Int
    BY <1>2, <2>10
  <2>12. user_i' \in UserSet
    BY <2>2, <2>3, <2>4, <2>11 DEF UserSet
  <2>13. user_u' = user_u /\ windows' = windows
    BY <1>13 DEF AcceptSecond
  <2> QED  BY <1>7, <2>1, <2>6, <2>9, <2>12, <2>13
<1>14. ASSUME SingleWindow PROVE SynchroTyped'
  <2> DEFINE type == GetType(user_u.cnt)
             len == IF type = "QUARTER_DOWN" THEN N \div 4 ELSE N
  <2>1. /\ AddWindow(Window(m_power1, m_power2, len, type, "VOID", "VOID", len * OS))
        /\ user_u' = [user_u EXCEPT !.cnt = @ + len] /\ Consume(len * OS)
    BY <1>14 DEF SingleWindow
  <2>2. type \in WindowTypes
    BY <1>4, TypeOfCount
  <2>3. len \in 0 .. N /\ len * OS \in 0 .. SymbolItems
    BY <1>2
  <2> HIDE DEF type, len
  <2>4. windows' \in Seq(WindowSet) /\ Len(windows') <= Room
    BY <1>1, <1>6, <2>1, <2>2, <2>3, WindowAdded
  <2>5. nread' \in 0 .. MaxItems /\ m_item_to_consume' \in 0 .. SymbolItems
    BY <1>8, <2>1, <2>3
  <2>6. user_u.cnt + len \in Int
    BY <1>2, <1>4, <2>3, SMTT(60)
  <2>7. user_u' \in UserSet
    BY <1>5, <2>1, <2>6
  <2> QED  BY <1>14, <2>4, <2>5, <2>7 DEF SingleWindow
<1>15. ASSUME RealignToNew PROVE SynchroTyped'
  <2> DEFINE tau == TauBetween(user_i, user_u)
             len == Samples(tau)
             p1 == IF m_power1 > m_power2 THEN 0 ELSE m_power1
             p2 == IF m_power1 > m_power2 THEN m_power2 ELSE 0
  <2>1. /\ m_tau' = (SymbolItems - tau) % SymbolItems
        /\ AddWindow(Window(p1, p2, len, "VOID", "VOID", GetType(user_u.cnt), m_tau'))
        /\ user_i' = [user_u EXCEPT !.cnt = @ + len] /\ user_u' = user_i /\ Consume(tau)
    BY <1>15 DEF RealignToNew
  <2>2. user_i.sto - user_u.sto - SymbolItems \div 4 \in Int
    BY <1>4, Sizes
  <2>3. tau \in 0 .. SymbolItems
    BY <2>2, TauTyped DEF TauBetween
  <2>4. p1 \in Nat /\ p2 \in Nat
    OBVIOUS
  <2> HIDE DEF tau, p1, p2
  <2>5. len \in 0 .. N
    BY <2>3, SamplesWithin
  <2>6. SymbolItems - tau \in Int
    BY <1>2, <2>3
  <2>7. m_tau' \in 0 .. SymbolItems
    BY <2>1, <2>6, TauTyped
  <2>8. GetType(user_u.cnt) \in WindowTypes
    BY <1>4, TypeOfCount
  <2> HIDE DEF len
  <2>9. windows' \in Seq(WindowSet) /\ Len(windows') <= Room
    BY <1>1, <1>6, <2>1, <2>4, <2>5, <2>7, <2>8, WindowAdded
  <2>10. nread' \in 0 .. MaxItems /\ m_item_to_consume' \in 0 .. SymbolItems
    BY <1>8, <2>1, <2>3
  <2>11. user_u.cnt + len \in Int
    BY <1>2, <1>4, <2>5
  <2>12. user_i' \in UserSet
    BY <1>5, <2>1, <2>11
  <2> QED  BY <1>15, <2>1, <2>7, <2>9, <2>10, <2>12 DEF RealignToNew, SyncStates
<1>16. ASSUME RealignToPrev PROVE SynchroTyped'
  <2> DEFINE len == Samples(m_tau)
  <2>1. /\ AddWindow(Window(m_power1, m_power2, len, "VOID", GetType(user_i.cnt), "VOID", m_tau))
        /\ user_u' = [user_i EXCEPT !.cnt = @ + len] /\ user_i' = user_u /\ Consume(m_tau)
        /\ m_tau' = SymbolItems
    BY <1>16 DEF RealignToPrev
  <2>2. len \in 0 .. N
    BY SamplesWithin
  <2>3. GetType(user_i.cnt) \in WindowTypes
    BY <1>4, TypeOfCount
  <2> HIDE DEF len
  <2>4. windows' \in Seq(WindowSet) /\ Len(windows') <= Room
    BY <1>1, <1>6, <2>1, <2>2, <2>3, WindowAdded
  <2>5. nread' \in 0 .. MaxItems /\ m_item_to_consume' \in 0 .. SymbolItems
    BY <1>8, <2>1
  <2>6. user_i.cnt + len \in Int
    BY <1>2, <1>4, <2>2
  <2>7. user_u' \in UserSet
    BY <1>5, <2>1, <2>6
  <2>8. m_tau' \in 0 .. SymbolItems
    BY <1>2, <2>1
  <2> QED  BY <1>16, <2>1, <2>4, <2>5, <2>7, <2>8 DEF RealignToPrev, SyncStates
<1>17. ASSUME UserEnds PROVE SynchroTyped'
  <2>1. nread' \in 0 .. MaxItems /\ m_item_to_consume' \in 0 .. SymbolItems
    BY <1>2, <1>8, <1>17 DEF UserEnds
  <2> QED  BY <1>7, <1>17, <2>1 DEF UserEnds, SyncStates
<1>18. ASSUME MultiWindow PROVE SynchroTyped'
  <2>1. /\ m_tau' = m_tau \/ \E x \in Int : m_tau' = x % SymbolItems
        /\ \E len \in {N, N \div 4}, Ti1 \in WindowTypes, tau \in {m_tau, m_tau'} : Both(len, Ti1, tau)
    <3>1. GetType(user_i.cnt) \in WindowTypes
      BY <1>4, TypeOfCount
    <3>2. m_tau - SymbolItems \div 4 \in Int /\ m_tau + SymbolItems \div 4 \in Int
      BY Sizes
    <3> QED  BY <1>6, <1>18, <3>1, <3>2 DEF MultiWindow
  <2>2. m_tau' \in 0 .. SymbolItems
    BY <2>1, TauTyped
  <2>3. PICK len \in {N, N \div 4}, Ti1 \in WindowTypes, tau \in {m_tau, m_tau'} : Both(len, Ti1, tau)
    BY <2>1
  <2>4. len \in 0 .. N /\ tau \in 0 .. SymbolItems /\ len * OS \in 0 .. SymbolItems
    BY <1>2, <2>2
  <2>5. SamplesUp(tau) \in Int
    BY <2>4, Sizes DEF SamplesUp
  <2>6. user_i.cnt + SamplesUp(tau) \in Int
    BY <1>4, <2>5
  <2>7. GetType(user_u.cnt) \in WindowTypes /\ GetType(user_i.cnt + SamplesUp(tau)) \in WindowTypes
    BY <1>4, <2>6, TypeOfCount
  <2>8. AddWindow(Window(m_power1, m_power2, len, GetType(user_u.cnt), Ti1,
                         GetType(user_i.cnt + SamplesUp(tau)), tau))
    BY <2>3 DEF Both
  <2>9. windows' \in Seq(WindowSet) /\ Len(windows') <= Room
    BY <1>1, <2>4, <2>7, <2>8, WindowAdded
  <2>10. nread' \in 0 .. MaxItems /\ m_item_to_consume' \in 0 .. SymbolItems
    BY <1>8, <2>3, <2>4 DEF Both
  <2>11. user_u.cnt + len \in Int /\ user_i.cnt + len \in Int
    BY <1>2, <1>4, <2>4, SMTT(60)
  <2>12. user_u' \in UserSet /\ user_i' \in UserSet
    BY <1>5, <2>3, <2>11 DEF Both
  <2> QED  BY <1>18, <2>2, <2>9, <2>10, <2>12 DEF MultiWindow
<1> QED
  BY <1>9, <1>10, <1>11, <1>12, <1>13, <1>14, <1>15, <1>16, <1>17, <1>18 DEF SyncFrame

\* A window processed by ml_aggreg is taken from the front.
LEMMA AggregTypes ==
  ASSUME SynchroTyped, AggregTyped, ProcessWindow
  PROVE  AggregTyped' /\ windows' \in Seq(WindowSet) /\ Len(windows') <= Room
<1>1. windows # <<>> /\ windows \in Seq(WindowSet) /\ Len(windows) <= Room
  BY DEF ProcessWindow, SynchroTyped
<1>2. PICK w \in WindowSet : w = Head(windows)
  BY <1>1
<1>3. windows' \in Seq(WindowSet) /\ Len(windows') <= Room
  <2>1. windows' = Tail(windows)
    BY DEF ProcessWindow
  <2>2. Tail(windows) \in Seq(WindowSet) /\ Len(Tail(windows)) = Len(windows) - 1
    BY <1>1
  <2> QED  BY <1>1, <2>1, <2>2, MuAssumption
<1> DEFINE States == {"NONE", "PREAMBLE", "PAYLOAD"}
<1>4. \A u \in Users, other \in States : StateAfter(w, u, other) \in States
  BY DEF StateAfter, AggregTyped
<1>5. \A u \in Users : Tracked(w)[u] \in States
  <2>1. user_states[2] \in States /\ 1 \in Users /\ 2 \in Users
    BY DEF AggregTyped, Users
  <2>2. StateAfter(w, 1, user_states[2]) \in States
    BY <1>4, <2>1
  <2>3. StateAfter(w, 2, StateAfter(w, 1, user_states[2])) \in States
    BY <1>4, <2>1, <2>2
  <2> QED  BY <2>2, <2>3 DEF Tracked, Users
<1>6. PowersAfter(w) \in [Users -> Nat]
  <2>1. \A u \in Users : PowerOf(w, u) \in Nat
    BY DEF PowerOf, WindowSet
  <2> QED  BY <2>1 DEF PowersAfter, AggregTyped
<1>7. user_states' = Tracked(w) /\ user_powers' = PowersAfter(w)
  BY <1>2 DEF ProcessWindow
<1>8. user_states' \in [Users -> States]
  <2>1. Tracked(w) = <<Tracked(w)[1], Tracked(w)[2]>>
    BY DEF Tracked
  <2>2. Tracked(w) = [u \in Users |-> Tracked(w)[u]]
    BY DEF Tracked, Users
  <2> QED  BY <1>5, <1>7, <2>2
<1>9. upchirps' \in [Users -> Nat]
  <2>1. \E a, b \in [Users -> BOOLEAN] :
          upchirps' = [u \in Users |-> (IF a[u] THEN 0 ELSE upchirps[u]) + (IF b[u] THEN 1 ELSE 0)]
    <3> DEFINE a == [u \in Users |-> Gone(w, u) \/ (user_states[u] = "PAYLOAD"
                                                       /\ Tracked(w)[u] = "PREAMBLE")]
               b == [u \in Users |-> Seen(w, u, PowersAfter(w)[u] >= PowersAfter(w)[Other(u)])]
    <3>1. a \in [Users -> BOOLEAN] /\ b \in [Users -> BOOLEAN]
      BY DEF Gone, Seen
    <3>2. upchirps' = [u \in Users |-> (IF a[u] THEN 0 ELSE upchirps[u]) + (IF b[u] THEN 1 ELSE 0)]
      BY <1>2 DEF ProcessWindow
    <3> QED  BY <3>1, <3>2
  <2> QED  BY <2>1 DEF AggregTyped
<1> QED  BY <1>3, <1>6, <1>7, <1>8, <1>9 DEF AggregTyped

----------------------------------------------------------------------------
(***************************************************************************)
(* Counts, types and places.                                               *)
(***************************************************************************)

LEMMA CountFacts ==
  /\ (NUp + 4) * N \in Nat /\ PayloadCount \in Nat /\ PayloadCount = (NUp + 4) * N + N \div 4
  /\ 2 <= (NUp + 4) * N
  /\ PayloadCount * OS = (NUp + 4) * SymbolItems + (N \div 4) * OS
  /\ (NUp + 4) * SymbolItems \in Nat
<1>1. N \in Nat /\ NUp \in Nat /\ OS \in Nat /\ N \div 4 \in Nat /\ N >= 4
  BY Sizes
<1>2. PICK q \in Nat : q = N \div 4
  BY <1>1
<1>3. NUp * N \in Nat /\ (NUp + 4) * N = NUp * N + 4 * N
  BY <1>1
<1>4. PICK m \in Nat : m = (NUp + 4) * N
  BY <1>1, <1>3
<1>5. (m + q) * OS = m * OS + q * OS
  BY <1>1
<1>6. m * OS = (NUp + 4) * (N * OS)
  BY <1>1, <1>4
<1>7. (NUp + 4) * SymbolItems \in Nat
  BY Sizes
<1> QED  BY <1>1, <1>2, <1>3, <1>4, <1>5, <1>6, <1>7 DEF PayloadCount, SymbolItems

\* What get_type says of a count.
LEMMA TypeFacts ==
  ASSUME NEW cnt \in Int
  PROVE  /\ GetType(cnt) = "PAYLOAD" => cnt >= PayloadCount /\ cnt < PayloadCount + PayloadSymbols * N
         /\ GetType(cnt) = "QUARTER_DOWN" <=> cnt >= (NUp + 4) * N /\ cnt < PayloadCount
         /\ GetType(cnt) = "VOID" /\ cnt >= 0 => cnt >= PayloadCount
<1>1. PICK m \in Nat, q \in Nat : m = (NUp + 4) * N /\ q = PayloadCount /\ m <= q /\ q = m + N \div 4
  BY CountFacts, Sizes
<1>2. PICK a \in Nat, b \in Nat : /\ a = NUp * N /\ b = (NUp + 2) * N /\ a <= b /\ b <= m
  <2>1. NUp * N \in Nat /\ (NUp + 2) * N = NUp * N + 2 * N /\ (NUp + 4) * N = NUp * N + 4 * N
    BY Sizes
  <2> QED  BY <1>1, <2>1, Sizes
<1>3. PICK p \in Nat : p = PayloadSymbols * N
  BY Sizes
<1>4. GetType(cnt) = CASE cnt < 0             -> "VOID"
                       [] cnt \in 0 .. a - 1 -> "UPCHIRP"
                       [] cnt \in a .. b - 1 -> "SYNC_WORD"
                       [] cnt \in b .. m - 1 -> "DOWNCHIRP"
                       [] cnt \in m .. q - 1 -> "QUARTER_DOWN"
                       [] cnt \in q .. q + p - 1 -> "PAYLOAD"
                       [] OTHER -> "VOID"
  BY <1>1, <1>2, <1>3 DEF GetType
<1> QED  BY <1>1, <1>2, <1>3, <1>4

\* The places of the parts of a frame, from counts.
LEMMA Places ==
  ASSUME FramesTyped, NEW f \in 1 .. 2
  PROVE  /\ PayloadStart(f) = starts[f] + PayloadCount * OS
         /\ PayloadStart(f) = starts[f] + (NUp + 4) * SymbolItems + SymbolItems \div 4
         /\ PayloadStart(f) \in Nat
<1>1. starts[f] \in Nat
  BY FrameFacts
<1>2. (NUp + 4) * SymbolItems \in Nat /\ SymbolItems \div 4 \in Nat
  BY CountFacts, Sizes
<1>3. PayloadCount * OS = (NUp + 4) * SymbolItems + SymbolItems \div 4
  BY CountFacts, Sizes
<1> QED  BY <1>1, <1>2, <1>3 DEF PayloadStart, QuarterStart

\* Numbers of symbols that are congruent.
LEMMA Multiples ==
  ASSUME NEW j \in Int, NEW k \in Int
  PROVE  /\ j * SymbolItems \in Int
         /\ (j + k) * SymbolItems = j * SymbolItems + k * SymbolItems
         /\ (j - k) * SymbolItems = j * SymbolItems - k * SymbolItems
BY Sizes

\* A user who has come two samples far has begun.
LEMMA HasBegun ==
  ASSUME FramesTyped, nread \in Nat, NEW f \in 1 .. 2, NEW cnt \in Int, cnt >= 2,
         nread - (starts[f] + cnt * OS) \in -OS .. OS
  PROVE  starts[f] < nread
<1>1. starts[f] \in Nat /\ OS \in Nat /\ OS > 0
  BY FrameFacts, Sizes
<1>2. PICK d \in Nat : cnt = d + 2
  <2>1. cnt - 2 \in Nat /\ cnt = (cnt - 2) + 2
    OBVIOUS
  <2> QED  BY <2>1
<1>3. (d + 2) * OS = d * OS + 2 * OS /\ d * OS \in Nat
  BY <1>1
<1> QED  BY <1>1, <1>2, <1>3

----------------------------------------------------------------------------
(***************************************************************************)
(* One user.                                                               *)
(***************************************************************************)

\* The initial state.
LEMMA InitIInv == Init => IInv
<1> SUFFICES ASSUME Init PROVE IInv
  OBVIOUS
<1> USE DEF Init, SynchroInit, AggregInit
<1>1. FramesTyped
  BY DEF FramesTyped
<1>2. Void \in UserSet
  BY DEF Void, UserSet
<1>3. SynchroTyped
  BY <1>2, Sizes, MuAssumption DEF SynchroTyped, SyncStates
<1>4. AggregTyped
  BY DEF AggregTyped, Users
<1>5. Typed
  BY <1>1, <1>3, <1>4, TypedParts
<1>6. SyncInv
  BY DEF SyncInv, OneUser, NewUserNext, TwoUsers, OtherEnded
<1> QED  BY <1>5, <1>6 DEF IInv

LEMMA FirstUserSync ==
  ASSUME FramesTyped, SynchroTyped, SyncInv, FirstUser, UNCHANGED <<starts, powers>>
  PROVE  SyncInv'
<1>1. PICK f \in 1 .. 2 : /\ TagsAhead = {f} /\ m_power1' = powers[f]
                          /\ user_u' = UserOf(f, 0) /\ nread' = nread + (starts[f] - nread)
  BY DEF FirstUser, Consume
<1>2. starts[1] \in Nat /\ starts[2] \in Nat /\ starts[1] <= starts[2] /\ starts[f] \in Nat /\ nread \in Nat
  BY FrameFacts, MuAssumption DEF SynchroTyped
<1>3. nread' = starts[f]
  BY <1>1, <1>2
<1>4. user_u'.frame = f /\ user_u'.cnt = 0 /\ user_u'.sto = starts[f] % SymbolItems
  BY <1>1 DEF UserOf
<1>5. starts' = starts /\ powers' = powers /\ m_sync_state' = "SINGLE_USER"
  BY DEF FirstUser
<1>6. 0 * OS = 0 /\ 0 * N = 0 /\ OS \in Nat
  BY Sizes
<1>7. CountNear(user_u)' /\ Exact(user_u)'
  <2>1. starts'[user_u'.frame] + user_u'.cnt * OS = starts[f]
    BY <1>2, <1>4, <1>5, <1>6
  <2> QED  BY <1>2, <1>3, <1>6, <2>1 DEF CountNear, Exact, Near
<1>8. AtSymbol(user_u.cnt)'
  <2>1. 0 \in 0 .. NUp + 4 /\ user_u'.cnt = 0 * N
    BY <1>4, <1>6, Sizes
  <2> QED  BY <2>1 DEF AtSymbol
<1>9. ASSUME f = 2 PROVE starts[1] < nread'
  <2>1. starts[1] \notin nread .. nread + SymbolItems - 1 /\ starts[2] \in nread .. nread + SymbolItems - 1
    BY <1>1, <1>9 DEF TagsAhead
  <2> QED  BY <1>2, <1>3, <1>9, <2>1, Sizes
<1>10. OneUser'
  <2>1. CASE f = 1
    BY <1>1, <1>4, <1>5, <1>7, <1>8, <2>1 DEF OneUser
  <2>2. CASE f = 2
    BY <1>4, <1>5, <1>7, <1>9, <2>2 DEF OneUser
  <2> QED  BY <2>1, <2>2
<1> QED  BY <1>5, <1>10 DEF SyncInv, NewUserNext, TwoUsers, OtherEnded

\* The window of one user leads from symbol to symbol.
LEMMA NextAtSymbol ==
  ASSUME NEW cnt \in Int, AtSymbol(cnt), GetType(cnt) # "VOID"
  PROVE  AtSymbol(cnt + (IF GetType(cnt) = "QUARTER_DOWN" THEN N \div 4 ELSE N))
<1>1. PICK m \in Nat, q \in Nat : m = (NUp + 4) * N /\ q = N \div 4 /\ PayloadCount = m + q /\ q > 0
  BY CountFacts, Sizes
<1>2. N \in Nat /\ NUp \in Nat /\ N > 0
  BY Sizes
<1>3. GetType(cnt) = "QUARTER_DOWN" <=> cnt >= m /\ cnt < m + q
  BY <1>1, TypeFacts
<1>4. CASE \E k \in 0 .. NUp + 4 : cnt = k * N
  <2>1. PICK k \in 0 .. NUp + 4 : cnt = k * N
    BY <1>4
  <2>2. CASE k = NUp + 4
    <3>1. cnt + q = PayloadCount + 0 * N /\ GetType(cnt) = "QUARTER_DOWN"
      BY <1>1, <1>2, <1>3, <2>1, <2>2
    <3> QED  BY <1>1, <3>1 DEF AtSymbol
  <2>3. CASE k # NUp + 4
    <3>1. k + 1 \in 0 .. NUp + 4 /\ (k + 1) * N = k * N + N
      BY <1>2, <2>3
    <3>2. (k + 1) * N <= (NUp + 4) * N
      <4>1. PICK d \in Nat : NUp + 4 = k + 1 + d
        <5>1. (NUp + 4) - (k + 1) \in Nat /\ NUp + 4 = k + 1 + ((NUp + 4) - (k + 1))
          BY <1>2, <3>1
        <5> QED  BY <5>1
      <4>2. (k + 1 + d) * N = (k + 1) * N + d * N /\ d * N \in Nat /\ (k + 1) * N \in Nat
        BY <1>2, <3>1
      <4> QED  BY <4>1, <4>2
    <3>3. GetType(cnt) # "QUARTER_DOWN"
      BY <1>1, <1>2, <1>3, <2>1, <3>1, <3>2
    <3> QED  BY <2>1, <3>1, <3>3 DEF AtSymbol
  <2> QED  BY <2>2, <2>3
<1>5. CASE \E k \in Nat : cnt = PayloadCount + k * N
  <2>1. PICK k \in Nat : cnt = PayloadCount + k * N
    BY <1>5
  <2>2. (k + 1) * N = k * N + N /\ k * N \in Nat /\ k + 1 \in Nat
    BY <1>2
  <2>3. GetType(cnt) # "QUARTER_DOWN" /\ cnt + N = PayloadCount + (k + 1) * N
    BY <1>1, <1>2, <1>3, <2>1, <2>2
  <2> QED  BY <2>2, <2>3 DEF AtSymbol
<1> QED  BY <1>4, <1>5 DEF AtSymbol

LEMMA SingleWindowSync ==
  ASSUME FramesTyped, SynchroTyped, SyncInv, SingleWindow, UNCHANGED <<starts, powers>>
  PROVE  SyncInv'
<1> DEFINE len == IF GetType(user_u.cnt) = "QUARTER_DOWN" THEN N \div 4 ELSE N
<1>1. /\ m_sync_state = "SINGLE_USER" /\ m_sync_state' = "SINGLE_USER" /\ GetType(user_u.cnt) # "VOID"
      /\ user_u' = [user_u EXCEPT !.cnt = @ + len] /\ nread' = nread + len * OS
      /\ starts' = starts /\ powers' = powers /\ m_power1' = m_power1
  BY DEF SingleWindow, Consume
<1>2. PICK u \in UserSet : u = user_u
  BY DEF SynchroTyped
<1>3. u.cnt \in Int /\ nread \in Nat /\ len \in Nat
  BY <1>2, Sizes, MuAssumption DEF UserSet, SynchroTyped
<1>4. /\ user_u'.frame = u.frame /\ user_u'.cnt = u.cnt + len /\ user_u'.sto = u.sto
  BY <1>1, <1>2 DEF UserSet
<1>5. OneUser
  BY DEF SyncInv
<1>6. AtSymbol(u.cnt) => AtSymbol(u.cnt + len)
  BY <1>1, <1>2, <1>3, NextAtSymbol
<1> HIDE DEF len
<1>7. u.frame \in 1 .. 2 /\ 3 - u.frame \in 1 .. 2
  BY <1>1, <1>2, <1>5 DEF OneUser
<1>8. starts[u.frame] \in Nat /\ starts[3 - u.frame] \in Nat
  BY <1>7, FrameFacts
<1>9. (u.cnt + len) * OS = u.cnt * OS + len * OS /\ u.cnt * OS \in Int /\ len * OS \in Nat /\ OS \in Nat
  BY <1>3, Sizes
<1>10. CountNear(user_u)'
  <2>1. nread - (starts[u.frame] + u.cnt * OS) \in -OS .. OS
    BY <1>1, <1>2, <1>5 DEF OneUser, CountNear, Near
  <2>2. nread' - (starts[u.frame] + (u.cnt + len) * OS) = nread - (starts[u.frame] + u.cnt * OS)
    BY <1>1, <1>3, <1>8, <1>9
  <2> QED  BY <1>1, <1>4, <2>1, <2>2 DEF CountNear, Near
<1>11. starts[3 - u.frame] < nread => starts[3 - u.frame] < nread'
  BY <1>1, <1>3, <1>8, <1>9
<1>12. Exact(user_u) => Exact(user_u)'
  BY <1>1, <1>2, <1>3, <1>4, <1>8, <1>9 DEF Exact
<1>13. AtSymbol(user_u.cnt) => AtSymbol(user_u.cnt)'
  BY <1>2, <1>4, <1>6 DEF AtSymbol
<1>14. OneUser'
  BY <1>1, <1>2, <1>4, <1>5, <1>7, <1>10, <1>11, <1>12, <1>13 DEF OneUser
<1> QED  BY <1>1, <1>14 DEF SyncInv, NewUserNext, TwoUsers, OtherEnded

\* A count of the payload at the beginning of a symbol.
LEMMA PayloadSymbol ==
  ASSUME NEW cnt \in Int, AtSymbol(cnt), GetType(cnt) = "PAYLOAD"
  PROVE  \E k \in Nat : cnt = PayloadCount + k * N /\ k < PayloadSymbols
<1>1. /\ N \in Nat /\ N > 0 /\ NUp \in Nat /\ PayloadSymbols \in Nat /\ N \div 4 \in Nat /\ N \div 4 > 0
      /\ (NUp + 4) * N \in Nat /\ PayloadCount = (NUp + 4) * N + N \div 4
  BY Sizes, CountFacts
<1>2. cnt >= PayloadCount /\ cnt < PayloadCount + PayloadSymbols * N
  BY TypeFacts
<1>3. ASSUME NEW k \in 0 .. NUp + 4, cnt = k * N PROVE FALSE
  <2>1. PICK d \in Nat : NUp + 4 = k + d
    <3>1. (NUp + 4) - k \in Nat /\ NUp + 4 = k + ((NUp + 4) - k)
      BY <1>1
    <3> QED  BY <3>1
  <2>2. (k + d) * N = k * N + d * N /\ d * N \in Nat /\ k * N \in Nat
    BY <1>1
  <2> QED  BY <1>1, <1>2, <1>3, <2>1, <2>2
<1>4. PICK k \in Nat : cnt = PayloadCount + k * N
  BY <1>3 DEF AtSymbol
<1>5. k < PayloadSymbols
  <2>1. SUFFICES ASSUME k >= PayloadSymbols PROVE FALSE
    BY <1>1
  <2>2. PICK d \in Nat : k = PayloadSymbols + d
    <3>1. k - PayloadSymbols \in Nat /\ k = PayloadSymbols + (k - PayloadSymbols)
      BY <1>1, <2>1
    <3> QED  BY <3>1
  <2>3. (PayloadSymbols + d) * N = PayloadSymbols * N + d * N /\ d * N \in Nat /\ PayloadSymbols * N \in Nat
    BY <1>1
  <2> QED  BY <1>1, <1>2, <1>4, <2>2, <2>3
<1> QED  BY <1>4, <1>5

\* m_tau, computed from where the frames began, is the distance to the second frame.
LEMMA TauIsDistance ==
  ASSUME FramesTyped, nread \in Nat, starts[2] \in nread .. nread + SymbolItems - 1,
         NEW i \in UserSet, NEW u \in UserSet, NEW j \in Int,
         i.sto = starts[2] % SymbolItems, u.sto = starts[1] % SymbolItems,
         nread - PayloadStart(1) = j * SymbolItems
  PROVE  TauBetween(i, u) = starts[2] - nread
<1>1. starts[1] \in Nat /\ starts[2] \in Nat /\ SymbolItems \in Nat /\ SymbolItems \div 4 \in Nat
  BY FrameFacts, Sizes
<1>2. PICK a \in Int : i.sto = starts[2] + a * SymbolItems
  <2>1. \E k \in Int : starts[2] % SymbolItems = starts[2] + k * SymbolItems
    <3>1. starts[2] \in Int
      BY <1>1
    <3> QED  BY <3>1, ModSymbols, Zenon
  <2> QED  BY <2>1
<1>3. PICK b \in Int : u.sto = starts[1] + b * SymbolItems
  <2>1. \E k \in Int : starts[1] % SymbolItems = starts[1] + k * SymbolItems
    <3>1. starts[1] \in Int
      BY <1>1
    <3> QED  BY <3>1, ModSymbols, Zenon
  <2> QED  BY <2>1
<1>4. PICK c \in Nat : c = NUp + 4
  BY Sizes
<1>5. PayloadStart(1) = starts[1] + c * SymbolItems + SymbolItems \div 4
  BY <1>4, Places
<1>6. /\ a * SymbolItems \in Int /\ b * SymbolItems \in Int /\ c * SymbolItems \in Int
      /\ j * SymbolItems \in Int
  BY <1>1
<1>7. PICK k \in Int : k = ((a - b) + c) + j
  OBVIOUS
<1>8. k * SymbolItems = a * SymbolItems - b * SymbolItems + c * SymbolItems + j * SymbolItems
  BY <1>1, <1>7
<1>9. PICK r \in 0 .. SymbolItems - 1 : r = starts[2] - nread
  <2>1. starts[2] - nread \in 0 .. SymbolItems - 1
    BY <1>1
  <2> QED  BY <2>1
<1>10. i.sto - u.sto - SymbolItems \div 4 = r + k * SymbolItems
  <2>1. PICK A \in Int, B \in Int, C \in Int, J \in Int :
          A = a * SymbolItems /\ B = b * SymbolItems /\ C = c * SymbolItems /\ J = j * SymbolItems
    BY <1>6
  <2>2. PICK s1 \in Nat, s2 \in Nat, q \in Nat : s1 = starts[1] /\ s2 = starts[2] /\ q = SymbolItems \div 4
    BY <1>1
  <2>3. i.sto = s2 + A /\ u.sto = s1 + B
    BY <1>2, <1>3, <2>1, <2>2
  <2>4. nread = (s1 + C + q) + J
    <3>1. PayloadStart(1) = s1 + C + q
      BY <1>5, <2>1, <2>2
    <3> QED  BY <2>1, <2>2, <3>1
  <2>5. (s2 + A) - (s1 + B) - q = r + (A - B + C + J)
    BY <1>9, <2>1, <2>2, <2>4
  <2>6. k * SymbolItems = A - B + C + J
    BY <1>8, <2>1
  <2> QED  BY <2>2, <2>3, <2>5, <2>6
<1>11. (r + k * SymbolItems) % SymbolItems = r
  BY ModUnique
<1> QED  BY <1>9, <1>10, <1>11 DEF TauBetween

\* Where a second frame finds the first.
LEMMA SecondFound ==
  ASSUME FramesTyped, SynchroTyped, OneUser, m_sync_state = "SINGLE_USER",
         GetType(user_u.cnt) = "PAYLOAD", NEW f \in TagsAhead
  PROVE  /\ f = 2 /\ user_u.frame = 1 /\ Exact(user_u) /\ m_power1 = powers[1]
         /\ user_u.cnt >= PayloadCount
         /\ starts[2] \in nread .. nread + SymbolItems - 1
         /\ TauBetween(UserOf(2, 0), user_u) = starts[2] - nread
         /\ \E k \in Nat : k < PayloadSymbols /\ nread - PayloadStart(1) = k * SymbolItems
<1>1. PICK u \in UserSet : u = user_u
  BY DEF SynchroTyped
<1>2. u.cnt \in Int /\ nread \in Nat /\ u.frame \in 1 .. 2 /\ 3 - u.frame \in 1 .. 2
  BY <1>1, MuAssumption DEF UserSet, SynchroTyped, OneUser
<1>3. f \in 1 .. 2 /\ starts[f] \in nread .. nread + SymbolItems - 1 /\ starts[f] \in Nat
  BY FrameFacts DEF TagsAhead
<1>4. u.cnt >= PayloadCount /\ u.cnt >= 2
  BY <1>1, <1>2, TypeFacts, CountFacts, Sizes
<1>5. starts[u.frame] < nread
  <2>1. nread - (starts[u.frame] + u.cnt * OS) \in -OS .. OS
    BY <1>1 DEF OneUser, CountNear, Near
  <2> QED  BY <1>2, <1>4, <2>1, HasBegun
<1>6. f # u.frame /\ starts[u.frame] \in Nat /\ starts[3 - u.frame] \in Nat
  BY <1>2, <1>3, <1>5, FrameFacts
<1>7. f = 3 - u.frame
  BY <1>2, <1>3, <1>6
<1>8. ~(starts[3 - u.frame] < nread)
  BY <1>2, <1>3, <1>7
<1>9. /\ u.frame = 1 /\ u.sto = starts[1] % SymbolItems /\ Exact(u) /\ AtSymbol(u.cnt)
      /\ m_power1 = powers[1]
  BY <1>1, <1>8 DEF OneUser
<1>10. f = 2
  BY <1>7, <1>9
<1>11. PICK k \in Nat : u.cnt = PayloadCount + k * N /\ k < PayloadSymbols
  BY <1>1, <1>2, <1>9, PayloadSymbol
<1>12. nread - PayloadStart(1) = k * SymbolItems
  <2>1. (PayloadCount + k * N) * OS = PayloadCount * OS + (k * N) * OS /\ k * N \in Nat
    BY Sizes, CountFacts
  <2>2. (k * N) * OS = k * SymbolItems /\ k * SymbolItems \in Nat
    BY Sizes
  <2>3. nread = starts[1] + (PayloadCount + k * N) * OS
    BY <1>9, <1>11 DEF Exact
  <2>4. PayloadStart(1) = starts[1] + PayloadCount * OS /\ starts[1] \in Nat /\ PayloadCount * OS \in Nat
    BY Places, FrameFacts, CountFacts, Sizes
  <2> QED  BY <2>1, <2>2, <2>3, <2>4
<1>13. UserOf(2, 0) \in UserSet /\ UserOf(2, 0).sto = starts[2] % SymbolItems
  BY UserTyped DEF UserOf
<1>14. TauBetween(UserOf(2, 0), u) = starts[2] - nread
  BY <1>2, <1>3, <1>9, <1>10, <1>12, <1>13, TauIsDistance
<1> QED  BY <1>1, <1>3, <1>4, <1>9, <1>10, <1>11, <1>12, <1>14

\* Only a frame that Refused describes is too weak.
LEMMA WeakIsRefused ==
  ASSUME FramesTyped, SynchroTyped, OneUser, IgnoreWeak
  PROVE  Refused
<1>1. PICK f \in TagsAhead : TooWeak(f)
  BY DEF IgnoreWeak
<1>2. m_sync_state = "SINGLE_USER" /\ GetType(user_u.cnt) = "PAYLOAD"
  BY DEF IgnoreWeak, SecondUser
<1>3. f = 2 /\ m_power1 = powers[1] /\ starts[2] \in nread .. nread + SymbolItems - 1
  BY <1>1, <1>2, SecondFound
<1>4. PICK k \in Nat : k < PayloadSymbols /\ nread - PayloadStart(1) = k * SymbolItems
  BY <1>1, <1>2, SecondFound
<1>5. powers[2] < powers[1] - 3
  <2>1. powers[1] # 0
    BY FrameFacts
  <2> QED  BY <1>1, <1>3, <2>1 DEF TooWeak, PowerOfFirst
<1>6. PICK d \in Nat : PayloadSymbols = k + 1 + d
  <2>1. PayloadSymbols - (k + 1) \in Nat /\ PayloadSymbols = k + 1 + (PayloadSymbols - (k + 1))
    BY <1>4, Sizes
  <2> QED  BY <2>1
<1>7. /\ (k + 1 + d) * SymbolItems = k * SymbolItems + SymbolItems + d * SymbolItems
      /\ d * SymbolItems \in Nat /\ k * SymbolItems \in Nat
  BY Sizes
<1>8. FrameEnd(1) = PayloadStart(1) + PayloadSymbols * SymbolItems
  <2>1. (PayloadSymbols + 1) - 1 = PayloadSymbols
    BY Sizes
  <2> QED  BY <2>1 DEF FrameEnd, SymbolStart
<1>9. PayloadStart(1) \in Nat /\ nread \in Nat /\ starts[2] \in Nat /\ SymbolItems \in Nat
  BY Places, FrameFacts, Sizes, MuAssumption DEF SynchroTyped
<1>10. starts[2] \in PayloadStart(1) .. FrameEnd(1) - 1
  BY <1>3, <1>4, <1>6, <1>7, <1>8, <1>9
<1> QED  BY <1>5, <1>10 DEF Refused, InPayloadOfFirst

LEMMA AcceptSecondSync ==
  ASSUME FramesTyped, SynchroTyped, SyncInv, AcceptSecond, UNCHANGED <<starts, powers>>
  PROVE  SyncInv'
<1>1. PICK f \in TagsAhead :
        LET i == UserOf(f, 0) IN
        \/ /\ m_sync_state' = "REALIGN_TO_NEW" /\ user_i' = i
        \/ /\ m_sync_state' = "MULTI_USER"
           /\ m_tau' = TauBetween(i, user_u)
           /\ user_i' = [i EXCEPT !.cnt = -Samples(m_tau')]
  BY DEF AcceptSecond
<1>2. m_sync_state = "SINGLE_USER" /\ GetType(user_u.cnt) = "PAYLOAD" /\ OneUser
  BY DEF AcceptSecond, SecondUser, SyncInv
<1>3. /\ f = 2 /\ user_u.frame = 1 /\ Exact(user_u) /\ user_u.cnt >= PayloadCount
      /\ starts[2] \in nread .. nread + SymbolItems - 1
      /\ TauBetween(UserOf(2, 0), user_u) = starts[2] - nread
  BY <1>1, <1>2, SecondFound
<1>4. PICK j \in Nat : nread - PayloadStart(1) = j * SymbolItems
  BY <1>1, <1>2, SecondFound
<1>5. /\ starts' = starts /\ user_u' = user_u /\ nread' = nread + 0 /\ nread \in Nat /\ nread' = nread
  BY MuAssumption DEF AcceptSecond, Consume, SynchroTyped
<1>6. starts[1] \in Nat /\ starts[2] \in Nat /\ SymbolItems \in Nat
  BY FrameFacts, Sizes
<1>7. CASE m_sync_state' = "REALIGN_TO_NEW" /\ user_i' = UserOf(2, 0)
  <2>1. user_i'.frame = 2 /\ user_i'.cnt = 0
    BY <1>7 DEF UserOf
  <2>2. Exact(user_u)' /\ (nread - PayloadStart(1))' = j * SymbolItems
    BY <1>3, <1>4, <1>5 DEF Exact, PayloadStart, QuarterStart
  <2>3. TauBetween(user_i, user_u)' = starts'[2] - nread'
    BY <1>3, <1>5, <1>7 DEF TauBetween
  <2>4. \E k \in Int : (nread - PayloadStart(1))' = k * SymbolItems
    BY <2>2
  <2>5. NewUserNext'
    BY <1>3, <1>5, <2>1, <2>2, <2>3, <2>4 DEF NewUserNext
  <2> QED  BY <1>7, <2>5 DEF SyncInv, OneUser, TwoUsers, OtherEnded
<1>8. CASE /\ m_sync_state' = "MULTI_USER" /\ m_tau' = starts[2] - nread
           /\ user_i' = [UserOf(2, 0) EXCEPT !.cnt = -Samples(m_tau')]
  <2>1. PICK t \in 0 .. SymbolItems - 1 : t = m_tau' /\ nread + t = starts[2]
    <3>1. starts[2] - nread \in 0 .. SymbolItems - 1 /\ nread + (starts[2] - nread) = starts[2]
      BY <1>3, <1>5, <1>6
    <3> QED  BY <1>8, <3>1
  <2>2. PICK s \in Int : s = Samples(t) /\ t - s * OS \in 0 .. OS - 1
    BY <1>6, <2>1, SamplesOf
  <2>3. user_i'.frame = 2 /\ user_i'.cnt = -s
    BY <1>8, <2>1, <2>2 DEF UserOf
  <2>4. OS \in Nat /\ OS > 0 /\ (-s) * OS = 0 - s * OS /\ s * OS \in Int /\ 0 * N = 0
        /\ 0 * SymbolItems = 0 /\ NUp \in Nat
    BY Sizes
  <2>5. CountWithin(user_i)'
    <3>1. nread - (starts[2] + (-s) * OS) = 0 - (t - s * OS)
      BY <1>5, <1>6, <2>1, <2>4
    <3>2. nread - (starts[2] + (-s) * OS) \in 1 - OS .. OS - 1
      BY <2>2, <2>4, <3>1
    <3> QED  BY <1>5, <2>3, <3>2 DEF CountWithin
  <2>6. CountNear(user_u)' /\ user_u.cnt >= 0
    <3>1. PICK c \in Int : c = user_u.cnt
      BY DEF SynchroTyped, UserSet
    <3>2. c * OS \in Int /\ nread = starts[1] + c * OS
      BY <1>3, <2>4, <3>1 DEF Exact
    <3>3. nread - (starts[1] + c * OS) \in -OS .. OS
      BY <1>5, <2>4, <3>2
    <3>4. c >= 0
      BY <1>3, <3>1, CountFacts
    <3> QED  BY <1>3, <1>5, <3>1, <3>3, <3>4 DEF CountNear, Near
  <2>7. TauToSymbol'
    <3>1. NextSymbolCount' = 0 * N
      <4>1. NextSymbolCount' = -s + s
        BY <2>1, <2>2, <2>3 DEF NextSymbolCount, Samples
      <4> QED  BY <2>4, <4>1
    <3>2. nread' + m_tau' - starts'[user_i'.frame] = 0 * SymbolItems
      BY <1>5, <1>6, <2>1, <2>3, <2>4
    <3>3. 0 \in 0 .. NUp + 4 /\ 0 \in Int
      BY <2>4
    <3>4. (user_u.cnt >= PayloadCount)'
      BY <1>3, <1>5 DEF PayloadCount
    <3> QED  BY <3>1, <3>2, <3>3, <3>4 DEF TauToSymbol
  <2>8. TwoUsers'
    <3>1. user_u'.frame = 1 /\ user_i'.frame = 3 - user_u'.frame /\ m_tau' < SymbolItems
      BY <1>3, <1>5, <1>6, <2>1, <2>3
    <3> QED  BY <1>5, <2>5, <2>6, <2>7, <3>1 DEF TwoUsers
  <2> QED  BY <1>8, <2>8 DEF SyncInv, OneUser, NewUserNext, OtherEnded
<1> QED  BY <1>1, <1>3, <1>7, <1>8

----------------------------------------------------------------------------
(***************************************************************************)
(* Two users.                                                              *)
(***************************************************************************)

LEMMA RealignToNewSync ==
  ASSUME FramesTyped, SynchroTyped, SyncInv, RealignToNew, UNCHANGED <<starts, powers>>
  PROVE  SyncInv'
<1>1. m_sync_state = "REALIGN_TO_NEW" /\ m_sync_state' = "MULTI_USER" /\ NewUserNext /\ starts' = starts
  BY DEF RealignToNew, SyncInv
<1>2. PICK c \in Int : c = user_u.cnt /\ c >= PayloadCount
  BY <1>1 DEF NewUserNext, SynchroTyped, UserSet
<1>3. nread \in Nat /\ starts[1] \in Nat /\ starts[2] \in Nat /\ SymbolItems \in Nat
  BY FrameFacts, Sizes, MuAssumption DEF SynchroTyped
<1>4. PICK d \in 0 .. SymbolItems - 1 : d = TauBetween(user_i, user_u) /\ nread + d = starts[2]
  <2>1. starts[2] - nread \in 0 .. SymbolItems - 1 /\ nread + (starts[2] - nread) = starts[2]
    BY <1>1, <1>3 DEF NewUserNext
  <2> QED  BY <1>1, <2>1 DEF NewUserNext
<1>5. PICK s \in Nat : s = Samples(d) /\ d - s * OS \in 0 .. OS - 1
  <2>1. d \in Int /\ d \in 0 .. SymbolItems
    BY <1>3, <1>4
  <2>2. Samples(d) \in Nat /\ d - Samples(d) * OS \in 0 .. OS - 1
    BY <2>1, SamplesOf, SamplesWithin, Sizes
  <2> QED  BY <2>2
<1>6. PICK t \in 0 .. SymbolItems - 1, k \in Int : t = m_tau' /\ t = (SymbolItems - d) + k * SymbolItems
  <2>1. m_tau' = (SymbolItems - d) % SymbolItems
    BY <1>4 DEF RealignToNew
  <2>2. PICK x \in Int : x = SymbolItems - d
    BY <1>3, <1>4
  <2>3. x % SymbolItems \in 0 .. SymbolItems - 1 /\ \E k \in Int : x % SymbolItems = x + k * SymbolItems
    BY <2>2, ModSymbols
  <2> QED  BY <2>1, <2>2, <2>3
<1>7. /\ user_u' = user_i /\ nread' = nread + d
      /\ user_i'.cnt = c + s /\ user_i'.frame = user_u.frame
  BY <1>2, <1>4, <1>5 DEF RealignToNew, Consume, SynchroTyped, UserSet
<1>8. user_u'.frame = 2 /\ user_u'.cnt = 0 /\ user_i'.frame = 1 /\ Exact(user_u)
  BY <1>1, <1>7 DEF NewUserNext
<1>9. PICK j \in Int : nread - PayloadStart(1) = j * SymbolItems
  BY <1>1 DEF NewUserNext
<1>10. OS \in Nat /\ OS > 0 /\ 0 * OS = 0 /\ (c + s) * OS = c * OS + s * OS /\ c * OS \in Int
       /\ s * OS \in Nat
  BY Sizes
<1>11. CountNear(user_u)'
  <2>1. nread' - (starts'[user_u'.frame] + user_u'.cnt * OS) = 0
    BY <1>1, <1>3, <1>4, <1>7, <1>8, <1>10
  <2> QED  BY <1>10, <2>1 DEF CountNear, Near
<1>12. CountWithin(user_i)'
  <2>1. nread = starts[1] + c * OS
    BY <1>1, <1>2, <1>8 DEF NewUserNext, Exact
  <2>2. PICK n \in Nat, y \in Nat : n = nread /\ y = starts[1]
    BY <1>3
  <2>3. (n + d) - (y + (c + s) * OS) = d - s * OS
    BY <1>3, <1>10, <2>1, <2>2
  <2>4. d - s * OS \in 1 - OS .. OS - 1
    BY <1>3, <1>5, <1>10
  <2>5. starts'[user_i'.frame] = y /\ user_i'.cnt = c + s /\ nread' = n + d
    BY <1>1, <1>7, <1>8, <2>2
  <2> QED  BY <2>3, <2>4, <2>5 DEF CountWithin
<1>13. TauToSymbol'
  <2>1. NextSymbolCount' >= PayloadCount'
    <3>1. t \in 0 .. SymbolItems
      BY <1>3, <1>6
    <3>2. Samples(t) \in Nat
      BY <3>1, SamplesWithin, Sizes
    <3>3. NextSymbolCount' = (c + s) + Samples(t)
      BY <1>6, <1>7 DEF NextSymbolCount, Samples
    <3>4. PayloadCount' = PayloadCount /\ PayloadCount \in Nat
      BY CountFacts DEF PayloadCount
    <3> QED  BY <1>2, <3>2, <3>3, <3>4
  <2>2. PayloadStart(1)' = PayloadStart(1) /\ PayloadStart(1) \in Nat
    BY <1>1, Places DEF PayloadStart, QuarterStart
  <2>3. (j + 1 + k) * SymbolItems = j * SymbolItems + SymbolItems + k * SymbolItems
        /\ j * SymbolItems \in Int /\ k * SymbolItems \in Int /\ j + 1 + k \in Int
    BY Sizes
  <2>4. (nread + d) + t - PayloadStart(1) = (j + 1 + k) * SymbolItems
    BY <1>3, <1>6, <1>9, <2>2, <2>3
  <2>5. nread' + m_tau' - PayloadStart(1)' = (j + 1 + k) * SymbolItems
    BY <1>6, <1>7, <2>2, <2>4
  <2> QED  BY <1>8, <2>1, <2>3, <2>5 DEF TauToSymbol, PayloadStart, QuarterStart
<1>14. TwoUsers'
  <2>1. user_i'.frame = 3 - user_u'.frame /\ user_u'.cnt >= 0 /\ m_tau' < SymbolItems
    BY <1>3, <1>6, <1>8
  <2> QED  BY <1>8, <1>11, <1>12, <1>13, <2>1 DEF TwoUsers
<1> QED  BY <1>1, <1>14 DEF SyncInv, OneUser, NewUserNext, OtherEnded

\* A whole number of samples that differs by less than two is none or one.
LEMMA OneSample ==
  ASSUME NEW y \in Int, y * OS >= 1 - OS, y * OS <= (OS + OS) - 2
  PROVE  y * OS \in -OS .. OS
<1>1. OS \in Nat /\ OS > 0
  BY Sizes
<1>2. CASE y \in {0, 1}
  BY <1>1, <1>2
<1>3. CASE y >= 2
  <2>1. PICK e \in Nat : y = e + 2
    <3>1. y - 2 \in Nat /\ y = (y - 2) + 2
      BY <1>3
    <3> QED  BY <3>1
  <2>2. (e + 2) * OS = e * OS + (OS + OS) /\ e * OS \in Nat
    BY <1>1
  <2> QED  BY <1>1, <2>1, <2>2
<1>4. CASE y <= -1
  <2>1. PICK e \in Nat : y = (0 - e) - 1
    <3>1. (0 - y) - 1 \in Nat /\ y = (0 - ((0 - y) - 1)) - 1
      BY <1>4
    <3> QED  BY <3>1
  <2>2. ((0 - e) - 1) * OS = (0 - (e * OS)) - OS /\ e * OS \in Nat
    BY <1>1
  <2> QED  BY <1>1, <2>1, <2>2
<1> QED  BY <1>2, <1>3, <1>4

LEMMA RealignToPrevSync ==
  ASSUME FramesTyped, SynchroTyped, SyncInv, RealignToPrev, UNCHANGED <<starts, powers>>
  PROVE  SyncInv'
<1>1. /\ m_sync_state = "REALIGN_TO_PREV" /\ m_sync_state' = "SINGLE_USER" /\ TwoUsers /\ OtherEnded
      /\ starts' = starts
  BY DEF RealignToPrev, SyncInv
<1>2. PICK c \in Int, f \in 1 .. 2, t \in 0 .. SymbolItems :
        c = user_i.cnt /\ f = user_i.frame /\ t = m_tau
  <2>1. user_i.cnt \in Int /\ m_tau \in 0 .. SymbolItems
    BY DEF SynchroTyped, UserSet
  <2>2. user_i.frame \in 1 .. 2
    BY <1>1 DEF TwoUsers
  <2> QED  BY <2>1, <2>2
<1>3. nread \in Nat /\ starts[f] \in Nat /\ SymbolItems \in Nat /\ user_u.frame \in 1 .. 2
      /\ f = 3 - user_u.frame /\ starts[user_u.frame] \in Nat
  BY <1>1, <1>2, FrameFacts, Sizes, MuAssumption, SMTT(60) DEF SynchroTyped, TwoUsers
<1>4. PICK s \in Int : s = Samples(t) /\ t - s * OS \in 0 .. OS - 1
  <2>1. t \in Int
    BY <1>2, <1>3
  <2>2. Samples(t) \in Int /\ t - Samples(t) * OS \in 0 .. OS - 1
    BY <2>1, SamplesOf, Zenon
  <2> QED  BY <2>2
<1>5. user_u'.cnt = c + s /\ user_u'.frame = f /\ nread' = nread + t
  BY <1>2, <1>4 DEF RealignToPrev, Consume, SynchroTyped, UserSet
<1>6. PICK x \in Int : nread + t - starts[f] = x * OS
  <2>1. CASE \E k \in Int : nread + m_tau - starts[f] = k * SymbolItems
    <3>1. PICK k \in Int : nread + t - starts[f] = k * SymbolItems
      BY <1>2, <2>1
    <3>2. k * SymbolItems = (k * N) * OS /\ k * N \in Int
      BY Sizes
    <3> QED  BY <3>1, <3>2
  <2>2. CASE \E k \in Int : nread + m_tau - PayloadStart(f) = k * SymbolItems
    <3>1. PICK k \in Int : nread + t - PayloadStart(f) = k * SymbolItems
      BY <1>2, <2>2
    <3>2. k * SymbolItems = (k * N) * OS /\ k * N \in Int
      BY Sizes
    <3>3. PICK m \in Nat : m = PayloadCount
      BY CountFacts
    <3>4. (m + k * N) * OS = m * OS + (k * N) * OS /\ m + k * N \in Int /\ m * OS \in Nat
          /\ (k * N) * OS \in Int
      BY <3>2, Sizes
    <3>5. PayloadStart(f) = starts[f] + m * OS
      BY <3>3, Places
    <3>6. nread + t - starts[f] = (m + k * N) * OS
      BY <1>2, <1>3, <3>1, <3>2, <3>4, <3>5
    <3> QED  BY <3>4, <3>6
  <2> QED  BY <1>1, <1>2, <2>1, <2>2 DEF TwoUsers, TauToSymbol
<1>7. CountNear(user_u)'
  <2>1. OS \in Nat /\ OS > 0 /\ c * OS \in Int /\ s * OS \in Int /\ x * OS \in Int
        /\ (c + s) * OS = c * OS + s * OS /\ x - (c + s) \in Int
        /\ (x - (c + s)) * OS = x * OS - (c + s) * OS
    BY Sizes
  <2>2. nread - (starts[f] + c * OS) \in 1 - OS .. OS - 1
    BY <1>1, <1>2 DEF TwoUsers, CountWithin
  <2>3. PICK y \in Int : y = x - (c + s)
    BY <2>1
  <2>4. y * OS = (nread - (starts[f] + c * OS)) + (t - s * OS)
    BY <1>2, <1>3, <1>6, <2>1, <2>3
  <2>5. y * OS >= 1 - OS /\ y * OS <= (OS + OS) - 2
    BY <1>2, <1>3, <1>4, <2>1, <2>2, <2>4
  <2>6. y * OS \in -OS .. OS
    BY <2>5, OneSample
  <2>7. (nread + t) - (starts[f] + (c + s) * OS) = y * OS
    BY <1>2, <1>3, <2>1, <2>4
  <2> QED  BY <1>1, <1>5, <2>6, <2>7 DEF CountNear, Near
<1>8. starts'[3 - user_u'.frame] < nread'
  <2>1. starts[user_u.frame] < nread /\ 3 - f = user_u.frame
    BY <1>1, <1>3 DEF OtherEnded
  <2> QED  BY <1>1, <1>2, <1>3, <1>5, <2>1
<1>9. OneUser'
  BY <1>2, <1>5, <1>7, <1>8 DEF OneUser
<1> QED  BY <1>1, <1>9 DEF SyncInv, NewUserNext, TwoUsers, OtherEnded

LEMMA UserEndsSync ==
  ASSUME FramesTyped, SynchroTyped, SyncInv, UserEnds, UNCHANGED <<starts, powers>>
  PROVE  SyncInv'
<1>1. m_sync_state = "MULTI_USER" /\ TwoUsers
  BY DEF UserEnds, SyncInv
<1>2. /\ starts' = starts /\ user_u' = user_u /\ user_i' = user_i /\ m_tau' = m_tau
      /\ nread' = nread /\ nread \in Nat
  BY MuAssumption DEF UserEnds, Consume, SynchroTyped
<1>3. user_u.cnt \in Int /\ user_i.cnt \in Int /\ user_u.frame \in 1 .. 2 /\ user_i.frame \in 1 .. 2
      /\ user_i.frame = 3 - user_u.frame
  BY <1>1 DEF TwoUsers, SynchroTyped, UserSet
<1>4. PayloadCount >= 2
  BY CountFacts, Sizes
<1>5. CASE SynchronisedEnds /\ m_sync_state' = "REALIGN_TO_PREV"
  <2>1. user_u.cnt >= PayloadCount /\ PayloadCount \in Nat
    BY <1>1, <1>3, <1>5, TypeFacts, CountFacts DEF SynchronisedEnds, TwoUsers
  <2>2. user_u.cnt >= 2
    BY <1>3, <1>4, <2>1
  <2>3. starts[user_u.frame] < nread
    <3>1. nread - (starts[user_u.frame] + user_u.cnt * OS) \in -OS .. OS
      BY <1>1 DEF TwoUsers, CountNear, Near
    <3> QED  BY <1>2, <1>3, <2>2, <3>1, HasBegun
  <2>4. TwoUsers' /\ OtherEnded'
    BY <1>1, <1>2, <1>5, <2>3
    DEF TwoUsers, OtherEnded, TauToSymbol, CountNear, CountWithin, NextSymbolCount, Samples,
        PayloadStart, QuarterStart, PayloadCount, Near
  <2> QED  BY <1>5, <2>4 DEF SyncInv, OneUser, NewUserNext
<1>6. CASE InterfererEnds /\ m_sync_state' = "SINGLE_USER"
  <2>1. user_i.cnt >= PayloadCount /\ PayloadCount \in Nat
    BY <1>3, <1>6, TypeFacts, CountFacts DEF InterfererEnds
  <2>2. user_i.cnt >= 2
    BY <1>3, <1>4, <2>1
  <2>3. starts[user_i.frame] < nread
    <3>1. nread - (starts[user_i.frame] + user_i.cnt * OS) \in -OS .. OS
      <4>1. nread - (starts[user_i.frame] + user_i.cnt * OS) \in 1 - OS .. OS - 1
        BY <1>1 DEF TwoUsers, CountWithin
      <4> QED  BY <4>1, Sizes
    <3> QED  BY <1>2, <1>3, <2>2, <3>1, HasBegun
  <2>4. OneUser'
    BY <1>1, <1>2, <1>3, <2>3 DEF OneUser, TwoUsers, CountNear, Near
  <2> QED  BY <1>6, <2>4 DEF SyncInv, TwoUsers, NewUserNext, OtherEnded
<1> QED  BY <1>5, <1>6 DEF UserEnds

\* A window of whole samples leaves both users as near to their counts as they were.
LEMMA WindowOfBoth ==
  ASSUME FramesTyped, SynchroTyped, TwoUsers, m_sync_state = "MULTI_USER",
         UNCHANGED <<starts, powers>>,
         NEW len \in Nat, NEW Ti1, NEW tau, Both(len, Ti1, tau)
  PROVE  /\ user_u'.frame = user_u.frame /\ user_i'.frame = user_i.frame
         /\ user_u'.cnt = user_u.cnt + len /\ user_i'.cnt = user_i.cnt + len
         /\ nread' = nread + len * OS
         /\ CountNear(user_u)' /\ CountWithin(user_i)'
<1>1. /\ user_u \in [cnt : Int, power : Nat, sto : Nat, frame : 0 .. 2]
      /\ user_i \in [cnt : Int, power : Nat, sto : Nat, frame : 0 .. 2]
      /\ user_u' = [user_u EXCEPT !.cnt = @ + len] /\ user_i' = [user_i EXCEPT !.cnt = @ + len]
      /\ nread' = nread + len * OS /\ starts' = starts
  BY DEF Both, Consume, SynchroTyped, UserSet
<1>2. /\ user_u'.frame = user_u.frame /\ user_i'.frame = user_i.frame
      /\ user_u'.cnt = user_u.cnt + len /\ user_i'.cnt = user_i.cnt + len
  BY <1>1
<1>3. PICK a \in Int, b \in Int, x \in Nat, y \in Nat, n \in Nat :
        a = user_u.cnt /\ b = user_i.cnt /\ x = starts[user_u.frame] /\ y = starts[user_i.frame] /\ n = nread
  <2>1. user_u.frame \in 1 .. 2 /\ user_i.frame \in 1 .. 2 /\ nread \in Nat
    BY MuAssumption DEF TwoUsers, SynchroTyped
  <2> QED  BY <1>1, <2>1, FrameFacts
<1>4. /\ (a + len) * OS = a * OS + len * OS /\ (b + len) * OS = b * OS + len * OS
      /\ a * OS \in Int /\ b * OS \in Int /\ len * OS \in Nat
  BY Sizes
<1>5. CountNear(user_u)'
  <2>1. n - (x + a * OS) \in -OS .. OS
    BY <1>3 DEF TwoUsers, CountNear, Near
  <2>2. (n + len * OS) - (x + (a + len) * OS) = n - (x + a * OS)
    BY <1>4
  <2>3. nread' = n + len * OS /\ starts'[user_u'.frame] = x /\ user_u'.cnt = a + len
    BY <1>1, <1>2, <1>3
  <2> QED  BY <2>1, <2>2, <2>3 DEF CountNear, Near
<1>6. CountWithin(user_i)'
  <2>1. n - (y + b * OS) \in 1 - OS .. OS - 1
    BY <1>3 DEF TwoUsers, CountWithin
  <2>2. (n + len * OS) - (y + (b + len) * OS) = n - (y + b * OS)
    BY <1>4
  <2>3. nread' = n + len * OS /\ starts'[user_i'.frame] = y /\ user_i'.cnt = b + len
    BY <1>1, <1>2, <1>3
  <2> QED  BY <2>1, <2>2, <2>3 DEF CountWithin
<1> QED  BY <1>1, <1>2, <1>5, <1>6

\* m_tau reduced modulo a symbol, after it has been shifted by a quarter of one.
LEMMA TauShifted ==
  ASSUME NEW t \in 0 .. SymbolItems, NEW d \in Int
  PROVE  \E v \in 0 .. SymbolItems - 1, k \in Int :
           /\ v = (t + d * ((N \div 4) * OS)) % SymbolItems
           /\ v = t + d * ((N \div 4) * OS) + k * SymbolItems
           /\ Samples(v) = Samples(t) + d * (N \div 4) + k * N
           /\ Samples(v) \in Nat /\ Samples(t) \in Nat
<1>1. /\ N \in Nat /\ OS \in Nat /\ N \div 4 \in Nat /\ SymbolItems \in Nat /\ SymbolItems = N * OS
      /\ (N \div 4) * OS \in Nat
  BY Sizes
<1>2. PICK q \in Nat : q = N \div 4
  BY <1>1
<1>3. t \in Int /\ d * (q * OS) = (d * q) * OS /\ d * q \in Int /\ (d * q) * OS \in Int
  BY <1>1
<1>4. PICK x \in Int : x = t + d * (q * OS)
  BY <1>3
<1>5. PICK v \in 0 .. SymbolItems - 1, k \in Int : v = x % SymbolItems /\ v = x + k * SymbolItems
  BY <1>4, ModSymbols
<1>6. PICK y \in Int : y = d * q + k * N
  BY <1>1, <1>3
<1>7. y * OS = (d * q) * OS + k * SymbolItems /\ k * SymbolItems \in Int
  <2>1. (d * q + k * N) * OS = (d * q) * OS + (k * N) * OS /\ k * N \in Int
    BY <1>1, <1>3
  <2>2. (k * N) * OS = k * SymbolItems /\ k * SymbolItems \in Int
    BY <1>1
  <2> QED  BY <1>6, <2>1, <2>2
<1>8. v = t + y * OS
  BY <1>3, <1>4, <1>5, <1>7
<1>9. Samples(t + y * OS) = Samples(t) + y /\ Samples(t) \in Int
  BY <1>3, SamplesOf
<1>10. Samples(v) \in Nat /\ Samples(t) \in Nat
  <2>1. v \in 0 .. SymbolItems
    BY <1>1, <1>5
  <2> QED  BY <1>1, <2>1, SamplesWithin
<1>11. Samples(v) = Samples(t) + d * q + k * N
  BY <1>1, <1>3, <1>6, <1>8, <1>9
<1> QED  BY <1>2, <1>4, <1>5, <1>10, <1>11

\* The next symbol of the interferer after a window of both, whichever of the
\* three it is.
LEMMA TauAfterWindow ==
  ASSUME FramesTyped, SynchroTyped, TwoUsers, MultiWindow, UNCHANGED <<starts, powers>>
  PROVE  TauToSymbol' /\ m_tau' < SymbolItems
<1>1. m_sync_state = "MULTI_USER"
  BY DEF MultiWindow
<1>2. PICK c \in Int, i \in 1 .. 2, t \in 0 .. SymbolItems - 1, n \in Nat, a \in Nat, s1 \in Nat :
        /\ c = user_i.cnt /\ i = user_i.frame /\ t = m_tau /\ n = nread /\ a = user_u.cnt
        /\ s1 = starts[i]
  <2>1. user_i.frame \in 1 .. 2 /\ m_tau \in 0 .. SymbolItems - 1 /\ user_u.cnt \in Nat
    BY <1>1, Sizes DEF TwoUsers, SynchroTyped, UserSet
  <2>2. user_i.cnt \in Int /\ nread \in Nat
    BY MuAssumption DEF SynchroTyped, UserSet
  <2>3. starts[user_i.frame] \in Nat
    BY <2>1, FrameFacts
  <2> QED  BY <2>1, <2>2, <2>3
<1>3. /\ N \in Nat /\ N > 0 /\ OS \in Nat /\ SymbolItems \in Nat /\ NUp \in Nat /\ N * OS = SymbolItems
      /\ SymbolItems \div 4 = (N \div 4) * OS
  BY Sizes
<1>4. PICK q \in Nat, Q \in Nat : q = N \div 4 /\ q > 0 /\ Q = q * OS /\ SymbolItems = 4 * Q /\ N = 4 * q
  BY Sizes
<1>5. PICK m \in Nat, p \in Nat, M \in Nat :
        m = (NUp + 4) * N /\ p = PayloadCount /\ p = m + q /\ M = (NUp + 4) * SymbolItems
  BY <1>4, CountFacts
<1>6. PICK x \in Nat : x = Samples(t)
  <2>1. t \in 0 .. SymbolItems
    BY <1>3
  <2> QED  BY <1>3, <2>1, SamplesWithin
<1>7. PayloadStart(i) = s1 + M + Q
  BY <1>2, <1>3, <1>4, <1>5, Places
<1>8. \/ /\ \E k \in 0 .. NUp + 4 : c + x = k * N
         /\ \E k \in Int : n + t - s1 = k * SymbolItems
         /\ a >= p
      \/ /\ c + x >= p
         /\ \E k \in Int : n + t - (s1 + M + Q) = k * SymbolItems
  BY <1>1, <1>2, <1>5, <1>6, <1>7 DEF TwoUsers, TauToSymbol, NextSymbolCount
<1>9. /\ PayloadStart(i)' = s1 + M + Q /\ PayloadCount' = p /\ starts'[i] = s1
  BY <1>2, <1>5, <1>7 DEF PayloadStart, QuarterStart, PayloadCount
<1>10. /\ GetType(a) = "QUARTER_DOWN" <=> a >= m /\ a < p
       /\ GetType(c + x) = "QUARTER_DOWN" <=> c + x >= m /\ c + x < p
  BY <1>5, TypeFacts
<1>11. GetType(user_i.cnt + Samples(m_tau)) = GetType(c + x)
  BY <1>2, <1>6
\* What TauToSymbol' says, of numbers.
<1>12. ASSUME NEW len \in Nat, NEW v \in 0 .. SymbolItems - 1,
              NEW L \in Nat, L = len * OS,
              user_i'.cnt = c + len, user_i'.frame = i, nread' = n + L, m_tau' = v,
              user_u'.cnt = a + len,
              \/ /\ \E k \in 0 .. NUp + 4 : (c + len) + Samples(v) = k * N
                 /\ \E k \in Int : (n + L) + v - s1 = k * SymbolItems
                 /\ a >= p
              \/ /\ (c + len) + Samples(v) >= p
                 /\ \E k \in Int : (n + L) + v - (s1 + M + Q) = k * SymbolItems
       PROVE  TauToSymbol' /\ m_tau' < SymbolItems
  <2>1. NextSymbolCount' = (c + len) + Samples(v)
    BY <1>12 DEF NextSymbolCount, Samples
  <2>2. a >= p => a + len >= p
    OBVIOUS
  <2>3. /\ (nread + m_tau - starts[user_i.frame])' = (n + L) + v - s1
        /\ (nread + m_tau - PayloadStart(user_i.frame))' = (n + L) + v - (s1 + M + Q)
    <3>1. starts'[user_i'.frame] = s1
      BY <1>9, <1>12
    <3>2. PayloadStart(user_i.frame)' = s1 + M + Q
      BY <1>3, <1>4, <1>5, <3>1 DEF PayloadStart, QuarterStart
    <3> QED  BY <1>12, <3>1, <3>2
  <2>4. m_tau' < SymbolItems
    BY <1>3, <1>12
  <2>5. TauToSymbol'
    <3>1. CASE /\ \E k \in 0 .. NUp + 4 : (c + len) + Samples(v) = k * N
               /\ \E k \in Int : (n + L) + v - s1 = k * SymbolItems
               /\ a >= p
      BY <1>9, <1>12, <2>1, <2>2, <2>3, <3>1 DEF TauToSymbol
    <3>2. CASE /\ (c + len) + Samples(v) >= p
               /\ \E k \in Int : (n + L) + v - (s1 + M + Q) = k * SymbolItems
      BY <1>9, <1>12, <2>1, <2>3, <3>2 DEF TauToSymbol
    <3> QED  BY <1>12, <3>1, <3>2
  <2> QED  BY <2>4, <2>5
<1>13. \A k \in Int : k * SymbolItems \in Int /\ (k + 1) * SymbolItems = k * SymbolItems + SymbolItems
  BY <1>3
\* The quarter downchirp of the synchronised user.
<1>14. CASE \E Ti1 : /\ a >= m /\ a < p
                     /\ Both(q, Ti1, m_tau) /\ m_tau' = (t - Q) % SymbolItems
  <2>0. PICK d \in Int : d = -1
    OBVIOUS
  <2>1. PICK Ti1 : Both(q, Ti1, m_tau)
    BY <1>14
  <2>2. PICK v \in 0 .. SymbolItems - 1, k \in Int :
          /\ v = (t + d * Q) % SymbolItems
          /\ v = t + d * Q + k * SymbolItems
          /\ Samples(v) = x + d * q + k * N /\ Samples(v) \in Nat
    <3>1. t \in 0 .. SymbolItems
      BY <1>3
    <3>2. \E v \in 0 .. SymbolItems - 1, k \in Int :
            /\ v = (t + d * ((N \div 4) * OS)) % SymbolItems
            /\ v = t + d * ((N \div 4) * OS) + k * SymbolItems
            /\ Samples(v) = Samples(t) + d * (N \div 4) + k * N
            /\ Samples(v) \in Nat /\ Samples(t) \in Nat
      BY <3>1, TauShifted, Zenon
    <3>3. (N \div 4) * OS = Q /\ N \div 4 = q /\ Samples(t) = x
      BY <1>4, <1>6
    <3> QED  BY <3>2, <3>3, Zenon
  <2>3. t + d * Q = t - Q /\ d * q = -q
    BY <1>4, <2>0
  <2>4. k >= 0
    <3>1. SUFFICES ASSUME k <= -1 PROVE FALSE
      OBVIOUS
    <3>2. PICK e \in Nat : k = (0 - e) - 1
      <4>1. (0 - k) - 1 \in Nat /\ k = (0 - ((0 - k) - 1)) - 1
        BY <3>1
      <4> QED  BY <4>1
    <3>3. ((0 - e) - 1) * SymbolItems = (0 - (e * SymbolItems)) - SymbolItems /\ e * SymbolItems \in Nat
      BY <1>3
    <3> QED  BY <1>3, <1>4, <2>2, <2>3, <3>2, <3>3
  <2>5. k * N >= 0 /\ k * N \in Int
    BY <1>3, <2>4
  <2>6. c + x >= p /\ \E j \in Int : n + t - (s1 + M + Q) = j * SymbolItems
    BY <1>5, <1>8, <1>14
  <2>7. (c + q) + Samples(v) >= p
    BY <1>4, <2>2, <2>3, <2>5, <2>6
  <2>8. \E j \in Int : (n + Q) + v - (s1 + M + Q) = j * SymbolItems
    <3>1. PICK j \in Int : n + t - (s1 + M + Q) = j * SymbolItems
      BY <2>6
    <3>2. (j + k) * SymbolItems = j * SymbolItems + k * SymbolItems /\ j + k \in Int
          /\ j * SymbolItems \in Int /\ k * SymbolItems \in Int
      BY <1>3
    <3>3. (n + Q) + v - (s1 + M + Q) = (j + k) * SymbolItems
      BY <1>3, <1>4, <2>2, <2>3, <3>1, <3>2
    <3> QED  BY <3>2, <3>3
  <2>9. /\ user_i'.cnt = c + q /\ user_i'.frame = i /\ nread' = n + Q /\ user_u'.cnt = a + q
    BY <1>1, <1>2, <1>4, <2>1, WindowOfBoth
  <2>10. m_tau' = v
    BY <1>14, <2>2, <2>3
  <2> QED  BY <1>4, <1>12, <2>7, <2>8, <2>9, <2>10
\* The quarter downchirp of the interferer.
<1>15. CASE \E Ti1, tau : /\ ~(a >= m /\ a < p) /\ c + x >= m /\ c + x < p
                          /\ Both(N, Ti1, tau) /\ m_tau' = (t + Q) % SymbolItems
  <2>1. PICK Ti1, tau : Both(N, Ti1, tau)
    BY <1>15
  <2>2. PICK v \in 0 .. SymbolItems - 1, k \in Int :
          /\ v = (t + 1 * Q) % SymbolItems
          /\ v = t + 1 * Q + k * SymbolItems
          /\ Samples(v) = x + 1 * q + k * N /\ Samples(v) \in Nat
    <3>1. t \in 0 .. SymbolItems /\ 1 \in Int
      BY <1>3
    <3> QED  BY <1>4, <1>6, <3>1, TauShifted
  <2>3. t + 1 * Q = t + Q /\ 1 * q = q
    BY <1>4
  <2>4. k >= -1
    <3>1. SUFFICES ASSUME k <= -2 PROVE FALSE
      OBVIOUS
    <3>2. PICK e \in Nat : k = (0 - e) - 2
      <4>1. (0 - k) - 2 \in Nat /\ k = (0 - ((0 - k) - 2)) - 2
        BY <3>1
      <4> QED  BY <4>1
    <3>3. ((0 - e) - 2) * SymbolItems = (0 - (e * SymbolItems)) - (SymbolItems + SymbolItems)
          /\ e * SymbolItems \in Nat
      BY <1>3
    <3> QED  BY <1>3, <1>4, <2>2, <2>3, <3>2, <3>3
  <2>5. (k + 1) * N >= 0 /\ (k + 1) * N = k * N + N /\ k * N \in Int
    <3>1. PICK d \in Nat : d = k + 1
      BY <2>4
    <3>2. d * N \in Nat /\ (k + 1) * N = k * N + N /\ k * N \in Int
      BY <1>3
    <3> QED  BY <3>1, <3>2
  <2>6. \E j \in Int : n + t - s1 = j * SymbolItems
    BY <1>5, <1>8, <1>15
  <2>7. (c + N) + Samples(v) >= p
    BY <1>4, <1>5, <1>15, <2>2, <2>3, <2>5
  <2>8. \E j \in Int : (n + SymbolItems) + v - (s1 + M + Q) = j * SymbolItems
    <3>1. PICK j \in Int : n + t - s1 = j * SymbolItems
      BY <2>6
    <3>2. PICK b \in Int : b = (j + 1 + k) - (NUp + 4)
      BY <1>3
    <3>3. b * SymbolItems = j * SymbolItems + SymbolItems + k * SymbolItems - M
          /\ j * SymbolItems \in Int /\ k * SymbolItems \in Int
      BY <1>3, <1>5, <3>2
    <3>4. (n + SymbolItems) + v - (s1 + M + Q) = b * SymbolItems
      BY <1>3, <1>4, <1>5, <2>2, <2>3, <3>1, <3>3
    <3> QED  BY <3>4
  <2>9. /\ user_i'.cnt = c + N /\ user_i'.frame = i /\ nread' = n + SymbolItems /\ user_u'.cnt = a + N
    BY <1>1, <1>2, <1>3, <2>1, WindowOfBoth
  <2>10. m_tau' = v
    BY <1>15, <2>2, <2>3
  <2> QED  BY <1>3, <1>12, <2>7, <2>8, <2>9, <2>10
\* A whole symbol of the synchronised user.
<1>16. CASE \E Ti1, tau : /\ ~(a >= m /\ a < p) /\ ~(c + x >= m /\ c + x < p)
                          /\ Both(N, Ti1, tau) /\ m_tau' = t
  <2>1. PICK Ti1, tau : Both(N, Ti1, tau)
    BY <1>16
  <2>2. /\ user_i'.cnt = c + N /\ user_i'.frame = i /\ nread' = n + SymbolItems /\ user_u'.cnt = a + N
    BY <1>1, <1>2, <1>3, <2>1, WindowOfBoth
  <2>3. \A z \in Int : (n + t) - z \in Int /\ (n + SymbolItems) + t - z = ((n + t) - z) + SymbolItems
    BY <1>3
  <2>4. CASE /\ \E k \in 0 .. NUp + 4 : c + x = k * N
             /\ \E k \in Int : n + t - s1 = k * SymbolItems
             /\ a >= p
    <3>1. PICK k \in 0 .. NUp + 4 : c + x = k * N
      BY <2>4
    <3>2. k # NUp + 4
      BY <1>4, <1>5, <1>16, <3>1
    <3>3. k + 1 \in 0 .. NUp + 4 /\ (k + 1) * N = k * N + N /\ k * N \in Int
      BY <1>3, <3>2
    <3>4. (c + N) + Samples(t) = (k + 1) * N
      BY <1>3, <1>6, <3>1, <3>3
    <3>5. PICK j \in Int : n + t - s1 = j * SymbolItems
      BY <2>4
    <3>6. (n + SymbolItems) + t - s1 = (j + 1) * SymbolItems
      BY <1>3, <1>13, <2>3, <3>5
    <3>7. j + 1 \in Int
      OBVIOUS
    <3> QED  BY <1>3, <1>12, <1>16, <2>2, <2>4, <3>3, <3>4, <3>6, <3>7, ZenonT(60)
  <2>5. CASE /\ c + x >= p
             /\ \E k \in Int : n + t - (s1 + M + Q) = k * SymbolItems
    <3>1. (c + N) + Samples(t) >= p
      BY <1>3, <1>6, <2>5
    <3>2. PICK j \in Int : n + t - (s1 + M + Q) = j * SymbolItems
      BY <2>5
    <3>3. (n + SymbolItems) + t - (s1 + M + Q) = (j + 1) * SymbolItems
      BY <1>3, <1>13, <2>3, <3>2
    <3>4. j + 1 \in Int
      OBVIOUS
    <3> QED  BY <1>3, <1>12, <1>16, <2>2, <3>1, <3>3, <3>4
  <2> QED  BY <1>8, <2>4, <2>5
<1>17. \/ \E Ti1 : /\ GetType(user_u.cnt) = "QUARTER_DOWN"
                   /\ Both(N \div 4, Ti1, m_tau) /\ m_tau' = (m_tau - SymbolItems \div 4) % SymbolItems
       \/ \E Ti1, tau : /\ GetType(user_u.cnt) # "QUARTER_DOWN"
                        /\ GetType(user_i.cnt + Samples(m_tau)) = "QUARTER_DOWN"
                        /\ Both(N, Ti1, tau) /\ m_tau' = (m_tau + SymbolItems \div 4) % SymbolItems
       \/ \E Ti1, tau : /\ GetType(user_u.cnt) # "QUARTER_DOWN"
                        /\ GetType(user_i.cnt + Samples(m_tau)) # "QUARTER_DOWN"
                        /\ Both(N, Ti1, tau) /\ m_tau' = m_tau
  BY DEF MultiWindow
<1> QED  BY <1>2, <1>3, <1>4, <1>10, <1>11, <1>14, <1>15, <1>16, <1>17

LEMMA MultiWindowSync ==
  ASSUME FramesTyped, SynchroTyped, SyncInv, MultiWindow, UNCHANGED <<starts, powers>>
  PROVE  SyncInv'
<1>1. m_sync_state = "MULTI_USER" /\ m_sync_state' = "MULTI_USER" /\ TwoUsers
  BY DEF MultiWindow, SyncInv
<1>2. TauToSymbol' /\ m_tau' < SymbolItems
  BY <1>1, TauAfterWindow
<1>3. PICK len \in Nat : \E Ti1, tau : Both(len, Ti1, tau)
  <2>1. N \in Nat /\ N \div 4 \in Nat
    BY Sizes
  <2> QED  BY <2>1 DEF MultiWindow
<1>4. /\ user_u'.frame = user_u.frame /\ user_i'.frame = user_i.frame
      /\ user_u'.cnt = user_u.cnt + len
      /\ CountNear(user_u)' /\ CountWithin(user_i)'
  BY <1>1, <1>3, WindowOfBoth
<1>5. user_u.cnt \in Int /\ user_u.cnt >= 0
  BY <1>1 DEF TwoUsers, SynchroTyped, UserSet
<1>6. user_u'.cnt >= 0
  BY <1>4, <1>5
<1>7. user_u'.frame \in 1 .. 2 /\ user_i'.frame = 3 - user_u'.frame
  BY <1>1, <1>4 DEF TwoUsers
<1>8. TwoUsers'
  BY <1>2, <1>4, <1>6, <1>7 DEF TwoUsers
<1> QED  BY <1>1, <1>8 DEF SyncInv, OneUser, NewUserNext, OtherEnded

----------------------------------------------------------------------------
(***************************************************************************)
(* The theorems.                                                           *)
(***************************************************************************)

\* Every step of mu_synchro keeps the invariant, one lemma for each way out.
LEMMA SynchroStep == ASSUME IInv, Synchro PROVE IInv'
<1>1. FramesTyped /\ SynchroTyped /\ AggregTyped
  BY TypedParts DEF IInv
<1>2. SyncFrame /\ UNCHANGED <<starts, powers>>
  BY DEF Synchro
<1>3. Typed'
  <2>1. SynchroTyped'
    BY <1>1, <1>2, SynchroTypes
  <2>2. FramesTyped' /\ AggregTyped'
    BY <1>1 DEF Synchro, aggregVars, FramesTyped, AggregTyped
  <2>3. (FramesTyped /\ SynchroTyped /\ AggregTyped)' => Typed'
    BY TypedParts, PTL
  <2> QED  BY <2>1, <2>2, <2>3
<1>4. Refused' <=> Refused
  BY <1>2 DEF Refused, InPayloadOfFirst, PayloadStart, QuarterStart, FrameEnd, SymbolStart
<1>5. ASSUME ~Refused PROVE SyncInv'
  <2>1. SyncInv
    BY <1>5 DEF IInv
  <2>2. CASE FirstUser
    BY <1>1, <1>2, <2>1, <2>2, FirstUserSync
  <2>3. CASE Idle
    BY <2>3 DEF Idle, SyncInv, OneUser, NewUserNext, TwoUsers, OtherEnded
  <2>4. CASE FrameEnds
    BY <2>4 DEF FrameEnds, SyncInv, OneUser, NewUserNext, TwoUsers, OtherEnded
  <2>5. CASE IgnoreWeak
    BY <1>1, <1>5, <2>1, <2>5, WeakIsRefused DEF SyncInv
  <2>6. CASE AcceptSecond
    BY <1>1, <1>2, <2>1, <2>6, AcceptSecondSync
  <2>7. CASE SingleWindow
    BY <1>1, <1>2, <2>1, <2>7, SingleWindowSync
  <2>8. CASE RealignToNew
    BY <1>1, <1>2, <2>1, <2>8, RealignToNewSync
  <2>9. CASE RealignToPrev
    BY <1>1, <1>2, <2>1, <2>9, RealignToPrevSync
  <2>10. CASE UserEnds
    BY <1>1, <1>2, <2>1, <2>10, UserEndsSync
  <2>11. CASE MultiWindow
    BY <1>1, <1>2, <2>1, <2>11, MultiWindowSync
  <2> QED
    BY <1>2, <2>2, <2>3, <2>4, <2>5, <2>6, <2>7, <2>8, <2>9, <2>10, <2>11 DEF SyncFrame
<1> QED  BY <1>3, <1>4, <1>5 DEF IInv

\* ml_aggreg takes a window and changes nothing else of mu_synchro's.
LEMMA AggregateStep == ASSUME IInv, Aggregate PROVE IInv'
<1>1. FramesTyped /\ SynchroTyped /\ AggregTyped
  BY TypedParts DEF IInv
<1>2. AggregTyped' /\ windows' \in Seq(WindowSet) /\ Len(windows') <= Room
  BY <1>1, AggregTypes DEF Aggregate
<1>3. Typed'
  <2>1. FramesTyped' /\ SynchroTyped'
    BY <1>1, <1>2 DEF Aggregate, FramesTyped, SynchroTyped
  <2>2. (FramesTyped /\ SynchroTyped /\ AggregTyped)' => Typed'
    BY TypedParts, PTL
  <2> QED  BY <1>2, <2>1, <2>2
<1>4. /\ Refused' <=> Refused
      /\ SyncInv => SyncInv'
  <2>1. /\ starts' = starts /\ powers' = powers /\ nread' = nread /\ m_sync_state' = m_sync_state
        /\ user_u' = user_u /\ user_i' = user_i /\ m_power1' = m_power1 /\ m_tau' = m_tau
    BY DEF Aggregate
  <2>2. Refused' <=> Refused
    BY <2>1 DEF Refused, InPayloadOfFirst, PayloadStart, QuarterStart, FrameEnd, SymbolStart
  <2>3. SyncInv => SyncInv'
    BY <2>1 DEF SyncInv, OneUser, NewUserNext, TwoUsers, OtherEnded, TauToSymbol, CountNear, CountWithin,
                Exact, AtSymbol, NextSymbolCount, Samples, PayloadStart, QuarterStart, PayloadCount,
                Near, TauBetween, SymbolItems
  <2> QED  BY <2>2, <2>3
<1> QED  BY <1>3, <1>4 DEF IInv

LEMMA UnchangedIInv == ASSUME IInv, UNCHANGED vars PROVE IInv'
<1>1. /\ UNCHANGED <<starts, powers, nread, m_sync_state, user_u, user_i, m_power1, m_power2, m_tau>>
      /\ UNCHANGED <<m_item_to_consume, windows, user_states, user_powers, upchirps>>
  BY DEF vars, synchroVars, aggregVars
<1>2. Typed'
  <2>1. FramesTyped /\ SynchroTyped /\ AggregTyped
    BY TypedParts DEF IInv
  <2>2. (FramesTyped /\ SynchroTyped /\ AggregTyped)'
    BY <1>1, <2>1 DEF FramesTyped, SynchroTyped, AggregTyped
  <2>3. (FramesTyped /\ SynchroTyped /\ AggregTyped)' => Typed'
    BY TypedParts, PTL
  <2> QED  BY <2>2, <2>3
<1>3. Refused' <=> Refused
  BY <1>1 DEF Refused, InPayloadOfFirst, PayloadStart, QuarterStart, FrameEnd, SymbolStart
<1>4. SyncInv => SyncInv'
  BY <1>1 DEF SyncInv, OneUser, NewUserNext, TwoUsers, OtherEnded, TauToSymbol, CountNear, CountWithin,
              Exact, AtSymbol, NextSymbolCount, Samples, PayloadStart, QuarterStart, PayloadCount,
              Near, TauBetween, SymbolItems
<1> QED  BY <1>2, <1>3, <1>4 DEF IInv

(***************************************************************************)
(* The counts of both users, m_tau and the input read agree in every state *)
(* of sync_frame.                                                          *)
(***************************************************************************)
THEOREM TwoUserInvariant == Spec => []IInv
<1>1. Init => IInv
  BY InitIInv
<1>2. IInv /\ [Next]_vars => IInv'
  BY SynchroStep, AggregateStep, UnchangedIInv DEF Next
<1> QED  BY <1>1, <1>2, PTL DEF Spec

(***************************************************************************)
(* Types: what sync_frame asks for is a symbol at most, m_tau is within a  *)
(* symbol, and no window written is empty or longer than a symbol.         *)
(***************************************************************************)
THEOREM TwoUserTypes == Spec => []TypeOK
<1>1. IInv => TypeOK
  BY DEF IInv, Typed
<1> QED  BY <1>1, TwoUserInvariant, PTL

(***************************************************************************)
(* mu_synchro's counts of samples are where it is in the two frames, to a  *)
(* sample, and m_tau leads to the next symbol of the interferer, through   *)
(* every exchange of the two users, unless a frame is refused.             *)
(***************************************************************************)
THEOREM CountsAreTrue == Spec => []CountsTrue
<1>1. ASSUME IInv PROVE CountsTrue
  <2> SUFFICES ASSUME m_sync_state \in {"SINGLE_USER", "REALIGN_TO_NEW", "MULTI_USER"}, ~Refused
               PROVE  /\ CountNear(user_u)
                      /\ m_sync_state = "MULTI_USER" =>
                           LET i == user_i.frame
                               in_payload == user_i.cnt + Samples(m_tau) >= (NUp + 4) * N + N \div 4
                               first == IF in_payload THEN PayloadStart(i) ELSE starts[i] IN
                           /\ Near(nread, starts[i] + user_i.cnt * OS)
                           /\ (nread + m_tau - first) % SymbolItems = 0
    BY DEF CountsTrue, CountNear
  <2>1. SyncInv /\ FramesTyped /\ SynchroTyped
    BY <1>1, TypedParts DEF IInv
  <2>2. ASSUME m_sync_state = "REALIGN_TO_NEW" PROVE CountNear(user_u)
    <3>1. PICK c \in Int, n \in Nat, s \in Nat : c = user_u.cnt /\ n = nread /\ s = starts[user_u.frame]
      <4>1. user_u.frame = 1 /\ user_u.cnt \in Int /\ nread \in Nat
        BY <2>1, <2>2, MuAssumption DEF SyncInv, NewUserNext, SynchroTyped, UserSet
      <4> QED  BY <2>1, <4>1, FrameFacts
    <3>2. n = s + c * OS
      BY <2>1, <2>2, <3>1 DEF SyncInv, NewUserNext, Exact
    <3>3. n - (s + c * OS) \in -OS .. OS
      BY <3>2, Sizes
    <3> QED  BY <3>1, <3>3 DEF CountNear, Near
  <2>3. CountNear(user_u)
    BY <2>1, <2>2 DEF SyncInv, OneUser, TwoUsers
  <2>4. ASSUME m_sync_state = "MULTI_USER"
        PROVE  LET i == user_i.frame
                   in_payload == user_i.cnt + Samples(m_tau) >= (NUp + 4) * N + N \div 4
                   first == IF in_payload THEN PayloadStart(i) ELSE starts[i] IN
               /\ Near(nread, starts[i] + user_i.cnt * OS)
               /\ (nread + m_tau - first) % SymbolItems = 0
    <3> DEFINE i == user_i.frame
    <3>1. TwoUsers
      BY <2>1 DEF SyncInv
    <3>2. Near(nread, starts[i] + user_i.cnt * OS)
      <4>1. nread - (starts[i] + user_i.cnt * OS) \in 1 - OS .. OS - 1
        BY <2>4, <3>1 DEF TwoUsers, CountWithin
      <4> QED  BY <4>1, Sizes DEF Near
    <3>3. \A k \in Int : (k * SymbolItems) % SymbolItems = 0
      <4> SUFFICES ASSUME NEW k \in Int PROVE (k * SymbolItems) % SymbolItems = 0
        OBVIOUS
      <4>1. 0 \in 0 .. SymbolItems - 1 /\ 0 + k * SymbolItems = k * SymbolItems
        BY Sizes
      <4>2. (0 + k * SymbolItems) % SymbolItems = 0
        BY <4>1, ModUnique
      <4> QED  BY <4>1, <4>2
    <3>4. CASE /\ \E k \in 0 .. NUp + 4 : NextSymbolCount = k * N
               /\ \E k \in Int : nread + m_tau - starts[i] = k * SymbolItems
      <4>1. PICK k \in 0 .. NUp + 4 : NextSymbolCount = k * N
        BY <3>4
      <4>2. k * N <= (NUp + 4) * N /\ k * N \in Nat
        <5>1. PICK d \in Nat : NUp + 4 = k + d
          <6>1. (NUp + 4) - k \in Nat /\ NUp + 4 = k + ((NUp + 4) - k)
            BY Sizes
          <6> QED  BY <6>1
        <5>2. (k + d) * N = k * N + d * N /\ d * N \in Nat /\ k * N \in Nat
          BY Sizes
        <5> QED  BY <5>1, <5>2
      <4>3. ~(user_i.cnt + Samples(m_tau) >= (NUp + 4) * N + N \div 4)
        <5>1. k * N < (NUp + 4) * N + N \div 4
          BY <4>2, CountFacts, Sizes
        <5>2. user_i.cnt + Samples(m_tau) = k * N
          BY <4>1 DEF NextSymbolCount
        <5> QED  BY <4>2, <5>1, <5>2, CountFacts, Sizes
      <4>4. (nread + m_tau - starts[i]) % SymbolItems = 0
        BY <3>3, <3>4
      <4> QED  BY <3>2, <4>3, <4>4
    <3>5. CASE /\ NextSymbolCount >= PayloadCount
               /\ \E k \in Int : nread + m_tau - PayloadStart(i) = k * SymbolItems
      <4>1. user_i.cnt + Samples(m_tau) >= (NUp + 4) * N + N \div 4
        BY <3>5 DEF NextSymbolCount, PayloadCount
      <4>2. (nread + m_tau - PayloadStart(i)) % SymbolItems = 0
        BY <3>3, <3>5
      <4> QED  BY <3>2, <4>1, <4>2
    <3> QED  BY <2>4, <3>1, <3>4, <3>5 DEF TwoUsers, TauToSymbol
  <2> QED  BY <2>3, <2>4
<1> QED  BY <1>1, TwoUserInvariant, PTL


----------------------------------------------------------------------------
(***************************************************************************)
(* ml_aggreg takes the windows in the order in which mu_synchro wrote      *)
(* them, and what it does with one depends on nothing else.  The state it  *)
(* will be in when it has processed the windows that wait is therefore     *)
(* determined already, and that state keeps pace with mu_synchro.          *)
(***************************************************************************)

\* The state of ml_aggreg as a record, and process_window as an operator on it.
Current ==
  [us |-> user_states, up |-> user_powers, uc |-> upchirps, pm |-> prev_Mi2, pt |-> prev_Ti2,
   sy |-> symbols, raised |-> raised]

DetectedIn(a, w, u) == a.us[u] = "NONE" /\ PowerOf(w, u) # 0
InPayloadIn(a, w, u) == a.us[u] = "PREAMBLE" /\ WinState(w, u) = "PAYLOAD"
GoneIn(a, w, u) == a.us[u] = "PAYLOAD" /\ WinState(w, u) = "VOID" /\ PowerOf(w, u) = 0
NextFrameIn(a, w, u, other) ==
  a.us[u] = "PAYLOAD" /\ ~GoneIn(a, w, u) /\ other = "NONE" /\ WinState(w, u) = "UPCHIRP"
AfterIn(a, w, u, other) ==
  CASE DetectedIn(a, w, u) \/ NextFrameIn(a, w, u, other) -> "PREAMBLE"
    [] InPayloadIn(a, w, u) -> "PAYLOAD"
    [] GoneIn(a, w, u) -> "NONE"
    [] OTHER -> a.us[u]
FirstAfter(a, w) == AfterIn(a, w, 1, a.us[2])
SecondAfter(a, w) == AfterIn(a, w, 2, FirstAfter(a, w))
TrackedIn(a, w) == <<FirstAfter(a, w), SecondAfter(a, w)>>
PowerIn(a, w, u) ==
  CASE TrackedIn(a, w)[u] = "PREAMBLE" /\ a.us[u] # "PREAMBLE" -> PowerOf(w, u)
    [] GoneIn(a, w, u) -> 0
    [] OTHER -> a.up[u]
StrongIn(a, w, u) == PowerIn(a, w, u) >= PowerIn(a, w, Other(u))
SeenIn(a, w, u) ==
  /\ TrackedIn(a, w)[u] = "PREAMBLE"
  /\ IF StrongIn(a, w, u) THEN w.win_len = N /\ w.Tu = "UPCHIRP" ELSE w.Ti1 = "UPCHIRP"
ForgetsIn(a, w, u) == GoneIn(a, w, u) \/ (a.us[u] = "PAYLOAD" /\ TrackedIn(a, w)[u] = "PREAMBLE")
CountIn(a, w, u) ==
  (IF ForgetsIn(a, w, u) THEN 0 ELSE a.uc[u]) + (IF SeenIn(a, w, u) THEN 1 ELSE 0)
ExpectedIn(a, w, u) ==
  TrackedIn(a, w)[u] = "PAYLOAD" \/ (TrackedIn(a, w)[u] = "NONE" /\ a.pt = "PAYLOAD")
CutIn(a, w, u) == ExpectedIn(a, w, u) /\ ~StrongIn(a, w, u) /\ InThreeParts(w)
PartsIn(a, w) == a.pm \o Mi1(w)
OutputIn(a, w, u) ==
  IF ~ExpectedIn(a, w, u) THEN <<>>
  ELSE IF StrongIn(a, w, u) THEN IF w.win_len = N THEN <<Su(w)>> ELSE <<>>
  ELSE IF ~CutIn(a, w, u) /\ (a.pt = "PAYLOAD" \/ SamplesUp(w.tau) = N) THEN <<PartsIn(a, w)>>
  ELSE <<>>
RaisesIn(a, w) == \E u \in Users : InPayloadIn(a, w, u) /\ a.uc[u] = 0

Step(a, w) ==
  [us |-> TrackedIn(a, w),
   up |-> [u \in Users |-> PowerIn(a, w, u)],
   uc |-> [u \in Users |-> CountIn(a, w, u)],
   pm |-> IF \E u \in Users : CutIn(a, w, u) THEN PartsIn(a, w) ELSE Mi2(w),
   pt |-> w.Ti2,
   sy |-> [u \in Users |-> a.sy[u] \o OutputIn(a, w, u)],
   raised |-> RaisesIn(a, w)]

\* From state a the windows ws lead to state b, and no window raises.
Leads(a, ws, b) ==
  \E st : /\ st[0] = a /\ st[Len(ws)] = b
          /\ \A k \in 1 .. Len(ws) : st[k] = Step(st[k - 1], ws[k])
          /\ \A k \in 0 .. Len(ws) : st[k].raised = FALSE

LEMMA LeadsStart == ASSUME NEW a, a.raised = FALSE PROVE Leads(a, <<>>, a)
<1> DEFINE st == [k \in {0} |-> a]
<1>1. Len(<<>>) = 0 /\ st[0] = a
  OBVIOUS
<1> HIDE DEF st
<1>2. /\ st[0] = a /\ st[Len(<<>>)] = a
      /\ \A k \in 1 .. Len(<<>>) : st[k] = Step(st[k - 1], <<>>[k])
      /\ \A k \in 0 .. Len(<<>>) : st[k].raised = FALSE
  BY <1>1
<1> QED  BY <1>2 DEF Leads

\* The first state has not raised.
LEMMA LeadsCalm ==
  ASSUME NEW a, NEW ws \in Seq(WindowSet), NEW b, Leads(a, ws, b)
  PROVE  a.raised = FALSE
BY DEF Leads

\* A window written at the end is a step of the state at the end.
LEMMA LeadsAppend ==
  ASSUME NEW a, NEW ws \in Seq(WindowSet), NEW b, NEW w \in WindowSet, Leads(a, ws, b),
         ~RaisesIn(b, w)
  PROVE  Leads(a, Append(ws, w), Step(b, w))
<1>1. PICK st : /\ st[0] = a /\ st[Len(ws)] = b
                /\ \A k \in 1 .. Len(ws) : st[k] = Step(st[k - 1], ws[k])
                /\ \A k \in 0 .. Len(ws) : st[k].raised = FALSE
  BY DEF Leads
<1>2. PICK n \in Nat : n = Len(ws)
  OBVIOUS
<1>3. PICK vs : vs = Append(ws, w)
  OBVIOUS
<1>4. Len(vs) = n + 1 /\ vs[n + 1] = w /\ \A k \in 1 .. n : vs[k] = ws[k]
  BY <1>2, <1>3
<1>5. PICK c : c = Step(b, w)
  OBVIOUS
<1>6. c.raised = FALSE
  <2>1. c.raised = RaisesIn(b, w)
    BY <1>5 DEF Step
  <2>2. RaisesIn(b, w) \in BOOLEAN
    BY DEF RaisesIn
  <2> QED  BY <2>1, <2>2
<1> DEFINE new == [k \in 0 .. n + 1 |-> IF k = n + 1 THEN c ELSE st[k]]
<1>7. new[n + 1] = c /\ \A k \in 0 .. n : new[k] = st[k]
  BY <1>2
<1> HIDE DEF new
<1>8. new[0] = a /\ new[Len(vs)] = c
  BY <1>1, <1>2, <1>4, <1>7
<1>9. ASSUME NEW k \in 1 .. Len(vs) PROVE new[k] = Step(new[k - 1], vs[k])
  <2>1. CASE k = n + 1
    <3>1. k - 1 = n /\ new[n] = b /\ new[k] = c /\ vs[k] = w
      BY <1>1, <1>2, <1>4, <1>7, <2>1
    <3> QED  BY <1>5, <3>1
  <2>2. CASE k # n + 1
    <3>1. k \in 1 .. n /\ k \in 0 .. n /\ k - 1 \in 0 .. n
      BY <1>2, <1>4, <2>2
    <3>2. new[k] = st[k] /\ new[k - 1] = st[k - 1] /\ vs[k] = ws[k]
      BY <1>4, <1>7, <3>1
    <3>3. st[k] = Step(st[k - 1], ws[k])
      BY <1>1, <1>2, <3>1
    <3> QED  BY <3>2, <3>3
  <2> QED  BY <2>1, <2>2
<1>10. ASSUME NEW k \in 0 .. Len(vs) PROVE new[k].raised = FALSE
  <2>1. CASE k = n + 1
    BY <1>6, <1>7, <2>1
  <2>2. CASE k # n + 1
    <3>1. k \in 0 .. n /\ k \in 0 .. Len(ws)
      BY <1>2, <1>4, <2>2
    <3> QED  BY <1>1, <1>7, <3>1
  <2> QED  BY <2>1, <2>2
<1>11. Leads(a, vs, c)
  BY <1>8, <1>9, <1>10 DEF Leads
<1> QED  BY <1>3, <1>5, <1>11

\* The window at the front is taken away by the step it stands for.
LEMMA LeadsTail ==
  ASSUME NEW a, NEW ws \in Seq(WindowSet), ws # <<>>, NEW b, Leads(a, ws, b)
  PROVE  Leads(Step(a, Head(ws)), Tail(ws), b)
<1>1. PICK st : /\ st[0] = a /\ st[Len(ws)] = b
                /\ \A k \in 1 .. Len(ws) : st[k] = Step(st[k - 1], ws[k])
                /\ \A k \in 0 .. Len(ws) : st[k].raised = FALSE
  BY DEF Leads
<1>2. PICK n \in Nat : n + 1 = Len(ws)
  <2>1. Len(ws) \in Nat /\ Len(ws) # 0
    OBVIOUS
  <2>2. Len(ws) - 1 \in Nat /\ (Len(ws) - 1) + 1 = Len(ws)
    BY <2>1
  <2> QED  BY <2>2
<1>3. PICK vs : vs = Tail(ws)
  OBVIOUS
<1>4. Len(vs) = n /\ \A k \in 1 .. n : vs[k] = ws[k + 1]
  BY <1>2, <1>3
<1>5. Head(ws) = ws[1]
  OBVIOUS
<1> DEFINE new == [k \in 0 .. n |-> st[k + 1]]
<1>6. \A k \in 0 .. n : new[k] = st[k + 1]
  OBVIOUS
<1> HIDE DEF new
<1>7. new[0] = Step(a, ws[1])
  <2>1. new[0] = st[1]
    BY <1>6, <1>2
  <2>2. st[1] = Step(st[1 - 1], ws[1])
    BY <1>1, <1>2
  <2>3. st[1 - 1] = a
    BY <1>1
  <2> QED  BY <2>1, <2>2, <2>3
<1>8. new[Len(vs)] = b
  BY <1>1, <1>2, <1>4, <1>6
<1>9. ASSUME NEW k \in 1 .. Len(vs) PROVE new[k] = Step(new[k - 1], vs[k])
  <2>1. k \in 0 .. n /\ k - 1 \in 0 .. n /\ k + 1 \in 1 .. Len(ws) /\ (k - 1) + 1 = k /\ (k + 1) - 1 = k
    BY <1>2, <1>4
  <2>2. new[k] = st[k + 1] /\ new[k - 1] = st[k] /\ vs[k] = ws[k + 1]
    BY <1>4, <1>6, <2>1
  <2>3. st[k + 1] = Step(st[(k + 1) - 1], ws[k + 1])
    BY <1>1, <2>1
  <2> QED  BY <2>1, <2>2, <2>3
<1>10. ASSUME NEW k \in 0 .. Len(vs) PROVE new[k].raised = FALSE
  <2>1. k \in 0 .. n /\ k + 1 \in 0 .. Len(ws)
    BY <1>2, <1>4
  <2> QED  BY <1>1, <1>6, <2>1
<1>11. Leads(Step(a, ws[1]), vs, b)
  BY <1>7, <1>8, <1>9, <1>10 DEF Leads
<1> QED  BY <1>3, <1>5, <1>11

\* process_window is Step.
LEMMA ProcessIsStep ==
  ASSUME ProcessWindow
  PROVE  Current' = Step(Current, Head(windows)) /\ windows' = Tail(windows)
<1> DEFINE w == Head(windows)
           a == Current
<1>1. /\ a.us = user_states /\ a.up = user_powers /\ a.uc = upchirps /\ a.pm = prev_Mi2
      /\ a.pt = prev_Ti2 /\ a.sy = symbols
  BY DEF Current
<1> HIDE DEF w, a
<1>2. \A u \in Users : /\ DetectedIn(a, w, u) <=> Detected(w, u)
                       /\ InPayloadIn(a, w, u) <=> InPayload(w, u)
                       /\ GoneIn(a, w, u) <=> Gone(w, u)
                       /\ \A o : NextFrameIn(a, w, u, o) <=> NextFrame(w, u, o)
  BY <1>1 DEF DetectedIn, Detected, InPayloadIn, InPayload, GoneIn, Gone, NextFrameIn, NextFrame
<1>3. \A u \in Users : \A o : AfterIn(a, w, u, o) = StateAfter(w, u, o)
  BY <1>1, <1>2 DEF AfterIn, StateAfter
<1>4. TrackedIn(a, w) = Tracked(w)
  BY <1>1, <1>3 DEF TrackedIn, Tracked, FirstAfter, SecondAfter, Users
<1>5. [u \in Users |-> PowerIn(a, w, u)] = PowersAfter(w)
  BY <1>1, <1>2, <1>4 DEF PowerIn, PowersAfter
<1>6. \A u \in Users : Other(u) \in Users
  BY DEF Users, Other
<1>7. \A u \in Users : PowerIn(a, w, u) = PowersAfter(w)[u]
  <2>1. \A u \in Users : [v \in Users |-> PowerIn(a, w, v)][u] = PowerIn(a, w, u)
    OBVIOUS
  <2> QED  BY <1>5, <2>1
<1>8. \A u \in Users : StrongIn(a, w, u) <=> PowersAfter(w)[u] >= PowersAfter(w)[Other(u)]
  BY <1>6, <1>7 DEF StrongIn
<1>9. \A u \in Users : /\ SeenIn(a, w, u) <=> Seen(w, u, PowersAfter(w)[u] >= PowersAfter(w)[Other(u)])
                       /\ ForgetsIn(a, w, u) <=> Gone(w, u) \/ (user_states[u] = "PAYLOAD"
                                                               /\ Tracked(w)[u] = "PREAMBLE")
  BY <1>1, <1>2, <1>4, <1>8 DEF SeenIn, Seen, ForgetsIn
<1>10. /\ user_states' = TrackedIn(a, w)
       /\ user_powers' = [u \in Users |-> PowerIn(a, w, u)]
       /\ prev_Ti2' = w.Ti2 /\ windows' = Tail(windows)
  BY <1>4, <1>5 DEF ProcessWindow, w
<1>11. upchirps' = [u \in Users |-> CountIn(a, w, u)]
  <2>1. upchirps' = [u \in Users |->
           (IF Gone(w, u) \/ (user_states[u] = "PAYLOAD" /\ Tracked(w)[u] = "PREAMBLE")
            THEN 0 ELSE upchirps[u])
            + (IF Seen(w, u, PowersAfter(w)[u] >= PowersAfter(w)[Other(u)]) THEN 1 ELSE 0)]
    BY DEF ProcessWindow, w
  <2> QED  BY <1>1, <1>9, <2>1 DEF CountIn
<1>12. raised' = RaisesIn(a, w)
  <2>1. raised' = \E u \in Users : InPayload(w, u) /\ upchirps[u] = 0
    BY DEF ProcessWindow, w
  <2> QED  BY <1>1, <1>2, <2>1 DEF RaisesIn
<1> DEFINE M == prev_Mi2 \o Mi1(w)
           ending(u) == Tracked(w)[u] = "NONE" /\ prev_Ti2 = "PAYLOAD"
           expected(u) == Tracked(w)[u] = "PAYLOAD" \/ ending(u)
           strong(u) == PowersAfter(w)[u] >= PowersAfter(w)[Other(u)]
           cut(u) == expected(u) /\ ~strong(u) /\ InThreeParts(w)
           output(u) ==
             IF ~expected(u) THEN <<>>
             ELSE IF strong(u) THEN IF w.win_len = N THEN <<Su(w)>> ELSE <<>>
             ELSE IF ~cut(u) /\ (prev_Ti2 = "PAYLOAD" \/ SamplesUp(w.tau) = N) THEN <<M>>
             ELSE <<>>
<1>13. /\ prev_Mi2' = IF \E u \in Users : cut(u) THEN M ELSE Mi2(w)
       /\ symbols' = [u \in Users |-> symbols[u] \o output(u)]
  BY DEF ProcessWindow, w
<1>14. M = PartsIn(a, w) /\ \A u \in Users : cut(u) <=> CutIn(a, w, u)
  BY <1>1, <1>4, <1>8 DEF PartsIn, CutIn, ExpectedIn
<1>15. \A u \in Users : output(u) = OutputIn(a, w, u)
  <2>1. \A u \in Users : expected(u) <=> ExpectedIn(a, w, u)
    BY <1>1, <1>4 DEF ExpectedIn
  <2>2. \A u \in Users : strong(u) <=> StrongIn(a, w, u)
    BY <1>8
  <2> HIDE DEF M, expected, strong, cut
  <2> QED  BY <1>1, <1>14, <2>1, <2>2 DEF OutputIn
<1> HIDE DEF M, cut, output
<1>16. /\ prev_Mi2' = IF \E u \in Users : CutIn(a, w, u) THEN PartsIn(a, w) ELSE Mi2(w)
       /\ symbols' = [u \in Users |-> a.sy[u] \o OutputIn(a, w, u)]
  BY <1>1, <1>13, <1>14, <1>15
<1>17. Current' = Step(a, w)
  BY <1>10, <1>11, <1>12, <1>16 DEF Current, Step
<1> QED  BY <1>10, <1>17 DEF a, w

----------------------------------------------------------------------------
(***************************************************************************)
(* What a window does to the states of the two users.                      *)
(***************************************************************************)

UserStates == {"NONE", "PREAMBLE", "PAYLOAD"}

StatesTyped(a) ==
  /\ a.us[1] \in UserStates /\ a.us[2] \in UserStates
  /\ a.up[1] \in Nat /\ a.up[2] \in Nat /\ a.uc[1] \in Nat /\ a.uc[2] \in Nat

\* Nothing is known of user 2.
Quiet(a) == a.us[2] = "NONE" /\ a.up[2] = 0

\* A user found in windows of power p, whose upchirps have been seen.
Begun(a, u, p) ==
  /\ a.us[u] \in {"PREAMBLE", "PAYLOAD"} /\ a.up[u] = p
  /\ a.us[u] = "PREAMBLE" => a.uc[u] > 0

LEMMA StepFields ==
  ASSUME NEW a, NEW w
  PROVE  /\ Step(a, w).us[1] = FirstAfter(a, w) /\ Step(a, w).us[2] = SecondAfter(a, w)
         /\ Step(a, w).up[1] = PowerIn(a, w, 1) /\ Step(a, w).up[2] = PowerIn(a, w, 2)
         /\ Step(a, w).uc[1] = CountIn(a, w, 1) /\ Step(a, w).uc[2] = CountIn(a, w, 2)
         /\ RaisesIn(a, w) <=> \/ InPayloadIn(a, w, 1) /\ a.uc[1] = 0
                               \/ InPayloadIn(a, w, 2) /\ a.uc[2] = 0
BY DEF Step, TrackedIn, RaisesIn, Users

LEMMA StepTyped ==
  ASSUME NEW a, NEW w \in WindowSet, StatesTyped(a)
  PROVE  StatesTyped(Step(a, w))
<1>1. w.power1 \in Nat /\ w.power2 \in Nat
  BY DEF WindowSet
<1>2. PICK b : b = Step(a, w)
  OBVIOUS
<1>3. b.us[1] \in UserStates /\ b.us[2] \in UserStates
  BY <1>2, StepFields DEF FirstAfter, SecondAfter, AfterIn, StatesTyped, UserStates
<1>4. b.up[1] \in Nat /\ b.up[2] \in Nat
  BY <1>1, <1>2, StepFields DEF PowerIn, PowerOf, StatesTyped
<1>5. b.uc[1] \in Nat /\ b.uc[2] \in Nat
  BY <1>2, StepFields DEF CountIn, StatesTyped
<1> QED  BY <1>2, <1>3, <1>4, <1>5 DEF StatesTyped

\* A window of user 1 alone.
LEMMA SoloOne ==
  ASSUME NEW a, NEW w \in WindowSet, StatesTyped(a), Quiet(a),
         w.power1 > 0, w.power2 = 0, w.Ti1 = "VOID", w.Tu # "VOID",
         \/ Begun(a, 1, w.power1) /\ (w.Tu = "UPCHIRP" => w.win_len = N)
         \/ a.us[1] # "PREAMBLE" /\ w.Tu = "UPCHIRP" /\ w.win_len = N
  PROVE  /\ ~RaisesIn(a, w) /\ Quiet(Step(a, w)) /\ Begun(Step(a, w), 1, w.power1)
         /\ w.Tu = "PAYLOAD" => Step(a, w).us[1] = "PAYLOAD"
<1>1. w.power1 \in Nat /\ w.power2 \in Nat
  BY DEF WindowSet
<1>2. PICK b : b = Step(a, w)
  OBVIOUS
<1>3. b.us[2] = "NONE" /\ b.up[2] = 0 /\ ~InPayloadIn(a, w, 2)
  BY <1>1, <1>2, StepFields DEF SecondAfter, AfterIn, DetectedIn, NextFrameIn, InPayloadIn, GoneIn,
     PowerIn, PowerOf, TrackedIn, Quiet
<1>4. WinState(w, 1) = w.Tu /\ PowerOf(w, 1) = w.power1 /\ w.power1 # 0
  BY <1>1 DEF WinState, PowerOf, Other
<1>5. ~GoneIn(a, w, 1)
  BY <1>4 DEF GoneIn
<1>6. b.us[1] = AfterIn(a, w, 1, "NONE") /\ TrackedIn(a, w)[1] = b.us[1]
  BY <1>2, StepFields DEF FirstAfter, TrackedIn, Quiet
<1>7. b.us[1] \in {"PREAMBLE", "PAYLOAD"} /\ (w.Tu = "PAYLOAD" => b.us[1] = "PAYLOAD")
  BY <1>4, <1>5, <1>6 DEF AfterIn, DetectedIn, NextFrameIn, InPayloadIn, Begun, StatesTyped, UserStates
<1>8. b.up[1] = w.power1
  <2>1. CASE a.us[1] = "PAYLOAD" /\ w.Tu # "UPCHIRP"
    <3>1. b.us[1] = "PAYLOAD" /\ Begun(a, 1, w.power1)
      BY <1>4, <1>5, <1>6, <2>1 DEF AfterIn, DetectedIn, NextFrameIn, InPayloadIn
    <3> QED  BY <1>2, <1>5, <1>6, <3>1, StepFields DEF PowerIn, Begun
  <2>2. CASE a.us[1] = "PAYLOAD" /\ w.Tu = "UPCHIRP"
    <3>1. b.us[1] = "PREAMBLE"
      BY <1>4, <1>5, <1>6, <2>2 DEF AfterIn, DetectedIn, NextFrameIn, InPayloadIn
    <3> QED  BY <1>2, <1>4, <1>5, <1>6, <2>2, <3>1, StepFields DEF PowerIn
  <2>3. CASE a.us[1] = "PREAMBLE"
    BY <1>2, <1>5, <1>6, <2>3, StepFields DEF PowerIn, Begun
  <2>4. CASE a.us[1] = "NONE"
    <3>1. b.us[1] = "PREAMBLE"
      BY <1>4, <1>5, <1>6, <2>4 DEF AfterIn, DetectedIn, NextFrameIn, InPayloadIn
    <3> QED  BY <1>2, <1>4, <1>5, <1>6, <2>4, <3>1, StepFields DEF PowerIn
  <2> QED  BY <2>1, <2>2, <2>3, <2>4 DEF StatesTyped, UserStates
<1>9. StrongIn(a, w, 1)
  <2>1. PowerIn(a, w, 1) = w.power1 /\ PowerIn(a, w, 2) = 0
    BY <1>2, <1>3, <1>8, StepFields
  <2> QED  BY <1>1, <2>1 DEF StrongIn, Other
<1>10. b.us[1] = "PREAMBLE" => b.uc[1] > 0
  <2>1. b.uc[1] = CountIn(a, w, 1)
    BY <1>2, StepFields
  <2>2. CASE w.Tu = "UPCHIRP"
    <3>1. b.us[1] = "PREAMBLE" => SeenIn(a, w, 1)
      BY <1>6, <1>9, <2>2 DEF SeenIn
    <3> QED  BY <2>1, <3>1 DEF CountIn, StatesTyped
  <2>3. CASE w.Tu # "UPCHIRP"
    <3>1. Begun(a, 1, w.power1)
      BY <2>3
    <3>2. b.us[1] = "PREAMBLE" => a.us[1] = "PREAMBLE"
      BY <1>4, <1>5, <1>6, <2>3, <3>1 DEF AfterIn, DetectedIn, NextFrameIn, InPayloadIn, Begun
    <3>3. b.us[1] = "PREAMBLE" => ~ForgetsIn(a, w, 1) /\ a.uc[1] > 0
      BY <1>5, <3>1, <3>2 DEF ForgetsIn, Begun
    <3> QED  BY <2>1, <3>3 DEF CountIn, StatesTyped
  <2> QED  BY <2>2, <2>3
<1>11. InPayloadIn(a, w, 1) => a.uc[1] > 0
  BY <1>4 DEF InPayloadIn, Begun
<1>12. ~RaisesIn(a, w)
  BY <1>3, <1>11, StepFields DEF StatesTyped
<1> QED  BY <1>2, <1>3, <1>7, <1>8, <1>10, <1>12 DEF Quiet, Begun

\* A window of user 2 alone.
LEMMA SoloTwo ==
  ASSUME NEW a, NEW w \in WindowSet, StatesTyped(a),
         w.power1 = 0, w.power2 > 0, w.Ti1 = "VOID",
         \/ Begun(a, 2, w.power2) /\ (w.Tu = "UPCHIRP" => a.us[2] # "PAYLOAD")
         \/ /\ a.us[2] = "NONE" /\ a.up[1] <= w.power2
            /\ w.Tu = "UPCHIRP" /\ w.win_len = N
  PROVE  /\ ~RaisesIn(a, w) /\ Begun(Step(a, w), 2, w.power2)
         /\ Step(a, w).us[2] = "PAYLOAD" => a.us[2] = "PAYLOAD" \/ w.Tu = "PAYLOAD"
<1>1. w.power1 \in Nat /\ w.power2 \in Nat
  BY DEF WindowSet
<1>2. PICK b : b = Step(a, w)
  OBVIOUS
<1>3. /\ WinState(w, 1) = "VOID" /\ PowerOf(w, 1) = 0
      /\ WinState(w, 2) = w.Tu /\ PowerOf(w, 2) = w.power2 /\ w.power2 # 0
  BY <1>1 DEF WinState, PowerOf, Other
<1>4. ~InPayloadIn(a, w, 1) /\ ~GoneIn(a, w, 2)
  BY <1>3 DEF InPayloadIn, GoneIn
<1>5. b.us[1] = "PREAMBLE" => a.us[1] = "PREAMBLE"
  BY <1>2, <1>3, <1>4, StepFields DEF FirstAfter, AfterIn, DetectedIn, NextFrameIn
<1>6. TrackedIn(a, w)[1] = b.us[1] /\ TrackedIn(a, w)[2] = b.us[2]
  BY <1>2, StepFields DEF TrackedIn
<1>7. PowerIn(a, w, 1) = 0 \/ PowerIn(a, w, 1) = a.up[1]
  BY <1>5, <1>6 DEF PowerIn
<1>8. b.us[2] = AfterIn(a, w, 2, b.us[1])
  BY <1>2, StepFields DEF SecondAfter
<1>9. CASE Begun(a, 2, w.power2) /\ (w.Tu = "UPCHIRP" => a.us[2] # "PAYLOAD")
  <2>1. /\ b.us[2] \in {"PREAMBLE", "PAYLOAD"}
        /\ b.us[2] = "PREAMBLE" => a.us[2] = "PREAMBLE"
        /\ b.us[2] = "PAYLOAD" => a.us[2] = "PAYLOAD" \/ w.Tu = "PAYLOAD"
    BY <1>3, <1>4, <1>8, <1>9 DEF AfterIn, DetectedIn, NextFrameIn, InPayloadIn, Begun
  <2>2. b.up[2] = w.power2
    BY <1>2, <1>4, <1>6, <1>9, <2>1, StepFields DEF PowerIn, Begun
  <2>3. b.us[2] = "PREAMBLE" => b.uc[2] > 0
    <3>1. b.us[2] = "PREAMBLE" => ~ForgetsIn(a, w, 2) /\ a.uc[2] > 0
      BY <1>4, <1>9, <2>1 DEF ForgetsIn, Begun
    <3> QED  BY <1>2, <3>1, StepFields DEF CountIn, StatesTyped
  <2>4. InPayloadIn(a, w, 2) => a.uc[2] > 0
    BY <1>9 DEF InPayloadIn, Begun
  <2>5. ~RaisesIn(a, w)
    BY <1>4, <2>4, StepFields DEF StatesTyped
  <2> QED  BY <1>2, <2>1, <2>2, <2>3, <2>5 DEF Begun
<1>10. CASE /\ a.us[2] = "NONE" /\ a.up[1] <= w.power2
            /\ w.Tu = "UPCHIRP" /\ w.win_len = N
  <2>1. b.us[2] = "PREAMBLE"
    BY <1>3, <1>8, <1>10 DEF AfterIn, DetectedIn, NextFrameIn, InPayloadIn, GoneIn
  <2>2. b.up[2] = w.power2 /\ PowerIn(a, w, 2) = w.power2
    BY <1>2, <1>3, <1>4, <1>6, <1>10, <2>1, StepFields DEF PowerIn
  <2>3. StrongIn(a, w, 2)
    BY <1>1, <1>7, <1>10, <2>2 DEF StrongIn, Other, StatesTyped
  <2>4. SeenIn(a, w, 2)
    BY <1>6, <1>10, <2>1, <2>3 DEF SeenIn
  <2>5. b.uc[2] > 0
    BY <1>2, <2>4, StepFields DEF CountIn, StatesTyped
  <2>6. ~InPayloadIn(a, w, 2)
    BY <1>10 DEF InPayloadIn
  <2> QED  BY <1>2, <1>4, <2>1, <2>2, <2>5, <2>6, StepFields DEF Begun
<1> QED  BY <1>9, <1>10

\* A window in the payload of a stronger user 1.
LEMMA BothWeak ==
  ASSUME NEW a, NEW w \in WindowSet, StatesTyped(a),
         w.power1 > w.power2, w.power2 > 0, w.Tu = "PAYLOAD", Begun(a, 1, w.power1),
         \/ Quiet(a)
         \/ a.us[2] \in {"PREAMBLE", "PAYLOAD"} /\ a.up[2] = w.power2,
         w.Ti1 = "PAYLOAD" /\ a.us[2] = "PREAMBLE" => a.uc[2] > 0
  PROVE  /\ ~RaisesIn(a, w) /\ Begun(Step(a, w), 1, w.power1)
         /\ Step(a, w).us[1] = "PAYLOAD"
         /\ Step(a, w).us[2] \in {"PREAMBLE", "PAYLOAD"} /\ Step(a, w).up[2] = w.power2
         /\ Step(a, w).us[2] = "PAYLOAD" => a.us[2] = "PAYLOAD" \/ w.Ti1 = "PAYLOAD"
         /\ Step(a, w).us[2] = "PREAMBLE" => a.us[2] # "PAYLOAD"
         /\ Step(a, w).us[2] = "PREAMBLE" /\ w.Ti1 = "UPCHIRP" => Step(a, w).uc[2] > 0
         /\ Step(a, w).us[2] = "PREAMBLE" /\ a.us[2] = "PREAMBLE" /\ a.uc[2] > 0 => Step(a, w).uc[2] > 0
<1>1. w.power1 \in Nat /\ w.power2 \in Nat
  BY DEF WindowSet
<1>2. PICK b : b = Step(a, w)
  OBVIOUS
<1>3. /\ WinState(w, 1) = "PAYLOAD" /\ PowerOf(w, 1) = w.power1 /\ w.power1 # 0
      /\ WinState(w, 2) = w.Ti1 /\ PowerOf(w, 2) = w.power2 /\ w.power2 # 0
  BY <1>1 DEF WinState, PowerOf, Other
<1>4. ~GoneIn(a, w, 1) /\ ~GoneIn(a, w, 2)
  BY <1>3 DEF GoneIn
<1>5. TrackedIn(a, w)[1] = b.us[1] /\ TrackedIn(a, w)[2] = b.us[2]
  BY <1>2, StepFields DEF TrackedIn
<1>6. b.us[1] = "PAYLOAD" /\ b.up[1] = w.power1 /\ PowerIn(a, w, 1) = w.power1
  <2>1. b.us[1] = "PAYLOAD"
    BY <1>2, <1>3, <1>4, StepFields DEF FirstAfter, AfterIn, DetectedIn, NextFrameIn, InPayloadIn, Begun
  <2> QED  BY <1>2, <1>4, <1>5, <2>1, StepFields DEF PowerIn, Begun
<1>7. b.us[2] = AfterIn(a, w, 2, "PAYLOAD")
  BY <1>2, <1>6, StepFields DEF SecondAfter
<1>8. /\ b.us[2] \in {"PREAMBLE", "PAYLOAD"}
      /\ b.us[2] = "PAYLOAD" => a.us[2] = "PAYLOAD" \/ w.Ti1 = "PAYLOAD"
      /\ b.us[2] = "PREAMBLE" => a.us[2] # "PAYLOAD"
  BY <1>3, <1>4, <1>7 DEF AfterIn, DetectedIn, NextFrameIn, InPayloadIn, Quiet
<1>9. b.up[2] = w.power2 /\ PowerIn(a, w, 2) = w.power2
  <2>1. CASE Quiet(a)
    <3>1. b.us[2] = "PREAMBLE"
      BY <1>3, <1>7, <2>1 DEF AfterIn, DetectedIn, NextFrameIn, InPayloadIn, GoneIn, Quiet
    <3> QED  BY <1>2, <1>3, <1>4, <1>5, <2>1, <3>1, StepFields DEF PowerIn, Quiet
  <2>2. CASE a.us[2] \in {"PREAMBLE", "PAYLOAD"} /\ a.up[2] = w.power2
    BY <1>2, <1>4, <1>5, <1>8, <2>2, StepFields DEF PowerIn
  <2> QED  BY <2>1, <2>2
<1>10. ~StrongIn(a, w, 2)
  BY <1>1, <1>6, <1>9 DEF StrongIn, Other
<1>11. /\ b.us[2] = "PREAMBLE" /\ w.Ti1 = "UPCHIRP" => b.uc[2] > 0
       /\ b.us[2] = "PREAMBLE" /\ a.us[2] = "PREAMBLE" /\ a.uc[2] > 0 => b.uc[2] > 0
  <2>1. b.us[2] = "PREAMBLE" => ~ForgetsIn(a, w, 2)
    BY <1>4, <1>8 DEF ForgetsIn
  <2>2. b.us[2] = "PREAMBLE" /\ w.Ti1 = "UPCHIRP" => SeenIn(a, w, 2)
    BY <1>5, <1>10 DEF SeenIn
  <2> QED  BY <1>2, <2>1, <2>2, StepFields DEF CountIn, StatesTyped
<1>12. ~RaisesIn(a, w)
  <2>1. InPayloadIn(a, w, 1) => a.uc[1] > 0
    BY DEF InPayloadIn, Begun
  <2>2. InPayloadIn(a, w, 2) => a.uc[2] > 0
    BY <1>3 DEF InPayloadIn
  <2> QED  BY <2>1, <2>2, StepFields DEF StatesTyped
<1> QED  BY <1>2, <1>6, <1>8, <1>9, <1>11, <1>12 DEF Begun

\* A window of a stronger user 2.
LEMMA BothStrong ==
  ASSUME NEW a, NEW w \in WindowSet, StatesTyped(a),
         w.power2 > w.power1, w.power1 > 0, w.Ti1 # "UPCHIRP", Begun(a, 1, w.power1),
         Begun(a, 2, w.power2) \/ (a.us[2] = "NONE" /\ w.Tu = "UPCHIRP" /\ w.win_len = N)
  PROVE  /\ ~RaisesIn(a, w) /\ Begun(Step(a, w), 1, w.power1) /\ Begun(Step(a, w), 2, w.power2)
         /\ Step(a, w).us[2] = "PAYLOAD" => a.us[2] = "PAYLOAD" \/ w.Tu = "PAYLOAD"
<1>1. w.power1 \in Nat /\ w.power2 \in Nat
  BY DEF WindowSet
<1>2. PICK b : b = Step(a, w)
  OBVIOUS
<1>3. /\ WinState(w, 1) = w.Ti1 /\ PowerOf(w, 1) = w.power1 /\ w.power1 # 0
      /\ WinState(w, 2) = w.Tu /\ PowerOf(w, 2) = w.power2 /\ w.power2 # 0
  BY <1>1 DEF WinState, PowerOf, Other
<1>4. ~GoneIn(a, w, 1) /\ ~GoneIn(a, w, 2)
  BY <1>3 DEF GoneIn
<1>5. TrackedIn(a, w)[1] = b.us[1] /\ TrackedIn(a, w)[2] = b.us[2]
  BY <1>2, StepFields DEF TrackedIn
<1>6. b.us[1] \in {"PREAMBLE", "PAYLOAD"} /\ (b.us[1] = "PREAMBLE" => a.us[1] = "PREAMBLE")
  BY <1>2, <1>3, <1>4, StepFields DEF FirstAfter, AfterIn, DetectedIn, NextFrameIn, InPayloadIn, Begun
<1>7. b.up[1] = w.power1 /\ PowerIn(a, w, 1) = w.power1
  BY <1>2, <1>4, <1>5, <1>6, StepFields DEF PowerIn, Begun
<1>8. b.us[1] = "PREAMBLE" => b.uc[1] > 0
  <2>1. b.us[1] = "PREAMBLE" => ~ForgetsIn(a, w, 1) /\ a.uc[1] > 0
    BY <1>4, <1>6 DEF ForgetsIn, Begun
  <2> QED  BY <1>2, <2>1, StepFields DEF CountIn, StatesTyped
<1>9. b.us[2] = AfterIn(a, w, 2, b.us[1])
  BY <1>2, StepFields DEF SecondAfter
<1>10. InPayloadIn(a, w, 1) => a.uc[1] > 0
  BY DEF InPayloadIn, Begun
<1>11. CASE Begun(a, 2, w.power2)
  <2>1. /\ b.us[2] \in {"PREAMBLE", "PAYLOAD"}
        /\ b.us[2] = "PREAMBLE" => a.us[2] = "PREAMBLE"
        /\ b.us[2] = "PAYLOAD" => a.us[2] = "PAYLOAD" \/ w.Tu = "PAYLOAD"
    BY <1>3, <1>4, <1>6, <1>9, <1>11 DEF AfterIn, DetectedIn, NextFrameIn, InPayloadIn, Begun
  <2>2. b.up[2] = w.power2
    BY <1>2, <1>4, <1>5, <1>11, <2>1, StepFields DEF PowerIn, Begun
  <2>3. b.us[2] = "PREAMBLE" => b.uc[2] > 0
    <3>1. b.us[2] = "PREAMBLE" => ~ForgetsIn(a, w, 2) /\ a.uc[2] > 0
      BY <1>4, <1>11, <2>1 DEF ForgetsIn, Begun
    <3> QED  BY <1>2, <3>1, StepFields DEF CountIn, StatesTyped
  <2>4. InPayloadIn(a, w, 2) => a.uc[2] > 0
    BY <1>11 DEF InPayloadIn, Begun
  <2>5. ~RaisesIn(a, w)
    BY <1>10, <2>4, StepFields DEF StatesTyped
  <2> QED  BY <1>2, <1>6, <1>7, <1>8, <2>1, <2>2, <2>3, <2>5 DEF Begun
<1>12. CASE a.us[2] = "NONE" /\ w.Tu = "UPCHIRP" /\ w.win_len = N
  <2>1. b.us[2] = "PREAMBLE"
    BY <1>3, <1>9, <1>12 DEF AfterIn, DetectedIn, NextFrameIn, InPayloadIn, GoneIn
  <2>2. b.up[2] = w.power2 /\ PowerIn(a, w, 2) = w.power2
    BY <1>2, <1>3, <1>4, <1>5, <1>12, <2>1, StepFields DEF PowerIn
  <2>3. StrongIn(a, w, 2)
    BY <1>1, <1>7, <2>2 DEF StrongIn, Other
  <2>4. SeenIn(a, w, 2)
    BY <1>5, <1>12, <2>1, <2>3 DEF SeenIn
  <2>5. b.uc[2] > 0
    BY <1>2, <2>4, StepFields DEF CountIn, StatesTyped
  <2>6. ~InPayloadIn(a, w, 2)
    BY <1>12 DEF InPayloadIn
  <2>7. ~RaisesIn(a, w)
    BY <1>10, <2>6, StepFields DEF StatesTyped
  <2> QED  BY <1>2, <1>6, <1>7, <1>8, <2>1, <2>2, <2>5, <2>7 DEF Begun
<1> QED  BY <1>11, <1>12

\* The window that leads to the first symbol of a stronger second user.
LEMMA NewWindow ==
  ASSUME NEW a, NEW w \in WindowSet, StatesTyped(a), Quiet(a),
         w.power1 > 0, w.power2 = 0, w.Tu = "VOID", w.Ti1 = "VOID", Begun(a, 1, w.power1)
  PROVE  ~RaisesIn(a, w) /\ Quiet(Step(a, w)) /\ Begun(Step(a, w), 1, w.power1)
<1>1. w.power1 \in Nat /\ w.power2 \in Nat
  BY DEF WindowSet
<1>2. PICK b : b = Step(a, w)
  OBVIOUS
<1>3. /\ WinState(w, 1) = "VOID" /\ PowerOf(w, 1) = w.power1 /\ w.power1 # 0
      /\ WinState(w, 2) = "VOID" /\ PowerOf(w, 2) = 0
  BY <1>1 DEF WinState, PowerOf, Other
<1>4. ~GoneIn(a, w, 1) /\ ~InPayloadIn(a, w, 1) /\ ~InPayloadIn(a, w, 2)
  BY <1>3 DEF GoneIn, InPayloadIn
<1>5. b.us[1] = a.us[1] /\ b.us[2] = "NONE"
  BY <1>2, <1>3, <1>4, StepFields DEF FirstAfter, SecondAfter, AfterIn, DetectedIn, NextFrameIn, InPayloadIn,
     GoneIn, Begun, Quiet
<1>6. TrackedIn(a, w)[1] = b.us[1] /\ TrackedIn(a, w)[2] = b.us[2]
  BY <1>2, StepFields DEF TrackedIn
<1>7. b.up[1] = w.power1 /\ b.up[2] = 0
  BY <1>2, <1>4, <1>5, <1>6, StepFields DEF PowerIn, Begun, Quiet
<1>8. b.us[1] = "PREAMBLE" => b.uc[1] > 0
  <2>1. b.us[1] = "PREAMBLE" => ~ForgetsIn(a, w, 1) /\ a.uc[1] > 0
    BY <1>4, <1>5 DEF ForgetsIn, Begun
  <2> QED  BY <1>2, <2>1, StepFields DEF CountIn, StatesTyped
<1>9. ~RaisesIn(a, w)
  BY <1>4, StepFields
<1> QED  BY <1>2, <1>5, <1>7, <1>8, <1>9 DEF Begun, Quiet

\* The window that leads back to user 2 when a stronger user 1 has ended.
LEMMA PrevWindow ==
  ASSUME NEW a, NEW w \in WindowSet, StatesTyped(a),
         w.power1 = 0, w.power2 > 0, w.Tu = "VOID",
         a.us[2] \in {"PREAMBLE", "PAYLOAD"}, a.up[2] = w.power2,
         NEW p \in Nat, p > w.power2, Begun(a, 1, p)
  PROVE  /\ ~RaisesIn(a, w)
         /\ Step(a, w).us[2] = a.us[2] /\ Step(a, w).up[2] = w.power2
         /\ a.us[2] = "PREAMBLE" /\ (w.Ti1 = "UPCHIRP" \/ a.uc[2] > 0) => Step(a, w).uc[2] > 0
<1>1. w.power1 \in Nat /\ w.power2 \in Nat
  BY DEF WindowSet
<1>2. PICK b : b = Step(a, w)
  OBVIOUS
<1>3. /\ WinState(w, 1) = w.Ti1 /\ PowerOf(w, 1) = 0
      /\ WinState(w, 2) = "VOID" /\ PowerOf(w, 2) = w.power2 /\ w.power2 # 0
  BY <1>1 DEF WinState, PowerOf, Other
<1>4. ~GoneIn(a, w, 2) /\ ~InPayloadIn(a, w, 2)
  BY <1>3 DEF GoneIn, InPayloadIn
<1>5. TrackedIn(a, w)[1] = b.us[1] /\ TrackedIn(a, w)[2] = b.us[2]
  BY <1>2, StepFields DEF TrackedIn
<1>6. b.us[2] = a.us[2] /\ b.up[2] = w.power2 /\ PowerIn(a, w, 2) = w.power2
  <2>1. b.us[2] = a.us[2]
    BY <1>2, <1>3, <1>4, StepFields DEF SecondAfter, AfterIn, DetectedIn, NextFrameIn
  <2> QED  BY <1>2, <1>4, <1>5, <2>1, StepFields DEF PowerIn
<1>7. InPayloadIn(a, w, 1) => a.uc[1] > 0
  BY DEF InPayloadIn, Begun
<1>8. ~RaisesIn(a, w)
  BY <1>4, <1>7, StepFields DEF StatesTyped
<1>9. ASSUME w.Ti1 = "UPCHIRP", a.us[2] = "PREAMBLE" PROVE SeenIn(a, w, 2)
  <2>1. ~GoneIn(a, w, 1)
    BY <1>3, <1>9 DEF GoneIn
  <2>2. b.us[1] = "PREAMBLE" => a.us[1] = "PREAMBLE"
    BY <1>2, <1>3, <1>9, <2>1, StepFields DEF FirstAfter, AfterIn, DetectedIn, NextFrameIn, InPayloadIn, Begun
  <2>3. PowerIn(a, w, 1) = p
    BY <1>5, <2>1, <2>2 DEF PowerIn, Begun
  <2>4. ~StrongIn(a, w, 2)
    BY <1>1, <1>6, <2>3 DEF StrongIn, Other
  <2> QED  BY <1>5, <1>6, <1>9, <2>4 DEF SeenIn
<1>10. a.us[2] = "PREAMBLE" /\ (w.Ti1 = "UPCHIRP" \/ a.uc[2] > 0) => b.uc[2] > 0
  <2>1. a.us[2] = "PREAMBLE" => ~ForgetsIn(a, w, 2)
    BY <1>4 DEF ForgetsIn
  <2> QED  BY <1>2, <1>9, <2>1, StepFields DEF CountIn, StatesTyped
<1> QED  BY <1>2, <1>6, <1>8, <1>10

----------------------------------------------------------------------------
(***************************************************************************)
(* How the states of the two users, when all windows written so far are    *)
(* processed, keep pace with mu_synchro.                                   *)
(***************************************************************************)

\* What ml_aggreg needs to tell two users apart: a preamble, and powers that differ.
Distinguishable == NUp > 0 /\ \A p \in Powers : p[1] # p[2]

PayloadEnd == PayloadCount + PayloadSymbols * N

IdleStates(a) ==
  m_sync_state = "IDLE" =>
    \/ starts[1] < nread /\ starts[2] < nread
    \/ a.us[1] # "PREAMBLE" /\ Quiet(a) /\ m_power2 = 0

\* A frame without another is that of user 1.
SlotOne(a) ==
  LET f == user_u.frame IN
  /\ f \in 1 .. 2 /\ m_power1 = powers[f] /\ m_power2 = 0 /\ user_u.power = powers[f]
  /\ Quiet(a)
  /\ user_u.cnt >= 0 /\ starts[f] <= nread
  /\ user_u.cnt = 0 => a.us[1] # "PREAMBLE"
  /\ user_u.cnt > 0 => Begun(a, 1, m_power1) /\ starts[f] < nread
  /\ user_u.cnt >= PayloadCount + N => a.us[1] = "PAYLOAD"

\* User 2 as the one that the windows follow.
Followed(a) ==
  /\ user_u.cnt >= 0
  /\ user_u.cnt > 0 => Begun(a, 2, m_power2) /\ (a.us[2] = "PAYLOAD" => user_u.cnt >= PayloadCount)

\* The second frame is left.
SlotTwo(a) ==
  /\ ~Refused /\ m_power1 = 0 /\ m_power2 > 0
  /\ Followed(a)
  /\ user_u.cnt = 0 => a.us[2] = "NONE" /\ a.up[1] <= m_power2

SingleStates(a) == m_sync_state = "SINGLE_USER" => SlotOne(a) \/ SlotTwo(a)

NewStates(a) ==
  m_sync_state = "REALIGN_TO_NEW" =>
    /\ ~Refused /\ m_power2 > m_power1 /\ m_power1 > 0
    /\ Quiet(a) /\ Begun(a, 1, m_power1)
    /\ user_i.cnt = 0 /\ user_u.cnt >= PayloadCount /\ user_u.cnt < PayloadEnd

\* User 2 as the interferer: not yet begun, or found, or its upchirps seen.
Interferes(a) ==
  \/ user_i.cnt <= 0 /\ Quiet(a)
  \/ /\ user_i.cnt > 0 /\ a.up[2] = m_power2 /\ a.us[2] \in {"PREAMBLE", "PAYLOAD"}
     /\ user_i.cnt >= N /\ a.us[2] = "PREAMBLE" => a.uc[2] > 0
     /\ a.us[2] = "PAYLOAD" => user_i.cnt >= PayloadCount

\* The windows follow the first frame, the second is weaker.
WeakJoins(a) ==
  /\ ~Refused /\ m_power1 > m_power2 /\ m_power2 > 0
  /\ user_u.cnt >= PayloadCount /\ user_u.cnt < PayloadEnd + N
  /\ user_i.cnt > 0 - N /\ user_u.cnt >= user_i.cnt + PayloadCount
  /\ user_i.cnt <= 0 => user_u.cnt < PayloadEnd
  /\ Begun(a, 1, m_power1)
  /\ Interferes(a)

\* The windows follow the second frame, the first is weaker.
StrongJoins(a) ==
  /\ ~Refused /\ m_power2 > m_power1 /\ m_power1 > 0
  /\ user_i.cnt >= user_u.cnt + PayloadCount /\ user_i.cnt < PayloadEnd + N
  /\ Begun(a, 1, m_power1)
  /\ Followed(a)
  /\ user_u.cnt = 0 => Quiet(a)

MultiStates(a) == m_sync_state = "MULTI_USER" => WeakJoins(a) \/ StrongJoins(a)

PrevStates(a) ==
  m_sync_state = "REALIGN_TO_PREV" =>
    /\ ~Refused /\ m_power1 = 0 /\ m_power2 > 0
    /\ user_i.cnt > 0
    /\ \E p \in Nat : p > m_power2 /\ Begun(a, 1, p)
    /\ Interferes(a)

\* a is the state of ml_aggreg that belongs to the present state of mu_synchro.
KeepsPace(a) ==
  /\ StatesTyped(a)
  /\ IdleStates(a) /\ SingleStates(a) /\ NewStates(a) /\ MultiStates(a) /\ PrevStates(a)

\* A step of mu_synchro writes no window, or one that does not raise.
Moves(a, b) ==
  \/ windows' = windows /\ b = a
  \/ \E w \in WindowSet : windows' = Append(windows, w) /\ ~RaisesIn(a, w) /\ b = Step(a, w)

LEMMA TypeRanges ==
  ASSUME NUp > 0, NEW cnt \in Int
  PROVE  /\ PayloadEnd \in Nat /\ PayloadEnd >= PayloadCount + N /\ PayloadCount >= 4 * N
         /\ cnt < 0 => GetType(cnt) = "VOID"
         /\ cnt >= 0 /\ cnt < N => GetType(cnt) = "UPCHIRP"
         /\ GetType(cnt) = "UPCHIRP" => cnt >= 0 /\ cnt < PayloadCount
         /\ GetType(cnt) = "PAYLOAD" <=> cnt >= PayloadCount /\ cnt < PayloadEnd
         /\ cnt >= PayloadEnd => GetType(cnt) = "VOID"
         /\ GetType(cnt) = "VOID" /\ cnt >= 0 => cnt >= PayloadEnd
<1>1. PICK m \in Nat, q \in Nat : m = (NUp + 4) * N /\ q = PayloadCount /\ m <= q /\ q = m + N \div 4
  BY CountFacts, Sizes
<1>2. PICK a \in Nat, b \in Nat : /\ a = NUp * N /\ b = (NUp + 2) * N /\ a <= b /\ b <= m /\ a >= N
                                  /\ m = a + 4 * N
  <2>1. NUp * N \in Nat /\ (NUp + 2) * N = NUp * N + 2 * N /\ (NUp + 4) * N = NUp * N + 4 * N
    BY Sizes
  <2>2. PICK d \in Nat : NUp = d + 1
    <3>1. NUp - 1 \in Nat /\ NUp = (NUp - 1) + 1
      BY Sizes
    <3> QED  BY <3>1
  <2>3. (d + 1) * N = d * N + N /\ d * N \in Nat
    BY Sizes
  <2> QED  BY <1>1, <2>1, <2>2, <2>3, Sizes
<1>3. PICK p \in Nat : p = PayloadSymbols * N /\ p >= N
  <2>1. PICK d \in Nat : PayloadSymbols = d + 1
    <3>1. PayloadSymbols - 1 \in Nat /\ PayloadSymbols = (PayloadSymbols - 1) + 1
      BY MuAssumption
    <3> QED  BY <3>1
  <2>2. (d + 1) * N = d * N + N /\ d * N \in Nat
    BY Sizes
  <2> QED  BY <2>1, <2>2, Sizes
<1>4. GetType(cnt) = CASE cnt < 0             -> "VOID"
                       [] cnt \in 0 .. a - 1 -> "UPCHIRP"
                       [] cnt \in a .. b - 1 -> "SYNC_WORD"
                       [] cnt \in b .. m - 1 -> "DOWNCHIRP"
                       [] cnt \in m .. q - 1 -> "QUARTER_DOWN"
                       [] cnt \in q .. q + p - 1 -> "PAYLOAD"
                       [] OTHER -> "VOID"
  BY <1>1, <1>2, <1>3 DEF GetType
<1>5. PayloadEnd = q + p /\ PayloadCount = q /\ N \in Nat /\ N > 0
  BY <1>1, <1>3, Sizes DEF PayloadEnd
<1>6. q >= 4 * N
  BY <1>1, <1>2, <1>5, Sizes
<1> QED  BY <1>1, <1>2, <1>3, <1>4, <1>5, <1>6

LEMMA RefusedStays ==
  ASSUME UNCHANGED <<starts, powers>>
  PROVE  Refused' <=> Refused
BY DEF Refused, InPayloadOfFirst, PayloadStart, QuarterStart, FrameEnd, SymbolStart

\* The counts and powers, with their types.
LEMMA StateFacts ==
  ASSUME FramesTyped, SynchroTyped
  PROVE  /\ user_u.cnt \in Int /\ user_i.cnt \in Int /\ nread \in Nat
         /\ m_power1 \in Nat /\ m_power2 \in Nat
         /\ starts[1] \in Nat /\ starts[2] \in Nat
         /\ \A f \in 1 .. 2 : starts[f] \in Nat /\ powers[f] \in Nat /\ powers[f] > 0
         /\ \A c \in Int : /\ [user_u EXCEPT !.cnt = c].cnt = c
                           /\ [user_u EXCEPT !.cnt = c].frame = user_u.frame
                           /\ [user_u EXCEPT !.cnt = c].power = user_u.power
                           /\ [user_i EXCEPT !.cnt = c].cnt = c
                           /\ [user_i EXCEPT !.cnt = c].frame = user_i.frame
<1>1. user_u \in UserSet /\ user_i \in UserSet
  BY DEF SynchroTyped
<1>2. nread \in Nat /\ m_power1 \in Nat /\ m_power2 \in Nat
  BY MuAssumption DEF SynchroTyped
<1>3. \A f \in 1 .. 2 : starts[f] \in Nat /\ powers[f] \in Nat /\ powers[f] > 0
  BY FrameFacts
<1> QED  BY <1>1, <1>2, <1>3 DEF UserSet

LEMMA FirstUserPace ==
  ASSUME FramesTyped, SynchroTyped, UNCHANGED <<starts, powers>>, NEW a, KeepsPace(a), FirstUser
  PROVE  \E b : KeepsPace(b)' /\ Moves(a, b)
<1>1. PICK f \in 1 .. 2 : /\ TagsAhead = {f} /\ m_power1' = powers[f]
                          /\ user_u' = UserOf(f, 0) /\ nread' = nread + (starts[f] - nread)
  BY DEF FirstUser, Consume
<1>2. m_sync_state = "IDLE" /\ m_sync_state' = "SINGLE_USER" /\ m_power2' = m_power2 /\ windows' = windows
  BY DEF FirstUser
<1>3. starts[f] >= nread /\ nread' = starts[f] /\ starts[f] \in Nat /\ powers[f] \in Nat
  <2>1. starts[f] \in nread .. nread + SymbolItems - 1
    BY <1>1 DEF TagsAhead
  <2> QED  BY <1>1, <2>1, StateFacts, Sizes
<1>4. a.us[1] # "PREAMBLE" /\ Quiet(a) /\ m_power2 = 0
  BY <1>2, <1>3, StateFacts DEF KeepsPace, IdleStates
<1>5. /\ user_u'.frame = f /\ user_u'.cnt = 0 /\ user_u'.power = powers[f]
      /\ starts' = starts /\ powers' = powers
  BY <1>1 DEF UserOf
<1>6. PayloadCount \in Nat
  BY CountFacts
<1>7. SlotOne(a)'
  <2>1. ~(0 >= PayloadCount + N) /\ ~(0 > 0) /\ 0 >= 0
    BY <1>6, Sizes
  <2> QED  BY <1>1, <1>2, <1>3, <1>4, <1>5, <2>1 DEF SlotOne, Quiet, PayloadCount
<1>8. KeepsPace(a)'
  BY <1>2, <1>7 DEF KeepsPace, IdleStates, SingleStates, NewStates, MultiStates, PrevStates, StatesTyped
<1> QED  BY <1>2, <1>8 DEF Moves

LEMMA IdlePace ==
  ASSUME FramesTyped, SynchroTyped, UNCHANGED <<starts, powers>>, NEW a, KeepsPace(a), Idle
  PROVE  \E b : KeepsPace(b)' /\ Moves(a, b)
<1>1. /\ m_sync_state = "IDLE" /\ m_sync_state' = "IDLE" /\ m_power2' = m_power2 /\ windows' = windows
      /\ nread' = nread + SymbolItems /\ starts' = starts
  BY DEF Idle, Consume
<1>2. nread' >= nread /\ nread' \in Nat /\ nread \in Nat /\ starts[1] \in Nat /\ starts[2] \in Nat
  BY <1>1, StateFacts, Sizes
<1>3. IdleStates(a)'
  BY <1>1, <1>2 DEF KeepsPace, IdleStates, Quiet
<1>4. KeepsPace(a)'
  BY <1>1, <1>3 DEF KeepsPace, SingleStates, NewStates, MultiStates, PrevStates, StatesTyped
<1> QED  BY <1>1, <1>4 DEF Moves

LEMMA FrameEndsPace ==
  ASSUME FramesTyped, SynchroTyped, ~Refused => OneUser, NUp > 0, UNCHANGED <<starts, powers>>,
         NEW a, KeepsPace(a), FrameEnds
  PROVE  \E b : KeepsPace(b)' /\ Moves(a, b)
<1>1. /\ m_sync_state = "SINGLE_USER" /\ m_sync_state' = "IDLE" /\ m_power2' = 0 /\ windows' = windows
      /\ nread' = nread + SymbolItems /\ starts' = starts /\ GetType(user_u.cnt) = "VOID"
  BY DEF FrameEnds, Consume
<1>2. nread' >= nread /\ nread' \in Nat /\ nread \in Nat /\ starts[1] \in Nat /\ starts[2] \in Nat
  BY <1>1, StateFacts, Sizes
<1>3. PICK c \in Int : c = user_u.cnt
  BY StateFacts
<1>4. c >= 0 => c >= PayloadCount + N
  <2>1. c >= 0 => c >= PayloadEnd /\ PayloadEnd >= PayloadCount + N
    BY <1>1, <1>3, TypeRanges
  <2> QED  BY <1>3, <2>1, TypeRanges, CountFacts, Sizes
<1>5. CASE SlotOne(a)
  <2>1. a.us[1] = "PAYLOAD" /\ Quiet(a)
    BY <1>3, <1>4, <1>5 DEF SlotOne
  <2> QED  BY <1>1, <2>1 DEF KeepsPace, IdleStates, SingleStates, NewStates, MultiStates, PrevStates,
     StatesTyped, Quiet, Moves
<1>6. CASE SlotTwo(a)
  <2>1. OneUser /\ m_power1 = 0 /\ c >= 2
    <3>1. ~Refused /\ m_power1 = 0 /\ c >= 0
      BY <1>3, <1>6 DEF SlotTwo, Followed
    <3>2. PayloadCount >= 2 /\ PayloadCount \in Nat
      BY CountFacts, Sizes
    <3> QED  BY <1>3, <1>4, <3>1, <3>2, Sizes
  <2>2. PICK f \in 1 .. 2 : f = user_u.frame /\ starts[3 - f] < nread
    <3>1. user_u.frame \in 1 .. 2 /\ (starts[3 - user_u.frame] < nread \/ m_power1 = powers[1])
      BY <1>1, <2>1 DEF OneUser
    <3>2. powers[1] > 0
      BY StateFacts
    <3> QED  BY <2>1, <3>1, <3>2
  <2>3. nread - (starts[f] + c * OS) \in -OS .. OS
    BY <1>1, <1>3, <2>1, <2>2 DEF OneUser, CountNear, Near
  <2>4. starts[f] < nread
    BY <1>2, <2>1, <2>3, HasBegun
  <2>5. starts[1] < nread /\ starts[2] < nread
    BY <2>2, <2>4
  <2>6. starts[1] < nread' /\ starts[2] < nread'
    BY <1>2, <2>5
  <2> QED  BY <1>1, <2>6 DEF KeepsPace, IdleStates, SingleStates, NewStates, MultiStates, PrevStates,
     StatesTyped, Moves
<1> QED  BY <1>1, <1>5, <1>6 DEF KeepsPace, SingleStates

LEMMA IgnoreWeakPace ==
  ASSUME FramesTyped, SynchroTyped, UNCHANGED <<starts, powers>>, NEW a, KeepsPace(a), IgnoreWeak
  PROVE  \E b : KeepsPace(b)' /\ Moves(a, b)
<1>1. /\ m_sync_state = "SINGLE_USER" /\ m_sync_state' = "SINGLE_USER" /\ windows' = windows
      /\ m_power1' = m_power1 /\ m_power2' = m_power2 /\ user_u' = user_u
      /\ nread' = nread + m_item_to_consume /\ starts' = starts /\ powers' = powers
  BY DEF IgnoreWeak, SecondUser, Consume
<1>2. nread' >= nread /\ nread' \in Nat /\ nread \in Nat
  <2>1. m_item_to_consume \in Nat
    BY Sizes DEF SynchroTyped
  <2> QED  BY <1>1, <2>1, StateFacts
<1>3. SlotOne(a) => SlotOne(a)'
  <2>1. \A f \in 1 .. 2 : starts[f] <= nread => starts[f] <= nread'
    BY <1>2, StateFacts
  <2>2. \A f \in 1 .. 2 : starts[f] < nread => starts[f] < nread'
    BY <1>2, StateFacts
  <2> QED  BY <1>1, <2>1, <2>2 DEF SlotOne, Quiet, Begun
<1>4. SlotTwo(a) => SlotTwo(a)'
  BY <1>1, RefusedStays DEF SlotTwo, Followed, Begun
<1>5. KeepsPace(a)'
  BY <1>1, <1>3, <1>4 DEF KeepsPace, IdleStates, SingleStates, NewStates, MultiStates, PrevStates, StatesTyped
<1> QED  BY <1>1, <1>5 DEF Moves

LEMMA AcceptSecondPace ==
  ASSUME FramesTyped, SynchroTyped, ~Refused => OneUser, Distinguishable,
         UNCHANGED <<starts, powers>>, NEW a, KeepsPace(a), AcceptSecond
  PROVE  \E b : KeepsPace(b)' /\ Moves(a, b)
<1>1. PICK f \in TagsAhead :
        LET i == UserOf(f, 0) IN
        /\ ~TooWeak(f)
        /\ m_power1' = IF m_power1 = 0 THEN i.power ELSE m_power1
        /\ m_power2' = IF m_power1 # 0 /\ m_power2 = 0 THEN i.power ELSE m_power2
        /\ \/ /\ i.power > user_u.power /\ m_sync_state' = "REALIGN_TO_NEW" /\ user_i' = i
           \/ /\ i.power <= user_u.power
              /\ m_sync_state' = "MULTI_USER"
              /\ m_tau' = TauBetween(i, user_u)
              /\ user_i' = [i EXCEPT !.cnt = -Samples(m_tau')]
  BY DEF AcceptSecond
<1>2. /\ m_sync_state = "SINGLE_USER" /\ GetType(user_u.cnt) = "PAYLOAD"
      /\ windows' = windows /\ user_u' = user_u /\ starts' = starts /\ powers' = powers
  BY DEF AcceptSecond, SecondUser
<1>3. f \in 1 .. 2 /\ starts[f] >= nread
  <2>1. f \in 1 .. 2 /\ starts[f] \in nread .. nread + SymbolItems - 1
    BY DEF TagsAhead
  <2> QED  BY <2>1, StateFacts, Sizes
<1>4. UserOf(f, 0).power = powers[f] /\ UserOf(f, 0).cnt = 0
  BY DEF UserOf
<1>5. PICK c \in Int : c = user_u.cnt
  BY StateFacts
<1>6. c >= PayloadCount /\ c < PayloadEnd /\ c > 0 /\ PayloadCount > 0 /\ PayloadCount >= 4 * N
  <2>1. c >= PayloadCount /\ c < PayloadEnd /\ PayloadCount >= 4 * N
    BY <1>2, <1>5, TypeRanges DEF Distinguishable
  <2> QED  BY <2>1, CountFacts, Sizes
<1>7. SlotOne(a)
  <2>1. CASE SlotTwo(a)
    <3>1. OneUser /\ m_power1 = 0
      BY <2>1 DEF SlotTwo
    <3>2. m_power1 = powers[1]
      BY <1>2, <3>1, SecondFound
    <3> QED  BY <3>1, <3>2, StateFacts
  <2> QED  BY <1>2, <2>1 DEF KeepsPace, SingleStates
<1>8. PICK g \in 1 .. 2 : g = user_u.frame /\ m_power1 = powers[g] /\ user_u.power = powers[g]
                          /\ m_power2 = 0 /\ starts[g] < nread
  BY <1>5, <1>6, <1>7 DEF SlotOne
<1>9. f # g /\ powers[f] # powers[g]
  <2>1. f # g
    BY <1>3, <1>8, StateFacts
  <2>2. powers[1] # powers[2]
    BY DEF Distinguishable, FramesTyped
  <2> QED  BY <1>3, <1>8, <2>1, <2>2
<1>10. ~Refused
  <2>1. SUFFICES ASSUME Refused PROVE FALSE
    OBVIOUS
  <2>2. powers[2] < powers[1] - 3 /\ starts[2] >= PayloadStart(1)
    <3>1. PayloadStart(1) \in Nat /\ FrameEnd(1) \in Int
      <4>1. ((PayloadSymbols + 1) - 1) * SymbolItems \in Int
        BY Sizes
      <4>2. PayloadStart(1) \in Nat
        BY Places
      <4>3. FrameEnd(1) = PayloadStart(1) + ((PayloadSymbols + 1) - 1) * SymbolItems
        BY DEF FrameEnd, SymbolStart
      <4> QED  BY <4>1, <4>2, <4>3
    <3> QED  BY <2>1, <3>1, StateFacts DEF Refused, InPayloadOfFirst
  <2>3. starts[2] > starts[1]
    <3>1. PayloadStart(1) = starts[1] + (NUp + 4) * SymbolItems + SymbolItems \div 4
      BY Places
    <3> QED  BY <2>2, <3>1, StateFacts, CountFacts, Sizes
  <2>4. g = 1 /\ f = 2
    BY <1>3, <1>8, <1>9, <2>3, StateFacts
  <2>5. TooWeak(f)
    BY <1>8, <2>2, <2>4, StateFacts DEF TooWeak, PowerOfFirst
  <2> QED  BY <1>1, <2>5
<1>11. m_power1' = powers[g] /\ m_power2' = powers[f] /\ powers[f] \in Nat /\ powers[g] \in Nat
       /\ powers[f] > 0 /\ powers[g] > 0
  BY <1>1, <1>3, <1>4, <1>8, StateFacts
<1>12. Begun(a, 1, powers[g]) /\ Quiet(a)
  BY <1>5, <1>6, <1>7, <1>8 DEF SlotOne
<1>13. ~Refused'
  BY <1>10, RefusedStays
<1>14. CASE /\ powers[f] > powers[g] /\ m_sync_state' = "REALIGN_TO_NEW" /\ user_i' = UserOf(f, 0)
  <2>1. NewStates(a)'
    BY <1>2, <1>4, <1>5, <1>6, <1>11, <1>12, <1>13, <1>14 DEF NewStates, Begun, Quiet
  <2>2. KeepsPace(a)'
    BY <1>14, <2>1 DEF KeepsPace, IdleStates, SingleStates, MultiStates, PrevStates, StatesTyped
  <2> QED  BY <1>2, <2>2 DEF Moves
<1>15. CASE /\ powers[f] <= powers[g] /\ m_sync_state' = "MULTI_USER"
            /\ m_tau' = TauBetween(UserOf(f, 0), user_u)
            /\ user_i' = [UserOf(f, 0) EXCEPT !.cnt = -Samples(m_tau')]
  <2>1. PICK s \in Nat : s = Samples(m_tau') /\ s < N
    <3>1. UserOf(f, 0).sto \in Nat /\ user_u.sto \in Nat
      BY <1>3, FrameFacts DEF SynchroTyped, UserSet, UserOf
    <3>2. UserOf(f, 0).sto - user_u.sto - SymbolItems \div 4 \in Int
      BY <3>1, Sizes
    <3>3. m_tau' \in 0 .. SymbolItems - 1
      BY <1>15, <3>2, ModSymbols DEF TauBetween
    <3>4. PICK t \in 0 .. SymbolItems - 1 : t = m_tau'
      BY <3>3
    <3>5. Samples(t) \in 0 .. N /\ t - Samples(t) * OS \in 0 .. OS - 1
      BY <3>4, SamplesWithin, SamplesOf, Sizes
    <3>6. Samples(t) # N
      BY <3>4, <3>5, Sizes
    <3> QED  BY <3>4, <3>5, <3>6, Sizes
  <2>2. user_i'.cnt = 0 - s
    BY <1>15, <2>1 DEF UserOf
  <2>3. WeakJoins(a)'
    <3>1. user_i'.cnt > 0 - N /\ user_i'.cnt <= 0 /\ c >= user_i'.cnt + PayloadCount /\ c < PayloadEnd + N
      BY <1>6, <2>1, <2>2, Sizes, CountFacts, TypeRanges DEF Distinguishable
    <3>2. powers[g] > powers[f]
      BY <1>9, <1>11, <1>15
    <3> QED  BY <1>2, <1>5, <1>6, <1>11, <1>12, <1>13, <3>1, <3>2 DEF WeakJoins, Interferes, Begun, Quiet
  <2>4. KeepsPace(a)'
    BY <1>15, <2>3 DEF KeepsPace, IdleStates, SingleStates, NewStates, MultiStates, PrevStates, StatesTyped
  <2> QED  BY <1>2, <2>4 DEF Moves
<1>16. \/ powers[f] > powers[g] /\ m_sync_state' = "REALIGN_TO_NEW" /\ user_i' = UserOf(f, 0)
       \/ /\ powers[f] <= powers[g] /\ m_sync_state' = "MULTI_USER"
          /\ m_tau' = TauBetween(UserOf(f, 0), user_u)
          /\ user_i' = [UserOf(f, 0) EXCEPT !.cnt = -Samples(m_tau')]
  BY <1>1, <1>4, <1>8
<1> QED  BY <1>14, <1>15, <1>16

\* A window that is not empty is written.
LEMMA WindowWritten ==
  ASSUME nread \in Nat, NEW p1 \in Nat, NEW p2 \in Nat, NEW len \in 1 .. N, NEW Tu \in WindowTypes,
         NEW Ti1 \in WindowTypes, NEW Ti2 \in WindowTypes, NEW tau \in 0 .. SymbolItems,
         AddWindow(Window(p1, p2, len, Tu, Ti1, Ti2, tau))
  PROVE  \E w \in WindowSet :
           /\ windows' = Append(windows, w)
           /\ w.power1 = p1 /\ w.power2 = p2 /\ w.win_len = len /\ w.Tu = Tu /\ w.Ti1 = Ti1
           /\ w.Ti2 = Ti2 /\ w.tau = tau /\ w.at = nread
<1>1. PICK w : w = Window(p1, p2, len, Tu, Ti1, Ti2, tau)
  OBVIOUS
<1>2. /\ w.power1 = p1 /\ w.power2 = p2 /\ w.win_len = len /\ w.Tu = Tu /\ w.Ti1 = Ti1
      /\ w.Ti2 = Ti2 /\ w.tau = tau /\ w.at = nread
  BY <1>1 DEF Window
<1>3. w \in WindowSet
  BY <1>1 DEF Window, WindowSet
<1>4. len > 0
  BY Sizes
<1>5. windows' = Append(windows, w)
  BY <1>1, <1>2, <1>4 DEF AddWindow
<1> QED  BY <1>2, <1>3, <1>5

LEMMA SingleWindowPace ==
  ASSUME FramesTyped, SynchroTyped, NUp > 0, UNCHANGED <<starts, powers>>, NEW a, KeepsPace(a), SingleWindow
  PROVE  \E b : KeepsPace(b)' /\ Moves(a, b)
<1> DEFINE type == GetType(user_u.cnt)
           len == IF type = "QUARTER_DOWN" THEN N \div 4 ELSE N
<1>1. /\ m_sync_state = "SINGLE_USER" /\ m_sync_state' = "SINGLE_USER" /\ type # "VOID"
      /\ AddWindow(Window(m_power1, m_power2, len, type, "VOID", "VOID", len * OS))
      /\ user_u' = [user_u EXCEPT !.cnt = @ + len] /\ nread' = nread + len * OS
      /\ m_power1' = m_power1 /\ m_power2' = m_power2 /\ starts' = starts /\ powers' = powers
  BY DEF SingleWindow, Consume
<1>2. PICK c \in Int : c = user_u.cnt
  BY StateFacts
<1>3. type \in WindowTypes
  BY <1>2, TypeOfCount
<1>4. len \in 1 .. N /\ len * OS \in 0 .. SymbolItems /\ len * OS > 0 /\ len \in Nat /\ len > 0
  BY Sizes
<1>5. type = "UPCHIRP" => len = N
  OBVIOUS
<1>6. type = GetType(c)
  BY <1>2
<1> HIDE DEF type, len
<1>7. "VOID" \in WindowTypes
  BY DEF WindowTypes
<1>8. PICK w \in WindowSet :
        /\ windows' = Append(windows, w)
        /\ w.power1 = m_power1 /\ w.power2 = m_power2 /\ w.win_len = len /\ w.Tu = type
        /\ w.Ti1 = "VOID"
  BY <1>1, <1>3, <1>4, <1>7, WindowWritten, StateFacts, SMTT(60)
<1>9. user_u'.cnt = c + len /\ user_u'.frame = user_u.frame /\ user_u'.power = user_u.power
  <2>1. user_u' = [user_u EXCEPT !.cnt = c + len] /\ c + len \in Int
    BY <1>1, <1>2, <1>4
  <2> QED  BY <2>1, StateFacts
<1>10. /\ c = 0 => type = "UPCHIRP"
       /\ type = "UPCHIRP" => c < PayloadCount
       /\ type = "PAYLOAD" <=> c >= PayloadCount
       /\ PayloadCount \in Nat /\ PayloadCount >= 4 * N
  <2>1. PayloadCount \in Nat
    BY CountFacts
  <2>2. c = 0 => c < N
    BY Sizes
  <2> QED  BY <1>1, <1>2, <1>4, <1>6, <2>1, <2>2, TypeRanges
<1>11. PICK b : b = Step(a, w)
  OBVIOUS
<1>12. StatesTyped(b) /\ StatesTyped(a)
  BY <1>11, StepTyped DEF KeepsPace
<1>13. CASE SlotOne(a)
  <2>1. m_power1 > 0 /\ m_power2 = 0 /\ Quiet(a) /\ c >= 0
    BY <1>2, <1>13, StateFacts DEF SlotOne
  <2>2. \/ Begun(a, 1, w.power1) /\ (w.Tu = "UPCHIRP" => w.win_len = N)
        \/ a.us[1] # "PREAMBLE" /\ w.Tu = "UPCHIRP" /\ w.win_len = N
    BY <1>2, <1>5, <1>8, <1>10, <1>13, <2>1 DEF SlotOne
  <2>3. ~RaisesIn(a, w) /\ Quiet(b) /\ Begun(b, 1, m_power1) /\ (type = "PAYLOAD" => b.us[1] = "PAYLOAD")
    BY <1>1, <1>8, <1>11, <1>12, <2>1, <2>2, SoloOne
  <2>4. c + len >= PayloadCount + N => b.us[1] = "PAYLOAD"
    <3>1. c + len >= PayloadCount + N => c >= PayloadCount
      BY <1>4, <1>10, Sizes
    <3> QED  BY <1>10, <2>3, <3>1
  <2>5. SlotOne(b)'
    <3>1. starts[user_u.frame] < nread' /\ user_u.frame \in 1 .. 2
      <4>1. user_u.frame \in 1 .. 2 /\ starts[user_u.frame] <= nread
        BY <1>13 DEF SlotOne
      <4> QED  BY <1>1, <1>4, <4>1, StateFacts
    <3>2. c + len > 0 /\ c + len >= 0 /\ c + len # 0
      BY <1>4, <2>1
    <3>3. user_u.frame = user_u'.frame /\ m_power1' = powers'[user_u.frame]
      BY <1>1, <1>9, <1>13 DEF SlotOne
    <3>4. m_power2' = 0 /\ user_u'.power = powers'[user_u.frame]
      BY <1>1, <1>9, <1>13 DEF SlotOne
    <3>5. /\ user_u'.cnt >= 0 /\ user_u'.cnt # 0
          /\ user_u'.cnt >= PayloadCount' + N => b.us[1] = "PAYLOAD"
      BY <1>9, <2>4, <3>2 DEF PayloadCount
    <3>6. Begun(b, 1, m_power1') /\ starts'[user_u.frame] < nread'
      BY <1>1, <2>3, <3>1
    <3>7. starts'[user_u.frame] <= nread'
      BY <1>1, <3>1, StateFacts, <1>4
    <3> QED  BY <2>3, <3>1, <3>3, <3>4, <3>5, <3>6, <3>7 DEF SlotOne, Quiet, Begun
  <2>6. KeepsPace(b)'
    BY <1>1, <1>12, <2>5 DEF KeepsPace, IdleStates, SingleStates, NewStates, MultiStates, PrevStates,
       StatesTyped
  <2> QED  BY <1>8, <1>11, <2>3, <2>6 DEF Moves
<1>14. CASE SlotTwo(a)
  <2>1. m_power1 = 0 /\ m_power2 > 0 /\ c >= 0 /\ ~Refused
    BY <1>2, <1>14 DEF SlotTwo, Followed
  <2>2. \/ Begun(a, 2, w.power2) /\ (w.Tu = "UPCHIRP" => a.us[2] # "PAYLOAD")
        \/ a.us[2] = "NONE" /\ a.up[1] <= w.power2 /\ w.Tu = "UPCHIRP" /\ w.win_len = N
    <3>1. CASE c = 0
      BY <1>2, <1>5, <1>8, <1>10, <1>14, <3>1 DEF SlotTwo
    <3>2. CASE c # 0
      <4>1. Begun(a, 2, m_power2) /\ (a.us[2] = "PAYLOAD" => c >= PayloadCount)
        BY <1>2, <1>14, <2>1, <3>2 DEF SlotTwo, Followed
      <4> QED  BY <1>8, <1>10, <4>1
    <3> QED  BY <3>1, <3>2
  <2>3. /\ ~RaisesIn(a, w) /\ Begun(b, 2, m_power2)
        /\ b.us[2] = "PAYLOAD" => a.us[2] = "PAYLOAD" \/ type = "PAYLOAD"
    BY <1>8, <1>11, <1>12, <2>1, <2>2, SoloTwo
  <2>4. a.us[2] = "PAYLOAD" => c >= PayloadCount
    BY <1>2, <1>14, <2>1 DEF SlotTwo, Followed
  <2>5. b.us[2] = "PAYLOAD" => c + len >= PayloadCount
    BY <1>4, <1>10, <2>3, <2>4
  <2>6. c + len > 0 /\ c + len >= 0 /\ c + len # 0
    BY <1>4, <2>1
  <2>7. SlotTwo(b)'
    BY <1>1, <1>9, <2>1, <2>3, <2>5, <2>6, RefusedStays DEF SlotTwo, Followed, Begun, PayloadCount
  <2>8. KeepsPace(b)'
    BY <1>1, <1>12, <2>7 DEF KeepsPace, IdleStates, SingleStates, NewStates, MultiStates, PrevStates,
       StatesTyped
  <2> QED  BY <1>8, <1>11, <2>3, <2>8 DEF Moves
<1> QED  BY <1>1, <1>13, <1>14 DEF KeepsPace, SingleStates

\* A window that may be empty: none is written then.
LEMMA WindowOrNone ==
  ASSUME nread \in Nat, NEW p1 \in Nat, NEW p2 \in Nat, NEW len \in 0 .. N, NEW Tu \in WindowTypes,
         NEW Ti1 \in WindowTypes, NEW Ti2 \in WindowTypes, NEW tau \in 0 .. SymbolItems,
         AddWindow(Window(p1, p2, len, Tu, Ti1, Ti2, tau))
  PROVE  \/ len = 0 /\ windows' = windows
         \/ \E w \in WindowSet :
              /\ windows' = Append(windows, w) /\ len > 0
              /\ w.power1 = p1 /\ w.power2 = p2 /\ w.Tu = Tu /\ w.Ti1 = Ti1
<1>1. CASE len = 0
  BY <1>1 DEF AddWindow, Window
<1>2. CASE len > 0
  <2>1. len \in 1 .. N
    BY <1>2, Sizes
  <2>2. \E w \in WindowSet :
          /\ windows' = Append(windows, w)
          /\ w.power1 = p1 /\ w.power2 = p2 /\ w.win_len = len /\ w.Tu = Tu /\ w.Ti1 = Ti1
          /\ w.Ti2 = Ti2 /\ w.tau = tau /\ w.at = nread
    BY <2>1, WindowWritten
  <2> QED  BY <1>2, <2>2
<1>3. len = 0 \/ len > 0
  BY Sizes
<1> QED  BY <1>1, <1>2, <1>3

LEMMA RealignToNewPace ==
  ASSUME FramesTyped, SynchroTyped, NUp > 0, UNCHANGED <<starts, powers>>, NEW a, KeepsPace(a), RealignToNew
  PROVE  \E b : KeepsPace(b)' /\ Moves(a, b)
<1>1. /\ m_sync_state = "REALIGN_TO_NEW" /\ m_sync_state' = "MULTI_USER"
      /\ m_power1' = m_power1 /\ m_power2' = m_power2 /\ starts' = starts /\ powers' = powers
      /\ user_u' = user_i
  BY DEF RealignToNew
<1>2. NewStates(a) /\ StatesTyped(a)
  BY DEF KeepsPace
<1>3. PICK c \in Int : c = user_u.cnt
  BY StateFacts
<1>4. /\ ~Refused /\ m_power2 > m_power1 /\ m_power1 > 0 /\ Quiet(a) /\ Begun(a, 1, m_power1)
      /\ user_i.cnt = 0 /\ c >= PayloadCount /\ c < PayloadEnd
  BY <1>1, <1>2, <1>3 DEF NewStates
<1>5. PICK d \in 0 .. SymbolItems - 1 : d = TauBetween(user_i, user_u)
  <2>1. user_i.sto - user_u.sto - SymbolItems \div 4 \in Int
    BY Sizes DEF SynchroTyped, UserSet
  <2> QED  BY <2>1, ModSymbols DEF TauBetween
<1>6. PICK s \in 0 .. N : s = Samples(d)
  <2>1. d \in 0 .. SymbolItems
    BY <1>5, Sizes
  <2> QED  BY <2>1, SamplesWithin
<1>7. m_tau' \in 0 .. SymbolItems
  <2>1. m_tau' = (SymbolItems - d) % SymbolItems /\ SymbolItems - d \in Int
    BY <1>5, Sizes DEF RealignToNew
  <2> QED  BY <2>1, TauTyped
<1>8. AddWindow(Window(m_power1, 0, s, "VOID", "VOID", GetType(user_u.cnt), m_tau'))
  <2>1. ~(m_power1 > m_power2)
    BY <1>4, StateFacts
  <2>2. AddWindow(Window(IF m_power1 > m_power2 THEN 0 ELSE m_power1,
                         IF m_power1 > m_power2 THEN m_power2 ELSE 0,
                         s, "VOID", "VOID", GetType(user_u.cnt), m_tau'))
    BY <1>5, <1>6 DEF RealignToNew
  <2> QED  BY <2>1, <2>2
<1>9. user_i'.cnt = c + s
  <2>1. user_i' = [user_u EXCEPT !.cnt = c + s] /\ c + s \in Int
    BY <1>3, <1>5, <1>6, Sizes DEF RealignToNew
  <2> QED  BY <2>1, StateFacts
<1>10. user_u'.cnt = 0 /\ PayloadCount \in Nat /\ PayloadEnd \in Nat
  BY <1>1, <1>4, CountFacts, TypeRanges
<1>11. c + s >= 0 + PayloadCount /\ c + s < PayloadEnd + N
  BY <1>4, <1>6, <1>10, Sizes
<1>12. ASSUME NEW b, StatesTyped(b), Quiet(b), Begun(b, 1, m_power1) PROVE KeepsPace(b)'
  <2>1. StrongJoins(b)'
    <3>1. ~Refused' /\ m_power2' > m_power1' /\ m_power1' > 0 /\ Begun(b, 1, m_power1') /\ Quiet(b)
      BY <1>1, <1>4, <1>12, RefusedStays
    <3>2. user_i'.cnt >= user_u'.cnt + PayloadCount' /\ user_i'.cnt < PayloadEnd' + N
      BY <1>9, <1>10, <1>11 DEF PayloadCount, PayloadEnd
    <3>3. Followed(b)'
      BY <1>10 DEF Followed
    <3> QED  BY <3>1, <3>2, <3>3 DEF StrongJoins, Begun, Quiet
  <2> QED
    BY <1>1, <1>12, <2>1 DEF KeepsPace, IdleStates, SingleStates, NewStates, MultiStates, PrevStates,
       StatesTyped
<1>13. CASE windows' = windows
  <2>1. KeepsPace(a)'
    BY <1>2, <1>4, <1>12
  <2> QED  BY <1>13, <2>1 DEF Moves
<1>14. CASE \E w \in WindowSet :
              /\ windows' = Append(windows, w) /\ s > 0
              /\ w.power1 = m_power1 /\ w.power2 = 0 /\ w.Tu = "VOID" /\ w.Ti1 = "VOID"
  <2>1. PICK w \in WindowSet :
              /\ windows' = Append(windows, w)
              /\ w.power1 = m_power1 /\ w.power2 = 0 /\ w.Tu = "VOID" /\ w.Ti1 = "VOID"
    BY <1>14
  <2>2. PICK b : b = Step(a, w)
    OBVIOUS
  <2>3. ~RaisesIn(a, w) /\ Quiet(b) /\ Begun(b, 1, m_power1)
    BY <1>2, <1>4, <2>1, <2>2, NewWindow
  <2>4. StatesTyped(b)
    BY <1>2, <2>2, StepTyped
  <2>5. KeepsPace(b)'
    BY <1>12, <2>3, <2>4
  <2> QED  BY <2>1, <2>2, <2>3, <2>5 DEF Moves
<1>15. "VOID" \in WindowTypes /\ GetType(user_u.cnt) \in WindowTypes
  BY <1>3, TypeOfCount DEF WindowTypes
<1>16. nread \in Nat /\ m_power1 \in Nat /\ 0 \in Nat
  BY StateFacts
<1> QED  BY <1>7, <1>8, <1>13, <1>14, <1>15, <1>16, WindowOrNone

LEMMA RealignToPrevPace ==
  ASSUME FramesTyped, SynchroTyped, ~Refused => TwoUsers, NUp > 0, UNCHANGED <<starts, powers>>,
         NEW a, KeepsPace(a), RealignToPrev
  PROVE  \E b : KeepsPace(b)' /\ Moves(a, b)
<1>1. /\ m_sync_state = "REALIGN_TO_PREV" /\ m_sync_state' = "SINGLE_USER"
      /\ m_power1' = m_power1 /\ m_power2' = m_power2 /\ starts' = starts /\ powers' = powers
  BY DEF RealignToPrev
<1>2. PrevStates(a) /\ StatesTyped(a)
  BY DEF KeepsPace
<1>3. PICK c \in Int : c = user_i.cnt
  BY StateFacts
<1>4. PICK p \in Nat : p > m_power2 /\ Begun(a, 1, p)
  BY <1>1, <1>2 DEF PrevStates
<1>5. /\ ~Refused /\ m_power1 = 0 /\ m_power2 > 0 /\ c > 0 /\ Interferes(a)
  BY <1>1, <1>2, <1>3 DEF PrevStates
<1>6. /\ a.up[2] = m_power2 /\ a.us[2] \in {"PREAMBLE", "PAYLOAD"}
      /\ c >= N /\ a.us[2] = "PREAMBLE" => a.uc[2] > 0
      /\ a.us[2] = "PAYLOAD" => c >= PayloadCount
  BY <1>3, <1>5 DEF Interferes
<1>7. PICK s \in 0 .. N : s = Samples(m_tau)
  <2>1. m_tau \in 0 .. SymbolItems
    BY DEF SynchroTyped
  <2> QED  BY <2>1, SamplesWithin
<1>8. c + s >= N
  <2>1. \/ \E k \in 0 .. NUp + 4 : c + s = k * N
        \/ c + s >= PayloadCount
    BY <1>1, <1>3, <1>5, <1>7 DEF TwoUsers, TauToSymbol, NextSymbolCount
  <2>2. CASE \E k \in 0 .. NUp + 4 : c + s = k * N
    <3>1. PICK k \in 0 .. NUp + 4 : c + s = k * N
      BY <2>2
    <3>2. k # 0
      <4>1. 0 * N = 0
        BY Sizes
      <4> QED  BY <1>5, <1>7, <3>1, <4>1, Sizes
    <3>3. PICK d \in Nat : k = d + 1
      <4>1. k - 1 \in Nat /\ k = (k - 1) + 1
        BY <3>2, Sizes
      <4> QED  BY <4>1
    <3>4. (d + 1) * N = d * N + N /\ d * N \in Nat
      BY Sizes
    <3> QED  BY <3>1, <3>3, <3>4, Sizes
  <2>3. CASE c + s >= PayloadCount
    <3>1. PayloadCount >= 4 * N
      BY TypeRanges
    <3> QED  BY <1>7, <2>3, <3>1, CountFacts, Sizes
  <2> QED  BY <2>1, <2>2, <2>3
<1>9. user_u'.cnt = c + s
  <2>1. user_u' = [user_i EXCEPT !.cnt = c + s] /\ c + s \in Int
    BY <1>3, <1>7, Sizes DEF RealignToPrev
  <2> QED  BY <2>1, StateFacts
<1>10. PayloadCount \in Nat /\ c + s >= c /\ c + s > 0 /\ c + s >= 0 /\ c + s # 0
  BY <1>5, <1>7, CountFacts, Sizes
<1>11. a.us[2] = "PAYLOAD" => c + s >= PayloadCount
  BY <1>6, <1>7, <1>10, Sizes
<1>12. ASSUME NEW b, StatesTyped(b), b.us[2] = a.us[2], b.up[2] = m_power2,
              b.us[2] = "PREAMBLE" => b.uc[2] > 0
       PROVE  KeepsPace(b)'
  <2>1. Begun(b, 2, m_power2')
    BY <1>1, <1>6, <1>12 DEF Begun
  <2>2. ~Refused' /\ m_power1' = 0 /\ m_power2' > 0
    BY <1>1, <1>5, RefusedStays
  <2>3. user_u'.cnt >= 0 /\ user_u'.cnt # 0 /\ (b.us[2] = "PAYLOAD" => user_u'.cnt >= PayloadCount')
    BY <1>9, <1>10, <1>11, <1>12 DEF PayloadCount
  <2>4. SlotTwo(b)'
    BY <2>1, <2>2, <2>3 DEF SlotTwo, Followed, Begun
  <2> QED
    BY <1>1, <1>12, <2>4 DEF KeepsPace, IdleStates, SingleStates, NewStates, MultiStates, PrevStates,
       StatesTyped
<1>13. CASE s = 0 /\ windows' = windows
  <2>1. c >= N
    BY <1>8, <1>13
  <2>2. KeepsPace(a)'
    BY <1>2, <1>6, <1>12, <2>1
  <2> QED  BY <1>13, <2>2 DEF Moves
<1>14. CASE \E w \in WindowSet :
              /\ windows' = Append(windows, w) /\ s > 0
              /\ w.power1 = m_power1 /\ w.power2 = m_power2 /\ w.Tu = "VOID" /\ w.Ti1 = GetType(c)
  <2>1. PICK w \in WindowSet :
              /\ windows' = Append(windows, w)
              /\ w.power1 = m_power1 /\ w.power2 = m_power2 /\ w.Tu = "VOID" /\ w.Ti1 = GetType(c)
    BY <1>14
  <2>2. PICK b : b = Step(a, w)
    OBVIOUS
  <2>3. /\ ~RaisesIn(a, w) /\ b.us[2] = a.us[2] /\ b.up[2] = m_power2
        /\ a.us[2] = "PREAMBLE" /\ (w.Ti1 = "UPCHIRP" \/ a.uc[2] > 0) => b.uc[2] > 0
    <3>1. w.power1 = 0 /\ w.power2 > 0 /\ a.up[2] = w.power2 /\ p > w.power2
      BY <1>4, <1>5, <1>6, <2>1
    <3> QED  BY <1>2, <1>4, <1>6, <2>1, <2>2, <3>1, PrevWindow
  <2>4. b.us[2] = "PREAMBLE" => b.uc[2] > 0
    <3>1. c >= N \/ (c >= 0 /\ c < N)
      BY <1>5, Sizes
    <3>2. c >= N \/ w.Ti1 = "UPCHIRP"
      BY <2>1, <3>1, TypeRanges
    <3> QED  BY <1>6, <2>3, <3>2
  <2>5. StatesTyped(b)
    BY <1>2, <2>2, StepTyped
  <2>6. KeepsPace(b)'
    BY <1>12, <2>3, <2>4, <2>5
  <2> QED  BY <2>1, <2>2, <2>3, <2>6 DEF Moves
<1>15. "VOID" \in WindowTypes /\ GetType(c) \in WindowTypes
  BY TypeOfCount DEF WindowTypes
<1>16. nread \in Nat /\ m_power1 \in Nat /\ m_power2 \in Nat /\ m_tau \in 0 .. SymbolItems
  BY StateFacts DEF SynchroTyped
<1>17. AddWindow(Window(m_power1, m_power2, s, "VOID", GetType(c), "VOID", m_tau))
  BY <1>3, <1>7 DEF RealignToPrev
<1> QED  BY <1>13, <1>14, <1>15, <1>16, <1>17, WindowOrNone

LEMMA UserEndsPace ==
  ASSUME FramesTyped, SynchroTyped, NUp > 0, UNCHANGED <<starts, powers>>, NEW a, KeepsPace(a), UserEnds
  PROVE  \E b : KeepsPace(b)' /\ Moves(a, b)
<1>1. /\ m_sync_state = "MULTI_USER" /\ windows' = windows /\ user_u' = user_u /\ user_i' = user_i
      /\ starts' = starts /\ powers' = powers
  BY DEF UserEnds
<1>2. (WeakJoins(a) \/ StrongJoins(a)) /\ StatesTyped(a)
  BY <1>1 DEF KeepsPace, MultiStates
<1>3. PICK c \in Int, d \in Int : c = user_u.cnt /\ d = user_i.cnt
  BY StateFacts
<1>4. PICK q \in Nat, e \in Nat : q = PayloadCount /\ e = PayloadEnd /\ q >= 4 * N
  BY CountFacts, TypeRanges
<1>5. /\ SynchronisedEnds /\ c >= 0 => c >= e
      /\ InterfererEnds => d >= e
  BY <1>3, <1>4, TypeRanges DEF SynchronisedEnds, InterfererEnds
<1>6. m_power1 \in Nat /\ m_power2 \in Nat
  BY StateFacts
<1>7. CASE WeakJoins(a)
  <2>1. /\ ~Refused /\ m_power1 > m_power2 /\ m_power2 > 0 /\ Begun(a, 1, m_power1) /\ Interferes(a)
        /\ c >= q /\ c < e + N /\ c >= d + q /\ (d <= 0 => c < e)
    BY <1>3, <1>4, <1>7 DEF WeakJoins
  <2>2. ~InterfererEnds
    BY <1>3, <1>4, <1>5, <2>1, Sizes
  <2>3. SynchronisedEnds /\ m_power1' = 0 /\ m_power2' = m_power2 /\ m_sync_state' = "REALIGN_TO_PREV"
    BY <2>1, <2>2 DEF UserEnds
  <2>4. d > 0
    BY <1>3, <1>4, <1>5, <2>1, <2>3
  <2>5. PrevStates(a)'
    <3>1. ~Refused'
      BY <1>1, <2>1, RefusedStays
    <3>2. Interferes(a)'
      BY <1>1, <2>1, <2>3 DEF Interferes, Quiet, PayloadCount
    <3>3. user_i'.cnt > 0
      BY <1>1, <1>3, <2>4
    <3>4. \E p \in Nat : p > m_power2' /\ Begun(a, 1, p)
      BY <1>6, <2>1, <2>3
    <3> QED  BY <2>1, <2>3, <3>1, <3>2, <3>3, <3>4 DEF PrevStates, Begun
  <2>6. KeepsPace(a)'
    BY <1>2, <2>3, <2>5 DEF KeepsPace, IdleStates, SingleStates, NewStates, MultiStates, StatesTyped
  <2> QED  BY <1>1, <2>6 DEF Moves
<1>8. CASE StrongJoins(a)
  <2>1. /\ ~Refused /\ m_power2 > m_power1 /\ m_power1 > 0 /\ Begun(a, 1, m_power1) /\ Followed(a)
        /\ c >= 0 /\ d >= c + q /\ d < e + N /\ (c = 0 => Quiet(a))
    BY <1>3, <1>4, <1>8 DEF StrongJoins, Followed
  <2>2. ~SynchronisedEnds
    BY <1>3, <1>4, <1>5, <2>1, Sizes
  <2>3. ~(m_power1 > m_power2)
    BY <1>6, <2>1
  <2>4. m_power1' = 0 /\ m_power2' = m_power2 /\ m_sync_state' = "SINGLE_USER"
    BY <2>2, <2>3 DEF UserEnds
  <2>5. SlotTwo(a)'
    <3>1. ~Refused'
      BY <1>1, <2>1, RefusedStays
    <3>2. Followed(a)'
      BY <1>1, <2>1, <2>4 DEF Followed, Begun, PayloadCount
    <3>3. c = 0 => a.us[2] = "NONE" /\ a.up[1] <= m_power2
      BY <1>6, <2>1 DEF Quiet, Begun
    <3>4. m_power2' > 0
      BY <1>6, <2>1, <2>4
    <3> QED  BY <1>1, <1>3, <2>4, <3>1, <3>2, <3>3, <3>4 DEF SlotTwo
  <2>6. KeepsPace(a)'
    BY <1>2, <2>4, <2>5 DEF KeepsPace, IdleStates, SingleStates, NewStates, MultiStates, PrevStates,
       StatesTyped
  <2> QED  BY <1>1, <2>6 DEF Moves
<1> QED  BY <1>2, <1>7, <1>8

\* In the windows of both users the followed one moves on by the length of the window.
LEMMA MultiWindowWritten ==
  ASSUME FramesTyped, SynchroTyped, m_sync_state = "MULTI_USER", MultiWindow
  PROVE  \E len \in {N, N \div 4}, w \in WindowSet :
           /\ windows' = Append(windows, w)
           /\ w.power1 = m_power1 /\ w.power2 = m_power2 /\ w.win_len = len
           /\ w.Tu = GetType(user_u.cnt)
           /\ len # N => GetType(user_u.cnt) = "QUARTER_DOWN"
           /\ \/ w.Ti1 = GetType(user_i.cnt)
              \/ w.Ti1 = "DOWNCHIRP" /\ GetType(user_i.cnt + Samples(m_tau)) = "QUARTER_DOWN"
           /\ user_u'.cnt = user_u.cnt + len /\ user_i'.cnt = user_i.cnt + len
<1>1. PICK len, Ti1, tau :
        /\ len \in {N, N \div 4} /\ Both(len, Ti1, tau)
        /\ len # N => GetType(user_u.cnt) = "QUARTER_DOWN"
        /\ \/ Ti1 = GetType(user_i.cnt)
           \/ Ti1 = "DOWNCHIRP" /\ GetType(user_i.cnt + Samples(m_tau)) = "QUARTER_DOWN"
        /\ tau = m_tau \/ tau = m_tau'
  BY DEF MultiWindow
<1>2. m_tau \in 0 .. SymbolItems /\ m_tau' \in 0 .. SymbolItems
  <2>1. m_tau \in 0 .. SymbolItems
    BY DEF SynchroTyped
  <2>2. \/ m_tau' = m_tau
        \/ m_tau' = (m_tau - SymbolItems \div 4) % SymbolItems
        \/ m_tau' = (m_tau + SymbolItems \div 4) % SymbolItems
    BY DEF MultiWindow
  <2>3. m_tau - SymbolItems \div 4 \in Int /\ m_tau + SymbolItems \div 4 \in Int
    BY <2>1, Sizes
  <2> QED  BY <2>1, <2>2, <2>3, TauTyped
<1>3. tau \in 0 .. SymbolItems
  BY <1>1, <1>2
<1>4. len \in 1 .. N /\ len \in Int
  BY <1>1, Sizes
<1>5. user_u.cnt \in Int /\ user_i.cnt \in Int /\ nread \in Nat /\ m_power1 \in Nat /\ m_power2 \in Nat
  BY StateFacts
<1>6. /\ GetType(user_u.cnt) \in WindowTypes /\ GetType(user_i.cnt) \in WindowTypes
      /\ "DOWNCHIRP" \in WindowTypes
  BY <1>5, TypeOfCount DEF WindowTypes
<1>7. GetType(user_i.cnt + SamplesUp(tau)) \in WindowTypes
  <2>1. SamplesUp(tau) \in Int
    <3>1. tau + OS - 1 \in Int
      BY <1>3, Sizes
    <3>2. Samples(tau + OS - 1) \in Int
      BY <3>1, SamplesOf
    <3> QED  BY <3>2 DEF SamplesUp, Samples
  <2>2. user_i.cnt + SamplesUp(tau) \in Int
    BY <1>5, <2>1
  <2> QED  BY <2>2, TypeOfCount
<1>8. AddWindow(Window(m_power1, m_power2, len, GetType(user_u.cnt), Ti1,
                       GetType(user_i.cnt + SamplesUp(tau)), tau))
  BY <1>1 DEF Both
<1>9. Ti1 \in WindowTypes
  BY <1>1, <1>6
<1>10. PICK w \in WindowSet :
         /\ windows' = Append(windows, w)
         /\ w.power1 = m_power1 /\ w.power2 = m_power2 /\ w.win_len = len
         /\ w.Tu = GetType(user_u.cnt) /\ w.Ti1 = Ti1
  <2>1. PICK Tu \in WindowTypes, Ti2 \in WindowTypes, p1 \in Nat, p2 \in Nat :
          /\ Tu = GetType(user_u.cnt) /\ Ti2 = GetType(user_i.cnt + SamplesUp(tau))
          /\ p1 = m_power1 /\ p2 = m_power2
    BY <1>5, <1>6, <1>7
  <2>2. AddWindow(Window(p1, p2, len, Tu, Ti1, Ti2, tau))
    BY <1>8, <2>1
  <2> QED  BY <1>3, <1>4, <1>5, <1>9, <2>1, <2>2, WindowWritten, SMTT(60)
<1>11. user_u'.cnt = user_u.cnt + len /\ user_i'.cnt = user_i.cnt + len
  <2>1. /\ user_u' = [user_u EXCEPT !.cnt = user_u.cnt + len]
        /\ user_i' = [user_i EXCEPT !.cnt = user_i.cnt + len]
    BY <1>1 DEF Both
  <2>2. user_u.cnt + len \in Int /\ user_i.cnt + len \in Int
    BY <1>4, <1>5
  <2> QED  BY <2>1, <2>2, StateFacts
<1> QED  BY <1>1, <1>10, <1>11

LEMMA MultiWindowPace ==
  ASSUME FramesTyped, SynchroTyped, NUp > 0, UNCHANGED <<starts, powers>>, NEW a, KeepsPace(a), MultiWindow
  PROVE  \E b : KeepsPace(b)' /\ Moves(a, b)
<1>1. /\ m_sync_state = "MULTI_USER" /\ m_sync_state' = "MULTI_USER"
      /\ m_power1' = m_power1 /\ m_power2' = m_power2 /\ starts' = starts /\ powers' = powers
      /\ ~SynchronisedEnds /\ ~InterfererEnds
  BY DEF MultiWindow
<1>2. (WeakJoins(a) \/ StrongJoins(a)) /\ StatesTyped(a)
  BY <1>1 DEF KeepsPace, MultiStates
<1>3. PICK c \in Int, d \in Int : c = user_u.cnt /\ d = user_i.cnt
  BY StateFacts
<1>4. PICK q \in Nat, e \in Nat : q = PayloadCount /\ e = PayloadEnd /\ q >= 4 * N
  BY CountFacts, TypeRanges
<1>5. PICK s \in 0 .. N : s = Samples(m_tau)
  <2>1. m_tau \in 0 .. SymbolItems
    BY DEF SynchroTyped
  <2> QED  BY <2>1, SamplesWithin
<1>6. PICK len \in {N, N \div 4}, w \in WindowSet :
        /\ windows' = Append(windows, w)
        /\ w.power1 = m_power1 /\ w.power2 = m_power2 /\ w.win_len = len
        /\ w.Tu = GetType(c)
        /\ len # N => GetType(c) = "QUARTER_DOWN"
        /\ \/ w.Ti1 = GetType(d)
           \/ w.Ti1 = "DOWNCHIRP" /\ GetType(d + s) = "QUARTER_DOWN"
        /\ user_u'.cnt = c + len /\ user_i'.cnt = d + len
  BY <1>1, <1>3, <1>5, MultiWindowWritten
<1>7. len \in Nat /\ len > 0 /\ len <= N /\ N \in Nat /\ N > 0
  BY Sizes
<1>8. m_power1 \in Nat /\ m_power2 \in Nat
  BY StateFacts
<1>9. PICK b : b = Step(a, w)
  OBVIOUS
<1>10. StatesTyped(b)
  BY <1>2, <1>9, StepTyped
<1>11. /\ GetType(c) # "VOID"
       /\ d >= 0 => GetType(d) # "VOID"
  BY <1>1, <1>3 DEF SynchronisedEnds, InterfererEnds
<1>12. CASE WeakJoins(a)
  <2>1. /\ ~Refused /\ m_power1 > m_power2 /\ m_power2 > 0 /\ Begun(a, 1, m_power1) /\ Interferes(a)
        /\ c >= q /\ c < e + N /\ c >= d + q /\ d > 0 - N
    BY <1>3, <1>4, <1>12 DEF WeakJoins
  <2>2. \/ d <= 0 /\ Quiet(a)
        \/ /\ d > 0 /\ a.up[2] = m_power2 /\ a.us[2] \in {"PREAMBLE", "PAYLOAD"}
           /\ d >= N /\ a.us[2] = "PREAMBLE" => a.uc[2] > 0
           /\ a.us[2] = "PAYLOAD" => d >= q
    BY <1>3, <1>4, <2>1 DEF Interferes
  <2>3. GetType(c) = "PAYLOAD" /\ c < e
    BY <1>4, <1>11, <2>1, TypeRanges
  <2>4. len = N
    BY <1>6, <2>3
  <2>5. w.Ti1 = "PAYLOAD" => d >= q
    BY <1>4, <1>6, TypeRanges
  <2>6. w.Ti1 = "PAYLOAD" /\ a.us[2] = "PREAMBLE" => a.uc[2] > 0
    BY <1>4, <1>7, <2>2, <2>5 DEF Quiet
  <2>7. /\ ~RaisesIn(a, w) /\ Begun(b, 1, m_power1)
        /\ b.us[2] \in {"PREAMBLE", "PAYLOAD"} /\ b.up[2] = m_power2
        /\ b.us[2] = "PAYLOAD" => a.us[2] = "PAYLOAD" \/ w.Ti1 = "PAYLOAD"
        /\ b.us[2] = "PREAMBLE" => a.us[2] # "PAYLOAD"
        /\ b.us[2] = "PREAMBLE" /\ w.Ti1 = "UPCHIRP" => b.uc[2] > 0
        /\ b.us[2] = "PREAMBLE" /\ a.us[2] = "PREAMBLE" /\ a.uc[2] > 0 => b.uc[2] > 0
    <3>1. /\ w.power1 > w.power2 /\ w.power2 > 0 /\ w.Tu = "PAYLOAD" /\ Begun(a, 1, w.power1)
          /\ Quiet(a) \/ (a.us[2] \in {"PREAMBLE", "PAYLOAD"} /\ a.up[2] = w.power2)
      BY <1>6, <2>1, <2>2, <2>3
    <3> QED  BY <1>2, <1>6, <1>9, <2>6, <3>1, BothWeak
  <2>8. 0 <= d /\ d < N => w.Ti1 = "UPCHIRP"
    <3>1. SUFFICES ASSUME 0 <= d, d < N PROVE w.Ti1 = "UPCHIRP"
      OBVIOUS
    <3>2. GetType(d) = "UPCHIRP"
      BY <3>1, TypeRanges
    <3>3. d + s < (NUp + 4) * N
      <4>1. (NUp + 4) * N = NUp * N + 4 * N /\ NUp * N \in Nat
        BY Sizes
      <4> QED  BY <1>5, <1>7, <3>1, <4>1
    <3>4. GetType(d + s) # "QUARTER_DOWN"
      <4>1. d + s \in Int /\ (NUp + 4) * N \in Nat
        BY <1>5, <1>7, CountFacts
      <4>2. GetType(d + s) = "QUARTER_DOWN" => d + s >= (NUp + 4) * N
        BY <4>1, TypeFacts
      <4> QED  BY <3>3, <4>1, <4>2
    <3> QED  BY <1>6, <3>2, <3>4
  <2>9. b.us[2] = "PREAMBLE" /\ d + N >= N => b.uc[2] > 0
    <3>1. d + N >= N => d >= 0
      BY <1>7
    <3>2. d >= N /\ b.us[2] = "PREAMBLE" => a.us[2] = "PREAMBLE" /\ a.uc[2] > 0
      BY <1>7, <2>2, <2>7
    <3>3. CASE d >= N
      <4>1. b.us[2] = "PREAMBLE" => b.us[2] = "PREAMBLE" /\ a.us[2] = "PREAMBLE" /\ a.uc[2] > 0
        BY <3>2, <3>3
      <4> QED  BY <2>7, <4>1
    <3>4. CASE ~(d >= N)
      <4>1. d + N >= N => w.Ti1 = "UPCHIRP"
        BY <1>7, <2>8, <3>1, <3>4
      <4>2. b.us[2] = "PREAMBLE" /\ w.Ti1 = "UPCHIRP" => b.uc[2] > 0
        BY <2>7
      <4> QED  BY <4>1, <4>2
    <3> QED  BY <3>3, <3>4
  <2>10. b.us[2] = "PAYLOAD" => d + N >= q
    BY <1>7, <2>2, <2>5, <2>7 DEF Quiet
  <2>11. d + N > 0 /\ c + N >= q /\ c + N < e + N /\ d + N > 0 - N /\ c + N >= (d + N) + q
    BY <1>7, <2>1, <2>3
  <2>12. Interferes(b)'
    <3>1. user_i'.cnt > 0 /\ b.up[2] = m_power2' /\ b.us[2] \in {"PREAMBLE", "PAYLOAD"}
      BY <1>1, <1>6, <2>4, <2>7, <2>11
    <3>2. user_i'.cnt >= N /\ b.us[2] = "PREAMBLE" => b.uc[2] > 0
      BY <1>6, <2>4, <2>9
    <3>3. b.us[2] = "PAYLOAD" => user_i'.cnt >= PayloadCount'
      BY <1>4, <1>6, <2>4, <2>10 DEF PayloadCount
    <3> QED  BY <3>1, <3>2, <3>3 DEF Interferes
  <2>13. WeakJoins(b)'
    <3>1. ~Refused' /\ m_power1' > m_power2' /\ m_power2' > 0 /\ Begun(b, 1, m_power1')
      BY <1>1, <2>1, <2>7, RefusedStays
    <3>2. /\ user_u'.cnt >= PayloadCount' /\ user_u'.cnt < PayloadEnd' + N
          /\ user_i'.cnt > 0 - N /\ user_u'.cnt >= user_i'.cnt + PayloadCount'
      BY <1>4, <1>6, <2>4, <2>11 DEF PayloadCount, PayloadEnd
    <3>3. ~(user_i'.cnt <= 0)
      BY <1>6, <1>7, <2>4, <2>11
    <3> QED  BY <2>12, <3>1, <3>2, <3>3 DEF WeakJoins, Begun
  <2>14. KeepsPace(b)'
    BY <1>1, <1>10, <2>13 DEF KeepsPace, IdleStates, SingleStates, NewStates, MultiStates, PrevStates,
       StatesTyped
  <2> QED  BY <1>6, <1>9, <2>7, <2>14 DEF Moves
<1>13. CASE StrongJoins(a)
  <2>1. /\ ~Refused /\ m_power2 > m_power1 /\ m_power1 > 0 /\ Begun(a, 1, m_power1) /\ Followed(a)
        /\ c >= 0 /\ d >= c + q /\ d < e + N /\ (c = 0 => Quiet(a))
    BY <1>3, <1>4, <1>13 DEF StrongJoins, Followed
  <2>2. c > 0 => Begun(a, 2, m_power2) /\ (a.us[2] = "PAYLOAD" => c >= q)
    BY <1>3, <1>4, <2>1 DEF Followed
  <2>3. GetType(d) = "PAYLOAD" /\ d < e
    BY <1>4, <1>7, <1>11, <2>1, TypeRanges
  <2>4. w.Ti1 # "UPCHIRP"
    BY <1>6, <2>3
  <2>5. w.Tu = "PAYLOAD" => c >= q
    BY <1>4, <1>6, TypeRanges
  <2>6. c = 0 => a.us[2] = "NONE" /\ w.Tu = "UPCHIRP" /\ w.win_len = N
    <3>1. c = 0 => GetType(c) = "UPCHIRP"
      BY <1>7, TypeRanges
    <3> QED  BY <1>6, <2>1, <3>1 DEF Quiet
  <2>7. /\ ~RaisesIn(a, w) /\ Begun(b, 1, m_power1) /\ Begun(b, 2, m_power2)
        /\ b.us[2] = "PAYLOAD" => a.us[2] = "PAYLOAD" \/ w.Tu = "PAYLOAD"
    <3>1. /\ w.power2 > w.power1 /\ w.power1 > 0 /\ Begun(a, 1, w.power1)
          /\ Begun(a, 2, w.power2) \/ (a.us[2] = "NONE" /\ w.Tu = "UPCHIRP" /\ w.win_len = N)
      BY <1>6, <2>1, <2>2, <2>6
    <3> QED  BY <1>2, <1>6, <1>9, <2>4, <3>1, BothStrong
  <2>8. b.us[2] = "PAYLOAD" => c + len >= q
    BY <1>7, <2>1, <2>2, <2>5, <2>6, <2>7
  <2>9. c + len > 0 /\ c + len # 0 /\ c + len >= 0 /\ d + len >= (c + len) + q /\ d + len < e + N
    BY <1>7, <2>1, <2>3
  <2>10. Followed(b)'
    <3>1. user_u'.cnt >= 0 /\ (b.us[2] = "PAYLOAD" => user_u'.cnt >= PayloadCount')
      BY <1>4, <1>6, <2>8, <2>9 DEF PayloadCount
    <3> QED  BY <1>1, <2>7, <3>1 DEF Followed, Begun
  <2>11. StrongJoins(b)'
    <3>1. ~Refused' /\ m_power2' > m_power1' /\ m_power1' > 0 /\ Begun(b, 1, m_power1')
      BY <1>1, <2>1, <2>7, RefusedStays
    <3>2. user_i'.cnt >= user_u'.cnt + PayloadCount' /\ user_i'.cnt < PayloadEnd' + N /\ user_u'.cnt # 0
      BY <1>4, <1>6, <2>9 DEF PayloadCount, PayloadEnd
    <3> QED  BY <2>10, <3>1, <3>2 DEF StrongJoins, Begun
  <2>12. KeepsPace(b)'
    BY <1>1, <1>10, <2>11 DEF KeepsPace, IdleStates, SingleStates, NewStates, MultiStates, PrevStates,
       StatesTyped
  <2> QED  BY <1>6, <1>9, <2>7, <2>12 DEF Moves
<1> QED  BY <1>2, <1>12, <1>13

----------------------------------------------------------------------------
(***************************************************************************)
(* The windows that wait lead to a state that keeps pace with mu_synchro.  *)
(***************************************************************************)

PaceInv == \E v : Leads(Current, windows, v) /\ KeepsPace(v)

LEMMA InitPace == Init => PaceInv
<1> SUFFICES ASSUME Init PROVE PaceInv
  OBVIOUS
<1>1. /\ m_sync_state = "IDLE" /\ m_power2 = 0 /\ windows = <<>> /\ raised = FALSE
      /\ user_states = [u \in Users |-> "NONE"] /\ user_powers = [u \in Users |-> 0]
      /\ upchirps = [u \in Users |-> 0]
  BY DEF Init, SynchroInit, AggregInit
<1>2. PICK a : a = Current
  OBVIOUS
<1>3. /\ a.us[1] = "NONE" /\ a.us[2] = "NONE" /\ a.up[1] = 0 /\ a.up[2] = 0 /\ a.uc[1] = 0 /\ a.uc[2] = 0
      /\ a.raised = FALSE
  <2>1. 1 \in Users /\ 2 \in Users
    BY DEF Users
  <2> QED  BY <1>1, <1>2, <2>1 DEF Current
<1>4. KeepsPace(a)
  BY <1>1, <1>3 DEF KeepsPace, StatesTyped, UserStates, IdleStates, SingleStates, NewStates, MultiStates,
     PrevStates, Quiet
<1>5. Leads(a, <<>>, a)
  BY <1>3, LeadsStart
<1> QED  BY <1>1, <1>2, <1>4, <1>5 DEF PaceInv

\* Each step of mu_synchro leads to a state that keeps pace with it.
LEMMA SynchroMoves ==
  ASSUME Distinguishable, IInv, Synchro, NEW a, KeepsPace(a)
  PROVE  \E b : KeepsPace(b)' /\ Moves(a, b)
<1>1. FramesTyped /\ SynchroTyped
  BY TypedParts DEF IInv
<1>2. SyncFrame /\ UNCHANGED <<starts, powers>>
  BY DEF Synchro
<1>3. ~Refused => OneUser /\ TwoUsers
  BY DEF IInv, SyncInv
<1>4. NUp > 0
  BY DEF Distinguishable
<1>5. CASE FirstUser
  BY <1>1, <1>2, <1>5, FirstUserPace
<1>6. CASE Idle
  BY <1>1, <1>2, <1>6, IdlePace
<1>7. CASE FrameEnds
  BY <1>1, <1>2, <1>3, <1>4, <1>7, FrameEndsPace
<1>8. CASE IgnoreWeak
  BY <1>1, <1>2, <1>8, IgnoreWeakPace
<1>9. CASE AcceptSecond
  BY <1>1, <1>2, <1>3, <1>9, AcceptSecondPace
<1>10. CASE SingleWindow
  BY <1>1, <1>2, <1>4, <1>10, SingleWindowPace
<1>11. CASE RealignToNew
  BY <1>1, <1>2, <1>4, <1>11, RealignToNewPace
<1>12. CASE RealignToPrev
  BY <1>1, <1>2, <1>3, <1>4, <1>12, RealignToPrevPace
<1>13. CASE UserEnds
  BY <1>1, <1>2, <1>4, <1>13, UserEndsPace
<1>14. CASE MultiWindow
  BY <1>1, <1>2, <1>4, <1>14, MultiWindowPace
<1> QED
  BY <1>2, <1>5, <1>6, <1>7, <1>8, <1>9, <1>10, <1>11, <1>12, <1>13, <1>14 DEF SyncFrame

\* The window written, if any, is the last of those that lead to the new state.
LEMMA LeadsMoves ==
  ASSUME windows \in Seq(WindowSet), UNCHANGED aggregVars, NEW a, NEW b,
         Leads(Current, windows, a), Moves(a, b)
  PROVE  Leads(Current, windows, b)'
<1>1. Current' = Current
  BY DEF Current, aggregVars
<1>2. Leads(Current, windows', b)
  <2>1. CASE windows' = windows /\ b = a
    BY <2>1
  <2>2. CASE \E w \in WindowSet : windows' = Append(windows, w) /\ ~RaisesIn(a, w) /\ b = Step(a, w)
    <3>1. PICK w \in WindowSet : windows' = Append(windows, w) /\ ~RaisesIn(a, w) /\ b = Step(a, w)
      BY <2>2
    <3>2. Leads(Current, Append(windows, w), Step(a, w))
      BY <3>1, LeadsAppend
    <3> QED  BY <3>1, <3>2
  <2> QED  BY <2>1, <2>2 DEF Moves
<1>3. Leads(Current', windows', b)
  BY <1>1, <1>2
<1> QED  BY <1>3 DEF Leads, Step, Current, TrackedIn, FirstAfter, SecondAfter

LEMMA SynchroPace ==
  ASSUME Distinguishable, IInv, PaceInv, Synchro
  PROVE  PaceInv'
<1>1. windows \in Seq(WindowSet) /\ UNCHANGED aggregVars
  BY TypedParts DEF IInv, SynchroTyped, Synchro
<1>2. PICK a : Leads(Current, windows, a) /\ KeepsPace(a)
  BY DEF PaceInv
<1>3. PICK b : KeepsPace(b)' /\ Moves(a, b)
  BY <1>2, SynchroMoves
<1>4. Leads(Current, windows, b)'
  BY <1>1, <1>2, <1>3, LeadsMoves
<1> QED  BY <1>3, <1>4 DEF PaceInv

\* process_window takes a window away by the step it stands for.
LEMMA LeadsProcess ==
  ASSUME windows \in Seq(WindowSet), ProcessWindow, NEW v, Leads(Current, windows, v)
  PROVE  Leads(Current, windows, v)'
<1>1. windows # <<>>
  BY DEF ProcessWindow
<1>2. Leads(Step(Current, Head(windows)), Tail(windows), v)
  BY <1>1, LeadsTail
<1>3. Leads(Current', windows', v)
  BY <1>2, ProcessIsStep
<1> QED  BY <1>3 DEF Leads, Step, Current, TrackedIn, FirstAfter, SecondAfter

\* KeepsPace speaks of mu_synchro only.
LEMMA PaceStays ==
  ASSUME UNCHANGED <<starts, powers, nread, m_sync_state, user_u, user_i, m_power1, m_power2>>,
         NEW v, KeepsPace(v)
  PROVE  KeepsPace(v)'
<1>1. /\ starts' = starts /\ powers' = powers /\ nread' = nread /\ m_sync_state' = m_sync_state
      /\ user_u' = user_u /\ user_i' = user_i /\ m_power1' = m_power1 /\ m_power2' = m_power2
  OBVIOUS
<1>2. Refused' <=> Refused
  BY RefusedStays
<1> QED
  BY <1>1, <1>2 DEF KeepsPace, StatesTyped, IdleStates, SingleStates, NewStates, MultiStates,
     PrevStates, SlotOne, SlotTwo, WeakJoins, StrongJoins, Followed, Interferes, Quiet, Begun,
     PayloadCount, PayloadEnd

LEMMA AggregatePace ==
  ASSUME IInv, PaceInv, Aggregate
  PROVE  PaceInv'
<1>1. windows \in Seq(WindowSet) /\ ProcessWindow
  BY TypedParts DEF IInv, SynchroTyped, Aggregate
<1>2. PICK v : Leads(Current, windows, v) /\ KeepsPace(v)
  BY DEF PaceInv
<1>3. Leads(Current, windows, v)'
  BY <1>1, <1>2, LeadsProcess
<1>4. KeepsPace(v)'
  BY <1>2, PaceStays DEF Aggregate
<1> QED  BY <1>3, <1>4 DEF PaceInv

\* What nobody changes leads where it did.
LEMMA LeadsStays ==
  ASSUME UNCHANGED vars, NEW v, Leads(Current, windows, v)
  PROVE  Leads(Current, windows, v)'
<1>1. windows' = windows /\ Current' = Current
  BY DEF vars, synchroVars, aggregVars, Current
<1>2. Leads(Current', windows', v)
  BY <1>1
<1> QED  BY <1>2 DEF Leads, Step, Current, TrackedIn, FirstAfter, SecondAfter

LEMMA UnchangedPace ==
  ASSUME PaceInv, UNCHANGED vars
  PROVE  PaceInv'
<1>1. PICK v : Leads(Current, windows, v) /\ KeepsPace(v)
  BY DEF PaceInv
<1>2. Leads(Current, windows, v)'
  BY <1>1, LeadsStays
<1>3. KeepsPace(v)'
  BY <1>1, PaceStays DEF vars, synchroVars
<1> QED  BY <1>2, <1>3 DEF PaceInv

(***************************************************************************)
(* Whatever the two sides' speeds, ml_aggreg never asks for the mode of an *)
(* empty list of upchirps: when a payload begins, of whichever user, an    *)
(* upchirp of that user was seen in an earlier window.                     *)
(***************************************************************************)
THEOREM NothingRaises == ASSUME Distinguishable PROVE Spec => []NeverRaised
<1>1. Init => IInv /\ PaceInv
  BY InitIInv, InitPace
<1>2. IInv /\ PaceInv /\ [Next]_vars => (IInv /\ PaceInv)'
  <2> SUFFICES ASSUME IInv, PaceInv, [Next]_vars PROVE (IInv /\ PaceInv)'
    OBVIOUS
  <2>1. CASE Synchro
    BY <2>1, SynchroStep, SynchroPace
  <2>2. CASE Aggregate
    BY <2>2, AggregateStep, AggregatePace
  <2>3. CASE UNCHANGED vars
    BY <2>3, UnchangedIInv, UnchangedPace
  <2> QED  BY <2>1, <2>2, <2>3 DEF Next
<1>3. IInv /\ PaceInv => NeverRaised
  <2> SUFFICES ASSUME IInv, PaceInv PROVE NeverRaised
    OBVIOUS
  <2>1. windows \in Seq(WindowSet)
    BY TypedParts DEF IInv, SynchroTyped
  <2>2. Current.raised = FALSE
    BY <2>1, LeadsCalm DEF PaceInv
  <2> QED  BY <2>2 DEF Current, NeverRaised
<1> QED  BY <1>1, <1>2, <1>3, PTL DEF Spec
----------------------------------------------------------------------------
(***************************************************************************)
(* What is output while one frame is received, or a refused one overlaps.  *)
(***************************************************************************)

Symbols == Seq(Int \X Int)

\* Symbol j of frame f, cut out of the input exactly.
Whole(f, j) == <<<<SymbolStart(f, j), SymbolStart(f, j + 1)>>>>

LEMMA SeqGrows ==
  ASSUME NEW S, NEW s \in Seq(S), NEW x \in S
  PROVE  /\ s \o <<x>> \in Seq(S) /\ Len(s \o <<x>>) = Len(s) + 1
         /\ \A k \in 1 .. Len(s) : (s \o <<x>>)[k] = s[k]
         /\ (s \o <<x>>)[Len(s) + 1] = x
         /\ s \o <<>> = s
<1>1. /\ Len(<<x>>) = 1 /\ <<x>>[1] = x /\ <<x>> \in Seq(S) /\ <<>> \in Seq(S) /\ Len(<<>>) = 0
  OBVIOUS
<1>2. Len(s) \in Nat
  OBVIOUS
<1>3. s \o <<x>> \in Seq(S) /\ Len(s \o <<x>>) = Len(s) + 1
  BY <1>1
<1>4. \A k \in 1 .. Len(s) : (s \o <<x>>)[k] = s[k]
  BY <1>1, <1>2
<1>5. (s \o <<x>>)[Len(s) + 1] = x
  BY <1>1, <1>2
<1>6. s \o <<>> = s
  OBVIOUS
<1> QED  BY <1>3, <1>4, <1>5, <1>6

\* Where a symbol begins, from the count of samples; and that symbols follow each other.
LEMMA SymbolPlaces ==
  ASSUME FramesTyped, NEW f \in 1 .. 2, NEW j \in Int
  PROVE  /\ SymbolStart(f, j) \in Int
         /\ SymbolStart(f, j + 1) = SymbolStart(f, j) + SymbolItems
         /\ starts[f] + (PayloadCount + j * N) * OS = SymbolStart(f, j + 1)
         /\ SymbolStart(f, 1) = PayloadStart(f)
         /\ FrameEnd(f) = SymbolStart(f, PayloadSymbols + 1)
         /\ FrameEnd(f) = PayloadStart(f) + PayloadSymbols * SymbolItems
<1>1. PICK p \in Nat, s \in Nat : p = PayloadStart(f) /\ s = starts[f] /\ p = s + PayloadCount * OS
  BY Places, FrameFacts
<1>2. /\ (j - 1) * SymbolItems \in Int /\ ((j + 1) - 1) * SymbolItems = (j - 1) * SymbolItems + SymbolItems
      /\ (1 - 1) * SymbolItems = 0 /\ ((PayloadSymbols + 1) - 1) * SymbolItems = PayloadSymbols * SymbolItems
      /\ PayloadSymbols * SymbolItems \in Nat /\ j * SymbolItems = (j - 1) * SymbolItems + SymbolItems
  BY Sizes
<1>3. /\ SymbolStart(f, j) = p + (j - 1) * SymbolItems
      /\ SymbolStart(f, j + 1) = p + ((j + 1) - 1) * SymbolItems
      /\ SymbolStart(f, 1) = p + (1 - 1) * SymbolItems
      /\ FrameEnd(f) = p + ((PayloadSymbols + 1) - 1) * SymbolItems
      /\ FrameEnd(f) = SymbolStart(f, PayloadSymbols + 1)
  BY <1>1 DEF SymbolStart, FrameEnd
<1>4. (PayloadCount + j * N) * OS = PayloadCount * OS + j * SymbolItems
  <2>1. PayloadCount \in Int /\ j * N \in Int
    BY CountFacts, Sizes
  <2>2. (PayloadCount + j * N) * OS = PayloadCount * OS + (j * N) * OS
    BY <2>1, Sizes
  <2>3. (j * N) * OS = j * (N * OS)
    BY Sizes
  <2> QED  BY <2>2, <2>3, Sizes
<1>5. starts[f] + (PayloadCount + j * N) * OS = SymbolStart(f, j + 1)
  <2>1. PayloadCount * OS \in Nat /\ SymbolItems \in Nat
    BY CountFacts, Sizes
  <2> QED  BY <1>1, <1>2, <1>3, <1>4, <2>1
<1>6. SymbolItems \in Nat
  BY Sizes
<1> QED  BY <1>1, <1>2, <1>3, <1>5, <1>6

\* Symbols are in order.
LEMMA SymbolOrder ==
  ASSUME FramesTyped, NEW f \in 1 .. 2, NEW j \in Int, NEW k \in Int
  PROVE  j <= k <=> SymbolStart(f, j) <= SymbolStart(f, k)
<1>1. PICK p \in Nat : p = PayloadStart(f)
  BY Places
<1>2. SymbolStart(f, j) = p + (j - 1) * SymbolItems /\ SymbolStart(f, k) = p + (k - 1) * SymbolItems
  BY <1>1 DEF SymbolStart
<1>3. PICK x \in Int, y \in Int, S \in Nat : /\ x = (j - 1) * SymbolItems /\ y = (k - 1) * SymbolItems
                                            /\ S = SymbolItems /\ S > 0
  BY Sizes
<1>4. ASSUME j <= k PROVE x <= y
  <2>1. PICK d \in Nat : k - 1 = (j - 1) + d
    <3>1. k - j \in Nat /\ k - 1 = (j - 1) + (k - j)
      BY <1>4
    <3> QED  BY <3>1
  <2>2. ((j - 1) + d) * SymbolItems = (j - 1) * SymbolItems + d * SymbolItems /\ d * SymbolItems \in Nat
    BY Sizes
  <2> QED  BY <1>3, <2>1, <2>2
<1>5. ASSUME k < j PROVE y < x
  <2>1. PICK d \in Nat : j - 1 = (k - 1) + (d + 1)
    <3>1. j - k - 1 \in Nat /\ j - 1 = (k - 1) + ((j - k - 1) + 1)
      BY <1>5
    <3> QED  BY <3>1
  <2>2. /\ ((k - 1) + (d + 1)) * SymbolItems = (k - 1) * SymbolItems + (d * SymbolItems + SymbolItems)
        /\ d * SymbolItems \in Nat
    BY Sizes
  <2> QED  BY <1>3, <2>1, <2>2
<1>6. j <= k \/ k < j
  OBVIOUS
<1> QED  BY <1>1, <1>2, <1>3, <1>4, <1>5, <1>6

\* The input holds both frames.
FramesInside ==
  \A s \in Starts : s[2] + PayloadCount * OS + PayloadSymbols * SymbolItems <= MaxItems

\* Only one frame is received, or a second one is refused behind the first symbol.
OneAtATime == Unnoticed \/ Apart \/ (Refused /\ starts[2] >= SymbolStart(1, 2))

\* The symbol that a refused frame costs, and the symbol that is output as the k-th.
Lost == (starts[2] - PayloadStart(1)) \div SymbolItems + 1
Kept(k) == IF Refused /\ k >= Lost THEN k + 1 ELSE k
Expected(k) == IF k <= PayloadSymbols THEN Whole(1, Kept(k)) ELSE Whole(2, k - PayloadSymbols)

\* n symbols have been output for user 1, the right ones.
Out(a, n) == Len(a.sy[1]) = n /\ \A k \in 1 .. n : a.sy[1][k] = Expected(k)

\* The symbol with the tag of the refused frame has been skipped.
Skipped == Refused /\ starts[2] < nread

\* What was output before frame f.
Before(f) == IF f = 1 THEN 0 ELSE PayloadSymbols

IdleAlone(a) ==
  m_sync_state = "IDLE" =>
    \/ nread <= starts[1] /\ Out(a, 0)
    \/ /\ starts[1] < nread /\ FrameEnd(1) + SymbolItems <= nread /\ Out(a, PayloadSymbols)
       /\ Apart => nread <= starts[2]
       /\ ~Apart => starts[2] < nread
    \/ Apart /\ starts[1] < nread /\ starts[2] < nread /\ Out(a, PayloadSymbols + PayloadSymbols)

InPreambleAlone(a) ==
  \E k \in 0 .. NUp + 4 : user_u.cnt = k * N /\ ~Skipped /\ Out(a, Before(user_u.frame))
InPayloadAlone(a) ==
  \E k \in 0 .. PayloadSymbols :
    /\ user_u.cnt = PayloadCount + k * N /\ Out(a, Before(user_u.frame) + k)
    /\ k > 0 => Skipped \/ m_item_to_consume = SymbolItems

SingleAlone(a) ==
  m_sync_state = "SINGLE_USER" =>
    /\ user_u.frame \in 1 .. 2 /\ (user_u.frame = 2 => Apart)
    /\ nread = starts[user_u.frame] + user_u.cnt * OS + (IF Skipped THEN SymbolItems ELSE 0)
    /\ a.us[1] = "PAYLOAD" /\ user_u.cnt > 0 => user_u.cnt >= PayloadCount + N
    /\ InPreambleAlone(a) \/ InPayloadAlone(a)

\* Everything output is that of user 1, and mu_synchro never has two users.
Solo(a) ==
  /\ a.sy[1] \in Seq(Symbols) /\ a.sy[2] = <<>> /\ a.pt # "PAYLOAD"
  /\ m_power2 = 0 /\ m_sync_state \in {"IDLE", "SINGLE_USER"}
  /\ IdleAlone(a) /\ SingleAlone(a)

\* What depends on the frames only stays.
LEMMA FramesStay ==
  ASSUME UNCHANGED <<starts, powers>>
  PROVE  /\ OneAtATime' <=> OneAtATime
         /\ Apart' <=> Apart
         /\ Refused' <=> Refused
         /\ FrameEnd(1)' = FrameEnd(1)
         /\ \A a, n : Out(a, n)' <=> Out(a, n)
<1>1. starts' = starts /\ powers' = powers
  OBVIOUS
<1>2. \A f, j : SymbolStart(f, j)' = SymbolStart(f, j)
  BY <1>1 DEF SymbolStart, PayloadStart, QuarterStart
<1>3. Apart' <=> Apart
  BY <1>1 DEF Apart, FrameEnd, SymbolStart, PayloadStart, QuarterStart
<1>4. Refused' <=> Refused
  BY RefusedStays
<1>5. Unnoticed' <=> Unnoticed
  BY <1>1 DEF Unnoticed, FrameEnd, SymbolStart, PayloadStart, QuarterStart
<1>6. OneAtATime' <=> OneAtATime
  BY <1>1, <1>3, <1>4, <1>5 DEF OneAtATime, SymbolStart, PayloadStart, QuarterStart
<1>7. \A k : Expected(k)' = Expected(k)
  BY <1>1, <1>4 DEF Expected, Whole, Kept, Lost, SymbolStart, PayloadStart, QuarterStart
<1>8. ASSUME NEW a, NEW n PROVE Out(a, n)' <=> Out(a, n)
  BY <1>7 DEF Out
<1>9. FrameEnd(1)' = FrameEnd(1)
  BY <1>1 DEF FrameEnd, SymbolStart, PayloadStart, QuarterStart
<1> QED  BY <1>3, <1>4, <1>6, <1>8, <1>9

\* One more symbol is output.
LEMMA OutGrows ==
  ASSUME NEW a, NEW b, NEW n \in Nat, NEW x \in Symbols, Out(a, n), a.sy[1] \in Seq(Symbols),
         b.sy[1] = a.sy[1] \o <<x>>, x = Expected(n + 1)
  PROVE  Out(b, n + 1) /\ b.sy[1] \in Seq(Symbols)
<1>1. PICK s \in Seq(Symbols) : s = a.sy[1]
  OBVIOUS
<1>2. PICK t : t = b.sy[1]
  OBVIOUS
<1>3. t = s \o <<x>>
  BY <1>1, <1>2
<1>4. Len(s) = n /\ \A k \in 1 .. n : s[k] = Expected(k)
  BY <1>1 DEF Out
<1>5. t \in Seq(Symbols) /\ Len(t) = n + 1 /\ t[n + 1] = x /\ \A k \in 1 .. n : t[k] = s[k]
  BY <1>3, <1>4, SeqGrows
<1>6. \A k \in 1 .. n + 1 : t[k] = Expected(k)
  <2> SUFFICES ASSUME NEW k \in 1 .. n + 1 PROVE t[k] = Expected(k)
    OBVIOUS
  <2>1. k = n + 1 \/ k \in 1 .. n
    OBVIOUS
  <2> QED  BY <1>4, <1>5, <2>1
<1> QED  BY <1>2, <1>5, <1>6 DEF Out

\* Nothing is output.
LEMMA OutKept ==
  ASSUME NEW a, NEW b, NEW n, Out(a, n), a.sy[1] \in Seq(Symbols), b.sy[1] = a.sy[1] \o <<>>
  PROVE  Out(b, n) /\ b.sy[1] \in Seq(Symbols)
<1>1. b.sy[1] = a.sy[1]
  OBVIOUS
<1> QED  BY <1>1 DEF Out

\* A window of user 1 alone: its symbol, if it is one, is output.
LEMMA SoloOutput ==
  ASSUME NEW a, NEW w \in WindowSet, StatesTyped(a), Quiet(a), a.pt # "PAYLOAD",
         w.power1 > 0, w.power2 = 0, w.Ti1 = "VOID", w.Tu # "VOID",
         \/ Begun(a, 1, w.power1) /\ (w.Tu = "UPCHIRP" => w.win_len = N)
         \/ a.us[1] # "PREAMBLE" /\ w.Tu = "UPCHIRP" /\ w.win_len = N
  PROVE  /\ OutputIn(a, w, 2) = <<>>
         /\ w.Tu = "PAYLOAD" /\ w.win_len = N => OutputIn(a, w, 1) = <<Su(w)>>
         /\ w.Tu # "PAYLOAD" /\ (a.us[1] = "PAYLOAD" => w.Tu = "UPCHIRP") =>
              OutputIn(a, w, 1) = <<>> /\ Step(a, w).us[1] # "PAYLOAD"
<1>1. w.power1 \in Nat /\ w.power2 \in Nat
  BY DEF WindowSet
<1>2. PICK b : b = Step(a, w)
  OBVIOUS
<1>3. /\ Quiet(b) /\ Begun(b, 1, w.power1) /\ (w.Tu = "PAYLOAD" => b.us[1] = "PAYLOAD")
  BY <1>2, SoloOne
<1>4. TrackedIn(a, w)[1] = b.us[1] /\ TrackedIn(a, w)[2] = b.us[2]
  BY <1>2, StepFields DEF TrackedIn
<1>5. PowerIn(a, w, 1) = b.up[1] /\ PowerIn(a, w, 2) = b.up[2]
  BY <1>2, StepFields
<1>6. OutputIn(a, w, 2) = <<>>
  BY <1>3, <1>4 DEF OutputIn, ExpectedIn, Quiet
<1>7. StrongIn(a, w, 1)
  BY <1>1, <1>3, <1>5 DEF StrongIn, Other, Quiet, Begun
<1>8. w.Tu = "PAYLOAD" /\ w.win_len = N => OutputIn(a, w, 1) = <<Su(w)>>
  BY <1>3, <1>4, <1>7 DEF OutputIn, ExpectedIn
<1>9. ASSUME w.Tu # "PAYLOAD", a.us[1] = "PAYLOAD" => w.Tu = "UPCHIRP"
      PROVE  OutputIn(a, w, 1) = <<>> /\ b.us[1] # "PAYLOAD"
  <2>1. WinState(w, 1) = w.Tu /\ PowerOf(w, 1) = w.power1 /\ w.power1 # 0
    BY <1>1 DEF WinState, PowerOf, Other
  <2>2. ~GoneIn(a, w, 1)
    BY <2>1 DEF GoneIn
  <2>3. b.us[1] = AfterIn(a, w, 1, "NONE")
    BY <1>2, StepFields DEF FirstAfter, Quiet
  <2>4. b.us[1] # "PAYLOAD"
    BY <1>9, <2>1, <2>2, <2>3 DEF AfterIn, DetectedIn, NextFrameIn, InPayloadIn
  <2>5. b.us[1] = "PREAMBLE"
    BY <1>3, <2>4 DEF Begun
  <2> QED  BY <1>4, <2>4, <2>5 DEF OutputIn, ExpectedIn
<1> QED  BY <1>2, <1>6, <1>8, <1>9

\* The windows tell which case of Moves it was.
LEMMA MovesNothing ==
  ASSUME windows \in Seq(WindowSet), NEW a, NEW b, Moves(a, b), windows' = windows
  PROVE  b = a
<1>1. ASSUME NEW w, windows = Append(windows, w) PROVE FALSE
  <2>1. PICK s \in Seq(WindowSet) : s = windows
    OBVIOUS
  <2>2. Len(Append(s, w)) = Len(s) + 1 /\ Len(s) \in Nat
    OBVIOUS
  <2> QED  BY <1>1, <2>1, <2>2
<1> QED  BY <1>1 DEF Moves

LEMMA MovesWritten ==
  ASSUME windows \in Seq(WindowSet), NEW a, NEW b, NEW w \in WindowSet, Moves(a, b),
         windows' = Append(windows, w)
  PROVE  b = Step(a, w)
<1>1. PICK s \in Seq(WindowSet) : s = windows
  OBVIOUS
<1>2. \A v : Len(Append(s, v)) = Len(s) + 1 /\ Len(s) \in Nat /\ Append(s, v)[Len(s) + 1] = v
  OBVIOUS
<1>3. ~(windows' = windows)
  BY <1>1, <1>2
<1>4. PICK v \in WindowSet : windows' = Append(windows, v) /\ b = Step(a, v)
  BY <1>3 DEF Moves
<1>5. v = w
  <2>1. Append(s, v)[Len(s) + 1] = v /\ Append(s, w)[Len(s) + 1] = w
    BY <1>2
  <2>2. Append(s, v) = Append(s, w)
    BY <1>1, <1>4
  <2> QED  BY <2>1, <2>2
<1> QED  BY <1>4, <1>5

\* How the frames lie.
LEMMA FrameOrder ==
  ASSUME FramesTyped
  PROVE  /\ starts[1] \in Nat /\ starts[2] \in Nat /\ PayloadStart(1) \in Nat /\ FrameEnd(1) \in Nat
         /\ starts[1] + SymbolItems <= PayloadStart(1)
         /\ PayloadStart(1) + SymbolItems <= FrameEnd(1)
         /\ SymbolStart(1, 2) = PayloadStart(1) + SymbolItems
         /\ Refused => ~Apart /\ PayloadStart(1) <= starts[2] /\ starts[2] < FrameEnd(1)
         /\ OneAtATime => starts[1] + SymbolItems <= starts[2]
<1>1. PICK s1 \in Nat, s2 \in Nat, S \in Nat : s1 = starts[1] /\ s2 = starts[2] /\ S = SymbolItems /\ S > 0
  BY FrameFacts, Sizes
<1>2. PICK p \in Nat : p = PayloadStart(1) /\ s1 + S <= p
  <2>1. PayloadStart(1) \in Nat /\ PayloadStart(1) = starts[1] + (NUp + 4) * SymbolItems + SymbolItems \div 4
    BY Places
  <2>2. (NUp + 4) * SymbolItems = NUp * SymbolItems + 4 * SymbolItems /\ NUp * SymbolItems \in Nat
    BY Sizes
  <2>3. SymbolItems \div 4 \in Nat
    BY Sizes
  <2> QED  BY <1>1, <2>1, <2>2, <2>3
<1>3. PICK e \in Nat : e = FrameEnd(1) /\ p + S <= e
  <2>1. PICK d \in Nat : PayloadSymbols = d + 1
    <3>1. PayloadSymbols - 1 \in Nat /\ PayloadSymbols = (PayloadSymbols - 1) + 1
      BY MuAssumption
    <3> QED  BY <3>1
  <2>2. (d + 1) * SymbolItems = d * SymbolItems + SymbolItems /\ d * SymbolItems \in Nat
    BY Sizes
  <2>3. FrameEnd(1) = PayloadStart(1) + PayloadSymbols * SymbolItems
    BY SymbolPlaces
  <2> QED  BY <1>1, <1>2, <2>1, <2>2, <2>3
<1>4. SymbolStart(1, 2) = p + S
  <2>1. SymbolStart(1, 1 + 1) = SymbolStart(1, 1) + SymbolItems /\ SymbolStart(1, 1) = PayloadStart(1)
    BY SymbolPlaces
  <2> QED  BY <1>1, <1>2, <2>1
<1>5. Refused => ~Apart /\ p <= s2 /\ s2 < e
  BY <1>1, <1>2, <1>3 DEF Refused, InPayloadOfFirst, Apart
<1>6. Unnoticed => s1 + S <= s2
  BY <1>1, <1>2, <1>3 DEF Unnoticed
<1>7. Apart => s1 + S <= s2
  BY <1>1, <1>2, <1>3 DEF Apart
<1>8. OneAtATime => s1 + S <= s2
  BY <1>1, <1>2, <1>4, <1>6, <1>7 DEF OneAtATime
<1> QED  BY <1>1, <1>2, <1>3, <1>4, <1>5, <1>8

LEMMA FirstUserAlone ==
  ASSUME FramesTyped, SynchroTyped, UNCHANGED <<starts, powers>>, OneAtATime, NEW a, Solo(a), FirstUser
  PROVE  Solo(a)'
<1>1. PICK f \in 1 .. 2 : /\ TagsAhead = {f} /\ user_u' = UserOf(f, 0)
                          /\ nread' = nread + (starts[f] - nread)
  BY DEF FirstUser, Consume
<1>2. /\ m_sync_state = "IDLE" /\ m_sync_state' = "SINGLE_USER" /\ m_power2' = m_power2
      /\ starts' = starts /\ powers' = powers
  BY DEF FirstUser
<1>3. PICK s1 \in Nat, s2 \in Nat, n \in Nat, S \in Nat :
        /\ s1 = starts[1] /\ s2 = starts[2] /\ n = nread /\ S = SymbolItems /\ s1 + S <= s2 /\ S > 0
  BY FrameOrder, StateFacts, Sizes
<1>4. starts[f] \in n .. n + S - 1 /\ (f = 2 => ~(s1 \in n .. n + S - 1))
  BY <1>1, <1>3 DEF TagsAhead
<1>5. nread' = starts[f]
  BY <1>1, <1>3, <1>4
<1>6. /\ user_u'.frame = f /\ user_u'.cnt = 0
  BY <1>1 DEF UserOf
<1>7. /\ f = 2 => Apart
      /\ Out(a, Before(f))
      /\ ~(Refused /\ starts[2] < starts[f])
  <2>1. CASE nread <= starts[1] /\ Out(a, 0)
    <3>1. f = 1
      BY <1>3, <1>4, <2>1
    <3> QED  BY <1>3, <2>1, <3>1 DEF Before
  <2>2. CASE /\ starts[1] < nread /\ FrameEnd(1) + SymbolItems <= nread /\ Out(a, PayloadSymbols)
             /\ Apart => nread <= starts[2]
             /\ ~Apart => starts[2] < nread
    <3>1. f = 2 /\ Apart
      BY <1>3, <1>4, <2>2
    <3> QED  BY <1>3, <2>2, <3>1, FrameOrder DEF Before
  <2>3. CASE Apart /\ starts[1] < nread /\ starts[2] < nread /\ Out(a, PayloadSymbols + PayloadSymbols)
    BY <1>3, <1>4, <2>3
  <2> QED  BY <1>2, <2>1, <2>2, <2>3 DEF Solo, IdleAlone
<1>8. /\ Out(a, Before(f))' /\ (f = 2 => Apart') /\ ~Skipped'
  <2>1. f' = f
    OBVIOUS
  <2>2. Out(a, Before(f))' <=> Out(a, Before(f))
    BY FramesStay DEF Before
  <2>3. ~Skipped'
    BY <1>2, <1>5, <1>7, FramesStay DEF Skipped
  <2> QED  BY <1>7, <2>2, <2>3, FramesStay
<1>9. InPreambleAlone(a)'
  <2>1. 0 \in 0 .. NUp + 4 /\ 0 = 0 * N
    BY Sizes
  <2> QED  BY <1>6, <1>8, <2>1 DEF InPreambleAlone
<1>10. nread' = starts'[f] + 0 * OS + 0
  <2>1. 0 * OS = 0 /\ starts[f] \in Nat
    BY Sizes, StateFacts
  <2> QED  BY <1>2, <1>5, <2>1
<1>11. SingleAlone(a)'
  BY <1>6, <1>8, <1>9, <1>10 DEF SingleAlone
<1> QED  BY <1>2, <1>11 DEF Solo, IdleAlone

LEMMA IdleStepAlone ==
  ASSUME FramesTyped, SynchroTyped, UNCHANGED <<starts, powers>>, OneAtATime, NEW a, Solo(a), Idle
  PROVE  Solo(a)'
<1>1. /\ m_sync_state = "IDLE" /\ m_sync_state' = "IDLE" /\ m_power2' = m_power2
      /\ nread' = nread + SymbolItems /\ starts' = starts /\ Cardinality(TagsAhead) # 1
  BY DEF Idle, Consume
<1>2. PICK s1 \in Nat, s2 \in Nat, n \in Nat, S \in Nat :
        /\ s1 = starts[1] /\ s2 = starts[2] /\ n = nread /\ S = SymbolItems /\ s1 + S <= s2 /\ S > 0
  BY FrameOrder, StateFacts, Sizes
<1>3. ASSUME NEW f \in 1 .. 2 PROVE TagsAhead # {f}
  <2>1. Cardinality({f}) = 1
    BY FS_Singleton
  <2> QED  BY <1>1, <2>1
<1>4. TagsAhead = {f \in 1 .. 2 : starts[f] \in n .. n + S - 1}
  BY <1>2 DEF TagsAhead
<1>5. \A k \in {0, PayloadSymbols, PayloadSymbols + PayloadSymbols} : Out(a, k)' <=> Out(a, k)
  BY FramesStay
<1>6. PICK e \in Nat : e = FrameEnd(1) /\ FrameEnd(1)' = e
  BY FrameOrder, FramesStay
<1>7. CASE nread <= starts[1] /\ Out(a, 0)
  <2>1. ~(s1 < n + S)
    <3> SUFFICES ASSUME s1 < n + S PROVE FALSE
      OBVIOUS
    <3>1. starts[1] \in n .. n + S - 1 /\ ~(starts[2] \in n .. n + S - 1)
      BY <1>2, <1>7
    <3>2. TagsAhead = {1}
      BY <1>4, <3>1
    <3> QED  BY <1>3, <3>2
  <2>2. nread' <= starts[1]
    BY <1>1, <1>2, <2>1
  <2> QED  BY <1>1, <1>5, <1>7, <2>2 DEF Solo, IdleAlone, SingleAlone
<1>8. CASE /\ starts[1] < nread /\ FrameEnd(1) + SymbolItems <= nread /\ Out(a, PayloadSymbols)
           /\ Apart => nread <= starts[2]
           /\ ~Apart => starts[2] < nread
  <2>1. Apart => ~(s2 < n + S)
    <3> SUFFICES ASSUME s2 < n + S, Apart PROVE FALSE
      OBVIOUS
    <3>1. starts[2] \in n .. n + S - 1 /\ ~(starts[1] \in n .. n + S - 1)
      BY <1>2, <1>8
    <3>2. TagsAhead = {2}
      BY <1>4, <3>1
    <3> QED  BY <1>3, <3>2
  <2>2. /\ starts'[1] < nread' /\ FrameEnd(1)' + SymbolItems <= nread'
        /\ Apart' => nread' <= starts'[2]
        /\ ~Apart' => starts'[2] < nread'
    BY <1>1, <1>2, <1>6, <1>8, <2>1, FramesStay
  <2> QED  BY <1>1, <1>5, <1>8, <2>2 DEF Solo, IdleAlone, SingleAlone
<1>9. CASE Apart /\ starts[1] < nread /\ starts[2] < nread /\ Out(a, PayloadSymbols + PayloadSymbols)
  <2>1. Apart' /\ starts'[1] < nread' /\ starts'[2] < nread'
    BY <1>1, <1>2, <1>9, FramesStay
  <2> QED  BY <1>1, <1>5, <1>9, <2>1 DEF Solo, IdleAlone, SingleAlone
<1> QED  BY <1>1, <1>7, <1>8, <1>9 DEF Solo, IdleAlone

\* Counts at the beginning of a symbol and what get_type says of them.
LEMMA SymbolTypes ==
  ASSUME NUp > 0
  PROVE  /\ \A k \in 0 .. NUp + 4 :
              /\ k * N \in Nat /\ k * N < PayloadCount /\ k * N < PayloadCount + N
              /\ k < NUp + 4 => GetType(k * N) \notin {"VOID", "QUARTER_DOWN", "PAYLOAD"}
              /\ k = NUp + 4 => GetType(k * N) = "QUARTER_DOWN"
         /\ \A k \in 0 .. PayloadSymbols :
              /\ k * N \in Nat /\ PayloadCount + k * N >= PayloadCount
              /\ k > 0 => PayloadCount + k * N >= PayloadCount + N
              /\ k < PayloadSymbols => GetType(PayloadCount + k * N) = "PAYLOAD"
              /\ k = PayloadSymbols => GetType(PayloadCount + k * N) = "VOID"
<1>1. PICK q \in Nat : q = PayloadCount /\ q = (NUp + 4) * N + N \div 4
  BY CountFacts
<1>2. N \in Nat /\ NUp \in Nat /\ N > 0 /\ N \div 4 \in Nat /\ N \div 4 > 0 /\ PayloadSymbols \in Nat
  BY Sizes
<1>3. ASSUME NEW k \in 0 .. NUp + 4
      PROVE  /\ k * N \in Nat /\ k * N < q /\ k * N < q + N
             /\ k < NUp + 4 => GetType(k * N) \notin {"VOID", "QUARTER_DOWN", "PAYLOAD"}
             /\ k = NUp + 4 => GetType(k * N) = "QUARTER_DOWN"
  <2>1. PICK c \in Nat : c = k * N
    BY <1>2
  <2>2. CASE k = NUp + 4
    <3>1. c >= (NUp + 4) * N /\ c < q
      BY <1>1, <1>2, <2>1, <2>2
    <3> QED  BY <1>1, <1>2, <2>1, <2>2, <3>1, TypeFacts
  <2>3. CASE k < NUp + 4
    <3>1. c + N <= (NUp + 4) * N
      <4>1. PICK d \in Nat : NUp + 4 = (k + 1) + d
        <5>1. (NUp + 4) - (k + 1) \in Nat /\ NUp + 4 = (k + 1) + ((NUp + 4) - (k + 1))
          BY <1>2, <2>3
        <5> QED  BY <5>1
      <4>2. ((k + 1) + d) * N = (k * N + N) + d * N /\ d * N \in Nat
        BY <1>2
      <4> QED  BY <1>2, <2>1, <4>1, <4>2
    <3>2. c < (NUp + 4) * N /\ c < q /\ (NUp + 4) * N \in Nat
      BY <1>1, <1>2, <2>1, <3>1
    <3>3. GetType(c) # "QUARTER_DOWN"
      BY <1>2, <2>1, <3>2, TypeFacts
    <3>4. GetType(c) # "PAYLOAD"
      BY <1>1, <1>2, <2>1, <3>2, TypeFacts
    <3>5. GetType(c) # "VOID"
      BY <1>1, <1>2, <2>1, <3>2, TypeFacts
    <3> QED  BY <1>2, <2>1, <2>3, <3>2, <3>3, <3>4, <3>5
  <2> QED  BY <1>2, <2>2, <2>3
<1>4. ASSUME NEW k \in 0 .. PayloadSymbols
      PROVE  /\ k * N \in Nat /\ q + k * N >= q
             /\ k > 0 => q + k * N >= q + N
             /\ k < PayloadSymbols => GetType(q + k * N) = "PAYLOAD"
             /\ k = PayloadSymbols => GetType(q + k * N) = "VOID"
  <2>1. PICK c \in Nat : c = k * N
    BY <1>2
  <2>2. k > 0 => c >= N
    <3> SUFFICES ASSUME k > 0 PROVE c >= N
      OBVIOUS
    <3>1. PICK d \in Nat : k = d + 1
      <4>1. k - 1 \in Nat /\ k = (k - 1) + 1
        OBVIOUS
      <4> QED  BY <4>1
    <3>2. (d + 1) * N = d * N + N /\ d * N \in Nat
      BY <1>2
    <3> QED  BY <1>2, <2>1, <3>1, <3>2
  <2>3. PICK e \in Nat : e = PayloadSymbols * N /\ PayloadEnd = q + e
    BY <1>1, <1>2 DEF PayloadEnd
  <2>4. k < PayloadSymbols => c < e
    <3> SUFFICES ASSUME k < PayloadSymbols PROVE c < e
      OBVIOUS
    <3>1. PICK d \in Nat : PayloadSymbols = (k + 1) + d
      <4>1. PayloadSymbols - (k + 1) \in Nat /\ PayloadSymbols = (k + 1) + (PayloadSymbols - (k + 1))
        BY <1>2
      <4> QED  BY <4>1
    <3>2. ((k + 1) + d) * N = (k * N + N) + d * N /\ d * N \in Nat
      BY <1>2
    <3> QED  BY <1>2, <2>1, <2>3, <3>1, <3>2
  <2>5. PICK x \in Nat : x = q + c
    BY <1>1, <2>1
  <2>6. k < PayloadSymbols => GetType(x) = "PAYLOAD"
    <3>1. k < PayloadSymbols => x >= PayloadCount /\ x < PayloadEnd
      BY <1>1, <2>1, <2>3, <2>4, <2>5
    <3> QED  BY <2>5, <3>1, TypeRanges
  <2>7. k = PayloadSymbols => GetType(x) = "VOID"
    <3>1. k = PayloadSymbols => x >= PayloadEnd
      BY <1>1, <2>1, <2>3, <2>5
    <3> QED  BY <2>5, <3>1, TypeRanges
  <2> QED  BY <1>1, <1>2, <2>1, <2>2, <2>5, <2>6, <2>7
<1> QED  BY <1>1, <1>3, <1>4

LEMMA FrameEndsAlone ==
  ASSUME FramesTyped, SynchroTyped, NUp > 0, UNCHANGED <<starts, powers>>, OneAtATime, NEW a, Solo(a),
         FrameEnds
  PROVE  Solo(a)'
<1>1. /\ m_sync_state = "SINGLE_USER" /\ m_sync_state' = "IDLE" /\ m_power2' = 0
      /\ nread' = nread + SymbolItems /\ starts' = starts /\ GetType(user_u.cnt) = "VOID"
  BY DEF FrameEnds, Consume
<1>2. PICK f \in 1 .. 2 : /\ f = user_u.frame /\ (f = 2 => Apart)
                          /\ nread = starts[f] + user_u.cnt * OS + (IF Skipped THEN SymbolItems ELSE 0)
                          /\ InPreambleAlone(a) \/ InPayloadAlone(a)
  BY <1>1 DEF Solo, SingleAlone
<1>3. ~InPreambleAlone(a)
  <2> SUFFICES ASSUME NEW k \in 0 .. NUp + 4, user_u.cnt = k * N PROVE FALSE
    BY DEF InPreambleAlone
  <2>1. k < NUp + 4 \/ k = NUp + 4
    BY Sizes
  <2> QED  BY <1>1, <2>1, SymbolTypes
<1>4. user_u.cnt = PayloadCount + PayloadSymbols * N /\ Out(a, Before(f) + PayloadSymbols)
  <2>1. PICK k \in 0 .. PayloadSymbols : user_u.cnt = PayloadCount + k * N /\ Out(a, Before(f) + k)
    BY <1>2, <1>3 DEF InPayloadAlone
  <2>2. k = PayloadSymbols
    <3>1. ~(k < PayloadSymbols)
      BY <1>1, <2>1, SymbolTypes
    <3> QED  BY <3>1, Sizes
  <2> QED  BY <2>1, <2>2
<1>5. PICK s1 \in Nat, s2 \in Nat, n \in Nat, S \in Nat, e \in Nat :
        /\ s1 = starts[1] /\ s2 = starts[2] /\ n = nread /\ S = SymbolItems /\ s1 + S <= s2 /\ S > 0
        /\ e = FrameEnd(1) /\ e' = e /\ s1 + S + S <= e
  BY FrameOrder, StateFacts, Sizes, FramesStay
<1>6. starts[f] + (PayloadCount + PayloadSymbols * N) * OS = SymbolStart(f, PayloadSymbols + 1)
  <2>1. PayloadSymbols \in Int
    BY Sizes
  <2> QED  BY <2>1, SymbolPlaces
<1>7. CASE f = 1
  <2>1. n = e + (IF Skipped THEN S ELSE 0)
    <3>1. SymbolStart(1, PayloadSymbols + 1) = FrameEnd(1)
      BY DEF FrameEnd
    <3> QED  BY <1>2, <1>4, <1>5, <1>6, <1>7, <3>1
  <2>2. Out(a, PayloadSymbols)
    <3>1. 0 + PayloadSymbols = PayloadSymbols
      BY Sizes
    <3> QED  BY <1>4, <1>7, <3>1 DEF Before
  <2>3. Apart => n + S <= s2 /\ n = e
    <3>1. Apart => ~Skipped
      BY FrameOrder DEF Skipped
    <3>2. Apart => s2 >= e + S
      BY <1>5 DEF Apart
    <3> QED  BY <1>5, <2>1, <3>1, <3>2
  <2>4. ~Apart => s2 < e + S
    BY <1>5 DEF Apart
  <2>5. n >= e
    BY <1>5, <2>1
  <2>6. /\ starts'[1] < nread' /\ FrameEnd(1)' + SymbolItems <= nread'
        /\ Apart' => nread' <= starts'[2]
        /\ ~Apart' => starts'[2] < nread'
    <3>1. nread' = n + S /\ starts'[1] = s1 /\ starts'[2] = s2 /\ FrameEnd(1)' = e /\ SymbolItems = S
      BY <1>1, <1>5, FramesStay
    <3>2. s1 < n + S /\ e + S <= n + S
      BY <1>5, <2>5
    <3>3. Apart => n + S <= s2
      BY <2>3
    <3>4. ~Apart => s2 < n + S
      BY <1>5, <2>4, <2>5
    <3> QED  BY <3>1, <3>2, <3>3, <3>4, FramesStay
  <2>7. Out(a, PayloadSymbols)'
    BY <2>2, FramesStay
  <2> QED  BY <1>1, <2>6, <2>7 DEF Solo, IdleAlone, SingleAlone
<1>8. CASE f = 2
  <2>1. Apart /\ Out(a, PayloadSymbols + PayloadSymbols)
    BY <1>2, <1>4, <1>8 DEF Before
  <2>2. s2 <= n
    <3>1. ~Skipped
      BY <2>1, FrameOrder DEF Skipped
    <3>2. (PayloadCount + PayloadSymbols * N) * OS \in Nat
      BY CountFacts, Sizes
    <3> QED  BY <1>2, <1>4, <1>5, <1>8, <3>1, <3>2
  <2>3. starts'[1] < nread' /\ starts'[2] < nread'
    BY <1>1, <1>5, <2>2
  <2>4. Apart' /\ Out(a, PayloadSymbols + PayloadSymbols)'
    BY <2>1, FramesStay
  <2> QED  BY <1>1, <2>3, <2>4 DEF Solo, IdleAlone, SingleAlone
<1> QED  BY <1>7, <1>8

\* The symbol that a refused frame costs.
LEMMA LostSymbol ==
  ASSUME FramesTyped, Refused, SymbolStart(1, 2) <= starts[2]
  PROVE  /\ Lost \in Nat
         /\ SymbolStart(1, Lost) <= starts[2] /\ starts[2] < SymbolStart(1, Lost + 1)
<1>1. PICK p \in Nat, s2 \in Nat, S \in Nat :
        p = PayloadStart(1) /\ s2 = starts[2] /\ S = SymbolItems /\ S > 0 /\ p <= s2
  BY FrameOrder, Sizes
<1>2. PICK d \in Nat, r \in 0 .. S - 1 : s2 - p = d * S + r /\ d = (s2 - p) \div S
  <2>1. s2 - p \in Nat
    BY <1>1
  <2> DEFINE x == s2 - p
  <2>2. x \div S \in Nat /\ x % S \in 0 .. S - 1 /\ x = (x \div S) * S + (x % S)
    <3> HIDE DEF x
    <3>1. x \in Nat
      BY <2>1 DEF x
    <3> QED  BY <1>1, <3>1
  <2> QED  BY <2>2
<1>3. Lost = d + 1
  BY <1>1, <1>2 DEF Lost
<1>4. d * S \in Nat /\ ((d + 1) - 1) * S = d * S /\ ((d + 1 + 1) - 1) * S = d * S + S
  BY <1>1
<1>5. SymbolStart(1, d + 1) = p + d * S /\ SymbolStart(1, d + 1 + 1) = p + d * S + S
  BY <1>1, <1>4 DEF SymbolStart
<1>6. SymbolStart(1, d + 1) <= s2 /\ s2 < SymbolStart(1, d + 1 + 1)
  BY <1>1, <1>2, <1>4, <1>5
<1> QED  BY <1>1, <1>3, <1>6

\* During the payload another tag is only seen if it is that of a refused frame, and not
\* in the first symbol.
LEMMA TagInPayload ==
  ASSUME FramesTyped, SynchroTyped, NUp > 0, OneAtATime, NEW a, Solo(a),
         m_sync_state = "SINGLE_USER", GetType(user_u.cnt) = "PAYLOAD",
         \/ Cardinality(TagsAhead) = 1
         \/ nread <= starts[2] /\ starts[2] < nread + SymbolItems
  PROVE  /\ Refused /\ user_u.frame = 1 /\ ~Skipped /\ TagsAhead = {2}
         /\ nread <= starts[2] /\ starts[2] < nread + SymbolItems
         /\ m_item_to_consume = SymbolItems
<1>1. PICK f \in 1 .. 2, k \in 0 .. PayloadSymbols :
        /\ f = user_u.frame /\ (f = 2 => Apart) /\ user_u.cnt = PayloadCount + k * N
        /\ nread = starts[f] + (PayloadCount + k * N) * OS + (IF Skipped THEN SymbolItems ELSE 0)
        /\ k > 0 => Skipped \/ m_item_to_consume = SymbolItems
  <2>1. SingleAlone(a)
    BY DEF Solo
  <2>2. ASSUME NEW k \in 0 .. NUp + 4, user_u.cnt = k * N PROVE FALSE
    <3>1. k < NUp + 4 \/ k = NUp + 4
      BY Sizes
    <3> QED  BY <2>2, <3>1, SymbolTypes
  <2>3. InPayloadAlone(a)
    BY <2>1, <2>2 DEF SingleAlone, InPreambleAlone
  <2> QED  BY <2>1, <2>3 DEF SingleAlone, InPayloadAlone
<1>2. k < PayloadSymbols
  <2>1. k = PayloadSymbols => GetType(user_u.cnt) = "VOID"
    BY <1>1, SymbolTypes
  <2> QED  BY <2>1, Sizes
<1>3. PICK s1 \in Nat, s2 \in Nat, n \in Nat, S \in Nat, p \in Nat, e \in Nat :
        /\ s1 = starts[1] /\ s2 = starts[2] /\ n = nread /\ S = SymbolItems /\ s1 + S <= s2 /\ S > 0
        /\ p = PayloadStart(1) /\ e = FrameEnd(1) /\ s1 + S <= p /\ p + S <= e
  BY FrameOrder, StateFacts, Sizes
<1>4. PICK x \in Nat : x = (PayloadCount + k * N) * OS /\ x > 0
  <2>1. PICK c \in Nat : c = PayloadCount + k * N /\ c >= 2
    <3>1. PayloadCount \in Nat /\ PayloadCount >= 2 /\ k * N \in Nat
      BY CountFacts, Sizes
    <3> QED  BY <3>1
  <2>2. PICK d \in Nat : c = d + 1
    <3>1. c - 1 \in Nat /\ c = (c - 1) + 1
      BY <2>1
    <3> QED  BY <3>1
  <2>3. (d + 1) * OS = d * OS + OS /\ d * OS \in Nat /\ OS > 0 /\ OS \in Nat
    BY Sizes
  <2> QED  BY <2>1, <2>2, <2>3
<1>5. n = starts[f] + x + (IF Skipped THEN S ELSE 0)
  BY <1>1, <1>3, <1>4
<1>6. starts[f] < n
  BY <1>3, <1>4, <1>5
<1>7. \E g \in 1 .. 2 : starts[g] \in n .. n + S - 1
  <2>1. CASE Cardinality(TagsAhead) = 1
    <3>1. TagsAhead # {}
      BY <2>1, FS_EmptySet
    <3> QED  BY <1>3, <3>1 DEF TagsAhead
  <2>2. CASE nread <= starts[2] /\ starts[2] < nread + SymbolItems
    BY <1>3, <2>2
  <2> QED  BY <2>1, <2>2
<1>8. f = 1
  <2> SUFFICES ASSUME f = 2 PROVE FALSE
    OBVIOUS
  <2>1. s2 < n /\ s1 < n
    BY <1>3, <1>6
  <2> QED  BY <1>3, <1>7, <2>1
<1>9. s1 < n /\ n <= s2 /\ s2 < n + S
  <2>1. s1 < n
    BY <1>3, <1>6, <1>8
  <2> QED  BY <1>3, <1>7, <2>1
<1>10. ~Skipped
  BY <1>3, <1>9 DEF Skipped
<1>11. n = SymbolStart(1, k + 1) /\ SymbolStart(1, k + 1) >= p /\ SymbolStart(1, k + 1) + S <= e
  <2>1. starts[1] + (PayloadCount + k * N) * OS = SymbolStart(1, k + 1)
    BY SymbolPlaces
  <2>2. SymbolStart(1, 1) <= SymbolStart(1, k + 1)
    BY SymbolOrder
  <2>3. SymbolStart(1, (k + 1) + 1) <= SymbolStart(1, PayloadSymbols + 1)
    <3>1. /\ k + 1 \in Int /\ (k + 1) + 1 \in Int /\ PayloadSymbols + 1 \in Int
          /\ (k + 1) + 1 <= PayloadSymbols + 1
      BY <1>2, Sizes
    <3> QED  BY <3>1, SymbolOrder
  <2>4. /\ SymbolStart(1, (k + 1) + 1) = SymbolStart(1, k + 1) + SymbolItems
        /\ SymbolStart(1, 1) = PayloadStart(1)
        /\ FrameEnd(1) = SymbolStart(1, PayloadSymbols + 1)
    BY SymbolPlaces
  <2>5. SymbolStart(1, k + 1) \in Int
    BY SymbolPlaces
  <2>6. n = SymbolStart(1, k + 1)
    BY <1>3, <1>4, <1>5, <1>8, <1>10, <2>1
  <2> QED  BY <1>3, <2>2, <2>3, <2>4, <2>5, <2>6
<1>12. Refused /\ SymbolStart(1, 2) <= s2
  <2>1. s2 >= p /\ s2 < e
    BY <1>3, <1>9, <1>11
  <2>2. ~Unnoticed
    BY <1>3, <2>1 DEF Unnoticed
  <2>3. ~Apart
    BY <1>3, <2>1 DEF Apart
  <2> QED  BY <1>3, <2>2, <2>3 DEF OneAtATime
<1>13. k > 0
  <2> SUFFICES ASSUME k = 0 PROVE FALSE
    OBVIOUS
  <2>1. SymbolStart(1, 2) = p + S /\ SymbolStart(1, 0 + 1) = p
    BY <1>3, FrameOrder, SymbolPlaces
  <2> QED  BY <1>3, <1>9, <1>11, <1>12, <2>1
<1>14. TagsAhead = {2}
  <2>1. \A g \in 1 .. 2 : starts[g] \in n .. n + S - 1 <=> g = 2
    BY <1>3, <1>9
  <2> QED  BY <1>3, <2>1 DEF TagsAhead
<1> QED  BY <1>1, <1>3, <1>8, <1>9, <1>10, <1>12, <1>13, <1>14

LEMMA IgnoreWeakAlone ==
  ASSUME FramesTyped, SynchroTyped, NUp > 0, UNCHANGED <<starts, powers>>, OneAtATime, NEW a, Solo(a),
         IgnoreWeak
  PROVE  Solo(a)'
<1>1. /\ m_sync_state = "SINGLE_USER" /\ m_sync_state' = "SINGLE_USER" /\ user_u' = user_u
      /\ m_power2' = m_power2 /\ starts' = starts
      /\ nread' = nread + m_item_to_consume /\ m_item_to_consume' = m_item_to_consume
      /\ GetType(user_u.cnt) = "PAYLOAD" /\ Cardinality(TagsAhead) = 1
  BY DEF IgnoreWeak, SecondUser, Consume
<1>2. /\ Refused /\ user_u.frame = 1 /\ ~Skipped /\ starts[2] < nread + SymbolItems
      /\ m_item_to_consume = SymbolItems
  BY <1>1, TagInPayload
<1>3. SingleAlone(a)
  BY DEF Solo
<1>4. PICK k \in 0 .. PayloadSymbols : user_u.cnt = PayloadCount + k * N /\ Out(a, Before(1) + k)
  <2>1. ASSUME NEW k \in 0 .. NUp + 4, user_u.cnt = k * N PROVE FALSE
    <3>1. k < NUp + 4 \/ k = NUp + 4
      BY Sizes
    <3> QED  BY <1>1, <2>1, <3>1, SymbolTypes
  <2>2. InPayloadAlone(a)
    BY <1>1, <1>3, <2>1 DEF SingleAlone, InPreambleAlone
  <2> QED  BY <1>2, <2>2 DEF InPayloadAlone
<1>5. Skipped'
  <2>1. Refused'
    BY <1>2, FramesStay
  <2> QED  BY <1>1, <1>2, <2>1 DEF Skipped
<1>6. InPayloadAlone(a)'
  <2>1. Out(a, Before(1) + k)'
    BY <1>4, FramesStay DEF Before
  <2>2. user_u'.cnt = PayloadCount + k * N /\ user_u'.frame = 1
    BY <1>1, <1>2, <1>4
  <2> QED  BY <1>5, <2>1, <2>2 DEF InPayloadAlone, PayloadCount
<1>7. nread' = starts'[1] + user_u'.cnt * OS + SymbolItems
  <2>1. nread = starts[1] + user_u.cnt * OS
    <3>1. nread = starts[1] + user_u.cnt * OS + 0
      BY <1>1, <1>2, <1>3 DEF SingleAlone
    <3>2. user_u.cnt * OS \in Int /\ starts[1] \in Int
      BY StateFacts, Sizes
    <3> QED  BY <3>1, <3>2
  <2>2. user_u.cnt * OS \in Int /\ starts[1] \in Int
    BY StateFacts, Sizes
  <2> QED  BY <1>1, <1>2, <2>1, <2>2
<1>8. SingleAlone(a)'
  <2>1. a.us[1] = "PAYLOAD" /\ user_u.cnt > 0 => user_u.cnt >= PayloadCount + N
    BY <1>1, <1>3 DEF SingleAlone
  <2>2. a.us[1] = "PAYLOAD" /\ user_u'.cnt > 0 => user_u'.cnt >= PayloadCount' + N
    BY <1>1, <2>1 DEF PayloadCount
  <2> QED  BY <1>1, <1>2, <1>5, <1>6, <1>7, <2>2 DEF SingleAlone
<1> QED  BY <1>1, <1>8 DEF Solo, IdleAlone

\* No second user is accepted.
LEMMA AcceptSecondAlone ==
  ASSUME FramesTyped, SynchroTyped, NUp > 0, OneAtATime, NEW a, KeepsPace(a), Solo(a), AcceptSecond
  PROVE  FALSE
<1>1. /\ m_sync_state = "SINGLE_USER" /\ GetType(user_u.cnt) = "PAYLOAD" /\ Cardinality(TagsAhead) = 1
      /\ \E f \in TagsAhead : ~TooWeak(f)
  BY DEF AcceptSecond, SecondUser
<1>2. Refused /\ user_u.frame = 1 /\ TagsAhead = {2}
  BY <1>1, TagInPayload
<1>3. m_power1 = powers[1]
  <2>1. m_power2 = 0
    BY DEF Solo
  <2>2. ~SlotTwo(a)
    BY <2>1 DEF SlotTwo
  <2>3. SlotOne(a)
    BY <1>1, <2>2 DEF KeepsPace, SingleStates
  <2> QED  BY <1>2, <2>3 DEF SlotOne
<1>4. powers[1] > 0 /\ powers[1] \in Nat
  BY StateFacts
<1> QED  BY <1>1, <1>2, <1>3, <1>4 DEF TooWeak, PowerOfFirst, Refused

LEMMA SingleWindowAlone ==
  ASSUME FramesTyped, SynchroTyped, NUp > 0, UNCHANGED <<starts, powers>>, OneAtATime, NEW a,
         KeepsPace(a), Solo(a), SingleWindow, NEW b, Moves(a, b)
  PROVE  Solo(b)'
<1> DEFINE type == GetType(user_u.cnt)
           len == IF type = "QUARTER_DOWN" THEN N \div 4 ELSE N
<1>1. /\ m_sync_state = "SINGLE_USER" /\ m_sync_state' = "SINGLE_USER" /\ type # "VOID"
      /\ AddWindow(Window(m_power1, m_power2, len, type, "VOID", "VOID", len * OS))
      /\ user_u' = [user_u EXCEPT !.cnt = @ + len]
      /\ nread' = nread + len * OS /\ m_item_to_consume' = len * OS
      /\ m_power2' = m_power2 /\ starts' = starts /\ powers' = powers
      /\ ~(type = "PAYLOAD" /\ Cardinality(TagsAhead) = 1)
  BY DEF SingleWindow, Consume, SecondUser
<1>2. PICK c \in Int : c = user_u.cnt
  BY StateFacts
<1>3. len \in 1 .. N /\ len * OS \in 0 .. SymbolItems /\ len * OS > 0 /\ len \in Nat /\ len > 0
  BY Sizes
<1>4. /\ type # "QUARTER_DOWN" => len = N
      /\ type = "QUARTER_DOWN" => len = N \div 4
      /\ type = GetType(c) /\ type \in WindowTypes
  BY <1>2, TypeOfCount
<1> HIDE DEF type, len
<1>5. PICK w \in WindowSet :
        /\ windows' = Append(windows, w)
        /\ w.power1 = m_power1 /\ w.power2 = m_power2 /\ w.win_len = len /\ w.Tu = type
        /\ w.Ti1 = "VOID" /\ w.Ti2 = "VOID" /\ w.at = nread
  <2>1. "VOID" \in WindowTypes
    BY DEF WindowTypes
  <2>2. m_power1 \in Nat /\ m_power2 \in Nat /\ nread \in Nat
    BY StateFacts
  <2>3. len \in 1 .. N /\ len * OS \in 0 .. SymbolItems /\ type \in WindowTypes
    BY <1>3, <1>4
  <2>4. AddWindow(Window(m_power1, m_power2, len, type, "VOID", "VOID", len * OS))
    BY <1>1
  <2> QED  BY <2>1, <2>2, <2>3, <2>4, WindowWritten, SMTT(30)
<1>6. b = Step(a, w)
  BY <1>5, MovesWritten DEF SynchroTyped
<1>7. /\ m_power2 = 0 /\ SlotOne(a) /\ StatesTyped(a)
  <2>1. m_power2 = 0
    BY DEF Solo
  <2>2. ~SlotTwo(a)
    BY <2>1 DEF SlotTwo
  <2> QED  BY <1>1, <2>1, <2>2 DEF KeepsPace, SingleStates
<1>8. /\ m_power1 > 0 /\ Quiet(a) /\ c >= 0
      /\ c = 0 => a.us[1] # "PREAMBLE"
      /\ c > 0 => Begun(a, 1, m_power1)
  <2>1. m_power1 > 0
    BY <1>7, StateFacts DEF SlotOne
  <2> QED  BY <1>2, <1>7, <2>1 DEF SlotOne
<1>9. c = 0 => type = "UPCHIRP"
  <2>1. c = 0 => c < N
    BY Sizes
  <2> QED  BY <1>2, <1>4, <2>1, TypeRanges
<1>10. /\ OutputIn(a, w, 2) = <<>>
       /\ type = "PAYLOAD" => OutputIn(a, w, 1) = <<Su(w)>>
       /\ type # "PAYLOAD" /\ (a.us[1] = "PAYLOAD" => type = "UPCHIRP") =>
            OutputIn(a, w, 1) = <<>> /\ b.us[1] # "PAYLOAD"
  <2>1. type = "PAYLOAD" => len = N
    BY <1>4
  <2>2. type = "UPCHIRP" => len = N
    BY <1>4
  <2>3. a.pt # "PAYLOAD"
    BY DEF Solo
  <2>4. \/ Begun(a, 1, w.power1) /\ (w.Tu = "UPCHIRP" => w.win_len = N)
        \/ a.us[1] # "PREAMBLE" /\ w.Tu = "UPCHIRP" /\ w.win_len = N
    BY <1>5, <1>8, <1>9, <2>2
  <2>5. w.power1 > 0 /\ w.power2 = 0 /\ w.Ti1 = "VOID" /\ w.Tu # "VOID"
    BY <1>1, <1>5, <1>7, <1>8
  <2> QED  BY <1>5, <1>6, <1>7, <1>8, <2>1, <2>3, <2>4, <2>5, SoloOutput
<1>11. b.sy[1] = a.sy[1] \o OutputIn(a, w, 1) /\ b.sy[2] = a.sy[2] \o OutputIn(a, w, 2) /\ b.pt = "VOID"
  BY <1>5, <1>6, SMTT(60) DEF Step, Users
<1>12. b.sy[2] = <<>> /\ b.pt # "PAYLOAD" /\ a.sy[1] \in Seq(Symbols)
  <2>1. a.sy[2] = <<>> /\ a.sy[1] \in Seq(Symbols)
    BY DEF Solo
  <2>2. <<>> \o <<>> = <<>>
    OBVIOUS
  <2> QED  BY <1>10, <1>11, <2>1, <2>2
<1>13. PICK f \in 1 .. 2 : f = user_u.frame /\ (f = 2 => Apart)
  BY <1>1 DEF Solo, SingleAlone
<1>14. user_u'.cnt = c + len /\ user_u'.frame = f
  <2>1. user_u' = [user_u EXCEPT !.cnt = c + len] /\ c + len \in Int
    BY <1>1, <1>2, <1>3
  <2> QED  BY <1>13, <2>1, StateFacts
<1>15. PICK x \in Int, l \in Nat, s \in Nat, n \in Nat, S \in Nat :
         /\ x = c * OS /\ l = len * OS /\ s = starts[f] /\ n = nread /\ S = SymbolItems
         /\ (c + len) * OS = x + l /\ s' = s
  <2>1. c * OS \in Int /\ len * OS \in Nat /\ (c + len) * OS = c * OS + len * OS
    BY <1>3, Sizes
  <2> QED  BY <2>1, StateFacts, Sizes
<1>16. n = s + x + (IF Skipped THEN S ELSE 0)
  BY <1>1, <1>2, <1>13, <1>15 DEF Solo, SingleAlone
<1>17. nread' = n + l /\ starts'[f] = s
  BY <1>1, <1>15
<1>18. Refused => f = 1
  BY <1>13, FrameOrder
<1>19. a.us[1] = "PAYLOAD" /\ c > 0 => c >= PayloadCount + N
  BY <1>1, <1>2 DEF Solo, SingleAlone
<1>20. CASE InPreambleAlone(a)
  <2>1. PICK k \in 0 .. NUp + 4 : c = k * N /\ ~Skipped /\ Out(a, Before(f))
    BY <1>2, <1>13, <1>20 DEF InPreambleAlone
  <2>2. /\ c < PayloadCount + N
        /\ k < NUp + 4 => type \notin {"VOID", "QUARTER_DOWN", "PAYLOAD"}
        /\ k = NUp + 4 => type = "QUARTER_DOWN"
        /\ PayloadCount \in Nat
    BY <1>4, <2>1, SymbolTypes, CountFacts
  <2>3. k < NUp + 4 \/ k = NUp + 4
    BY Sizes
  <2>4. type # "PAYLOAD" /\ (a.us[1] = "PAYLOAD" => type = "UPCHIRP")
    <3>1. a.us[1] = "PAYLOAD" => c = 0
      BY <1>8, <1>19, <2>2, Sizes
    <3> QED  BY <1>9, <2>2, <2>3, <3>1
  <2>5. OutputIn(a, w, 1) = <<>> /\ b.us[1] # "PAYLOAD"
    BY <1>10, <2>4
  <2>6. Out(b, Before(f)) /\ b.sy[1] \in Seq(Symbols)
    BY <1>11, <1>12, <2>1, <2>5, OutKept
  <2>7. Out(b, Before(f))'
    BY <2>6, FramesStay DEF Before
  <2>8. \/ \E j \in 0 .. NUp + 4 : c + len = j * N
        \/ c + len = PayloadCount + 0 * N
    <3>1. CASE k = NUp + 4
      <4>1. len = N \div 4 /\ PayloadCount = (NUp + 4) * N + N \div 4
        BY <1>4, <2>2, <3>1, CountFacts
      <4>2. 0 * N = 0 /\ PayloadCount \in Nat
        BY CountFacts, Sizes
      <4> QED  BY <2>1, <3>1, <4>1, <4>2
    <3>2. CASE k < NUp + 4
      <4>1. len = N
        BY <1>4, <2>2, <3>2
      <4>2. k + 1 \in 0 .. NUp + 4 /\ (k + 1) * N = k * N + N
        BY <3>2, Sizes
      <4> QED  BY <2>1, <4>1, <4>2
    <3> QED  BY <2>3, <3>1, <3>2
  <2>9. n = s + x
    BY <1>15, <1>16, <2>1
  <2>10. Refused => ~(starts[2] < n + l)
    <3> SUFFICES ASSUME Refused PROVE ~(starts[2] < n + l)
      OBVIOUS
    <3>1. x + l <= PayloadCount * OS
      <4>1. c + len <= PayloadCount
        <5>1. ASSUME NEW j \in 0 .. NUp + 4, c + len = j * N PROVE c + len <= PayloadCount
          <6>1. j * N < PayloadCount /\ j * N \in Nat
            BY SymbolTypes
          <6> QED  BY <2>2, <5>1, <6>1
        <5>2. PayloadCount + 0 * N <= PayloadCount
          BY <2>2, Sizes
        <5> QED  BY <2>8, <5>1, <5>2
      <4>2. PICK d \in Nat : PayloadCount = (c + len) + d
        <5>1. PayloadCount - (c + len) \in Nat /\ PayloadCount = (c + len) + (PayloadCount - (c + len))
          BY <1>3, <2>2, <4>1
        <5> QED  BY <5>1
      <4>3. ((c + len) + d) * OS = (c + len) * OS + d * OS /\ d * OS \in Nat
        BY <1>3, Sizes
      <4>4. (c + len) * OS = x + l
        BY <1>15
      <4>5. PayloadCount * OS = (x + l) + d * OS
        BY <4>2, <4>3, <4>4
      <4> QED  BY <1>15, <4>3, <4>5
    <3>2. PayloadStart(1) = starts[1] + PayloadCount * OS /\ PayloadStart(1) <= starts[2]
      BY Places, FrameOrder
    <3>3. PICK y \in Nat, t \in Nat : y = PayloadCount * OS /\ t = starts[2]
      <4>1. PayloadCount * OS \in Nat
        BY CountFacts, Sizes
      <4> QED  BY <4>1, FrameFacts
    <3>4. s = starts[1]
      BY <1>15, <1>18
    <3> QED  BY <1>15, <2>9, <3>1, <3>2, <3>3, <3>4
  <2>11. ~Skipped'
    BY <1>1, <1>17, <2>10, FramesStay DEF Skipped
  <2>12. InPreambleAlone(b)' \/ InPayloadAlone(b)'
    <3>1. CASE \E j \in 0 .. NUp + 4 : c + len = j * N
      BY <1>14, <2>7, <2>11, <3>1 DEF InPreambleAlone
    <3>2. CASE c + len = PayloadCount + 0 * N
      <4>1. 0 \in 0 .. PayloadSymbols /\ ~(0 > 0) /\ Before(f) + 0 = Before(f)
        BY Sizes DEF Before
      <4>2. Out(b, Before(f) + 0)'
        BY <2>7, <4>1 DEF Before
      <4>3. user_u'.cnt = PayloadCount' + 0 * N
        BY <1>14, <3>2 DEF PayloadCount
      <4> QED  BY <1>14, <4>1, <4>2, <4>3 DEF InPayloadAlone
    <3> QED  BY <2>8, <3>1, <3>2
  <2>13. nread' = starts'[f] + (c + len) * OS + 0
    BY <1>15, <1>17, <2>9
  <2>14. SingleAlone(b)'
    BY <1>13, <1>14, <2>5, <2>11, <2>12, <2>13, FramesStay DEF SingleAlone
  <2> QED  BY <1>1, <1>7, <1>12, <2>6, <2>14 DEF Solo, IdleAlone
<1>21. CASE InPayloadAlone(a)
  <2>1. PICK k \in 0 .. PayloadSymbols : c = PayloadCount + k * N /\ Out(a, Before(f) + k)
    BY <1>2, <1>13, <1>21 DEF InPayloadAlone
  <2>2. k < PayloadSymbols /\ type = "PAYLOAD" /\ len = N /\ l = S /\ c >= PayloadCount /\ k \in Nat
    <3>1. k = PayloadSymbols \/ k < PayloadSymbols
      BY Sizes
    <3>2. k < PayloadSymbols /\ type = "PAYLOAD" /\ c >= PayloadCount
      BY <1>1, <1>4, <2>1, <3>1, SymbolTypes
    <3> QED  BY <1>4, <1>15, <3>2, Sizes
  <2>3. ~(nread <= starts[2] /\ starts[2] < nread + SymbolItems)
    <3> SUFFICES ASSUME nread <= starts[2] /\ starts[2] < nread + SymbolItems PROVE FALSE
      OBVIOUS
    <3>1. GetType(user_u.cnt) = "PAYLOAD"
      BY <1>2, <1>4, <2>2
    <3>2. TagsAhead = {2}
      BY <1>1, <3>1, TagInPayload
    <3>3. Cardinality({2}) = 1
      BY FS_Singleton
    <3> QED  BY <1>1, <2>2, <3>2, <3>3
  <2>4. PICK z \in Int : /\ z = SymbolStart(f, k + 1) /\ SymbolStart(f, (k + 1) + 1) = z + S
                         /\ SymbolStart(f, ((k + 1) + 1) + 1) = z + S + S /\ s + x = z
    <3>1. k + 1 \in Int /\ (k + 1) + 1 \in Int /\ k \in Int
      OBVIOUS
    <3>2. /\ SymbolStart(f, k + 1) \in Int
          /\ SymbolStart(f, (k + 1) + 1) = SymbolStart(f, k + 1) + SymbolItems
          /\ SymbolStart(f, ((k + 1) + 1) + 1) = SymbolStart(f, (k + 1) + 1) + SymbolItems
          /\ starts[f] + (PayloadCount + k * N) * OS = SymbolStart(f, k + 1)
      BY <3>1, SymbolPlaces
    <3> QED  BY <1>15, <2>1, <3>2
  <2>5. Su(w) = <<<<n, n + S>>>> /\ Su(w) \in Symbols
    <3>1. w.at = n /\ w.win_len = N /\ 0 < N
      BY <1>5, <1>15, <2>2, Sizes
    <3>2. n + 0 * OS = n /\ n + N * OS = n + S
      BY <1>15, Sizes
    <3>3. Su(w) = <<<<n + 0 * OS, n + N * OS>>>>
      BY <3>1 DEF Su, Piece
    <3>4. Su(w) = <<<<n, n + S>>>>
      BY <3>2, <3>3
    <3>5. <<n, n + S>> \in Int \X Int
      OBVIOUS
    <3> QED  BY <3>4, <3>5 DEF Symbols
  <2>6. ASSUME ~Skipped PROVE Su(w) = Whole(f, k + 1) /\ n = z
    BY <1>15, <1>16, <2>4, <2>5, <2>6 DEF Whole
  <2>7. ASSUME Skipped PROVE Su(w) = Whole(1, (k + 1) + 1) /\ f = 1 /\ n = z + S
    <3>1. f = 1
      BY <1>18, <2>7 DEF Skipped
    <3>2. n = z + S
      BY <1>15, <1>16, <2>4, <2>7
    <3> QED  BY <1>15, <2>4, <2>5, <3>1, <3>2 DEF Whole
  <2>8. PICK t \in Nat : t = starts[2]
    BY FrameFacts
  <2>9. Refused => (Skipped <=> t < n) /\ (~Skipped => n + S <= t)
    BY <1>15, <2>3, <2>8 DEF Skipped
  <2>10. Refused => Kept(k + 1) = IF Skipped THEN (k + 1) + 1 ELSE k + 1
    <3> SUFFICES ASSUME Refused PROVE Kept(k + 1) = IF Skipped THEN (k + 1) + 1 ELSE k + 1
      OBVIOUS
    <3>1. SymbolStart(1, 2) <= starts[2]
      <4>1. ~Unnoticed /\ ~Apart
        <5>1. ~Apart /\ PayloadStart(1) <= starts[2] /\ starts[2] < FrameEnd(1)
          BY FrameOrder
        <5>2. PayloadStart(1) \in Nat /\ FrameEnd(1) \in Nat
          BY FrameOrder
        <5> QED  BY <2>8, <5>1, <5>2 DEF Unnoticed
      <4> QED  BY <4>1 DEF OneAtATime
    <3>2. PICK m \in Nat : m = Lost /\ SymbolStart(1, m) <= t /\ t < SymbolStart(1, m + 1)
      BY <2>8, <3>1, LostSymbol
    <3>3. f = 1
      BY <1>18
    <3>4. SymbolStart(1, m) \in Int /\ SymbolStart(1, m + 1) \in Int
      BY <3>2, SymbolPlaces
    <3>5. CASE Skipped
      <4>1. SymbolStart(1, m) < SymbolStart(1, (k + 1) + 1)
        BY <1>15, <2>4, <2>7, <2>9, <3>2, <3>3, <3>4, <3>5
      <4>2. ~(SymbolStart(1, (k + 1) + 1) <= SymbolStart(1, m))
        BY <2>4, <3>3, <3>4, <4>1
      <4>3. ~((k + 1) + 1 <= m)
        BY <4>2, <2>2, <3>2, SymbolOrder
      <4>4. m <= k + 1
        BY <2>2, <4>3
      <4> QED  BY <3>2, <3>5, <4>4 DEF Kept
    <3>6. CASE ~Skipped
      <4>1. SymbolStart(1, (k + 1) + 1) < SymbolStart(1, m + 1)
        BY <1>15, <2>4, <2>6, <2>9, <3>2, <3>3, <3>4, <3>6
      <4>2. ~(SymbolStart(1, m + 1) <= SymbolStart(1, (k + 1) + 1))
        BY <2>4, <3>3, <3>4, <4>1
      <4>3. ~(m + 1 <= (k + 1) + 1)
        BY <4>2, <2>2, <3>2, SymbolOrder
      <4>4. ~(k + 1 >= m)
        BY <2>2, <4>3
      <4> QED  BY <3>2, <3>6, <4>4 DEF Kept
    <3> QED  BY <3>5, <3>6
  <2>11. PICK d \in Nat : d = Before(f) + k
    BY Sizes DEF Before
  <2>12. Su(w) = Expected(d + 1)
    <3>1. CASE f = 1
      <4>1. d = k /\ k + 1 <= PayloadSymbols
        BY <2>2, <2>11, <3>1, Sizes DEF Before
      <4>2. Expected(k + 1) = Whole(1, Kept(k + 1))
        BY <4>1 DEF Expected
      <4>3. ~Refused => ~Skipped /\ Kept(k + 1) = k + 1
        BY DEF Skipped, Kept
      <4> QED  BY <2>6, <2>7, <2>10, <3>1, <4>1, <4>2, <4>3
    <3>2. CASE f = 2
      <4>1. d = PayloadSymbols + k
        BY <2>11, <3>2 DEF Before
      <4>2. ~(d + 1 <= PayloadSymbols) /\ (d + 1) - PayloadSymbols = k + 1
        BY <2>2, <4>1, Sizes
      <4>3. ~Skipped
        BY <1>18, <3>2 DEF Skipped
      <4> QED  BY <2>6, <3>2, <4>2, <4>3 DEF Expected
    <3> QED  BY <3>1, <3>2
  <2>13. Out(b, d + 1) /\ b.sy[1] \in Seq(Symbols)
    <3>1. b.sy[1] = a.sy[1] \o <<Su(w)>>
      BY <1>10, <1>11, <2>2
    <3>2. Out(a, d)
      BY <2>1, <2>11
    <3> QED  BY <1>12, <2>5, <2>12, <3>1, <3>2, OutGrows
  <2>14. Out(b, d + 1)'
    BY <2>13, FramesStay
  <2>15. Skipped' <=> Skipped
    <3>1. Refused' <=> Refused
      BY FramesStay
    <3>2. nread' = n + S /\ starts'[2] = t
      BY <1>1, <1>17, <2>2, <2>8
    <3> QED  BY <1>15, <2>8, <2>9, <3>1, <3>2 DEF Skipped
  <2>16. InPayloadAlone(b)'
    <3>1. k + 1 \in 0 .. PayloadSymbols /\ Before(f) + (k + 1) = d + 1
      BY <2>2, <2>11, Sizes DEF Before
    <3>2. user_u'.cnt = PayloadCount + (k + 1) * N
      <4>1. (k + 1) * N = k * N + N /\ k * N \in Nat /\ PayloadCount \in Nat
        BY CountFacts, Sizes
      <4> QED  BY <1>14, <2>1, <2>2, <4>1, Sizes
    <3>3. m_item_to_consume' = SymbolItems
      BY <1>1, <1>15, <2>2
    <3>4. user_u'.cnt = PayloadCount' + (k + 1) * N
      BY <3>2 DEF PayloadCount
    <3>5. Out(b, Before(f) + (k + 1))'
      BY <2>14, <3>1 DEF Before
    <3> QED  BY <1>14, <3>1, <3>3, <3>4, <3>5 DEF InPayloadAlone
  <2>17. nread' = starts'[f] + (c + len) * OS + (IF Skipped' THEN SymbolItems ELSE 0)
    BY <1>15, <1>16, <1>17, <2>15
  <2>18. c + len >= PayloadCount + N
    BY <2>2, CountFacts, Sizes
  <2>19. SingleAlone(b)'
    <3>1. user_u'.cnt >= PayloadCount' + N
      BY <1>14, <2>18 DEF PayloadCount
    <3> QED  BY <1>13, <1>14, <2>16, <2>17, <3>1, FramesStay DEF SingleAlone
  <2> QED  BY <1>1, <1>7, <1>12, <2>13, <2>19 DEF Solo, IdleAlone
<1> QED  BY <1>1, <1>20, <1>21 DEF Solo, SingleAlone

AloneInv == OneAtATime => \E v : Leads(Current, windows, v) /\ KeepsPace(v) /\ Solo(v)

LEMMA InitAlone == Init => AloneInv
<1> SUFFICES ASSUME Init PROVE AloneInv
  OBVIOUS
<1>1. FramesTyped /\ nread = 0 /\ m_sync_state = "IDLE" /\ m_power2 = 0 /\ windows = <<>>
  BY DEF Init, SynchroInit, FramesTyped
<1>2. PICK v : Leads(Current, windows, v) /\ KeepsPace(v)
  BY InitPace DEF PaceInv
<1>3. v = Current
  <2>1. Len(windows) = 0
    BY <1>1
  <2> QED  BY <1>2, <2>1 DEF Leads
<1>4. v.sy[1] = <<>> /\ v.sy[2] = <<>> /\ v.pt = "NONE"
  <2>1. symbols = [u \in Users |-> <<>>] /\ prev_Ti2 = "NONE" /\ 1 \in Users /\ 2 \in Users
    BY DEF Init, AggregInit, Users
  <2> QED  BY <1>3, <2>1 DEF Current
<1>5. Out(v, 0)
  <2>1. Len(<<>>) = 0 /\ 1 .. 0 = {}
    OBVIOUS
  <2> QED  BY <1>4, <2>1 DEF Out
<1>6. nread <= starts[1]
  BY <1>1, FrameFacts
<1>7. v.sy[1] \in Seq(Symbols)
  BY <1>4
<1>8. Solo(v)
  BY <1>1, <1>4, <1>5, <1>6, <1>7 DEF Solo, IdleAlone, SingleAlone
<1> QED  BY <1>2, <1>8 DEF AloneInv

LEMMA SynchroAlone ==
  ASSUME NUp > 0, IInv, AloneInv, Synchro
  PROVE  AloneInv'
<1>1. FramesTyped /\ SynchroTyped /\ windows \in Seq(WindowSet)
  BY TypedParts DEF IInv, SynchroTyped
<1>2. SyncFrame /\ UNCHANGED <<starts, powers>> /\ UNCHANGED aggregVars
  BY DEF Synchro
<1>3. OneAtATime' <=> OneAtATime
  BY <1>2, FramesStay
<1> SUFFICES ASSUME OneAtATime PROVE \E v : Leads(Current, windows, v)' /\ KeepsPace(v)' /\ Solo(v)'
  BY <1>3 DEF AloneInv
<1>4. PICK a : Leads(Current, windows, a) /\ KeepsPace(a) /\ Solo(a)
  BY DEF AloneInv
<1>5. ASSUME NEW b, KeepsPace(b)', Moves(a, b), Solo(b)'
      PROVE  \E v : Leads(Current, windows, v)' /\ KeepsPace(v)' /\ Solo(v)'
  <2>1. Leads(Current, windows, b)'
    BY <1>1, <1>2, <1>4, <1>5, LeadsMoves
  <2> QED  BY <1>5, <2>1
<1>6. ASSUME windows' = windows, Solo(a)', \E b : KeepsPace(b)' /\ Moves(a, b)
      PROVE  \E v : Leads(Current, windows, v)' /\ KeepsPace(v)' /\ Solo(v)'
  <2>1. PICK b : KeepsPace(b)' /\ Moves(a, b)
    BY <1>6
  <2>2. b = a
    BY <1>1, <1>6, <2>1, MovesNothing
  <2> QED  BY <1>5, <1>6, <2>1, <2>2
<1>7. CASE FirstUser
  <2>1. Solo(a)'
    BY <1>1, <1>2, <1>4, <1>7, FirstUserAlone
  <2>2. \E b : KeepsPace(b)' /\ Moves(a, b)
    BY <1>1, <1>2, <1>4, <1>7, FirstUserPace
  <2> QED  BY <1>6, <1>7, <2>1, <2>2 DEF FirstUser
<1>8. CASE Idle
  <2>1. Solo(a)'
    BY <1>1, <1>2, <1>4, <1>8, IdleStepAlone
  <2>2. \E b : KeepsPace(b)' /\ Moves(a, b)
    BY <1>1, <1>2, <1>4, <1>8, IdlePace
  <2> QED  BY <1>6, <1>8, <2>1, <2>2 DEF Idle
<1>9. CASE FrameEnds
  <2>1. Solo(a)'
    BY <1>1, <1>2, <1>4, <1>9, FrameEndsAlone
  <2>2. ~Refused => OneUser
    BY DEF IInv, SyncInv
  <2>3. \E b : KeepsPace(b)' /\ Moves(a, b)
    BY <1>1, <1>2, <1>4, <1>9, <2>2, FrameEndsPace
  <2> QED  BY <1>6, <1>9, <2>1, <2>3 DEF FrameEnds
<1>10. CASE IgnoreWeak
  <2>1. Solo(a)'
    BY <1>1, <1>2, <1>4, <1>10, IgnoreWeakAlone
  <2>2. \E b : KeepsPace(b)' /\ Moves(a, b)
    BY <1>1, <1>2, <1>4, <1>10, IgnoreWeakPace
  <2> QED  BY <1>6, <1>10, <2>1, <2>2 DEF IgnoreWeak
<1>11. CASE AcceptSecond
  BY <1>1, <1>4, <1>11, AcceptSecondAlone
<1>12. CASE SingleWindow
  <2>1. PICK b : KeepsPace(b)' /\ Moves(a, b)
    BY <1>1, <1>2, <1>4, <1>12, SingleWindowPace
  <2>2. Solo(b)'
    BY <1>1, <1>2, <1>4, <1>12, <2>1, SingleWindowAlone
  <2> QED  BY <1>5, <2>1, <2>2
<1>13. CASE RealignToNew \/ RealignToPrev \/ UserEnds \/ MultiWindow
  BY <1>4, <1>13 DEF Solo, RealignToNew, RealignToPrev, UserEnds, MultiWindow
<1> QED  BY <1>2, <1>7, <1>8, <1>9, <1>10, <1>11, <1>12, <1>13 DEF SyncFrame

\* Solo speaks of mu_synchro and of the state that the windows lead to.
LEMMA SoloStays ==
  ASSUME UNCHANGED <<starts, powers, nread, m_sync_state, user_u, m_power2, m_item_to_consume>>,
         NEW v, Solo(v)
  PROVE  Solo(v)'
<1>1. /\ starts' = starts /\ nread' = nread /\ m_sync_state' = m_sync_state
      /\ user_u' = user_u /\ m_power2' = m_power2 /\ m_item_to_consume' = m_item_to_consume
  OBVIOUS
<1>2. /\ OneAtATime' <=> OneAtATime
      /\ Apart' <=> Apart
      /\ Refused' <=> Refused
      /\ FrameEnd(1)' = FrameEnd(1)
      /\ \A a, n : Out(a, n)' <=> Out(a, n)
  BY FramesStay
<1>3. Skipped' <=> Skipped
  BY <1>1, <1>2 DEF Skipped
<1>4. IdleAlone(v)' <=> IdleAlone(v)
  BY <1>1, <1>2 DEF IdleAlone
<1>5. InPreambleAlone(v)' <=> InPreambleAlone(v)
  <2>1. \A n : Out(v, n)' <=> Out(v, n)
    BY <1>2
  <2> QED  BY <1>1, <1>3, <2>1 DEF InPreambleAlone, Before
<1>6. InPayloadAlone(v)' <=> InPayloadAlone(v)
  <2>1. \A n : Out(v, n)' <=> Out(v, n)
    BY <1>2
  <2> QED  BY <1>1, <1>3, <2>1 DEF InPayloadAlone, Before, PayloadCount
<1>7. SingleAlone(v)' <=> SingleAlone(v)
  BY <1>1, <1>2, <1>3, <1>5, <1>6 DEF SingleAlone, PayloadCount
<1> QED  BY <1>1, <1>2, <1>4, <1>7 DEF Solo

LEMMA AggregateAlone ==
  ASSUME IInv, AloneInv, Aggregate
  PROVE  AloneInv'
<1>1. windows \in Seq(WindowSet) /\ ProcessWindow
  BY TypedParts DEF IInv, SynchroTyped, Aggregate
<1>2. OneAtATime' <=> OneAtATime
  BY FramesStay DEF Aggregate
<1> SUFFICES ASSUME OneAtATime PROVE \E v : Leads(Current, windows, v)' /\ KeepsPace(v)' /\ Solo(v)'
  BY <1>2 DEF AloneInv
<1>3. PICK v : Leads(Current, windows, v) /\ KeepsPace(v) /\ Solo(v)
  BY DEF AloneInv
<1>4. Leads(Current, windows, v)'
  BY <1>1, <1>3, LeadsProcess
<1>5. KeepsPace(v)' /\ Solo(v)'
  BY <1>3, PaceStays, SoloStays DEF Aggregate
<1> QED  BY <1>4, <1>5

LEMMA UnchangedAlone ==
  ASSUME AloneInv, UNCHANGED vars
  PROVE  AloneInv'
<1>1. OneAtATime' <=> OneAtATime
  BY FramesStay DEF vars
<1> SUFFICES ASSUME OneAtATime PROVE \E v : Leads(Current, windows, v)' /\ KeepsPace(v)' /\ Solo(v)'
  BY <1>1 DEF AloneInv
<1>2. PICK v : Leads(Current, windows, v) /\ KeepsPace(v) /\ Solo(v)
  BY DEF AloneInv
<1>3. Leads(Current, windows, v)'
  BY <1>2, LeadsStays
<1>4. KeepsPace(v)' /\ Solo(v)'
  BY <1>2, PaceStays, SoloStays DEF vars, synchroVars
<1> QED  BY <1>3, <1>4

LEMMA AloneInvariant == ASSUME NUp > 0 PROVE Spec => [](IInv /\ AloneInv)
<1>1. Init => IInv /\ AloneInv
  BY InitIInv, InitAlone
<1>2. IInv /\ AloneInv /\ [Next]_vars => (IInv /\ AloneInv)'
  <2> SUFFICES ASSUME IInv, AloneInv, [Next]_vars PROVE (IInv /\ AloneInv)'
    OBVIOUS
  <2>1. CASE Synchro
    BY <2>1, SynchroStep, SynchroAlone
  <2>2. CASE Aggregate
    BY <2>2, AggregateStep, AggregateAlone
  <2>3. CASE UNCHANGED vars
    BY <2>3, UnchangedIInv, UnchangedAlone
  <2> QED  BY <2>1, <2>2, <2>3 DEF Next
<1> QED  BY <1>1, <1>2, PTL DEF Spec

\* When the input is used up, so are the frames.
LEMMA AllReceived ==
  ASSUME FramesTyped, SynchroTyped, NUp > 0, FramesInside, AloneInv, OneAtATime, Finished
  PROVE  /\ symbols[1] \in Seq(Symbols) /\ symbols[2] = <<>>
         /\ Apart => Out([sy |-> symbols], PayloadSymbols + PayloadSymbols)
         /\ ~Apart => Out([sy |-> symbols], PayloadSymbols)
<1>1. PICK v : Leads(Current, windows, v) /\ KeepsPace(v) /\ Solo(v)
  BY DEF AloneInv
<1>2. v.sy = symbols
  <2>1. Len(windows) = 0
    BY DEF Finished
  <2> QED  BY <1>1, <2>1 DEF Leads, Current
<1>3. ASSUME NEW n, Out(v, n) PROVE Out([sy |-> symbols], n)
  BY <1>2, <1>3 DEF Out
<1>4. PICK s1 \in Nat, s2 \in Nat, n \in Nat, S \in Nat, p \in Nat, e \in Nat, q \in Nat, z \in Nat :
        /\ s1 = starts[1] /\ s2 = starts[2] /\ n = nread /\ S = SymbolItems /\ S > 0
        /\ p = PayloadStart(1) /\ e = FrameEnd(1) /\ s1 + S <= p /\ p + S <= e
        /\ s1 + S <= s2 /\ SymbolStart(1, 2) = p + S
        /\ q = PayloadCount * OS /\ z = PayloadSymbols * SymbolItems
  <2>1. PayloadCount * OS \in Nat /\ PayloadSymbols * SymbolItems \in Nat
    BY CountFacts, Sizes
  <2> QED  BY <2>1, FrameOrder, StateFacts, Sizes
<1>5. p = s1 + q /\ e = p + z /\ PayloadStart(2) = s2 + q /\ FrameEnd(2) = s2 + q + z
  <2>1. PayloadStart(1) = starts[1] + PayloadCount * OS /\ PayloadStart(2) = starts[2] + PayloadCount * OS
    BY Places
  <2>2. /\ FrameEnd(1) = PayloadStart(1) + PayloadSymbols * SymbolItems
        /\ FrameEnd(2) = PayloadStart(2) + PayloadSymbols * SymbolItems
    BY SymbolPlaces
  <2> QED  BY <1>4, <2>1, <2>2
<1>6. n + S > s2 + q + z
  <2>1. starts \in Starts /\ MaxItems \in Nat
    BY MuAssumption DEF FramesTyped
  <2>2. s2 + q + z <= MaxItems
    BY <1>4, <2>1 DEF FramesInside
  <2> QED  BY <1>4, <2>1, <2>2, SMTT(60) DEF Finished
<1>7. n > e /\ S <= q /\ S <= z
  <2>1. s2 + q + z >= e + S
    BY <1>4, <1>5
  <2> QED  BY <1>4, <1>5, <1>6, <2>1
<1>8. CASE m_sync_state = "IDLE"
  <2>1. CASE nread <= starts[1] /\ Out(v, 0)
    BY <1>4, <1>7, <2>1, SMTT(60)
  <2>2. CASE /\ starts[1] < nread /\ FrameEnd(1) + SymbolItems <= nread /\ Out(v, PayloadSymbols)
             /\ Apart => nread <= starts[2]
             /\ ~Apart => starts[2] < nread
    <3>1. ~Apart
      BY <1>4, <1>6, <1>7, <2>2
    <3> QED  BY <1>1, <1>2, <1>3, <2>2, <3>1 DEF Solo
  <2>3. CASE Apart /\ starts[1] < nread /\ starts[2] < nread /\ Out(v, PayloadSymbols + PayloadSymbols)
    BY <1>1, <1>2, <1>3, <2>3 DEF Solo
  <2> QED  BY <1>1, <1>8, <2>1, <2>2, <2>3 DEF Solo, IdleAlone
<1>9. CASE m_sync_state = "SINGLE_USER"
  <2>1. PICK f \in 1 .. 2, c \in Int :
          /\ f = user_u.frame /\ c = user_u.cnt /\ (f = 2 => Apart)
          /\ nread = starts[f] + c * OS + (IF Skipped THEN SymbolItems ELSE 0)
          /\ InPreambleAlone(v) \/ InPayloadAlone(v)
    BY <1>1, <1>9, StateFacts DEF Solo, SingleAlone
  <2>2. PICK s \in Nat, x \in Int : s = starts[f] /\ x = c * OS /\ (f = 1 => s = s1) /\ (f = 2 => s = s2)
    BY <1>4, Sizes
  <2>3. n = s + x + (IF Skipped THEN S ELSE 0)
    BY <1>4, <2>1, <2>2
  <2>4. Skipped => f = 1 /\ s2 >= p + S
    <3> SUFFICES ASSUME Skipped PROVE f = 1 /\ s2 >= p + S
      OBVIOUS
    <3>1. Refused
      BY DEF Skipped
    <3>2. ~Apart /\ p <= s2 /\ s2 < e
      BY <1>4, <3>1, FrameOrder
    <3>3. ~Unnoticed
      BY <1>4, <3>2 DEF Unnoticed
    <3> QED  BY <1>4, <2>1, <3>2, <3>3 DEF OneAtATime
  <2>5. CASE InPreambleAlone(v)
    <3>1. PICK k \in 0 .. NUp + 4 : c = k * N /\ ~Skipped
      BY <2>1, <2>5 DEF InPreambleAlone
    <3>2. x <= q
      <4>1. c <= PayloadCount /\ PayloadCount \in Nat
        BY <3>1, SymbolTypes, CountFacts
      <4>2. PICK d \in Nat : PayloadCount = c + d
        <5>1. PayloadCount - c \in Nat /\ PayloadCount = c + (PayloadCount - c)
          BY <4>1
        <5> QED  BY <5>1
      <4>3. (c + d) * OS = c * OS + d * OS /\ d * OS \in Nat
        BY Sizes
      <4> QED  BY <1>4, <2>2, <4>2, <4>3
    <3>3. n = s + x
      BY <2>2, <2>3, <3>1
    <3>4. f # 1
      BY <1>4, <1>5, <1>7, <2>2, <3>2, <3>3
    <3>5. f # 2
      BY <1>4, <1>6, <1>7, <2>2, <3>2, <3>3
    <3> QED  BY <3>4, <3>5
  <2>6. CASE InPayloadAlone(v)
    <3>1. PICK k \in 0 .. PayloadSymbols : c = PayloadCount + k * N /\ Out(v, Before(f) + k)
      BY <2>1, <2>6 DEF InPayloadAlone
    <3>2. PICK y \in Nat : y = k * SymbolItems /\ x = q + y /\ y <= z /\ (k < PayloadSymbols => y + S <= z)
      <4>1. (PayloadCount + k * N) * OS = PayloadCount * OS + (k * N) * OS
        BY CountFacts, Sizes
      <4>2. (k * N) * OS = k * (N * OS)
        BY Sizes
      <4>3. PICK d \in Nat : PayloadSymbols = k + d
        <5>1. PayloadSymbols - k \in Nat /\ PayloadSymbols = k + (PayloadSymbols - k)
          BY Sizes
        <5> QED  BY <5>1
      <4>4. (k + d) * SymbolItems = k * SymbolItems + d * SymbolItems /\ d * SymbolItems \in Nat
            /\ k * SymbolItems \in Nat
        BY Sizes
      <4>5. d > 0 => d * SymbolItems >= SymbolItems
        <5> SUFFICES ASSUME d > 0 PROVE d * SymbolItems >= SymbolItems
          OBVIOUS
        <5>1. PICK g \in Nat : d = g + 1
          <6>1. d - 1 \in Nat /\ d = (d - 1) + 1
            OBVIOUS
          <6> QED  BY <6>1
        <5>2. (g + 1) * SymbolItems = g * SymbolItems + SymbolItems /\ g * SymbolItems \in Nat
          BY Sizes
        <5> QED  BY <5>1, <5>2, Sizes
      <4>6. k < PayloadSymbols => d > 0
        BY <4>3
      <4>7. N * OS = SymbolItems
        BY Sizes
      <4>8. x = q + k * SymbolItems
        BY <1>4, <2>2, <3>1, <4>1, <4>2, <4>7
      <4> QED  BY <1>4, <4>3, <4>4, <4>5, <4>6, <4>8
    <3>3. f = 2
      <4> SUFFICES ASSUME f = 1 PROVE FALSE
        OBVIOUS
      <4>1. n <= e + (IF Skipped THEN S ELSE 0)
        BY <1>4, <1>5, <2>2, <2>3, <3>2
      <4>2. Skipped => n > e + S
        <5>1. Skipped => s2 >= s1 + S + S
          BY <1>4, <2>4
        <5> QED  BY <1>4, <1>5, <1>6, <5>1
      <4> QED  BY <1>4, <1>7, <4>1, <4>2
    <3>4. k = PayloadSymbols
      <4>1. n = s2 + q + y
        <5>1. ~Skipped
          BY <2>4, <3>3
        <5> QED  BY <2>2, <2>3, <3>2, <3>3, <5>1
      <4>2. ~(k < PayloadSymbols)
        BY <1>4, <1>6, <3>2, <4>1
      <4> QED  BY <4>2, Sizes
    <3>5. Apart /\ Out(v, PayloadSymbols + PayloadSymbols)
      BY <2>1, <3>1, <3>3, <3>4 DEF Before
    <3> QED  BY <1>1, <1>2, <1>3, <3>5 DEF Solo
  <2> QED  BY <2>1, <2>5, <2>6
<1>10. m_sync_state = "IDLE" \/ m_sync_state = "SINGLE_USER"
  BY <1>1 DEF Solo
<1>11. symbols[1] \in Seq(Symbols)
  BY <1>1, <1>2 DEF Solo
<1> QED  BY <1>8, <1>9, <1>10, <1>11

LEMMA WholeIsSymbol ==
  ASSUME FramesTyped, NEW f \in 1 .. 2, NEW j \in Int
  PROVE  IsSymbol(Whole(f, j), f, j)
<1>1. PICK x \in Int, y \in Int : x = SymbolStart(f, j) /\ y = SymbolStart(f, j + 1)
  <2>1. j + 1 \in Int
    OBVIOUS
  <2> QED  BY <2>1, SymbolPlaces
<1>2. Whole(f, j) = <<<<x, y>>>>
  BY <1>1 DEF Whole
<1>3. Near(x, x) /\ Near(y, y)
  BY Sizes DEF Near
<1> QED  BY <1>1, <1>2, <1>3 DEF IsSymbol, Last

\* The symbols of a frame, as a part of what was output.
LEMMA PartIs ==
  ASSUME FramesTyped, NEW n \in Nat, NEW fs, NEW js \in Seq(Int), NEW f \in 1 .. 2,
         Len(js) = n, \A k \in 1 .. n : fs[k] = f,
         NEW t, Len(t) = n, \A k \in 1 .. n : t[k] = Whole(f, js[k])
  PROVE  Are(t, fs, js)
<1> SUFFICES ASSUME NEW k \in 1 .. n PROVE IsSymbol(t[k], fs[k], js[k])
  BY DEF Are
<1>1. js[k] \in Int
  OBVIOUS
<1>2. IsSymbol(Whole(f, js[k]), f, js[k])
  BY <1>1, WholeIsSymbol
<1> QED  BY <1>2

\* A part of what was output for user 1.
LEMMA PartOut ==
  ASSUME NEW s \in Seq(Symbols), NEW m \in Nat, NEW n \in Nat, m + n <= Len(s)
  PROVE  /\ Len(SubSeq(s, m + 1, m + n)) = n
         /\ \A k \in 1 .. n : SubSeq(s, m + 1, m + n)[k] = s[m + k]
OBVIOUS

\* All symbols of a frame in a part of what was output.
LEMMA AllOfPart ==
  ASSUME FramesTyped, NEW f \in 1 .. 2, NEW t, Len(t) = PayloadSymbols,
         \A k \in 1 .. PayloadSymbols : t[k] = Whole(f, k)
  PROVE  AllOf(f, t)
<1> DEFINE fs == [k \in 1 .. PayloadSymbols |-> f]
           js == [k \in 1 .. PayloadSymbols |-> k]
<1>1. PayloadSymbols \in Nat
  BY Sizes
<1>2. /\ js \in Seq(Int) /\ Len(js) = PayloadSymbols
      /\ \A k \in 1 .. PayloadSymbols : js[k] = k /\ fs[k] = f
  BY <1>1
<1> HIDE DEF fs, js
<1>3. Are(t, fs, js)
  BY <1>1, <1>2, PartIs, SMTT(60)
<1> QED  BY <1>3 DEF AllOf, fs, js

LEMMA OneFrame ==
  ASSUME FramesTyped, SynchroTyped, NUp > 0, FramesInside, AloneInv
  PROVE  FirstUndisturbed
<1> SUFFICES ASSUME Finished
             PROVE  /\ Unnoticed => AllOf(1, symbols[1]) /\ symbols[2] = <<>>
                    /\ Apart => /\ symbols[2] = <<>>
                                /\ Len(symbols[1]) = 2 * PayloadSymbols
                                /\ AllOf(1, SubSeq(symbols[1], 1, PayloadSymbols))
                                /\ AllOf(2, SubSeq(symbols[1], PayloadSymbols + 1, 2 * PayloadSymbols))
  BY DEF FirstUndisturbed
<1>1. PICK n \in Nat : n = PayloadSymbols
  BY Sizes
<1>2. PICK s1 \in Nat, s2 \in Nat, S \in Nat, p \in Nat, e \in Nat :
        /\ s1 = starts[1] /\ s2 = starts[2] /\ S = SymbolItems /\ S > 0
        /\ p = PayloadStart(1) /\ e = FrameEnd(1) /\ p + S <= e
  BY FrameOrder, Sizes
<1>3. PICK s : s = symbols[1]
  OBVIOUS
<1>4. ASSUME Unnoticed PROVE AllOf(1, symbols[1]) /\ symbols[2] = <<>>
  <2>1. ~Refused /\ ~Apart
    <3>1. s2 < p \/ (s2 >= e /\ s2 < e + S)
      BY <1>2, <1>4 DEF Unnoticed
    <3>2. ~Apart
      BY <1>2, <3>1 DEF Apart
    <3>3. ~Refused
      BY <1>2, <3>1, FrameOrder
    <3> QED  BY <3>2, <3>3
  <2>2. symbols[2] = <<>> /\ Out([sy |-> symbols], n)
    BY <1>1, <1>4, <2>1, AllReceived DEF OneAtATime
  <2>3. Len(s) = n /\ \A k \in 1 .. n : s[k] = Expected(k)
    BY <1>3, <2>2 DEF Out
  <2>4. \A k \in 1 .. n : Expected(k) = Whole(1, k)
    BY <1>1, <2>1 DEF Expected, Kept
  <2>5. \A k \in 1 .. n : s[k] = Whole(1, k)
    BY <2>3, <2>4
  <2> QED  BY <1>1, <1>3, <2>2, <2>3, <2>5, AllOfPart
<1>5. ASSUME Apart
      PROVE  /\ symbols[2] = <<>>
             /\ Len(symbols[1]) = 2 * PayloadSymbols
             /\ AllOf(1, SubSeq(symbols[1], 1, PayloadSymbols))
             /\ AllOf(2, SubSeq(symbols[1], PayloadSymbols + 1, 2 * PayloadSymbols))
  <2>1. ~Refused
    BY <1>5, FrameOrder
  <2>2. symbols[2] = <<>> /\ Out([sy |-> symbols], n + n) /\ s \in Seq(Symbols)
    BY <1>1, <1>3, <1>5, AllReceived DEF OneAtATime
  <2>3. Len(s) = n + n /\ \A k \in 1 .. n + n : s[k] = Expected(k)
    BY <1>3, <2>2 DEF Out
  <2>4. \A k \in 1 .. n : s[k] = Whole(1, k)
    <3> SUFFICES ASSUME NEW k \in 1 .. n PROVE s[k] = Whole(1, k)
      OBVIOUS
    <3>1. k \in 1 .. n + n /\ k <= PayloadSymbols
      BY <1>1
    <3>2. Expected(k) = Whole(1, k)
      BY <2>1, <3>1 DEF Expected, Kept
    <3> QED  BY <2>3, <3>1, <3>2
  <2>5. \A k \in 1 .. n : s[n + k] = Whole(2, k)
    <3> SUFFICES ASSUME NEW k \in 1 .. n PROVE s[n + k] = Whole(2, k)
      OBVIOUS
    <3>1. n + k \in 1 .. n + n /\ ~(n + k <= PayloadSymbols) /\ (n + k) - PayloadSymbols = k
      BY <1>1
    <3>2. Expected(n + k) = Whole(2, k)
      BY <3>1 DEF Expected
    <3> QED  BY <2>3, <3>1, <3>2
  <2>6. AllOf(1, SubSeq(s, 1, n))
    <3>1. PICK t : t = SubSeq(s, 0 + 1, 0 + n)
      OBVIOUS
    <3>2. Len(t) = n /\ \A k \in 1 .. n : t[k] = s[0 + k]
      BY <2>2, <2>3, <3>1, PartOut
    <3>3. \A k \in 1 .. n : t[k] = Whole(1, k)
      BY <2>4, <3>2
    <3>4. AllOf(1, t)
      BY <1>1, <3>2, <3>3, AllOfPart
    <3>5. 0 + 1 = 1 /\ 0 + n = n
      OBVIOUS
    <3> QED  BY <3>1, <3>4, <3>5
  <2>7. AllOf(2, SubSeq(s, n + 1, n + n))
    <3>1. PICK t : t = SubSeq(s, n + 1, n + n)
      OBVIOUS
    <3>2. Len(t) = n /\ \A k \in 1 .. n : t[k] = s[n + k]
      BY <2>2, <2>3, <3>1, PartOut
    <3>3. \A k \in 1 .. n : t[k] = Whole(2, k)
      BY <2>5, <3>2
    <3>4. AllOf(2, t)
      BY <1>1, <3>2, <3>3, AllOfPart
    <3> QED  BY <3>1, <3>4
  <2>8. n + n = 2 * PayloadSymbols
    BY <1>1
  <2> QED  BY <1>1, <1>3, <2>2, <2>3, <2>6, <2>7, <2>8
<1> QED  BY <1>4, <1>5

LEMMA OneRefused ==
  ASSUME FramesTyped, SynchroTyped, NUp > 0, FramesInside, AloneInv
  PROVE  RefusedCostsOne
<1> DEFINE lost == (starts[2] - PayloadStart(1)) \div SymbolItems + 1
           kept == [k \in 1 .. PayloadSymbols - 1 |-> IF k < lost THEN k ELSE k + 1]
           fs == [k \in DOMAIN kept |-> 1]
<1> SUFFICES ASSUME Finished, Refused, starts[2] >= SymbolStart(1, 2)
             PROVE  symbols[2] = <<>> /\ Are(SubSeq(symbols[1], 1, PayloadSymbols - 1), fs, kept)
  BY DEF RefusedCostsOne
<1>1. PICK n \in Nat : n + 1 = PayloadSymbols /\ n = PayloadSymbols - 1
  <2>1. PayloadSymbols - 1 \in Nat /\ (PayloadSymbols - 1) + 1 = PayloadSymbols
    BY MuAssumption
  <2> QED  BY <2>1
<1>2. ~Apart
  BY FrameOrder
<1>3. PICK s : s = symbols[1]
  OBVIOUS
<1>4. symbols[2] = <<>> /\ Out([sy |-> symbols], n + 1) /\ s \in Seq(Symbols)
  BY <1>1, <1>2, <1>3, AllReceived DEF OneAtATime
<1>5. Len(s) = n + 1 /\ \A k \in 1 .. n + 1 : s[k] = Expected(k)
  BY <1>3, <1>4 DEF Out
<1>6. SymbolStart(1, 2) \in Int /\ starts[2] \in Nat
  BY FrameOrder, Sizes
<1>7. Lost \in Nat /\ Lost = lost
  BY <1>6, LostSymbol DEF Lost
<1> HIDE DEF lost
<1>8. /\ kept \in Seq(Int) /\ Len(kept) = n
      /\ \A k \in 1 .. n : kept[k] = (IF k < lost THEN k ELSE k + 1) /\ fs[k] = 1
  BY <1>1, <1>7
<1>9. \A k \in 1 .. n : Expected(k) = Whole(1, kept[k])
  <2> SUFFICES ASSUME NEW k \in 1 .. n PROVE Expected(k) = Whole(1, kept[k])
    OBVIOUS
  <2>1. k <= PayloadSymbols /\ kept[k] = (IF k < lost THEN k ELSE k + 1)
    BY <1>1, <1>8
  <2>2. Kept(k) = IF k < lost THEN k ELSE k + 1
    BY <1>7 DEF Kept
  <2> QED  BY <2>1, <2>2 DEF Expected
<1> HIDE DEF kept, fs
<1>10. PICK t : t = SubSeq(s, 0 + 1, 0 + n)
  OBVIOUS
<1>11. Len(t) = n /\ \A k \in 1 .. n : t[k] = s[0 + k]
  BY <1>4, <1>5, <1>10, PartOut
<1>12. \A k \in 1 .. n : t[k] = Whole(1, kept[k])
  BY <1>5, <1>9, <1>11
<1>13. Are(t, fs, kept)
  <2>1. \A k \in 1 .. n : fs[k] = 1
    BY <1>8
  <2>2. kept \in Seq(Int) /\ Len(kept) = n
    BY <1>8
  <2> QED  BY <1>11, <1>12, <2>1, <2>2, PartIs
<1>14. t = SubSeq(symbols[1], 1, PayloadSymbols - 1)
  BY <1>1, <1>3, <1>10
<1> QED  BY <1>4, <1>13, <1>14 DEF fs

(***************************************************************************)
(* A second frame behind the first or in its preamble does not disturb it: *)
(* all symbols of the first are output as those of user 1, exactly, and    *)
(* those of a second one that comes a symbol later too, whatever the two   *)
(* sides' speeds; the input must not end before the frames do.             *)
(***************************************************************************)
THEOREM FirstStaysWhole ==
  ASSUME NUp > 0, FramesInside PROVE Spec => []FirstUndisturbed
<1>1. IInv /\ AloneInv => FirstUndisturbed
  BY TypedParts, OneFrame DEF IInv
<1> QED  BY <1>1, AloneInvariant, PTL

(***************************************************************************)
(* A frame refused for its power behind the first symbol of the payload    *)
(* costs exactly the symbol with its tag: mu_synchro consumes what it did  *)
(* in the call before, and this was a whole symbol.                        *)
(***************************************************************************)
THEOREM RefusalCostsOne ==
  ASSUME NUp > 0, FramesInside PROVE Spec => []RefusedCostsOne
<1>1. IInv /\ AloneInv => RefusedCostsOne
  BY TypedParts, OneRefused DEF IInv
<1> QED  BY <1>1, AloneInvariant, PTL
===============================================================================
