------------------------ MODULE TwoUserOverlapProofs ------------------------
(***************************************************************************)
(* Proofs about TwoUser, for frames, symbols and oversampling of any size: *)
(* what is output while the second frame overlaps the payload of the       *)
(* first.  mu_synchro cuts the symbols of the one by windows of the other, *)
(* and ml_aggreg joins the parts, the right ones for the right user.  The  *)
(* invariants of TwoUserProofs say where both frames are, and whom         *)
(* ml_aggreg has found.                                                    *)
(***************************************************************************)
EXTENDS TwoUserProofs

\* The second frame begins in the payload of the first and is accepted, and its own payload
\* begins in neither of the two places where a symbol is lost.
Overlap == InPayloadOfFirst /\ ~Refused /\ ~TurnsInLast /\ ~Together

\* n symbols of frame f have been output for the user of that number, the right ones.
Has(a, f, n) == Len(a.sy[f]) = n /\ \A k \in 1 .. n : IsSymbol(a.sy[f][k], f, k)

\* The pieces lead from x to y, to a sample.
Covers(ps, x, y) ==
  \/ ps = <<>> /\ y - x \in 0 .. OS
  \/ /\ ps # <<>> /\ Near(ps[1][1], x) /\ y - Last(ps)[2] \in 0 .. OS
     /\ \A k \in 1 .. Len(ps) - 1 : Near(ps[k][2], ps[k + 1][1])

PartsTyped(a) == a.sy[1] \in Seq(Symbols) /\ a.sy[2] \in Seq(Symbols) /\ a.pm \in Symbols

\* What was output for frame f when its samples have been counted up to the begin of a symbol.
Reached(a, f, cnt) ==
  \/ \E k \in 0 .. NUp + 4 : cnt = k * N /\ Has(a, f, 0)
  \/ \E k \in 0 .. PayloadSymbols : cnt = PayloadCount + k * N /\ Has(a, f, k)

\* The windows follow frame f.
Follows(a, f) ==
  user_u.frame = f /\ nread = starts[f] + user_u.cnt * OS /\ Reached(a, f, user_u.cnt)

\* Nothing is known of the second frame.
Fresh(a) == a.pm = <<>> /\ a.pt # "PAYLOAD" /\ Has(a, 2, 0)

IdleTwo(a) ==
  m_sync_state = "IDLE" =>
    \/ nread <= starts[1] /\ Has(a, 1, 0) /\ Fresh(a) /\ a.us[1] = "NONE"
    \/ starts[2] < nread /\ Has(a, 1, PayloadSymbols) /\ Has(a, 2, PayloadSymbols)

FirstAlone(a) ==
  /\ Follows(a, 1) /\ m_power2 = 0 /\ nread <= starts[2] /\ Fresh(a)
  /\ a.us[1] = "PAYLOAD" => user_u.cnt >= PayloadCount + N

\* The first frame is complete, or its last symbol is when the next window is read.
Settled(a) == Has(a, 1, PayloadSymbols) /\ a.pt # "PAYLOAD"
Pending(a) ==
  /\ Stronger /\ nread = FrameEnd(1)
  /\ Has(a, 1, PayloadSymbols - 1) /\ a.pt = "PAYLOAD" /\ a.us[1] = "PAYLOAD"
  /\ Covers(a.pm, SymbolStart(1, PayloadSymbols), nread)

SecondAlone(a) ==
  /\ Follows(a, 2) /\ m_power1 = 0
  /\ a.us[1] = "PAYLOAD" \/ (a.us[1] = "NONE" /\ a.up[1] = 0)
  /\ Settled(a) \/ Pending(a)

SingleTwo(a) == m_sync_state = "SINGLE_USER" => FirstAlone(a) \/ SecondAlone(a)

NewTwo(a) == m_sync_state = "REALIGN_TO_NEW" => Stronger /\ Follows(a, 1) /\ Fresh(a)

\* The second frame as that of the interferer: from n on, t leads to its next symbol, with
\* count c, and the parts of its symbol so far are kept.
WaitsInPreamble(n, t, c) ==
  \E k \in 0 .. NUp + 4 : c = k * N /\ n + t = starts[2] + k * SymbolItems
WaitsForPayload(a, n, t, c) ==
  /\ WaitsInPreamble(n, t, c) \/ (c = PayloadCount /\ n + t = PayloadStart(2))
  /\ Has(a, 2, 0) /\ a.pt # "PAYLOAD" /\ a.us[2] # "PAYLOAD"
WaitsInPayload(a, n, t, c, g) ==
  /\ c = PayloadCount + (g - 1) * N /\ n + t = SymbolStart(2, g)
  /\ Has(a, 2, g - 2) /\ a.pt = "PAYLOAD" /\ Covers(a.pm, SymbolStart(2, g - 1), n)
  /\ t >= OS
  /\ g > 2 => a.us[2] = "PAYLOAD"
  /\ g = 2 => n < FrameEnd(1)
Waits(a, n, t, c) ==
  WaitsForPayload(a, n, t, c) \/ \E g \in 2 .. PayloadSymbols : WaitsInPayload(a, n, t, c, g)

WeakTwo(a) ==
  /\ ~Stronger /\ m_power1 > m_power2 /\ Follows(a, 1) /\ user_i.frame = 2
  /\ user_u.cnt >= PayloadEnd => a.us[1] = "PAYLOAD"
  /\ Waits(a, nread, m_tau, NextSymbolCount)

\* The first frame as that of the interferer: g is its next symbol; u and d are the counts of
\* the second and of the first.
InPayloadTwo(a, g, n, t) ==
  /\ g \in 2 .. PayloadSymbols + 1 /\ Has(a, 1, g - 2) /\ Covers(a.pm, SymbolStart(1, g - 1), n)
  /\ a.pt = "PAYLOAD" \/ SamplesUp(t) = N
AtOnceTwo(a, g, t, u) ==
  u = 0 /\ t = 0 /\ g <= PayloadSymbols /\ Has(a, 1, g - 1) /\ a.pt # "PAYLOAD"
Joined(a, n, t, u, d, g) ==
  /\ n + t = SymbolStart(1, g) /\ d + SamplesUp(t) = PayloadCount + (g - 1) * N
  /\ \/ InPayloadTwo(a, g, n, t)
     \/ AtOnceTwo(a, g, t, u)
     \/ g = PayloadSymbols + 2 /\ Settled(a)

StrongTwo(a) ==
  /\ Stronger /\ m_power2 > m_power1 /\ Follows(a, 2) /\ user_i.frame = 1
  /\ user_u.cnt > 0 => a.us[1] = "PAYLOAD"
  /\ \E g \in 1 .. PayloadSymbols + 2 : Joined(a, nread, m_tau, user_u.cnt, user_i.cnt, g)

MultiTwo(a) == m_sync_state = "MULTI_USER" => WeakTwo(a) \/ StrongTwo(a)

PrevTwo(a) ==
  m_sync_state = "REALIGN_TO_PREV" =>
    /\ nread = FrameEnd(1) /\ user_i.frame = 2 /\ Has(a, 1, PayloadSymbols)
    /\ a.us[1] = "PAYLOAD" /\ a.up[1] > m_power2
    /\ Waits(a, nread, m_tau, NextSymbolCount)

TwoFrames(a) ==
  PartsTyped(a) /\ IdleTwo(a) /\ SingleTwo(a) /\ NewTwo(a) /\ MultiTwo(a) /\ PrevTwo(a)

(***************************************************************************)
(* Pieces of the input.                                                    *)
(***************************************************************************)

\* More samples are more items.
LEMMA Scaled ==
  ASSUME NEW u \in Int, NEW v \in Int
  PROVE  /\ u * OS \in Int /\ v * OS \in Int
         /\ u <= v => u * OS <= v * OS
         /\ u < v => u * OS + OS <= v * OS
<1>1. OS \in Nat
  BY Sizes
<1>2. ASSUME u <= v PROVE u * OS <= v * OS
  <2>1. PICK d \in Nat : v = u + d
    <3>1. v - u \in Nat /\ v = u + (v - u)
      BY <1>2
    <3> QED  BY <3>1
  <2>2. (u + d) * OS = u * OS + d * OS /\ d * OS \in Nat /\ u * OS \in Int
    BY <1>1
  <2> QED  BY <2>1, <2>2
<1>3. ASSUME u < v PROVE u * OS + OS <= v * OS
  <2>1. PICK d \in Nat : v = (u + 1) + d
    <3>1. v - (u + 1) \in Nat /\ v = (u + 1) + (v - (u + 1))
      BY <1>3
    <3> QED  BY <3>1
  <2>2. ((u + 1) + d) * OS = (u * OS + OS) + d * OS /\ d * OS \in Nat /\ u * OS \in Int
    BY <1>1
  <2> QED  BY <1>1, <2>1, <2>2
<1> QED  BY <1>1, <1>2, <1>3

\* Samples rounded up.
LEMMA SamplesUpOf ==
  ASSUME NEW x \in Int
  PROVE  /\ SamplesUp(x) \in Int /\ SamplesUp(x) * OS \in Int
         /\ SamplesUp(x) * OS - x \in 0 .. OS - 1
         /\ SamplesUp(x) = Samples(x) \/ SamplesUp(x) = Samples(x) + 1
         /\ \A y \in Int : SamplesUp(x + y * OS) = SamplesUp(x) + y
<1>1. OS \in Nat /\ OS > 0
  BY Sizes
<1>2. PICK z \in Int : z = x + OS - 1 /\ SamplesUp(x) = Samples(z)
  <2>1. x + OS - 1 \in Int
    BY <1>1
  <2> QED  BY <2>1 DEF Samples, SamplesUp
<1>3. PICK s \in Int, t \in Int : s = Samples(x) /\ t = Samples(z)
  BY SamplesOf
<1>4. /\ x - s * OS \in 0 .. OS - 1 /\ z - t * OS \in 0 .. OS - 1
  BY <1>3, SamplesOf
<1>5. s * OS \in Int /\ t * OS \in Int
  BY <1>1
<1>6. t * OS - x \in 0 .. OS - 1
  BY <1>1, <1>2, <1>4, <1>5
<1>7. s <= t
  <2> SUFFICES ASSUME t < s PROVE FALSE
    OBVIOUS
  <2>1. t * OS + OS <= s * OS
    BY Scaled
  <2> QED  BY <1>1, <1>4, <1>5, <1>6, <2>1
<1>8. t <= s + 1
  <2> SUFFICES ASSUME s + 1 < t PROVE FALSE
    OBVIOUS
  <2>1. (s + 1) * OS + OS <= t * OS /\ (s + 1) * OS = s * OS + OS
    BY <1>1, Scaled
  <2> QED  BY <1>1, <1>4, <1>5, <1>6, <2>1
<1>9. ASSUME NEW y \in Int PROVE SamplesUp(x + y * OS) = t + y
  <2>1. y * OS \in Int
    BY <1>1
  <2>2. (x + y * OS) + OS - 1 = z + y * OS
    BY <1>1, <1>2, <2>1
  <2>3. SamplesUp(x + y * OS) = Samples(z + y * OS)
    BY <2>2 DEF Samples, SamplesUp
  <2> QED  BY <1>3, <2>3, SamplesOf
<1> QED  BY <1>2, <1>3, <1>5, <1>6, <1>7, <1>8, <1>9

\* A part of a window from one of its samples to another.
LEMMA PieceIs ==
  ASSUME NEW w \in WindowSet, NEW u \in Int, NEW v \in Int
  PROVE  /\ Piece(w, u, v) \in Symbols
         /\ u < v => Piece(w, u, v) = <<<<w.at + u * OS, w.at + v * OS>>>>
         /\ ~(u < v) => Piece(w, u, v) = <<>>
         /\ w.at + u * OS \in Int /\ w.at + v * OS \in Int
<1>1. w.at \in Nat
  BY DEF WindowSet
<1>2. u * OS \in Int /\ v * OS \in Int
  BY Sizes
<1>3. PICK x \in Int, y \in Int : x = w.at + u * OS /\ y = w.at + v * OS
  BY <1>1, <1>2
<1>4. <<x, y>> \in Int \X Int
  OBVIOUS
<1>5. <<<<x, y>>>> \in Seq(Int \X Int) /\ <<>> \in Seq(Int \X Int)
  BY <1>4
<1> QED  BY <1>3, <1>5 DEF Piece, Symbols

\* One more piece, or none if it is empty, leads further.
LEMMA CoversFurther ==
  ASSUME NEW ps \in Symbols, NEW x \in Int, NEW y \in Int, NEW k \in Nat, Covers(ps, x, y),
         NEW q, k > 0 => q = <<<<y, y + k * OS>>>>, k = 0 => q = <<>>
  PROVE  /\ ps \o q \in Symbols /\ Covers(ps \o q, x, y + k * OS)
         /\ k > 0 => ps \o q # <<>> /\ Last(ps \o q)[2] = y + k * OS
<1>1. OS \in Nat /\ OS > 0 /\ k * OS \in Nat /\ ps \in Seq(Int \X Int)
  BY Sizes DEF Symbols
<1>2. CASE k = 0
  <2>1. ps \o q = ps
    BY <1>1, <1>2
  <2>2. k * OS = 0
    BY <1>1, <1>2
  <2> QED  BY <1>2, <2>1, <2>2
<1>3. CASE k > 0
  <2>1. PICK e \in Int : e = y + k * OS
    BY <1>1
  <2>2. PICK p \in Int \X Int : p = <<y, e>> /\ p[1] = y /\ p[2] = e /\ q = <<p>>
    <3>1. <<y, e>> \in Int \X Int /\ <<y, e>>[1] = y /\ <<y, e>>[2] = e
      OBVIOUS
    <3>2. q = <<<<y, e>>>>
      BY <1>3, <2>1
    <3> QED  BY <3>1, <3>2
  <2>3. PICK m : m = ps \o q
    OBVIOUS
  <2>4. PICK n \in Nat : n = Len(ps)
    BY <1>1
  <2>5. /\ m \in Seq(Int \X Int) /\ Len(m) = n + 1 /\ m[n + 1] = p
        /\ \A j \in 1 .. n : m[j] = ps[j]
    <3>1. m = ps \o <<p>>
      BY <2>2, <2>3
    <3> QED  BY <1>1, <2>2, <2>4, <3>1, SeqGrows
  <2>6. m # <<>> /\ Last(m)[2] = e
    <3>1. Len(<<>>) = 0
      OBVIOUS
    <3>2. m # <<>>
      BY <2>4, <2>5, <3>1
    <3> QED  BY <2>2, <2>5, <3>2 DEF Last
  <2>7. CASE ps = <<>>
    <3>1. n = 0
      BY <2>4, <2>7
    <3>2. y - x \in 0 .. OS
      BY <2>7 DEF Covers
    <3>3. m[1][1] = y
      BY <2>2, <2>5, <3>1
    <3>4. Near(m[1][1], x)
      BY <1>1, <3>2, <3>3 DEF Near
    <3>5. 1 .. Len(m) - 1 = {}
      BY <2>5, <3>1
    <3>6. e - Last(m)[2] \in 0 .. OS
      BY <1>1, <2>1, <2>6
    <3> QED  BY <1>3, <2>1, <2>3, <2>5, <2>6, <3>4, <3>5, <3>6 DEF Covers, Symbols
  <2>8. CASE ps # <<>>
    <3>1. /\ Near(ps[1][1], x) /\ y - Last(ps)[2] \in 0 .. OS
          /\ \A j \in 1 .. Len(ps) - 1 : Near(ps[j][2], ps[j + 1][1])
      BY <2>8 DEF Covers
    <3>2. n > 0
      BY <1>1, <2>4, <2>8
    <3>3. Near(m[1][1], x)
      BY <2>5, <3>1, <3>2
    <3>4. ASSUME NEW j \in 1 .. Len(m) - 1 PROVE Near(m[j][2], m[j + 1][1])
      <4>1. CASE j < n
        <5>1. j \in 1 .. n /\ j + 1 \in 1 .. n /\ j \in 1 .. Len(ps) - 1
          BY <2>4, <2>5, <4>1
        <5> QED  BY <2>5, <3>1, <5>1
      <4>2. CASE j = n
        <5>1. m[j] = Last(ps) /\ m[j + 1][1] = y
          BY <2>2, <2>4, <2>5, <3>2, <4>2 DEF Last
        <5>2. ps[n] \in Int \X Int
          BY <1>1, <2>4, <3>2
        <5>3. PICK l \in Int : l = Last(ps)[2]
          BY <2>4, <5>2 DEF Last
        <5>4. y - l \in 0 .. OS
          BY <3>1, <5>3
        <5>5. Near(l, y)
          BY <1>1, <5>4 DEF Near
        <5> QED  BY <5>1, <5>3, <5>5
      <4> QED  BY <2>5, <4>1, <4>2
    <3>5. e - Last(m)[2] \in 0 .. OS
      BY <1>1, <2>1, <2>6
    <3> QED  BY <1>3, <2>1, <2>3, <2>5, <2>6, <3>3, <3>4, <3>5 DEF Covers, Symbols
  <2> QED  BY <2>7, <2>8
<1> QED  BY <1>2, <1>3

\* Pieces that lead from a symbol to the next one are the symbol.
LEMMA CoversSymbol ==
  ASSUME FramesTyped, NEW f \in 1 .. 2, NEW j \in Int, NEW m \in Symbols, NEW e \in Int,
         Covers(m, SymbolStart(f, j), e),
         \/ e - SymbolStart(f, j + 1) \in 0 .. OS
         \/ m # <<>> /\ Last(m)[2] = e /\ SymbolStart(f, j + 1) - e \in 0 .. OS
  PROVE  IsSymbol(m, f, j)
<1>1. PICK x \in Int, z \in Int, S \in Nat, h \in Nat :
        /\ x = SymbolStart(f, j) /\ z = SymbolStart(f, j + 1) /\ z = x + S /\ S > h + h /\ h = OS
  <2>1. SymbolStart(f, j) \in Int /\ SymbolStart(f, j + 1) = SymbolStart(f, j) + SymbolItems
    BY SymbolPlaces
  <2>2. PICK r \in Nat : r = (N \div 4) * OS /\ SymbolItems = 4 * r /\ OS <= r
    BY Sizes
  <2>3. OS \in Nat /\ OS > 0 /\ SymbolItems \in Nat
    BY Sizes
  <2>4. SymbolItems > OS + OS
    BY <2>2, <2>3
  <2> QED  BY <2>1, <2>3, <2>4
<1>2. m # <<>>
  <2> SUFFICES ASSUME m = <<>> PROVE FALSE
    OBVIOUS
  <2>1. e - x \in 0 .. h
    BY <1>1 DEF Covers
  <2>2. e - z \in 0 .. h
    BY <1>1
  <2> QED  BY <1>1, <2>1, <2>2
<1>3. /\ Near(m[1][1], x) /\ e - Last(m)[2] \in 0 .. h
      /\ \A k \in 1 .. Len(m) - 1 : Near(m[k][2], m[k + 1][1])
  BY <1>1, <1>2 DEF Covers
<1>4. PICK l \in Int : l = Last(m)[2]
  <2>1. m \in Seq(Int \X Int) /\ Len(m) \in Nat /\ Len(m) > 0
    BY <1>2 DEF Symbols
  <2>2. m[Len(m)] \in Int \X Int
    BY <2>1
  <2> QED  BY <2>2 DEF Last
<1>5. l - z \in 0 - h .. h
  <2>1. e - l \in 0 .. h
    BY <1>3, <1>4
  <2>2. CASE e - SymbolStart(f, j + 1) \in 0 .. OS
    <3>1. e - z \in 0 .. h
      BY <1>1, <2>2
    <3> QED  BY <1>1, <2>1, <3>1, SMTT(60)
  <2>3. CASE Last(m)[2] = e /\ SymbolStart(f, j + 1) - e \in 0 .. OS
    <3>1. l = e /\ z - e \in 0 .. h
      BY <1>1, <1>4, <2>3
    <3> QED  BY <1>1, <3>1, SMTT(60)
  <2> QED  BY <2>2, <2>3
<1>6. Near(Last(m)[2], z)
  BY <1>1, <1>4, <1>5 DEF Near
<1> QED  BY <1>1, <1>2, <1>3, <1>6 DEF IsSymbol

\* What a window leaves behind the begin of a symbol in it leads from there to its end.
LEMMA CoversRest ==
  ASSUME NEW w \in WindowSet, NEW u \in Int, NEW v \in Int, NEW t \in Int,
         u * OS - t \in 0 .. OS - 1, t <= v * OS
  PROVE  Covers(Piece(w, u, v), w.at + t, w.at + v * OS)
<1>1. PICK n \in Nat, h \in Nat, x \in Int, y \in Int :
        /\ n = w.at /\ h = OS /\ h > 0 /\ x = u * OS /\ y = v * OS
        /\ u < v => x <= y
        /\ ~(u < v) => y <= x
  <2>1. w.at \in Nat
    BY DEF WindowSet
  <2>2. u < v => u * OS <= v * OS
    BY Scaled
  <2>3. ~(u < v) => v * OS <= u * OS
    BY Scaled
  <2> QED  BY <2>1, <2>2, <2>3, Scaled, Sizes
<1>2. x - t \in 0 .. h - 1 /\ t <= y
  BY <1>1
<1>3. CASE u < v
  <2>1. PICK m : m = Piece(w, u, v)
    OBVIOUS
  <2>2. m = <<<<n + x, n + y>>>>
    BY <1>1, <1>3, <2>1, PieceIs
  <2>3. m # <<>> /\ Len(m) = 1 /\ m[1][1] = n + x /\ m[1][2] = n + y
    BY <2>2
  <2>4. Last(m)[2] = n + y
    BY <2>3 DEF Last
  <2>5. Near(m[1][1], n + t)
    BY <1>1, <1>2, <2>3, SMTT(60) DEF Near
  <2>6. (n + y) - Last(m)[2] \in 0 .. OS
    BY <1>1, <2>4
  <2>7. 1 .. Len(m) - 1 = {}
    BY <2>3
  <2> QED  BY <1>1, <2>1, <2>3, <2>5, <2>6, <2>7 DEF Covers
<1>4. CASE ~(u < v)
  <2>1. Piece(w, u, v) = <<>>
    BY <1>4, PieceIs
  <2>2. (n + y) - (n + t) \in 0 .. OS
    BY <1>1, <1>2, <1>4
  <2> QED  BY <1>1, <2>1, <2>2 DEF Covers
<1> QED  BY <1>3, <1>4

\* One more symbol is output, or none.
LEMMA HasGrows ==
  ASSUME NEW a, NEW b, NEW f, NEW n \in Nat, NEW x \in Symbols, Has(a, f, n),
         a.sy[f] \in Seq(Symbols), b.sy[f] = a.sy[f] \o <<x>>, IsSymbol(x, f, n + 1)
  PROVE  Has(b, f, n + 1)
<1>0. PICK t : t = b.sy[f]
  OBVIOUS
<1>1. PICK s \in Seq(Symbols) : s = a.sy[f] /\ t = s \o <<x>>
  BY <1>0
<1>2. Len(s) = n /\ \A k \in 1 .. n : IsSymbol(s[k], f, k)
  BY <1>1 DEF Has
<1>3. Len(t) = n + 1 /\ t[n + 1] = x /\ \A k \in 1 .. n : t[k] = s[k]
  <2>1. Len(s) = n /\ t = s \o <<x>>
    BY <1>1, <1>2
  <2> QED  BY <2>1, SeqGrows, SMTT(60)
<1>4. \A k \in 1 .. n + 1 : IsSymbol(t[k], f, k)
  <2> SUFFICES ASSUME NEW k \in 1 .. n + 1 PROVE IsSymbol(t[k], f, k)
    OBVIOUS
  <2>1. k = n + 1 \/ k \in 1 .. n
    OBVIOUS
  <2> QED  BY <1>2, <1>3, <2>1
<1> QED  BY <1>0, <1>3, <1>4 DEF Has

LEMMA HasKept ==
  ASSUME NEW a, NEW b, NEW f, NEW n, Has(a, f, n), a.sy[f] \in Seq(Symbols), b.sy[f] = a.sy[f] \o <<>>
  PROVE  Has(b, f, n)
<1>1. b.sy[f] = a.sy[f]
  OBVIOUS
<1> QED  BY <1>1 DEF Has

\* What depends on the frames only stays.
LEMMA OverlapStays ==
  ASSUME UNCHANGED <<starts, powers>>
  PROVE  /\ Overlap' <=> Overlap
         /\ Stronger' <=> Stronger
         /\ FrameEnd(1)' = FrameEnd(1)
         /\ PayloadStart(2)' = PayloadStart(2)
         /\ \A f, j : SymbolStart(f, j)' = SymbolStart(f, j)
         /\ \A a, f, n : Has(a, f, n)' <=> Has(a, f, n)
         /\ \A a, f, c : Reached(a, f, c)' <=> Reached(a, f, c)
<1>1. starts' = starts /\ powers' = powers
  OBVIOUS
<1>2. \A f, j : SymbolStart(f, j)' = SymbolStart(f, j)
  BY <1>1 DEF SymbolStart, PayloadStart, QuarterStart
<1>3. /\ FrameEnd(1)' = FrameEnd(1)
      /\ \A f : PayloadStart(f)' = PayloadStart(f)
      /\ QuarterStart(2)' = QuarterStart(2)
  BY <1>1 DEF FrameEnd, SymbolStart, PayloadStart, QuarterStart
<1>4. \A m, f, j : IsSymbol(m, f, j)' <=> IsSymbol(m, f, j)
  BY <1>2 DEF IsSymbol
<1>5. ASSUME NEW a, NEW f, NEW n PROVE Has(a, f, n)' <=> Has(a, f, n)
  BY <1>4 DEF Has
<1>6. ASSUME NEW a, NEW f, NEW c PROVE Reached(a, f, c)' <=> Reached(a, f, c)
  BY <1>5 DEF Reached, PayloadCount
<1>7. (Refused' <=> Refused) /\ (Stronger' <=> Stronger)
  BY <1>1, RefusedStays DEF Stronger
<1>8. InPayloadOfFirst' <=> InPayloadOfFirst
  BY <1>1, <1>3 DEF InPayloadOfFirst
<1>9. TurnsInLast' <=> TurnsInLast
  BY <1>3, <1>7 DEF TurnsInLast
<1>10. Together' <=> Together
  BY <1>3, <1>7 DEF Together
<1> QED  BY <1>2, <1>3, <1>5, <1>6, <1>7, <1>8, <1>9, <1>10 DEF Overlap

(***************************************************************************)
(* What a window outputs and what it leaves.                               *)
(***************************************************************************)

LEMMA MinOfBoth ==
  ASSUME NEW x \in Int, NEW y \in Int
  PROVE  /\ Min({x, y}) \in Int
         /\ x <= y => Min({x, y}) = x
         /\ y <= x => Min({x, y}) = y
<1>1. ASSUME x <= y PROVE Min({x, y}) = x
  <2>1. \A z \in {x, y} : x <= z
    BY <1>1
  <2>2. \A z \in {x, y} : (\A v \in {x, y} : z <= v) => z = x
    BY <1>1
  <2> QED  BY <2>1, <2>2 DEF Min
<1>2. ASSUME y <= x PROVE Min({x, y}) = y
  <2>1. \A z \in {x, y} : y <= z
    BY <1>2
  <2>2. \A z \in {x, y} : (\A v \in {x, y} : z <= v) => z = y
    BY <1>2
  <2> QED  BY <2>1, <2>2 DEF Min
<1>3. x <= y \/ y <= x
  OBVIOUS
<1> QED  BY <1>1, <1>2, <1>3

\* The two parts of a window, of payload symbols.
LEMMA PartsOfWindow ==
  ASSUME NEW w \in WindowSet
  PROVE  /\ Mi1(w) \in Symbols /\ Mi2(w) \in Symbols /\ Su(w) \in Symbols
         /\ w.Ti1 = "VOID" => Mi1(w) = <<>>
         /\ w.Ti2 = "VOID" => Mi2(w) = <<>>
         /\ w.Ti1 = "PAYLOAD" /\ IsDivided(w) /\ SamplesUp(w.tau) <= w.win_len =>
              Mi1(w) = Piece(w, 0, SamplesUp(w.tau))
         /\ w.Ti1 = "PAYLOAD" /\ (IsDivided(w) => w.win_len <= SamplesUp(w.tau)) =>
              Mi1(w) = Piece(w, 0, w.win_len)
         /\ w.Ti2 = "PAYLOAD" /\ IsDivided(w) => Mi2(w) = Piece(w, SamplesUp(w.tau), w.win_len)
         /\ w.Ti2 = "PAYLOAD" /\ ~IsDivided(w) => Mi2(w) = Piece(w, 0, w.win_len)
<1>1. PICK l \in Int, t \in Int : l = w.win_len /\ t = SamplesUp(w.tau)
  <2>1. w.win_len \in Int /\ w.tau \in Int
    BY Sizes DEF WindowSet
  <2> QED  BY <2>1, SamplesUpOf
<1>2. /\ Min({t, l}) \in Int
      /\ t <= l => Min({t, l}) = t
      /\ l <= t => Min({t, l}) = l
  BY MinOfBoth
<1>3. /\ Piece(w, 0, l) \in Symbols /\ Piece(w, t, l) \in Symbols
      /\ Piece(w, 0, Min({t, l})) \in Symbols
  BY <1>2, PieceIs
<1>4. <<>> \in Symbols
  BY DEF Symbols
<1>5. Mi1(w) \in Symbols
  BY <1>1, <1>3, <1>4 DEF Mi1
<1>6. Mi2(w) \in Symbols
  BY <1>1, <1>3, <1>4 DEF Mi2
<1>7. Su(w) \in Symbols
  BY <1>1, <1>3 DEF Su
<1>8. ~IsUpchirp("VOID") /\ IsUpchirp("PAYLOAD")
  BY DEF IsUpchirp
<1>9. w.Ti1 = "VOID" => Mi1(w) = <<>>
  BY <1>8 DEF Mi1
<1>10. w.Ti2 = "VOID" => Mi2(w) = <<>>
  BY <1>8 DEF Mi2
<1>11. w.Ti1 = "PAYLOAD" /\ IsDivided(w) /\ t <= l => Mi1(w) = Piece(w, 0, t)
  BY <1>1, <1>2, <1>8 DEF Mi1
<1>12. w.Ti1 = "PAYLOAD" /\ (IsDivided(w) => l <= t) => Mi1(w) = Piece(w, 0, l)
  BY <1>1, <1>2, <1>8 DEF Mi1
<1>13. w.Ti2 = "PAYLOAD" /\ IsDivided(w) => Mi2(w) = Piece(w, t, l)
  BY <1>1, <1>8 DEF Mi2
<1>14. w.Ti2 = "PAYLOAD" /\ ~IsDivided(w) => Mi2(w) = Piece(w, 0, l)
  BY <1>1, <1>8 DEF Mi2
<1> QED  BY <1>1, <1>5, <1>6, <1>7, <1>9, <1>10, <1>11, <1>12, <1>13, <1>14

LEMMA StepOutput ==
  ASSUME NEW a, NEW w
  PROVE  /\ Step(a, w).sy[1] = a.sy[1] \o OutputIn(a, w, 1)
         /\ Step(a, w).sy[2] = a.sy[2] \o OutputIn(a, w, 2)
         /\ Step(a, w).pt = w.Ti2
         /\ ~CutIn(a, w, 1) /\ ~CutIn(a, w, 2) => Step(a, w).pm = Mi2(w)
         /\ CutIn(a, w, 1) \/ CutIn(a, w, 2) => Step(a, w).pm = PartsIn(a, w)
<1>1. \A u : u \in Users <=> u = 1 \/ u = 2
  BY DEF Users
<1> QED  BY <1>1 DEF Step

LEMMA StepParts ==
  ASSUME NEW a, NEW w \in WindowSet, PartsTyped(a)
  PROVE  PartsTyped(Step(a, w)) /\ PartsIn(a, w) \in Symbols
<1>1. /\ Mi1(w) \in Symbols /\ Mi2(w) \in Symbols /\ Su(w) \in Symbols
  BY PartsOfWindow
<1>2. PICK m : m = PartsIn(a, w)
  OBVIOUS
<1>3. m \in Symbols
  <2>1. PICK p \in Symbols, q \in Symbols : p = a.pm /\ q = Mi1(w) /\ m = p \o q
    BY <1>1, <1>2 DEF PartsTyped, PartsIn
  <2>2. p \o q \in Seq(Int \X Int)
    BY DEF Symbols
  <2> QED  BY <2>1, <2>2 DEF Symbols
<1>4. ASSUME NEW u PROVE OutputIn(a, w, u) \in {<<>>, <<Su(w)>>, <<m>>}
  BY <1>2 DEF OutputIn
<1>5. ASSUME NEW u, NEW s \in Seq(Symbols) PROVE s \o OutputIn(a, w, u) \in Seq(Symbols)
  <2>1. CASE OutputIn(a, w, u) = <<>>
    <3>1. s \o <<>> = s
      OBVIOUS
    <3> QED  BY <2>1, <3>1
  <2>2. CASE OutputIn(a, w, u) = <<Su(w)>>
    <3>1. PICK x \in Symbols : x = Su(w)
      BY <1>1
    <3>2. s \o <<x>> \in Seq(Symbols)
      BY SeqGrows
    <3> QED  BY <2>2, <3>1, <3>2
  <2>3. CASE OutputIn(a, w, u) = <<m>>
    <3>1. s \o <<m>> \in Seq(Symbols)
      BY <1>3, SeqGrows
    <3> QED  BY <2>3, <3>1
  <2> QED  BY <1>4, <2>1, <2>2, <2>3
<1>6. Step(a, w).pm \in Symbols
  BY <1>1, <1>2, <1>3, StepOutput
<1>7. Step(a, w).sy[1] \in Seq(Symbols) /\ Step(a, w).sy[2] \in Seq(Symbols)
  BY <1>5, StepOutput DEF PartsTyped
<1> QED  BY <1>2, <1>3, <1>6, <1>7 DEF PartsTyped

\* The states and powers after a window, as those of Step.
LEMMA StepStates ==
  ASSUME NEW a, NEW w, NEW b, b = Step(a, w)
  PROVE  /\ ExpectedIn(a, w, 1) <=> b.us[1] = "PAYLOAD" \/ (b.us[1] = "NONE" /\ a.pt = "PAYLOAD")
         /\ ExpectedIn(a, w, 2) <=> b.us[2] = "PAYLOAD" \/ (b.us[2] = "NONE" /\ a.pt = "PAYLOAD")
         /\ StrongIn(a, w, 1) <=> b.up[1] >= b.up[2]
         /\ StrongIn(a, w, 2) <=> b.up[2] >= b.up[1]
<1>1. TrackedIn(a, w)[1] = b.us[1] /\ TrackedIn(a, w)[2] = b.us[2]
  BY StepFields DEF TrackedIn
<1>2. PowerIn(a, w, 1) = b.up[1] /\ PowerIn(a, w, 2) = b.up[2]
  BY StepFields
<1> QED  BY <1>1, <1>2 DEF ExpectedIn, StrongIn, Other

\* A window of user 1 alone leaves nothing.
LEMMA SoloParts ==
  ASSUME NEW a, NEW w \in WindowSet, StatesTyped(a), Quiet(a), a.pt # "PAYLOAD", w.Ti2 = "VOID",
         NEW b, b = Step(a, w), Quiet(b), Begun(b, 1, w.power1)
  PROVE  b.pm = <<>>
<1>1. ~ExpectedIn(a, w, 2)
  BY StepStates DEF Quiet
<1>2. StrongIn(a, w, 1)
  <2>1. w.power1 \in Nat /\ b.up[1] = w.power1 /\ b.up[2] = 0
    BY DEF WindowSet, Quiet, Begun
  <2> QED  BY <2>1, StepStates
<1>3. ~CutIn(a, w, 1) /\ ~CutIn(a, w, 2)
  BY <1>1, <1>2 DEF CutIn
<1> QED  BY <1>3, StepOutput, PartsOfWindow

\* A window in the payload of a stronger user 1: its symbol is output, and that of user 2
\* which ends in it, if its parts are known.
LEMMA WeakOutput ==
  ASSUME NEW a, NEW w \in WindowSet, StatesTyped(a), PartsTyped(a),
         w.power1 > w.power2, w.power2 > 0, w.Tu = "PAYLOAD", w.win_len = N, Begun(a, 1, w.power1),
         \/ Quiet(a)
         \/ a.us[2] \in {"PREAMBLE", "PAYLOAD"} /\ a.up[2] = w.power2,
         w.Ti1 = "PAYLOAD" /\ a.us[2] = "PREAMBLE" => a.uc[2] > 0,
         NEW b, b = Step(a, w)
  PROVE  /\ b.us[1] = "PAYLOAD" /\ b.pt = w.Ti2 /\ b.pm = Mi2(w)
         /\ b.sy[1] = a.sy[1] \o <<Su(w)>>
         /\ a.us[2] # "PAYLOAD" /\ w.Ti1 # "PAYLOAD" => b.us[2] # "PAYLOAD"
         /\ a.us[2] = "PAYLOAD" \/ (w.Ti1 = "PAYLOAD" /\ ~Quiet(a)) => b.us[2] = "PAYLOAD"
         /\ b.us[2] # "PAYLOAD" => b.sy[2] = a.sy[2] \o <<>>
         /\ b.us[2] = "PAYLOAD" /\ a.pt = "PAYLOAD" => b.sy[2] = a.sy[2] \o <<PartsIn(a, w)>>
<1>1. w.power1 \in Nat /\ w.power2 \in Nat
  BY DEF WindowSet
<1>2. /\ Begun(b, 1, w.power1) /\ b.us[1] = "PAYLOAD"
      /\ b.us[2] \in {"PREAMBLE", "PAYLOAD"} /\ b.up[2] = w.power2
      /\ b.us[2] = "PAYLOAD" => a.us[2] = "PAYLOAD" \/ w.Ti1 = "PAYLOAD"
      /\ b.us[2] = "PREAMBLE" => a.us[2] # "PAYLOAD"
  BY BothWeak
<1>3. b.up[1] = w.power1
  BY <1>2 DEF Begun
<1>4. StrongIn(a, w, 1) /\ ~StrongIn(a, w, 2)
  BY <1>1, <1>2, <1>3, StepStates
<1>5. /\ ExpectedIn(a, w, 1)
      /\ ExpectedIn(a, w, 2) <=> b.us[2] = "PAYLOAD"
  BY <1>2, StepStates
<1>6. ~InThreeParts(w)
  BY DEF InThreeParts
<1>7. ~CutIn(a, w, 1) /\ ~CutIn(a, w, 2)
  BY <1>6 DEF CutIn
<1>8. OutputIn(a, w, 1) = <<Su(w)>>
  BY <1>4, <1>5 DEF OutputIn
<1>9. /\ b.us[2] # "PAYLOAD" => OutputIn(a, w, 2) = <<>>
      /\ b.us[2] = "PAYLOAD" /\ a.pt = "PAYLOAD" => OutputIn(a, w, 2) = <<PartsIn(a, w)>>
  BY <1>4, <1>5, <1>7 DEF OutputIn
<1>10. ASSUME w.Ti1 = "PAYLOAD", ~Quiet(a), a.us[2] = "PREAMBLE" PROVE b.us[2] = "PAYLOAD"
  <2>1. WinState(w, 2) = "PAYLOAD" /\ PowerOf(w, 2) # 0
    BY <1>1, <1>10 DEF WinState, PowerOf, Other
  <2>2. ~DetectedIn(a, w, 2) /\ ~GoneIn(a, w, 2) /\ InPayloadIn(a, w, 2)
    BY <1>10, <2>1 DEF DetectedIn, GoneIn, InPayloadIn
  <2>3. \A o : ~NextFrameIn(a, w, 2, o)
    BY <1>10 DEF NextFrameIn
  <2>4. b.us[2] = AfterIn(a, w, 2, FirstAfter(a, w))
    BY StepFields DEF SecondAfter
  <2> QED  BY <2>2, <2>3, <2>4 DEF AfterIn
<1>11. a.us[2] = "PAYLOAD" => b.us[2] = "PAYLOAD"
  BY <1>2
<1>12. w.Ti1 = "PAYLOAD" /\ ~Quiet(a) => b.us[2] = "PAYLOAD"
  BY <1>10, <1>11
<1>13. b.pt = w.Ti2 /\ b.pm = Mi2(w)
  BY <1>7, StepOutput
<1>14. b.sy[1] = a.sy[1] \o OutputIn(a, w, 1) /\ b.sy[2] = a.sy[2] \o OutputIn(a, w, 2)
  BY StepOutput
<1> QED  BY <1>2, <1>8, <1>9, <1>11, <1>12, <1>13, <1>14

\* A window of a stronger user 2 in the payload of user 1.
LEMMA StrongOutput ==
  ASSUME NEW a, NEW w \in WindowSet, StatesTyped(a), PartsTyped(a),
         w.power2 > w.power1, w.power1 > 0, w.Ti1 = "PAYLOAD", Begun(a, 1, w.power1),
         Begun(a, 2, w.power2) \/ (a.us[2] = "NONE" /\ w.Tu = "UPCHIRP" /\ w.win_len = N),
         w.Tu = "PAYLOAD" => Begun(a, 2, w.power2) /\ w.win_len = N,
         a.us[2] = "PAYLOAD" => w.Tu = "PAYLOAD",
         NEW b, b = Step(a, w)
  PROVE  /\ b.us[1] = "PAYLOAD" /\ b.pt = w.Ti2
         /\ w.Tu = "PAYLOAD" => b.sy[2] = a.sy[2] \o <<Su(w)>>
         /\ w.Tu # "PAYLOAD" => b.sy[2] = a.sy[2] \o <<>>
         /\ InThreeParts(w) => b.sy[1] = a.sy[1] \o <<>> /\ b.pm = PartsIn(a, w)
         /\ ~InThreeParts(w) => b.pm = Mi2(w)
         /\ ~InThreeParts(w) /\ (a.pt = "PAYLOAD" \/ SamplesUp(w.tau) = N) =>
              b.sy[1] = a.sy[1] \o <<PartsIn(a, w)>>
         /\ ~InThreeParts(w) /\ ~(a.pt = "PAYLOAD" \/ SamplesUp(w.tau) = N) => b.sy[1] = a.sy[1] \o <<>>
<1>1. w.power1 \in Nat /\ w.power2 \in Nat
  BY DEF WindowSet
<1>2. /\ Begun(b, 1, w.power1) /\ Begun(b, 2, w.power2)
      /\ b.us[2] = "PAYLOAD" => a.us[2] = "PAYLOAD" \/ w.Tu = "PAYLOAD"
  BY BothStrong
<1>3. b.up[1] = w.power1 /\ b.up[2] = w.power2
  BY <1>2 DEF Begun
<1>4. ~StrongIn(a, w, 1) /\ StrongIn(a, w, 2)
  BY <1>1, <1>3, StepStates
<1>5. b.us[1] = "PAYLOAD"
  <2>1. WinState(w, 1) = "PAYLOAD" /\ PowerOf(w, 1) # 0
    BY <1>1 DEF WinState, PowerOf, Other
  <2>2. ~DetectedIn(a, w, 1) /\ ~GoneIn(a, w, 1) /\ ~NextFrameIn(a, w, 1, a.us[2])
    BY <2>1 DEF DetectedIn, GoneIn, NextFrameIn, Begun
  <2>3. b.us[1] = AfterIn(a, w, 1, a.us[2])
    BY StepFields DEF FirstAfter
  <2>4. a.us[1] = "PREAMBLE" => InPayloadIn(a, w, 1)
    BY <2>1 DEF InPayloadIn
  <2>5. a.us[1] = "PAYLOAD" => ~InPayloadIn(a, w, 1)
    BY DEF InPayloadIn
  <2> QED  BY <2>2, <2>3, <2>4, <2>5 DEF AfterIn, Begun
<1>6. w.Tu = "PAYLOAD" => b.us[2] = "PAYLOAD"
  <2> SUFFICES ASSUME w.Tu = "PAYLOAD" PROVE b.us[2] = "PAYLOAD"
    OBVIOUS
  <2>1. WinState(w, 2) = "PAYLOAD" /\ PowerOf(w, 2) # 0 /\ Begun(a, 2, w.power2)
    BY <1>1 DEF WinState, PowerOf, Other
  <2>2. ~DetectedIn(a, w, 2) /\ ~GoneIn(a, w, 2) /\ ~NextFrameIn(a, w, 2, FirstAfter(a, w))
    BY <2>1 DEF DetectedIn, GoneIn, NextFrameIn, Begun
  <2>3. b.us[2] = AfterIn(a, w, 2, FirstAfter(a, w))
    BY StepFields DEF SecondAfter
  <2>4. a.us[2] = "PREAMBLE" => InPayloadIn(a, w, 2)
    BY <2>1 DEF InPayloadIn
  <2>5. a.us[2] = "PAYLOAD" => ~InPayloadIn(a, w, 2)
    BY DEF InPayloadIn
  <2> QED  BY <2>1, <2>2, <2>3, <2>4, <2>5 DEF AfterIn, Begun
<1>7. w.Tu # "PAYLOAD" => b.us[2] = "PREAMBLE"
  BY <1>2 DEF Begun
<1>8. /\ ExpectedIn(a, w, 1)
      /\ w.Tu = "PAYLOAD" => ExpectedIn(a, w, 2)
      /\ w.Tu # "PAYLOAD" => ~ExpectedIn(a, w, 2)
  BY <1>5, <1>6, <1>7, StepStates
<1>9. ~CutIn(a, w, 2) /\ (CutIn(a, w, 1) <=> InThreeParts(w))
  BY <1>4, <1>8 DEF CutIn
<1>10. /\ w.Tu = "PAYLOAD" => OutputIn(a, w, 2) = <<Su(w)>>
       /\ w.Tu # "PAYLOAD" => OutputIn(a, w, 2) = <<>>
  BY <1>4, <1>8 DEF OutputIn
<1>11. /\ InThreeParts(w) => OutputIn(a, w, 1) = <<>>
       /\ ~InThreeParts(w) /\ (a.pt = "PAYLOAD" \/ SamplesUp(w.tau) = N) =>
            OutputIn(a, w, 1) = <<PartsIn(a, w)>>
       /\ ~InThreeParts(w) /\ ~(a.pt = "PAYLOAD" \/ SamplesUp(w.tau) = N) => OutputIn(a, w, 1) = <<>>
  BY <1>4, <1>8, <1>9 DEF OutputIn
<1>12. /\ b.sy[1] = a.sy[1] \o OutputIn(a, w, 1) /\ b.sy[2] = a.sy[2] \o OutputIn(a, w, 2)
       /\ b.pt = w.Ti2
       /\ InThreeParts(w) => b.pm = PartsIn(a, w)
       /\ ~InThreeParts(w) => b.pm = Mi2(w)
  BY <1>9, StepOutput
<1> QED  BY <1>5, <1>10, <1>11, <1>12

\* The window up to the first symbol of a stronger second user outputs nothing.
LEMMA NewOutput ==
  ASSUME NEW a, NEW w \in WindowSet, StatesTyped(a), PartsTyped(a), Quiet(a), a.pt # "PAYLOAD",
         w.power1 > 0, w.power2 = 0, w.Tu = "VOID", w.Ti1 = "VOID", w.win_len # N, Begun(a, 1, w.power1),
         NEW b, b = Step(a, w)
  PROVE  /\ b.pt = w.Ti2 /\ b.pm = Mi2(w)
         /\ b.sy[1] = a.sy[1] \o <<>> /\ b.sy[2] = a.sy[2] \o <<>>
<1>1. Quiet(b) /\ Begun(b, 1, w.power1)
  BY NewWindow
<1>2. StrongIn(a, w, 1)
  <2>1. w.power1 \in Nat /\ b.up[1] = w.power1 /\ b.up[2] = 0
    BY <1>1 DEF WindowSet, Quiet, Begun
  <2> QED  BY <2>1, StepStates
<1>3. ~ExpectedIn(a, w, 2)
  BY <1>1, StepStates DEF Quiet
<1>4. OutputIn(a, w, 1) = <<>> /\ OutputIn(a, w, 2) = <<>>
  BY <1>2, <1>3 DEF OutputIn
<1>5. ~CutIn(a, w, 1) /\ ~CutIn(a, w, 2)
  BY <1>2, <1>3 DEF CutIn
<1> QED  BY <1>4, <1>5, StepOutput, ZenonT(60)

\* The window back to user 2, in the middle of whose symbol a stronger user 1 has ended.
LEMMA PrevOutput ==
  ASSUME NEW a, NEW w \in WindowSet, StatesTyped(a), PartsTyped(a),
         w.power1 = 0, w.power2 > 0, w.Tu = "VOID", w.Ti1 # "VOID", w.win_len # N,
         a.us[2] \in {"PREAMBLE", "PAYLOAD"}, a.up[2] = w.power2,
         a.us[1] = "PAYLOAD", a.up[1] > w.power2, NEW b, b = Step(a, w)
  PROVE  /\ b.us[1] = "PAYLOAD" /\ b.pt = w.Ti2
         /\ b.sy[1] = a.sy[1] \o <<>>
         /\ a.us[2] # "PAYLOAD" => b.sy[2] = a.sy[2] \o <<>>
         /\ a.us[2] = "PAYLOAD" /\ a.pt = "PAYLOAD" => b.sy[2] = a.sy[2] \o <<PartsIn(a, w)>>
<1>1. w.power2 \in Nat /\ a.up[1] \in Nat
  BY DEF WindowSet, StatesTyped
<1>2. Begun(a, 1, a.up[1])
  BY DEF Begun
<1>3. b.us[2] = a.us[2] /\ b.up[2] = w.power2
  BY <1>1, <1>2, PrevWindow
<1>4. WinState(w, 1) = w.Ti1
  BY <1>1 DEF WinState, PowerOf, Other
<1>5. ~DetectedIn(a, w, 1) /\ ~GoneIn(a, w, 1) /\ ~NextFrameIn(a, w, 1, a.us[2]) /\ ~InPayloadIn(a, w, 1)
  BY <1>4 DEF DetectedIn, GoneIn, NextFrameIn, InPayloadIn
<1>6. b.us[1] = "PAYLOAD"
  <2>1. b.us[1] = AfterIn(a, w, 1, a.us[2])
    BY StepFields DEF FirstAfter
  <2> QED  BY <1>5, <2>1 DEF AfterIn
<1>7. b.up[1] = a.up[1]
  <2>1. b.up[1] = PowerIn(a, w, 1) /\ TrackedIn(a, w)[1] = "PAYLOAD"
    BY <1>6, StepFields DEF TrackedIn
  <2> QED  BY <1>5, <2>1 DEF PowerIn
<1>8. StrongIn(a, w, 1) /\ ~StrongIn(a, w, 2)
  BY <1>1, <1>3, <1>7, StepStates
<1>9. ExpectedIn(a, w, 1) /\ (ExpectedIn(a, w, 2) <=> a.us[2] = "PAYLOAD")
  BY <1>3, <1>6, StepStates
<1>10. ~InThreeParts(w)
  BY DEF InThreeParts
<1>11. OutputIn(a, w, 1) = <<>>
  BY <1>8, <1>9 DEF OutputIn
<1>12. /\ a.us[2] # "PAYLOAD" => OutputIn(a, w, 2) = <<>>
       /\ a.us[2] = "PAYLOAD" /\ a.pt = "PAYLOAD" => OutputIn(a, w, 2) = <<PartsIn(a, w)>>
  BY <1>8, <1>9, <1>10 DEF OutputIn, CutIn
<1>13. /\ b.sy[1] = a.sy[1] \o OutputIn(a, w, 1) /\ b.sy[2] = a.sy[2] \o OutputIn(a, w, 2)
      /\ b.pt = w.Ti2
  BY StepOutput
<1> QED  BY <1>6, <1>11, <1>12, <1>13

\* A window of the second frame alone, when the first is over: a symbol of the first that
\* waits is output.
LEMMA LastOutput ==
  ASSUME NEW a, NEW w \in WindowSet, StatesTyped(a), PartsTyped(a),
         w.power1 = 0, w.power2 > 0, w.Ti1 = "VOID",
         \/ Begun(a, 2, w.power2) /\ (w.Tu = "UPCHIRP" => a.us[2] # "PAYLOAD")
         \/ /\ a.us[2] = "NONE" /\ a.up[1] <= w.power2
            /\ w.Tu = "UPCHIRP" /\ w.win_len = N,
         a.us[1] = "PAYLOAD" \/ (a.us[1] = "NONE" /\ a.up[1] = 0),
         w.Tu = "PAYLOAD" => Begun(a, 2, w.power2) /\ w.win_len = N,
         a.us[2] = "PAYLOAD" => w.Tu = "PAYLOAD",
         NEW b, b = Step(a, w)
  PROVE  /\ b.us[1] = "NONE" /\ b.up[1] = 0 /\ b.pt = w.Ti2
         /\ w.Tu = "PAYLOAD" => b.sy[2] = a.sy[2] \o <<Su(w)>>
         /\ w.Tu # "PAYLOAD" => b.sy[2] = a.sy[2] \o <<>>
         /\ a.pt # "PAYLOAD" => b.sy[1] = a.sy[1] \o <<>>
         /\ a.pt = "PAYLOAD" /\ ~InThreeParts(w) => b.sy[1] = a.sy[1] \o <<PartsIn(a, w)>>
<1>1. w.power2 \in Nat
  BY DEF WindowSet
<1>2. /\ Begun(b, 2, w.power2)
      /\ b.us[2] = "PAYLOAD" => a.us[2] = "PAYLOAD" \/ w.Tu = "PAYLOAD"
  BY SoloTwo
<1>3. WinState(w, 1) = "VOID" /\ PowerOf(w, 1) = 0 /\ WinState(w, 2) = w.Tu /\ PowerOf(w, 2) = w.power2
  BY <1>1 DEF WinState, PowerOf, Other
<1>4. /\ ~DetectedIn(a, w, 1) /\ ~NextFrameIn(a, w, 1, a.us[2]) /\ ~InPayloadIn(a, w, 1)
      /\ GoneIn(a, w, 1) <=> a.us[1] = "PAYLOAD"
  BY <1>3 DEF DetectedIn, GoneIn, NextFrameIn, InPayloadIn
<1>5. b.us[1] = "NONE"
  <2>1. b.us[1] = AfterIn(a, w, 1, a.us[2])
    BY StepFields DEF FirstAfter
  <2> QED  BY <1>4, <2>1 DEF AfterIn
<1>6. b.up[1] = 0
  <2>1. b.up[1] = PowerIn(a, w, 1) /\ TrackedIn(a, w)[1] = "NONE"
    BY <1>5, StepFields DEF TrackedIn
  <2> QED  BY <1>4, <2>1 DEF PowerIn
<1>7. b.up[2] = w.power2
  BY <1>2 DEF Begun
<1>8. ~StrongIn(a, w, 1) /\ StrongIn(a, w, 2)
  BY <1>1, <1>6, <1>7, StepStates
<1>9. w.Tu = "PAYLOAD" => b.us[2] = "PAYLOAD"
  <2> SUFFICES ASSUME w.Tu = "PAYLOAD" PROVE b.us[2] = "PAYLOAD"
    OBVIOUS
  <2>1. Begun(a, 2, w.power2)
    OBVIOUS
  <2>2. ~DetectedIn(a, w, 2) /\ ~GoneIn(a, w, 2) /\ ~NextFrameIn(a, w, 2, FirstAfter(a, w))
    BY <1>1, <1>3, <2>1 DEF DetectedIn, GoneIn, NextFrameIn, Begun
  <2>3. b.us[2] = AfterIn(a, w, 2, FirstAfter(a, w))
    BY StepFields DEF SecondAfter
  <2>4. a.us[2] = "PREAMBLE" => InPayloadIn(a, w, 2)
    BY <1>3 DEF InPayloadIn
  <2>5. a.us[2] = "PAYLOAD" => ~InPayloadIn(a, w, 2)
    BY DEF InPayloadIn
  <2> QED  BY <2>1, <2>2, <2>3, <2>4, <2>5 DEF AfterIn, Begun
<1>10. w.Tu # "PAYLOAD" => b.us[2] = "PREAMBLE"
  BY <1>2 DEF Begun
<1>11. /\ w.Tu = "PAYLOAD" => ExpectedIn(a, w, 2)
       /\ w.Tu # "PAYLOAD" => ~ExpectedIn(a, w, 2)
       /\ ExpectedIn(a, w, 1) <=> a.pt = "PAYLOAD"
  BY <1>5, <1>9, <1>10, StepStates
<1>12. /\ w.Tu = "PAYLOAD" => OutputIn(a, w, 2) = <<Su(w)>>
       /\ w.Tu # "PAYLOAD" => OutputIn(a, w, 2) = <<>>
  BY <1>8, <1>11 DEF OutputIn
<1>13. /\ a.pt # "PAYLOAD" => OutputIn(a, w, 1) = <<>>
       /\ a.pt = "PAYLOAD" /\ ~InThreeParts(w) => OutputIn(a, w, 1) = <<PartsIn(a, w)>>
  BY <1>8, <1>11 DEF OutputIn, CutIn
<1>14. /\ b.sy[1] = a.sy[1] \o OutputIn(a, w, 1) /\ b.sy[2] = a.sy[2] \o OutputIn(a, w, 2)
      /\ b.pt = w.Ti2
  BY StepOutput
<1> QED  BY <1>5, <1>6, <1>12, <1>13, <1>14

\* What is known of the outputs stays, too.
LEMMA OutputsStay ==
  ASSUME UNCHANGED <<starts, powers>>, NEW a
  PROVE  /\ Fresh(a)' <=> Fresh(a)
         /\ Settled(a)' <=> Settled(a)
         /\ PartsTyped(a)' <=> PartsTyped(a)
         /\ \A n, t, c : Waits(a, n, t, c)' <=> Waits(a, n, t, c)
         /\ \A n, t, u, d, g : Joined(a, n, t, u, d, g)' <=> Joined(a, n, t, u, d, g)
<1>1. /\ starts' = starts /\ FrameEnd(1)' = FrameEnd(1) /\ PayloadStart(2)' = PayloadStart(2)
      /\ \A f, j : SymbolStart(f, j)' = SymbolStart(f, j)
      /\ \A f, n : Has(a, f, n)' <=> Has(a, f, n)
  BY OverlapStays
<1>2. (Fresh(a)' <=> Fresh(a)) /\ (Settled(a)' <=> Settled(a))
  BY <1>1 DEF Fresh, Settled
<1>3. PartsTyped(a)' <=> PartsTyped(a)
  BY DEF PartsTyped, Symbols
<1>4. ASSUME NEW n, NEW t, NEW c PROVE Waits(a, n, t, c)' <=> Waits(a, n, t, c)
  <2>1. WaitsForPayload(a, n, t, c)' <=> WaitsForPayload(a, n, t, c)
    BY <1>1 DEF WaitsForPayload, WaitsInPreamble, PayloadCount
  <2>2. \A g : WaitsInPayload(a, n, t, c, g)' <=> WaitsInPayload(a, n, t, c, g)
    BY <1>1 DEF WaitsInPayload, PayloadCount
  <2> QED  BY <2>1, <2>2 DEF Waits
<1>5. ASSUME NEW n, NEW t, NEW u, NEW d, NEW g
      PROVE  Joined(a, n, t, u, d, g)' <=> Joined(a, n, t, u, d, g)
  <2>1. InPayloadTwo(a, g, n, t)' <=> InPayloadTwo(a, g, n, t)
    BY <1>1 DEF InPayloadTwo
  <2>2. AtOnceTwo(a, g, t, u)' <=> AtOnceTwo(a, g, t, u)
    BY <1>1 DEF AtOnceTwo
  <2> QED  BY <1>1, <1>2, <2>1, <2>2 DEF Joined, PayloadCount
<1> QED  BY <1>2, <1>3, <1>4, <1>5

\* The windows follow a frame in the next state.
LEMMA FollowsThen ==
  ASSUME UNCHANGED <<starts, powers>>, NEW b, NEW f \in 1 .. 2, NEW c \in Int,
         user_u'.frame = f, user_u'.cnt = c, nread' = starts[f] + c * OS, Reached(b, f, c)
  PROVE  Follows(b, f)'
<1>1. Reached(b, f, c)' /\ starts' = starts
  BY OverlapStays
<1> QED  BY <1>1 DEF Follows

\* The next state when the second frame is that of the interferer.
LEMMA WeakThen ==
  ASSUME UNCHANGED <<starts, powers>>, NEW b, NEW n \in Int, NEW t \in Int, NEW c \in Int,
         ~Stronger, m_power1' > m_power2', Follows(b, 1)', user_i'.frame = 2,
         user_u'.cnt >= PayloadEnd => b.us[1] = "PAYLOAD",
         nread' = n, m_tau' = t, user_i'.cnt + Samples(t) = c, Waits(b, n, t, c)
  PROVE  WeakTwo(b)'
<1>1. Waits(b, n, t, c)' /\ ~Stronger'
  BY OverlapStays, OutputsStay
<1>2. NextSymbolCount' = c
  BY DEF NextSymbolCount, Samples
<1>3. Waits(b, nread, m_tau, NextSymbolCount)'
  BY <1>1, <1>2
<1> QED  BY <1>1, <1>3 DEF WeakTwo, PayloadEnd, PayloadCount

\* The next state when the first frame is that of the interferer.
LEMMA StrongThen ==
  ASSUME UNCHANGED <<starts, powers>>, NEW b, NEW n \in Int, NEW t \in Int, NEW u \in Int, NEW d \in Int,
         NEW g \in 1 .. PayloadSymbols + 2,
         Stronger, m_power2' > m_power1', Follows(b, 2)', user_i'.frame = 1,
         user_u'.cnt > 0 => b.us[1] = "PAYLOAD",
         nread' = n, m_tau' = t, user_u'.cnt = u, user_i'.cnt = d, Joined(b, n, t, u, d, g)
  PROVE  StrongTwo(b)'
<1>1. Joined(b, n, t, u, d, g)' /\ Stronger'
  BY OverlapStays, OutputsStay
<1>2. Joined(b, nread, m_tau, user_u.cnt, user_i.cnt, g)'
  BY <1>1
<1> QED  BY <1>1, <1>2 DEF StrongTwo

----------------------------------------------------------------------------
(***************************************************************************)
(* What one window adds to the outputs.                                    *)
(***************************************************************************)

\* The places of two frames that overlap.
LEMMA OverlapOrder ==
  ASSUME FramesTyped, Overlap
  PROVE  /\ starts[1] \in Nat /\ starts[2] \in Nat /\ PayloadStart(1) \in Nat /\ FrameEnd(1) \in Nat
         /\ starts[1] + SymbolItems <= PayloadStart(1) /\ PayloadStart(1) <= starts[2]
         /\ starts[2] < FrameEnd(1)
         /\ FrameEnd(1) + SymbolItems <= SymbolStart(2, PayloadSymbols)
         /\ FrameEnd(1) < FrameEnd(2)
         /\ \A j \in Int : SymbolStart(2, j) < FrameEnd(1) => j < PayloadSymbols
         /\ ~Refused
<1>1. InPayloadOfFirst /\ ~Refused
  BY DEF Overlap
<1>2. PICK s1 \in Nat, s2 \in Nat, S \in Nat, p \in Nat, e \in Nat :
        /\ s1 = starts[1] /\ s2 = starts[2] /\ S = SymbolItems /\ p = PayloadStart(1) /\ e = FrameEnd(1)
        /\ s1 + S <= p /\ S > 0
  BY FrameOrder, Sizes
<1>3. p <= s2 /\ s2 < e
  BY <1>1, <1>2 DEF InPayloadOfFirst
<1>4. PICK M \in Nat : M = PayloadSymbols * SymbolItems /\ e = p + M
  <2>1. FrameEnd(1) = PayloadStart(1) + PayloadSymbols * SymbolItems
    BY SymbolPlaces
  <2>2. PayloadSymbols * SymbolItems \in Nat
    BY Sizes
  <2> QED  BY <1>2, <2>1, <2>2
<1>5. PICK x \in Int, y \in Int :
        /\ x = SymbolStart(2, PayloadSymbols) /\ y = FrameEnd(2) /\ y = x + S /\ e + S <= x
  <2>1. FrameEnd(2) = SymbolStart(2, PayloadSymbols) + SymbolItems
        /\ SymbolStart(2, PayloadSymbols) \in Int
    BY SymbolPlaces, Sizes
  <2>2. FrameEnd(2) = PayloadStart(2) + PayloadSymbols * SymbolItems
    BY SymbolPlaces
  <2>3. PICK m \in Nat, Q \in Nat : m = NUp * SymbolItems /\ Q = SymbolItems \div 4
    BY Sizes
  <2>4. PayloadStart(2) = s2 + (m + 4 * S) + Q
    <3>1. PayloadStart(2) = starts[2] + (NUp + 4) * SymbolItems + SymbolItems \div 4
      BY Places
    <3>2. (NUp + 4) * SymbolItems = NUp * SymbolItems + 4 * SymbolItems
      BY Sizes
    <3> QED  BY <1>2, <2>3, <3>1, <3>2
  <2>5. FrameEnd(2) = s2 + (m + 4 * S) + Q + M
    BY <1>4, <2>2, <2>4
  <2> QED  BY <1>2, <1>3, <1>4, <2>1, <2>5
<1>6. ASSUME NEW j \in Int, SymbolStart(2, j) < e PROVE j < PayloadSymbols
  <2>1. ~(PayloadSymbols <= j)
    <3>1. PayloadSymbols \in Int
      BY Sizes
    <3>2. PayloadSymbols <= j <=> SymbolStart(2, PayloadSymbols) <= SymbolStart(2, j)
      BY <3>1, SymbolOrder
    <3>3. SymbolStart(2, j) \in Int
      BY SymbolPlaces
    <3> QED  BY <1>2, <1>5, <1>6, <3>2, <3>3
  <2> QED  BY <2>1, Sizes
<1> QED  BY <1>1, <1>2, <1>3, <1>5, <1>6

\* A whole window at a symbol is the symbol.
LEMMA WholeWindow ==
  ASSUME FramesTyped, NEW f \in 1 .. 2, NEW j \in Int, NEW w \in WindowSet, w.win_len = N,
         w.at = SymbolStart(f, j)
  PROVE  Su(w) \in Symbols /\ IsSymbol(Su(w), f, j)
<1>1. PICK n \in Int, S \in Nat : n = w.at /\ S = SymbolItems /\ S > 0 /\ N * OS = S
  BY Sizes DEF WindowSet
<1>2. SymbolStart(f, j + 1) = n + S
  BY <1>1, SymbolPlaces, SMTT(60)
<1>3. Su(w) = <<<<n, n + S>>>>
  <2>1. 0 * OS = 0 /\ 0 < N /\ N \in Int
    BY Sizes
  <2>2. Piece(w, 0, N) = <<<<w.at + 0 * OS, w.at + N * OS>>>>
    BY <2>1, PieceIs
  <2> QED  BY <1>1, <2>1, <2>2 DEF Su
<1>4. Su(w) = Whole(f, j)
  BY <1>1, <1>2, <1>3 DEF Whole
<1>5. IsSymbol(Su(w), f, j)
  BY <1>4, WholeIsSymbol
<1> QED  BY <1>5, PartsOfWindow

\* A frame that the windows follow is output symbol by symbol.
LEMMA ReachedNext ==
  ASSUME FramesTyped, NUp > 0, NEW a, NEW b, NEW f \in 1 .. 2, NEW c \in Int, Reached(a, f, c),
         GetType(c) # "VOID", a.sy[f] \in Seq(Symbols),
         NEW len \in Nat,
         GetType(c) = "QUARTER_DOWN" => len = N \div 4, GetType(c) # "QUARTER_DOWN" => len = N,
         NEW w \in WindowSet, w.at = starts[f] + c * OS, w.win_len = len,
         GetType(c) = "PAYLOAD" => b.sy[f] = a.sy[f] \o <<Su(w)>>,
         GetType(c) # "PAYLOAD" => b.sy[f] = a.sy[f] \o <<>>
  PROVE  Reached(b, f, c + len)
<1>1. N \in Nat /\ NUp \in Nat /\ PayloadSymbols \in Nat /\ N \div 4 \in Nat
  BY Sizes
<1>2. ASSUME NEW k \in 0 .. NUp + 4, c = k * N, Has(a, f, 0)
      PROVE  Reached(b, f, c + len)
  <2>1. CASE k < NUp + 4
    <3>1. GetType(c) \notin {"VOID", "QUARTER_DOWN", "PAYLOAD"}
      BY <1>2, <2>1, SymbolTypes
    <3>2. Has(b, f, 0)
      BY <1>2, <3>1, HasKept
    <3>3. k + 1 \in 0 .. NUp + 4 /\ c + len = (k + 1) * N
      BY <1>1, <1>2, <2>1, <3>1
    <3> QED  BY <3>2, <3>3 DEF Reached
  <2>2. CASE k = NUp + 4
    <3>1. GetType(c) = "QUARTER_DOWN"
      BY <1>2, <2>2, SymbolTypes
    <3>2. Has(b, f, 0)
      BY <1>2, <3>1, HasKept
    <3>3. 0 \in 0 .. PayloadSymbols /\ c + len = PayloadCount + 0 * N
      <4>1. PayloadCount = (NUp + 4) * N + N \div 4 /\ 0 * N = 0 /\ PayloadCount \in Nat
        BY CountFacts, <1>1
      <4> QED  BY <1>1, <1>2, <2>2, <3>1, <4>1
    <3> QED  BY <3>2, <3>3 DEF Reached
  <2> QED  BY <1>1, <2>1, <2>2
<1>3. ASSUME NEW k \in 0 .. PayloadSymbols, c = PayloadCount + k * N, Has(a, f, k)
      PROVE  Reached(b, f, c + len)
  <2>1. k < PayloadSymbols
    <3>1. k # PayloadSymbols
      BY <1>3, SymbolTypes
    <3> QED  BY <1>1, <3>1
  <2>2. GetType(c) = "PAYLOAD"
    BY <1>3, <2>1, SymbolTypes
  <2>3. w.at = SymbolStart(f, k + 1)
    <3>1. k \in Int
      BY <1>1
    <3>2. starts[f] + (PayloadCount + k * N) * OS = SymbolStart(f, k + 1)
      BY <3>1, SymbolPlaces
    <3> QED  BY <1>3, <3>2
  <2>4. PICK x \in Symbols : x = Su(w) /\ IsSymbol(x, f, k + 1)
    <3>1. k + 1 \in Int /\ w.win_len = N
      BY <1>1, <2>2
    <3> QED  BY <2>3, <3>1, WholeWindow
  <2>5. Has(b, f, k + 1)
    <3>1. k \in Nat
      BY <1>1
    <3>2. b.sy[f] = a.sy[f] \o <<x>>
      BY <2>2, <2>4, Zenon
    <3> QED  BY <1>3, <2>4, <3>1, <3>2, HasGrows
  <2>6. k + 1 \in 0 .. PayloadSymbols /\ c + len = PayloadCount + (k + 1) * N
    <3>1. PayloadCount \in Nat
      BY CountFacts
    <3>2. (k + 1) * N = k * N + N /\ k * N \in Nat
      BY <1>1
    <3> QED  BY <1>1, <1>3, <2>1, <2>2, <3>1, <3>2
  <2> QED  BY <2>5, <2>6 DEF Reached
<1> QED  BY <1>2, <1>3 DEF Reached

\* A user who has been followed into its payload is at a symbol of it.
LEMMA ReachedSymbol ==
  ASSUME FramesTyped, NUp > 0, NEW a, NEW f \in 1 .. 2, NEW c \in Int, Reached(a, f, c), c >= PayloadCount
  PROVE  \E k \in 0 .. PayloadSymbols :
           /\ c = PayloadCount + k * N /\ Has(a, f, k)
           /\ starts[f] + c * OS = SymbolStart(f, k + 1)
           /\ GetType(c) = "PAYLOAD" <=> k < PayloadSymbols
           /\ k < PayloadSymbols <=> c < PayloadEnd
           /\ k = PayloadSymbols <=> c = PayloadEnd
<1>1. ~(\E k \in 0 .. NUp + 4 : c = k * N)
  <2>1. ASSUME NEW k \in 0 .. NUp + 4 PROVE k * N < PayloadCount /\ k * N \in Nat
    BY SymbolTypes
  <2> QED  BY <2>1, CountFacts
<1>2. PICK k \in 0 .. PayloadSymbols : c = PayloadCount + k * N /\ Has(a, f, k)
  BY <1>1 DEF Reached
<1>3. starts[f] + c * OS = SymbolStart(f, k + 1)
  BY <1>2, SymbolPlaces
<1>4. PICK d \in Nat : PayloadSymbols = k + d
  <2>1. PayloadSymbols - k \in Nat /\ PayloadSymbols = k + (PayloadSymbols - k)
    BY Sizes
  <2> QED  BY <2>1
<1>5. /\ (k + d) * N = k * N + d * N /\ k * N \in Nat /\ d * N \in Nat
      /\ (d > 0 => d * N > 0) /\ (d = 0 => d * N = 0)
  BY Sizes
<1>6. PayloadEnd = c + d * N
  BY <1>2, <1>4, <1>5, CountFacts DEF PayloadEnd
<1>7. (k < PayloadSymbols <=> c < PayloadEnd) /\ (k = PayloadSymbols <=> c = PayloadEnd)
  BY <1>4, <1>5, <1>6
<1>8. GetType(c) = "PAYLOAD" <=> k < PayloadSymbols
  BY <1>7, TypeRanges
<1> QED  BY <1>2, <1>3, <1>7, <1>8

\* Symbols in samples, ordered.
LEMMA CountsOrdered ==
  ASSUME NEW k \in Int, NEW m \in Int
  PROVE  /\ k * N \in Int /\ m * N \in Int /\ (k + 1) * N = k * N + N
         /\ k < m => k * N + N <= m * N
<1>1. N \in Nat
  BY Sizes
<1>2. ASSUME k < m PROVE k * N + N <= m * N
  <2>1. PICK d \in Nat : m = k + 1 + d
    <3>1. m - k - 1 \in Nat /\ m = k + 1 + (m - k - 1)
      BY <1>2
    <3> QED  BY <3>1
  <2>2. (k + 1 + d) * N = k * N + N + d * N /\ d * N \in Nat
    BY <1>1
  <2> QED  BY <1>1, <2>1, <2>2
<1> QED  BY <1>1, <1>2

\* Samples of a part of a symbol.
LEMMA SamplesOfPart ==
  ASSUME NEW t \in 0 .. SymbolItems - 1
  PROVE  /\ Samples(t) \in 0 .. N - 1 /\ t - Samples(t) * OS \in 0 .. OS - 1
         /\ t >= OS => Samples(t) >= 1
         /\ SamplesUp(t) \in 0 .. N /\ SamplesUp(t) * OS - t \in 0 .. OS - 1
         /\ SamplesUp(t) = Samples(t) \/ SamplesUp(t) = Samples(t) + 1
<1>1. /\ N \in Nat /\ OS \in Nat /\ OS > 0 /\ SymbolItems = N * OS /\ SymbolItems \in Nat
      /\ t \in Int /\ 0 * OS = 0
  BY Sizes
<1>2. PICK s \in Int : s = Samples(t) /\ t - s * OS \in 0 .. OS - 1 /\ s * OS \in Int
  <2>1. Samples(t) \in Int /\ t - Samples(t) * OS \in 0 .. OS - 1
    BY <1>1, SamplesOf
  <2> QED  BY <1>1, <2>1
<1>3. s < N
  <2>1. N <= s => N * OS <= s * OS
    BY <1>1, Scaled
  <2> QED  BY <1>1, <1>2, <2>1
<1>4. s >= 0
  <2>1. s < 0 => s * OS + OS <= 0 * OS
    <3>1. 0 \in Int
      OBVIOUS
    <3> QED  BY <3>1, Scaled
  <2> QED  BY <1>1, <1>2, <2>1
<1>5. t >= OS => s >= 1
  <2>1. s <= 0 => s * OS <= 0 * OS
    <3>1. 0 \in Int
      OBVIOUS
    <3> QED  BY <3>1, Scaled
  <2> QED  BY <1>1, <1>2, <2>1
<1>6. /\ SamplesUp(t) * OS - t \in 0 .. OS - 1 /\ (SamplesUp(t) = s \/ SamplesUp(t) = s + 1)
  BY <1>1, <1>2, SamplesUpOf
<1> QED  BY <1>1, <1>2, <1>3, <1>4, <1>5, <1>6

\* The parts of a divided window of one symbol that ends and of another that begins.
LEMMA DividedWindow ==
  ASSUME NEW w \in WindowSet, NEW n \in Int, NEW t \in Nat, NEW len \in Nat,
         NEW pm \in Symbols, NEW x \in Int,
         w.at = n, w.tau = t, w.win_len = len, IsDivided(w), SamplesUp(t) <= len
  PROVE  /\ w.Ti2 = "PAYLOAD" => Covers(Mi2(w), n + t, n + len * OS)
         /\ w.Ti1 = "PAYLOAD" /\ Covers(pm, x, n) =>
              \E e \in Int : e - (n + t) \in 0 .. OS /\ Covers(pm \o Mi1(w), x, e) /\ pm \o Mi1(w) \in Symbols
<1>1. PICK u \in Nat : u = SamplesUp(t) /\ u * OS - t \in 0 .. OS - 1 /\ u * OS \in Int
  <2>1. SamplesUp(t) \in Int /\ SamplesUp(t) * OS - t \in 0 .. OS - 1 /\ SamplesUp(t) * OS \in Int
    BY SamplesUpOf
  <2>2. SamplesUp(t) >= 0
    <3>1. SamplesUp(t) < 0 => SamplesUp(t) * OS + OS <= 0 * OS
      <4>1. 0 \in Int
        OBVIOUS
      <4> QED  BY <2>1, <4>1, Scaled
    <3> QED  BY <2>1, <3>1, Sizes
  <2> QED  BY <2>1, <2>2
<1>2. len \in Int /\ u \in Int /\ t \in Int /\ OS \in Nat
  BY Sizes
<1>3. ASSUME w.Ti2 = "PAYLOAD" PROVE Covers(Mi2(w), n + t, n + len * OS)
  <2>1. Mi2(w) = Piece(w, u, len)
    BY <1>1, <1>3, PartsOfWindow
  <2>2. t <= len * OS
    <3>1. u * OS <= len * OS /\ len * OS \in Int
      BY <1>1, <1>2, Scaled
    <3> QED  BY <1>1, <1>2, <3>1
  <2>3. Covers(Piece(w, u, len), w.at + t, w.at + len * OS)
    BY <1>1, <1>2, <2>2, CoversRest
  <2> QED  BY <2>1, <2>3
<1>4. ASSUME w.Ti1 = "PAYLOAD", Covers(pm, x, n)
      PROVE  \E e \in Int : e - (n + t) \in 0 .. OS /\ Covers(pm \o Mi1(w), x, e) /\ pm \o Mi1(w) \in Symbols
  <2>1. Mi1(w) = Piece(w, 0, u)
    BY <1>1, <1>4, PartsOfWindow
  <2>2. 0 * OS = 0
    BY <1>2
  <2>3. PICK q : q = Piece(w, 0, u)
    OBVIOUS
  <2>4. 0 < u => q = <<<<n, n + u * OS>>>>
    <3>1. 0 < u => q = <<<<w.at + 0 * OS, w.at + u * OS>>>>
      <4>1. 0 \in Int
        OBVIOUS
      <4> QED  BY <1>2, <2>3, <4>1, PieceIs
    <3> QED  BY <2>2, <3>1
  <2>5. u = 0 => q = <<>>
    BY <1>2, <2>3 DEF Piece
  <2>6. pm \o q \in Symbols /\ Covers(pm \o q, x, n + u * OS)
    <3>1. u > 0 => q = <<<<n, n + u * OS>>>>
      BY <1>1, <2>4
    <3> QED  BY <1>4, <2>5, <3>1, CoversFurther
  <2>7. (n + u * OS) - (n + t) \in 0 .. OS /\ n + u * OS \in Int
    BY <1>1, <1>2
  <2> QED  BY <2>1, <2>3, <2>6, <2>7
<1> QED  BY <1>3, <1>4

\* A symbol of the first frame is read: what is known of the second, which is weaker,
\* moves on with it.
LEMMA WeakWaits ==
  ASSUME FramesTyped, NUp > 0, Overlap, ~Stronger, NEW a, NEW b, PartsTyped(a),
         NEW n \in Nat, NEW t \in 0 .. SymbolItems - 1, NEW d \in Int, NEW c \in Int, c = d + Samples(t),
         NEW j \in 1 .. PayloadSymbols, n = SymbolStart(1, j), Waits(a, n, t, c),
         NEW v,
         GetType(c) = "QUARTER_DOWN" => v = (t + SymbolItems \div 4) % SymbolItems,
         GetType(c) # "QUARTER_DOWN" => v = t,
         NEW w \in WindowSet, w.win_len = N, w.at = n, w.tau = v, w.Ti2 = GetType(d + SamplesUp(v)),
         GetType(c) = "QUARTER_DOWN" => w.Ti1 = "DOWNCHIRP",
         GetType(c) # "QUARTER_DOWN" => w.Ti1 = GetType(d),
         b.pt = w.Ti2, b.pm = Mi2(w),
         a.us[2] # "PAYLOAD" /\ w.Ti1 # "PAYLOAD" => b.us[2] # "PAYLOAD",
         a.us[2] = "PAYLOAD" \/ (w.Ti1 = "PAYLOAD" /\ d > 0) => b.us[2] = "PAYLOAD",
         b.us[2] # "PAYLOAD" => b.sy[2] = a.sy[2] \o <<>>,
         b.us[2] = "PAYLOAD" /\ a.pt = "PAYLOAD" => b.sy[2] = a.sy[2] \o <<PartsIn(a, w)>>
  PROVE  Waits(b, n + SymbolItems, v, d + N + Samples(v))
<1>0. PICK q \in Nat, Q \in Nat : q = N \div 4 /\ Q = SymbolItems \div 4
  BY Sizes
<1>20. PICK S \in Nat :
        /\ S = SymbolItems /\ Q = q * OS /\ S = 4 * Q /\ N = 4 * q
        /\ q > 0 /\ Q > 0 /\ OS <= Q /\ N * OS = S
  <2>1. /\ SymbolItems \in Nat /\ Q = q * OS /\ SymbolItems = 4 * Q /\ N = 4 * q
        /\ q > 0 /\ OS <= Q /\ N * OS = SymbolItems
    BY <1>0, Sizes
  <2>2. OS \in Nat /\ OS > 0
    BY Sizes
  <2> QED  BY <1>0, <2>1, <2>2
<1>1. S = SymbolItems /\ S = 4 * Q /\ N = 4 * q /\ q > 0 /\ Q > 0 /\ OS <= Q
  BY <1>20
<1>2. N \in Nat /\ OS \in Nat /\ OS > 0 /\ N >= 4 /\ NUp \in Nat /\ PayloadSymbols \in Nat
  BY <1>1, Sizes
<1>18. t \in Int /\ t >= 0 /\ t < S
  BY <1>1
<1>21. PICK s \in 0 .. N - 1, p \in Nat, m \in Nat :
        /\ s = Samples(t) /\ (t >= OS => s >= 1) /\ c = d + s
        /\ p = PayloadCount /\ m = (NUp + 4) * N /\ p = m + q /\ m >= 4 * N
  <2>1. (NUp + 4) * N = NUp * N + 4 * N /\ NUp * N \in Nat
    BY <1>2
  <2>2. PICK p \in Nat, m \in Nat : p = PayloadCount /\ m = (NUp + 4) * N /\ p = m + q
    BY <1>0, CountFacts
  <2>3. m >= 4 * N
    BY <1>2, <2>1, <2>2
  <2>4. Samples(t) \in 0 .. N - 1 /\ (t >= OS => Samples(t) >= 1)
    BY SamplesOfPart
  <2> QED  BY <2>2, <2>3, <2>4
<1>3. /\ s \in Int /\ s >= 0 /\ s < N /\ s = Samples(t) /\ (t >= OS => s >= 1) /\ c = d + s
      /\ p = PayloadCount /\ p = m + q /\ m >= 4 * N
  BY <1>2, <1>21
<1>4. PICK e \in Nat : e = FrameEnd(1) /\ n + S <= e
  <2>1. SymbolStart(1, j + 1) = n + S /\ FrameEnd(1) = SymbolStart(1, PayloadSymbols + 1)
    BY <1>1, SymbolPlaces
  <2>2. j + 1 <= PayloadSymbols + 1 /\ j + 1 \in Int /\ PayloadSymbols + 1 \in Int
    BY <1>2
  <2>3. SymbolStart(1, j + 1) <= SymbolStart(1, PayloadSymbols + 1)
    BY <2>2, SymbolOrder
  <2> QED  BY <2>1, <2>3, OverlapOrder
<1>5. /\ \A y \in Int : GetType(y) = "PAYLOAD" <=> y >= p /\ y < PayloadEnd
      /\ \A y \in Int : GetType(y) = "QUARTER_DOWN" <=> y >= m /\ y < p
      /\ PayloadEnd \in Nat /\ PayloadEnd >= p + N
  BY <1>21, TypeRanges, TypeFacts
<1>6. PICK x \in Int : x = PayloadStart(2)
  BY Places
<1>7. /\ ~(x \in e - S .. e - 1)
      /\ x < e => (x - PayloadStart(1)) % SymbolItems >= OS
  <2>1. ~TurnsInLast /\ ~Together
    BY DEF Overlap
  <2>2. ~(PayloadStart(2) \in FrameEnd(1) - SymbolItems .. FrameEnd(1) - 1)
    BY <2>1 DEF TurnsInLast
  <2>3. PayloadStart(2) < FrameEnd(1) => ~((PayloadStart(2) - PayloadStart(1)) % SymbolItems < OS)
    BY <2>1 DEF Together
  <2>4. PICK r \in Int : r = (x - PayloadStart(1)) % SymbolItems
    <3>1. x - PayloadStart(1) \in Int
      BY OverlapOrder
    <3>2. (x - PayloadStart(1)) % SymbolItems \in Int
      BY <3>1, ModSymbols, Sizes
    <3> QED  BY <3>2
  <2>5. ~(x \in e - S .. e - 1)
    BY <1>1, <1>4, <1>6, <2>2
  <2>6. x < e => ~(r < OS)
    BY <1>4, <1>6, <2>3, <2>4
  <2>7. x < e => r >= OS
    BY ONLY <2>6, <1>2, r \in Int
  <2> QED  BY <2>4, <2>5, <2>7
<1>8. ASSUME NEW y \in 0 .. SymbolItems - 1, n + y = x PROVE y >= OS /\ n + S < e /\ x < e
  <2>2. PICK k \in Nat : k = j - 1 /\ n = PayloadStart(1) + k * SymbolItems
    BY DEF SymbolStart
  <2>3. (x - PayloadStart(1)) % SymbolItems = y
    <3>1. x - PayloadStart(1) = y + k * SymbolItems
      <4>1. PICK r \in Nat, z \in Nat : r = PayloadStart(1) /\ z = k * SymbolItems
        <5>1. PayloadStart(1) \in Nat /\ k * SymbolItems \in Nat
          BY OverlapOrder, Sizes
        <5> QED  BY <5>1
      <4>2. n = r + z /\ n + y = x
        BY <1>8, <2>2, <4>1
      <4>3. x - r = y + z
        <5>1. y \in Int
          BY Sizes
        <5> QED  BY ONLY <4>2, <5>1, n \in Nat, r \in Nat, z \in Nat, x \in Int
      <4> QED  BY <4>1, <4>3
    <3>2. (y + k * SymbolItems) % SymbolItems = y
      BY ModUnique
    <3> QED  BY <3>1, <3>2
  <2>4. x < e
    BY <1>1, <1>4, <1>8, SMTT(60)
  <2> QED  BY <1>1, <1>2, <1>4, <1>7, <1>8, <2>3, <2>4, SMTT(60)
<1>22. x = starts[2] + (NUp + 4) * SymbolItems + Q
  BY <1>0, <1>6, Places
<1>9. SymbolStart(2, 1) = x /\ SymbolStart(2, 2) = x + S
  <2>1. SymbolStart(2, 1 + 1) = SymbolStart(2, 1) + SymbolItems /\ SymbolStart(2, 1) = PayloadStart(2)
    BY SymbolPlaces
  <2> QED  BY <1>1, <1>6, <2>1
<1>10. IsDivided(w) /\ PartsTyped(a)
  BY DEF IsDivided
<1>11. ASSUME NEW y \in 0 .. SymbolItems - 1, v = y
       PROVE  /\ Samples(y) \in 0 .. N - 1 /\ w.Ti2 = GetType(d + SamplesUp(y))
              /\ d + SamplesUp(y) = d + Samples(y) \/ d + SamplesUp(y) = d + Samples(y) + 1
              /\ SamplesUp(y) \in 0 .. N
              /\ w.Ti2 = "PAYLOAD" => Covers(b.pm, n + y, n + S)
  <2>0. w.tau = y /\ w.Ti2 = GetType(d + SamplesUp(y)) /\ y \in Nat
    BY <1>1, <1>11
  <2>1. Samples(y) \in 0 .. N - 1 /\ SamplesUp(y) \in 0 .. N
        /\ (SamplesUp(y) = Samples(y) \/ SamplesUp(y) = Samples(y) + 1)
    BY SamplesOfPart
  <2>2. w.Ti2 = "PAYLOAD" => Covers(Mi2(w), n + y, n + N * OS)
    <3>1. a.pm \in Symbols /\ SamplesUp(y) <= N
      BY <1>2, <1>10, <2>1 DEF PartsTyped
    <3>2. w.at = n /\ w.win_len = N /\ n \in Int
      OBVIOUS
    <3> QED  BY <1>2, <1>10, <2>0, <3>1, <3>2, DividedWindow
  <2>3. N * OS = S
    BY <1>20
  <2>4. d + SamplesUp(y) = d + Samples(y) \/ d + SamplesUp(y) = d + Samples(y) + 1
    <3>1. PICK k \in Int : k = Samples(y)
      BY <2>1
    <3> QED  BY <2>1, <3>1, SMTT(60)
  <2> QED  BY <2>0, <2>1, <2>2, <2>3, <2>4
\* The first symbol begins in the window.
<1>12. ASSUME NEW y \in 0 .. SymbolItems - 1, v = y, n + y = x, d + Samples(y) = p, Has(b, 2, 0)
       PROVE  Waits(b, n + SymbolItems, v, d + N + Samples(v))
  <2>1. y >= OS /\ n + S < e /\ x < e
    BY <1>8, <1>12
  <2>2. w.Ti2 = "PAYLOAD"
    <3>1. p + 1 \in Int /\ p + 1 < PayloadEnd /\ p < PayloadEnd
      BY <1>2, <1>5
    <3>2. d + SamplesUp(y) = p \/ d + SamplesUp(y) = p + 1
      BY <1>11, <1>12
    <3> QED  BY <1>5, <1>11, <1>12, <3>1, <3>2, SMTT(60)
  <2>3. Covers(b.pm, SymbolStart(2, 1), n + S)
    BY <1>9, <1>11, <1>12, <2>2
  <2>4. d + N + Samples(y) = PayloadCount + (2 - 1) * N
    <3>1. (2 - 1) * N = N
      BY <1>2
    <3>2. Samples(y) \in Int
      BY <1>2, <1>11, <1>12
    <3>3. d + N + Samples(y) = p + N
      BY <1>2, <1>12, <3>2, SMTT(60)
    <3> QED  BY <1>3, <3>1, <3>3
  <2>5. 2 \in 2 .. PayloadSymbols
    <3>1. 1 < PayloadSymbols
      BY <1>4, <1>9, <2>1, OverlapOrder
    <3> QED  BY <1>2, <3>1
  <2>6. WaitsInPayload(b, n + SymbolItems, y, d + N + Samples(y), 2)
    <3>1. n + SymbolItems + y = SymbolStart(2, 2)
      <4>1. n + S + y = x + S
        <5>1. y \in Int
          BY <1>1
        <5>2. n + y = x
          BY <1>12
        <5> QED  BY ONLY <5>1, <5>2, n \in Nat, S \in Nat, x \in Int
      <4> QED  BY <1>1, <1>9, <4>1
    <3>2. Has(b, 2, 2 - 2) /\ Covers(b.pm, SymbolStart(2, 2 - 1), n + SymbolItems)
      BY <1>1, <1>12, <2>3
    <3> QED  BY <1>1, <1>4, <2>1, <2>2, <2>4, <3>1, <3>2, SMTT(60) DEF WaitsInPayload
  <2> QED  BY <1>12, <2>5, <2>6 DEF Waits
\* Nothing begins.
<1>13. ASSUME w.Ti1 # "PAYLOAD", WaitsForPayload(a, n, t, c)
       PROVE  Has(b, 2, 0) /\ b.us[2] # "PAYLOAD"
  <2>1. b.us[2] # "PAYLOAD" /\ Has(a, 2, 0)
    BY <1>13 DEF WaitsForPayload
  <2>2. b.sy[2] = a.sy[2] \o <<>> /\ a.sy[2] \in Seq(Symbols)
    BY <2>1 DEF PartsTyped
  <2> QED  BY <2>1, <2>2, HasKept
<1>14. ASSUME NEW k \in 0 .. NUp + 4, c = k * N, n + t = starts[2] + k * SymbolItems,
              WaitsForPayload(a, n, t, c)
       PROVE  Waits(b, n + SymbolItems, v, d + N + Samples(v))
  <2>1. CASE k < NUp + 4
    <3>1. c + N = (k + 1) * N /\ c + N <= m
      <4>1. NUp + 4 \in Int /\ k \in Int /\ k < NUp + 4
        BY <1>2, <2>1
      <4>2. (k + 1) * N = k * N + N /\ k * N + N <= (NUp + 4) * N
        BY <4>1, CountsOrdered
      <4>3. c = k * N /\ m = (NUp + 4) * N
        BY <1>14, <1>21
      <4> QED  BY ONLY <4>2, <4>3, ZenonT(60)
    <3>2. GetType(c) # "QUARTER_DOWN" /\ GetType(d) # "PAYLOAD"
      BY <1>1, <1>2, <1>3, <1>5, <3>1, SMTT(60)
    <3>3. v = t /\ w.Ti1 # "PAYLOAD"
      BY <3>2
    <3>4. w.Ti2 # "PAYLOAD"
      <4>1. d + SamplesUp(t) = c \/ d + SamplesUp(t) = c + 1
        BY <1>3, <1>11, <3>3
      <4>2. ~(c >= p) /\ ~(c + 1 >= p) /\ c + 1 \in Int /\ c \in Int
        <5>1. c + N <= m /\ p = m + q /\ N \in Nat /\ N >= 4
          BY <1>2, <1>3, <3>1
        <5> QED  BY ONLY <5>1, c \in Int, p \in Nat, m \in Nat, q \in Nat
      <4> QED  BY <1>5, <1>11, <3>3, <4>1, <4>2
    <3>5. n + SymbolItems + t = starts[2] + (k + 1) * SymbolItems
      <4>1. (k + 1) * SymbolItems = k * SymbolItems + SymbolItems /\ k * SymbolItems \in Nat
        BY Sizes
      <4>2. PICK z \in Int : z = k * SymbolItems
        BY <4>1
      <4>3. starts[2] \in Int
        BY OverlapOrder
      <4>4. n + S + t = starts[2] + (z + S)
        <5>1. PICK r \in Int : r = starts[2]
          BY <4>3
        <5>2. n + t = r + z
          BY <1>14, <4>2, <5>1
        <5>3. n + S + t = r + (z + S)
          BY ONLY <1>18, <5>2, n \in Nat, S \in Nat, z \in Int, r \in Int
        <5> QED  BY <5>1, <5>3
      <4>5. (k + 1) * SymbolItems = z + S /\ S = SymbolItems
        BY <1>1, <4>1, <4>2
      <4> QED  BY ONLY <4>4, <4>5, ZenonT(60)
    <3>6. d + N + Samples(t) = (k + 1) * N /\ k + 1 \in 0 .. NUp + 4
      <4>1. k + 1 \in 0 .. NUp + 4
        BY <1>2, <2>1, SMTT(60)
      <4>2. d + N + Samples(t) = c + N
        BY <1>2, <1>3
      <4>3. c + N = (k + 1) * N
        BY <3>1
      <4>4. d + N + Samples(t) = (k + 1) * N
        BY ONLY <4>2, <4>3, ZenonT(60)
      <4> QED  BY <4>1, <4>4
    <3>7. Has(b, 2, 0) /\ b.us[2] # "PAYLOAD" /\ b.pt # "PAYLOAD"
      BY <1>13, <1>14, <3>3, <3>4
    <3>8. WaitsForPayload(b, n + SymbolItems, t, d + N + Samples(t))
      BY <3>5, <3>6, <3>7 DEF WaitsForPayload, WaitsInPreamble
    <3> QED  BY <3>3, <3>8 DEF Waits
  <2>2. CASE k = NUp + 4
    <3>1. GetType(c) = "QUARTER_DOWN" /\ c = m
      <4>1. c = m
        BY <1>14, <1>21, <2>2
      <4>2. m < p /\ c \in Int
        BY <1>1, <1>3, <4>1
      <4> QED  BY <1>5, <4>1, <4>2
    <3>2. Has(b, 2, 0) /\ b.us[2] # "PAYLOAD"
      BY <1>13, <1>14, <3>1
    <3>3. n + t + Q = x
      <4>1. PICK z \in Int : z = starts[2] + (NUp + 4) * SymbolItems
        BY OverlapOrder, CountFacts, SMTT(60)
      <4>2. x = z + Q /\ n + t = z
        BY <1>14, <1>22, <2>2, <4>1
      <4> QED  BY <1>18, <4>2
    <3>4. CASE t + Q < S
      <4>1. PICK y \in 0 .. SymbolItems - 1 : y = t + Q
        BY <1>1, <3>4
      <4>2. v = y
        <5>1. (y + 0 * SymbolItems) % SymbolItems = y
          BY ModUnique, SMTT(60)
        <5> QED  BY <1>1, <3>1, <4>1, <5>1
      <4>3. Samples(y) = s + q
        <5>1. t \in Int /\ q \in Int
          BY <1>18
        <5>2. Samples(t + q * OS) = Samples(t) + q
          BY <5>1, SamplesOf
        <5> QED  BY <1>3, <1>20, <4>1, <5>2
      <4>4. d + Samples(y) = p /\ n + y = x
        <5>1. d + s = m
          BY <1>3, <3>1
        <5>2. d + Samples(y) = p
          BY ONLY <1>3, <4>3, <5>1, d \in Int, p \in Nat, m \in Nat, q \in Nat
        <5>3. n + y = x
          BY ONLY <1>18, <3>3, <4>1, n \in Nat, Q \in Nat, x \in Int
        <5> QED  BY <5>2, <5>3
      <4> QED  BY <1>12, <3>2, <4>2, <4>4
    <3>5. CASE t + Q >= S
      <4>1. PICK y \in 0 .. SymbolItems - 1 : y = t + Q - S
        BY <1>1, <3>5
      <4>2. v = y
        <5>1. (y + 1 * SymbolItems) % SymbolItems = y
          BY ModUnique
        <5>2. y + 1 * SymbolItems = t + Q
          <6>1. 1 * SymbolItems = S
            BY <1>1
          <6>2. y + S = t + Q
            BY <1>18, <4>1
          <6> QED  BY <6>1, <6>2
        <5> QED  BY <1>0, <3>1, <5>1, <5>2
      <4>3. Samples(y) = s + q - N
        <5>1. t \in Int /\ q - N \in Int
          BY <1>2, <1>18
        <5>2. (q - N) * OS = Q - S
          <6>1. (q - N) * OS = q * OS - N * OS
            BY <1>2, Distribute
          <6> QED  BY <1>20, <6>1
        <5>3. Samples(t + (q - N) * OS) = Samples(t) + (q - N)
          BY <5>1, SamplesOf
        <5>4. y = t + (Q - S)
          BY <1>18, <4>1
        <5> QED  BY <1>2, <1>3, <5>2, <5>3, <5>4
      <4>4. d + Samples(y) = p - N /\ n + SymbolItems + y = x /\ d + N + Samples(y) = p
        <5>1. d + s = m
          BY <1>3, <3>1
        <5>2. d + Samples(y) = p - N /\ d + N + Samples(y) = p
          BY ONLY <1>2, <1>3, <4>3, <5>1, d \in Int, p \in Nat, m \in Nat, q \in Nat
        <5>3. n + S + y = x
          BY <1>18, <3>3, <4>1
        <5> QED  BY <1>1, <5>2, <5>3
      <4>5. w.Ti2 # "PAYLOAD"
        <5>1. d + SamplesUp(y) = p - N \/ d + SamplesUp(y) = (p - N) + 1
          BY <1>11, <4>2, <4>4
        <5>2. ~(p - N >= p) /\ ~((p - N) + 1 >= p) /\ p - N \in Int /\ (p - N) + 1 \in Int
          BY <1>2, SMTT(60)
        <5> QED  BY <1>5, <1>11, <4>2, <5>1, <5>2
      <4>6. WaitsForPayload(b, n + SymbolItems, y, d + N + Samples(y))
        BY <1>3, <1>6, <3>2, <4>4, <4>5 DEF WaitsForPayload
      <4> QED  BY <4>2, <4>6 DEF Waits
    <3> QED  BY <1>1, <3>4, <3>5
  <2> QED  BY <1>2, <2>1, <2>2
<1>15. ASSUME c = PayloadCount, n + t = PayloadStart(2), WaitsForPayload(a, n, t, c)
       PROVE  Waits(b, n + SymbolItems, v, d + N + Samples(v))
  <2>1. GetType(c) # "QUARTER_DOWN" /\ v = t
    BY <1>3, <1>5, <1>15
  <2>2. n + t = x /\ t >= OS
    BY <1>6, <1>8, <1>15
  <2>3. s >= 1 /\ d = p - s
    BY <1>3, <1>15, <2>2, SMTT(60)
  <2>4. w.Ti1 # "PAYLOAD"
    BY <1>5, <2>1, <2>3
  <2>5. Has(b, 2, 0)
    BY <1>13, <1>15, <2>4
  <2> QED  BY <1>3, <1>12, <1>15, <2>1, <2>2, <2>5
<1>16. ASSUME NEW g \in 2 .. PayloadSymbols, WaitsInPayload(a, n, t, c, g)
       PROVE  Waits(b, n + SymbolItems, v, d + N + Samples(v))
  <2>1. /\ c = p + (g - 1) * N /\ n + t = SymbolStart(2, g) /\ Has(a, 2, g - 2) /\ a.pt = "PAYLOAD"
        /\ Covers(a.pm, SymbolStart(2, g - 1), n) /\ t >= OS /\ (g > 2 => a.us[2] = "PAYLOAD")
    BY <1>3, <1>16 DEF WaitsInPayload
  <2>2. /\ (g - 1) * N \in Int /\ (g - 1) * N >= N /\ c + N <= PayloadEnd
        /\ d + N + Samples(t) = p + g * N
    <3>1. 0 * N + N <= (g - 1) * N /\ (g - 1) * N \in Int
      <4>1. 0 \in Int /\ g - 1 \in Int /\ 0 < g - 1
        OBVIOUS
      <4> QED  BY <4>1, CountsOrdered
    <3>2. (g - 1) * N + N <= PayloadSymbols * N
      <4>1. g - 1 \in Int /\ PayloadSymbols \in Int /\ g - 1 < PayloadSymbols
        BY <1>2
      <4> QED  BY <4>1, CountsOrdered
    <3>3. ((g - 1) + 1) * N = (g - 1) * N + N /\ (g - 1) + 1 = g /\ 0 * N = 0
      <4>1. g - 1 \in Int
        OBVIOUS
      <4> QED  BY <1>2, <4>1, CountsOrdered
    <3>4. PICK y \in Int, z \in Int : y = (g - 1) * N /\ z = PayloadSymbols * N
      <4>1. PayloadSymbols \in Int /\ g - 1 \in Int
        BY <1>2
      <4> QED  BY <4>1, CountsOrdered
    <3>5. N <= y /\ y + N <= z /\ g * N = y + N
      BY <1>2, <3>1, <3>2, <3>3, <3>4
    <3>6. PayloadEnd = p + z
      BY <1>3, <3>4 DEF PayloadEnd
    <3>7. c = p + y
      BY <2>1, <3>4
    <3>8. c + N <= PayloadEnd
      BY <1>2, <3>5, <3>6, <3>7, SMTT(60)
    <3>9. d + N + s = p + (y + N)
      BY <1>2, <1>3, <3>7, SMTT(60)
    <3> QED  BY <1>3, <3>4, <3>5, <3>8, <3>9
  <2>3. /\ GetType(c) # "QUARTER_DOWN" /\ GetType(d) = "PAYLOAD" /\ d > 0
        /\ GetType(c) = "PAYLOAD" /\ GetType(c + 1) = "PAYLOAD"
    <3>1. s >= 1 /\ d = c - s /\ s < N
      BY <1>2, <1>3, <2>1, SMTT(60)
    <3>4. PICK y \in Int, z \in Int : y = (g - 1) * N /\ z = PayloadEnd /\ y >= N /\ c = p + y /\ c + N <= z
      BY <1>5, <2>1, <2>2, SMTT(60)
    <3>2. d >= p /\ d < z /\ c >= p /\ c < z /\ c + 1 >= p /\ c + 1 < z
      BY ONLY <1>2, <1>3, <3>1, <3>4, d \in Int, p \in Nat, y \in Int, z \in Int
    <3>3. c + 1 \in Int /\ p > 0
      BY <1>1, <1>2, <1>3
    <3>5. GetType(d) = "PAYLOAD" /\ GetType(c) = "PAYLOAD" /\ GetType(c + 1) = "PAYLOAD"
      BY <1>5, <3>2, <3>3, <3>4
    <3> QED  BY <3>2, <3>3, <3>5
  <2>4. v = t /\ w.Ti1 = "PAYLOAD" /\ w.Ti2 = "PAYLOAD" /\ b.pt = "PAYLOAD" /\ b.us[2] = "PAYLOAD"
    <3>1. v = t /\ w.Ti1 = "PAYLOAD"
      BY <2>3
    <3>2. w.Ti2 = "PAYLOAD"
      <4>1. d + SamplesUp(t) = c \/ d + SamplesUp(t) = c + 1
        BY <1>3, <1>11, <3>1
      <4> QED  BY <1>11, <2>3, <3>1, <4>1
    <3> QED  BY <2>3, <3>1, <3>2
  <2>5. PICK y \in Symbols : y = PartsIn(a, w) /\ IsSymbol(y, 2, g - 1)
    <3>1. PICK f \in Int : /\ f - (n + t) \in 0 .. OS /\ Covers(a.pm \o Mi1(w), SymbolStart(2, g - 1), f)
                           /\ a.pm \o Mi1(w) \in Symbols
      <4>1. t \in Nat /\ SamplesUp(t) <= N /\ a.pm \in Symbols /\ SymbolStart(2, g - 1) \in Int
        <5>1. g - 1 \in Int
          OBVIOUS
        <5>2. SamplesUp(t) \in 0 .. N
          BY <1>11, <2>4
        <5> QED  BY <1>1, <1>2, <5>1, <5>2, SymbolPlaces DEF PartsTyped
      <4>2. w.at = n /\ w.win_len = N /\ n \in Int /\ w.tau = t
        BY <2>4
      <4>3. PICK k \in Int : k = SymbolStart(2, g - 1) /\ Covers(a.pm, k, n)
        BY <2>1, <4>1
      <4>4. \E f \in Int : /\ f - (n + t) \in 0 .. OS
                           /\ Covers(a.pm \o Mi1(w), k, f) /\ a.pm \o Mi1(w) \in Symbols
        BY <1>2, <1>10, <2>4, <4>1, <4>2, <4>3, DividedWindow
      <4> QED  BY <4>3, <4>4
    <3>2. f - SymbolStart(2, (g - 1) + 1) \in 0 .. OS
      <4>1. (g - 1) + 1 = g
        OBVIOUS
      <4> QED  BY <2>1, <3>1, <4>1
    <3>3. IsSymbol(a.pm \o Mi1(w), 2, g - 1)
      <4>1. g - 1 \in Int
        OBVIOUS
      <4> QED  BY <3>1, <3>2, <4>1, CoversSymbol
    <3> QED  BY <3>1, <3>3 DEF PartsIn
  <2>6. Has(b, 2, g - 1)
    <3>1. g - 2 \in Nat /\ (g - 2) + 1 = g - 1
      OBVIOUS
    <3>2. b.sy[2] = a.sy[2] \o <<y>> /\ a.sy[2] \in Seq(Symbols)
      BY <2>1, <2>4, <2>5 DEF PartsTyped
    <3>3. Has(b, 2, (g - 2) + 1)
      BY <2>1, <2>5, <3>1, <3>2, HasGrows
    <3> QED  BY <3>1, <3>3
  <2>7. g + 1 \in 2 .. PayloadSymbols
    <3>1. SymbolStart(2, g) < e
      <4>1. n + t < e
        BY <1>4, <1>18
      <4> QED  BY <2>1, <4>1
    <3>2. g < PayloadSymbols
      BY <1>4, <3>1, OverlapOrder
    <3> QED  BY <1>2, <3>2
  <2>8. n + SymbolItems + t = SymbolStart(2, g + 1)
    <3>1. SymbolStart(2, g + 1) = SymbolStart(2, g) + SymbolItems
      BY SymbolPlaces
    <3> QED  BY <1>1, <2>1, <3>1, SMTT(60)
  <2>9. Covers(b.pm, SymbolStart(2, (g + 1) - 1), n + SymbolItems)
    <3>1. (g + 1) - 1 = g
      OBVIOUS
    <3> QED  BY <1>1, <1>11, <2>1, <2>4, <3>1
  <2>10. WaitsInPayload(b, n + SymbolItems, t, d + N + Samples(t), g + 1)
    <3>1. (g + 1) - 1 = g /\ (g + 1) - 2 = g - 1 /\ ~(g + 1 = 2)
      OBVIOUS
    <3> QED  BY <1>3, <2>1, <2>2, <2>4, <2>6, <2>8, <2>9, <3>1 DEF WaitsInPayload
  <2> QED  BY <2>4, <2>7, <2>10 DEF Waits
<1>17. CASE WaitsForPayload(a, n, t, c)
  BY <1>14, <1>15, <1>17 DEF WaitsForPayload, WaitsInPreamble
<1> QED  BY <1>16, <1>17 DEF Waits

\* The next symbol of the first frame, by the count of its samples.
LEMMA JoinedNumbers ==
  ASSUME NUp > 0, NEW t \in 0 .. SymbolItems - 1, NEW d \in Int, d < PayloadEnd,
         NEW g \in 1 .. PayloadSymbols + 2, d + SamplesUp(t) = PayloadCount + (g - 1) * N
  PROVE  /\ g \in 1 .. PayloadSymbols + 1
         /\ g <= PayloadSymbols => GetType(d + SamplesUp(t)) = "PAYLOAD"
         /\ g = PayloadSymbols + 1 => GetType(d + SamplesUp(t)) # "PAYLOAD"
         /\ (d + SamplesUp(t)) + N = PayloadCount + ((g + 1) - 1) * N
<1>1. N \in Nat /\ PayloadSymbols \in Nat /\ g \in Int
  BY Sizes
<1>2. PICK s \in 0 .. N : s = SamplesUp(t)
  BY SamplesOfPart
<1>3. PICK k \in Int : k = g - 1 /\ k >= 0
  BY <1>1
<1>4. PICK p \in Nat, e \in Int, x \in Int, y \in Int :
        p = PayloadCount /\ e = PayloadEnd /\ x = k * N /\ y = PayloadSymbols * N /\ e = p + y
  <2>1. PayloadCount \in Nat
    BY CountFacts
  <2>2. k * N \in Int /\ PayloadSymbols * N \in Int
    BY <1>1
  <2> QED  BY <2>1, <2>2 DEF PayloadEnd
<1>5. d + s = p + x /\ d < e
  BY <1>2, <1>3, <1>4
<1>6. ~(PayloadSymbols < k)
  <2>1. PayloadSymbols < k => y + N <= x
    BY <1>1, <1>4, CountsOrdered
  <2>2. s <= N /\ s \in Int
    BY <1>1
  <2> QED  BY <1>1, <1>4, <1>5, <2>1, <2>2
<1>7. g \in 1 .. PayloadSymbols + 1 /\ k \in 0 .. PayloadSymbols
  BY <1>1, <1>3, <1>6
<1>8. /\ k < PayloadSymbols => GetType(PayloadCount + k * N) = "PAYLOAD"
      /\ k = PayloadSymbols => GetType(PayloadCount + k * N) = "VOID"
  BY <1>7, SymbolTypes
<1>9. (k + 1) * N = x + N
  BY <1>1, <1>4, CountsOrdered
<1>10. (d + s) + N = p + (k + 1) * N
  BY <1>1, <1>5, <1>9
<1>11. (g + 1) - 1 = k + 1 /\ (g <= PayloadSymbols <=> k < PayloadSymbols)
       /\ (g = PayloadSymbols + 1 <=> k = PayloadSymbols)
  BY <1>1, <1>3
<1>12. d + SamplesUp(t) = PayloadCount + k * N
  BY <1>3
<1>13. (d + SamplesUp(t)) + N = PayloadCount + ((g + 1) - 1) * N
  BY <1>2, <1>4, <1>10, <1>11
<1>14. /\ g <= PayloadSymbols => GetType(d + SamplesUp(t)) = "PAYLOAD"
       /\ g = PayloadSymbols + 1 => GetType(d + SamplesUp(t)) = "VOID"
  BY <1>8, <1>11, <1>12
<1> QED  BY <1>7, <1>13, <1>14

\* The parts of a symbol of the first frame are complete with that of this window, which
\* begins the next one.
LEMMA SymbolJoined ==
  ASSUME FramesTyped, NEW a, NEW b, PartsTyped(a), NEW n \in Nat, NEW t \in Nat, NEW len \in Nat,
         NEW g \in 1 .. PayloadSymbols + 1, n + t = SymbolStart(1, g),
         NEW w \in WindowSet, w.at = n, w.tau = t, w.win_len = len, SamplesUp(t) <= len, IsDivided(w),
         w.Ti1 = "PAYLOAD",
         g <= PayloadSymbols => w.Ti2 = "PAYLOAD", g = PayloadSymbols + 1 => w.Ti2 # "PAYLOAD",
         b.pt = w.Ti2, b.pm = Mi2(w),
         \/ /\ g >= 2 /\ Has(a, 1, g - 2) /\ Covers(a.pm, SymbolStart(1, g - 1), n)
            /\ b.sy[1] = a.sy[1] \o <<PartsIn(a, w)>>
         \/ g <= PayloadSymbols /\ Has(a, 1, g - 1) /\ b.sy[1] = a.sy[1] \o <<>>
  PROVE  \/ g <= PayloadSymbols /\ \A y : InPayloadTwo(b, g + 1, n + len * OS, y)
         \/ g = PayloadSymbols + 1 /\ Settled(b)
<1>1. PayloadSymbols \in Nat /\ g \in Int /\ g >= 1 /\ g <= PayloadSymbols + 1
  BY Sizes
<1>2. a.sy[1] \in Seq(Symbols) /\ a.pm \in Symbols
  BY DEF PartsTyped
<1>3. Has(b, 1, g - 1)
  <2>1. CASE /\ g >= 2 /\ Has(a, 1, g - 2) /\ Covers(a.pm, SymbolStart(1, g - 1), n)
             /\ b.sy[1] = a.sy[1] \o <<PartsIn(a, w)>>
    <3>1. PICK h \in Nat, k \in Int : h = g - 2 /\ k = g - 1 /\ k = h + 1 /\ g = k + 1
      <4>1. g - 2 \in Nat /\ g - 1 \in Int
        BY <1>1, <2>1
      <4>2. g - 1 = (g - 2) + 1 /\ g = (g - 1) + 1
        BY <1>1
      <4> QED  BY <4>1, <4>2
    <3>2. PICK x \in Int : x = SymbolStart(1, k) /\ Covers(a.pm, x, n)
      <4>1. SymbolStart(1, k) \in Int
        BY SymbolPlaces
      <4>2. Covers(a.pm, SymbolStart(1, k), n)
        BY <2>1, <3>1
      <4> QED  BY <4>1, <4>2
    <3>3. PICK f \in Int : /\ f - (n + t) \in 0 .. OS
                           /\ Covers(a.pm \o Mi1(w), x, f) /\ a.pm \o Mi1(w) \in Symbols
      <4>1. n \in Int
        OBVIOUS
      <4> QED  BY <1>2, <3>2, <4>1, DividedWindow
    <3>4. PICK y \in Symbols : y = PartsIn(a, w) /\ Covers(y, x, f)
      BY <3>3 DEF PartsIn
    <3>5. f - SymbolStart(1, k + 1) \in 0 .. OS
      BY <3>1, <3>3
    <3>6. Covers(y, SymbolStart(1, k), f)
      BY <3>2, <3>4
    <3>7. IsSymbol(y, 1, k)
      BY <3>5, <3>6, CoversSymbol
    <3>8. Has(a, 1, h) /\ IsSymbol(y, 1, h + 1) /\ b.sy[1] = a.sy[1] \o <<y>>
      BY <2>1, <3>1, <3>4, <3>7, SMTT(60)
    <3>9. Has(b, 1, h + 1)
      BY <1>2, <3>8, HasGrows
    <3> QED  BY <3>1, <3>9
  <2>2. CASE Has(a, 1, g - 1) /\ b.sy[1] = a.sy[1] \o <<>>
    BY <1>2, <2>2, HasKept
  <2> QED  BY <2>1, <2>2
<1>4. CASE g <= PayloadSymbols
  <2>1. w.Ti2 = "PAYLOAD"
    BY <1>4
  <2>2. Covers(Mi2(w), n + t, n + len * OS)
    <3>1. n \in Int
      OBVIOUS
    <3> QED  BY <1>2, <2>1, <3>1, DividedWindow
  <2>3. PICK k \in Int : k = g + 1 /\ k \in 2 .. PayloadSymbols + 1 /\ k - 1 = g /\ k - 2 = g - 1
    <3>1. g + 1 \in Int /\ g + 1 \in 2 .. PayloadSymbols + 1 /\ (g + 1) - 1 = g /\ (g + 1) - 2 = g - 1
      BY <1>1, <1>4
    <3> QED  BY <3>1
  <2>4. Has(b, 1, k - 2) /\ Covers(b.pm, SymbolStart(1, k - 1), n + len * OS)
    BY <1>3, <2>2, <2>3
  <2>5. \A y : InPayloadTwo(b, k, n + len * OS, y)
    BY <2>1, <2>3, <2>4 DEF InPayloadTwo
  <2> QED  BY <1>4, <2>3, <2>5
<1>5. CASE g = PayloadSymbols + 1
  <2>1. Has(b, 1, PayloadSymbols) /\ b.pt # "PAYLOAD"
    <3>1. g - 1 = PayloadSymbols
      BY <1>1, <1>5
    <3> QED  BY <1>3, <1>5, <3>1
  <2> QED  BY <1>5, <2>1 DEF Settled
<1> QED  BY <1>1, <1>4, <1>5

\* A whole window of the second frame, which is stronger: what is known of the first moves on
\* with it.
LEMMA JoinedWhole ==
  ASSUME FramesTyped, NUp > 0, NEW a, NEW b, PartsTyped(a),
         NEW n \in Nat, NEW t \in 0 .. SymbolItems - 1, NEW u \in Int, NEW d \in Int, d < PayloadEnd,
         NEW g \in 1 .. PayloadSymbols + 2, Joined(a, n, t, u, d, g),
         NEW w \in WindowSet, w.win_len = N, w.at = n, w.tau = t,
         w.Ti1 = "PAYLOAD", w.Ti2 = GetType(d + SamplesUp(t)), b.pt = w.Ti2, b.pm = Mi2(w),
         a.pt = "PAYLOAD" \/ SamplesUp(t) = N => b.sy[1] = a.sy[1] \o <<PartsIn(a, w)>>,
         ~(a.pt = "PAYLOAD" \/ SamplesUp(t) = N) => b.sy[1] = a.sy[1] \o <<>>
  PROVE  \E h \in 1 .. PayloadSymbols + 2 : Joined(b, n + SymbolItems, t, u + N, d + N, h)
<1>1. n + t = SymbolStart(1, g) /\ d + SamplesUp(t) = PayloadCount + (g - 1) * N
  BY DEF Joined
<1>2. /\ g \in 1 .. PayloadSymbols + 1
      /\ g <= PayloadSymbols => w.Ti2 = "PAYLOAD"
      /\ g = PayloadSymbols + 1 => w.Ti2 # "PAYLOAD"
      /\ (d + SamplesUp(t)) + N = PayloadCount + ((g + 1) - 1) * N
  BY <1>1, JoinedNumbers
<1>3. /\ PayloadSymbols \in Nat /\ N \in Nat /\ N > 0 /\ SymbolItems \in Nat /\ N * OS = SymbolItems
  BY Sizes
<1>4. SamplesUp(t) \in 0 .. N /\ t \in Nat
  BY <1>3, SamplesOfPart
<1>5. IsDivided(w)
  BY DEF IsDivided
<1>6. \/ /\ g >= 2 /\ Has(a, 1, g - 2) /\ Covers(a.pm, SymbolStart(1, g - 1), n)
         /\ b.sy[1] = a.sy[1] \o <<PartsIn(a, w)>>
      \/ g <= PayloadSymbols /\ Has(a, 1, g - 1) /\ b.sy[1] = a.sy[1] \o <<>>
  <2>1. CASE InPayloadTwo(a, g, n, t)
    <3>1. /\ g \in 2 .. PayloadSymbols + 1 /\ Has(a, 1, g - 2) /\ Covers(a.pm, SymbolStart(1, g - 1), n)
          /\ a.pt = "PAYLOAD" \/ SamplesUp(t) = N
      BY <2>1 DEF InPayloadTwo
    <3>2. b.sy[1] = a.sy[1] \o <<PartsIn(a, w)>>
      BY <3>1
    <3>3. g >= 2
      BY <3>1
    <3> QED  BY <3>1, <3>2, <3>3
  <2>2. CASE AtOnceTwo(a, g, t, u)
    <3>1. t = 0 /\ g <= PayloadSymbols /\ Has(a, 1, g - 1) /\ a.pt # "PAYLOAD"
      BY <2>2 DEF AtOnceTwo
    <3>2. SamplesUp(0) = 0
      <4>1. PICK s \in 0 .. N : s = SamplesUp(0) /\ s * OS - 0 \in 0 .. OS - 1
        BY <3>1, SamplesOfPart
      <4>2. s < 1
        <5>1. 1 <= s => 1 * OS <= s * OS
          BY <1>3, Scaled
        <5>2. OS \in Nat /\ 1 * OS = OS /\ s * OS \in Int
          BY Sizes
        <5> QED  BY <1>3, <4>1, <5>1, <5>2
      <4> QED  BY <1>3, <4>1, <4>2
    <3>3. SamplesUp(t) # N
      BY <1>3, <3>1, <3>2
    <3> QED  BY <3>1, <3>3
  <2>3. ~(g = PayloadSymbols + 2)
    BY <1>2, <1>3
  <2> QED  BY <2>1, <2>2, <2>3 DEF Joined
<1>7. PICK h \in Int : /\ h = g + 1 /\ h \in 1 .. PayloadSymbols + 2
                       /\ (g = PayloadSymbols + 1 => h = PayloadSymbols + 2)
  <2>1. g + 1 \in Int /\ g + 1 \in 1 .. PayloadSymbols + 2
        /\ (g = PayloadSymbols + 1 => g + 1 = PayloadSymbols + 2)
    BY <1>2, <1>3
  <2> QED  BY <2>1
<1>8. \/ InPayloadTwo(b, h, n + SymbolItems, t)
      \/ g = PayloadSymbols + 1 /\ Settled(b)
  <2>1. SamplesUp(t) <= N
    BY <1>3, <1>4
  <2>2. \/ g <= PayloadSymbols /\ \A y : InPayloadTwo(b, g + 1, n + N * OS, y)
        \/ g = PayloadSymbols + 1 /\ Settled(b)
    BY <1>1, <1>2, <1>3, <1>4, <1>5, <1>6, <2>1, SymbolJoined, ZenonT(60)
  <2> QED  BY <1>3, <1>7, <2>2
<1>9. n + SymbolItems + t = SymbolStart(1, h)
  <2>1. PICK x \in Int, S \in Int : x = SymbolStart(1, g) /\ S = SymbolItems /\ SymbolStart(1, h) = x + S
    <3>1. g \in Int
      BY <1>2, <1>3
    <3>2. SymbolStart(1, g) \in Int /\ SymbolStart(1, g + 1) = SymbolStart(1, g) + SymbolItems
      BY <3>1, SymbolPlaces
    <3> QED  BY <1>3, <1>7, <3>2
  <2> QED  BY <1>1, <1>4, <2>1
<1>10. (d + N) + SamplesUp(t) = PayloadCount + (h - 1) * N
  <2>1. PICK s \in Int : s = SamplesUp(t)
    BY <1>4
  <2>2. (d + N) + s = (d + s) + N
    BY <1>3
  <2> QED  BY <1>2, <1>7, <2>1, <2>2
<1>11. Joined(b, n + SymbolItems, t, u + N, d + N, h)
  BY <1>7, <1>8, <1>9, <1>10 DEF Joined
<1> QED  BY <1>7, <1>11

\* The quarter downchirp of the second frame, inside a symbol of the first.
LEMMA JoinedQuarter ==
  ASSUME FramesTyped, NUp > 0, NEW a, NEW b, PartsTyped(a), Stronger, ~TurnsInLast,
         NEW n \in Nat, n = QuarterStart(2),
         NEW t \in 0 .. SymbolItems - 1, NEW u \in Int, u > 0, NEW d \in Int, d < PayloadEnd,
         NEW g \in 1 .. PayloadSymbols + 2, Joined(a, n, t, u, d, g),
         NEW w \in WindowSet, w.win_len = N \div 4, w.at = n, w.tau = t, w.Tu = "QUARTER_DOWN",
         w.Ti1 = "PAYLOAD", w.Ti2 = GetType(d + SamplesUp(t)), b.pt = w.Ti2,
         InThreeParts(w) => b.sy[1] = a.sy[1] \o <<>> /\ b.pm = PartsIn(a, w),
         ~InThreeParts(w) => b.pm = Mi2(w),
         ~InThreeParts(w) /\ (a.pt = "PAYLOAD" \/ SamplesUp(t) = N) =>
           b.sy[1] = a.sy[1] \o <<PartsIn(a, w)>>
  PROVE  \E h \in 1 .. PayloadSymbols + 2 :
           Joined(b, n + SymbolItems \div 4, (t - SymbolItems \div 4) % SymbolItems,
                  u + N \div 4, d + N \div 4, h)
<1>1. n + t = SymbolStart(1, g) /\ d + SamplesUp(t) = PayloadCount + (g - 1) * N
  BY DEF Joined
<1>2. /\ g \in 1 .. PayloadSymbols + 1
      /\ g <= PayloadSymbols => w.Ti2 = "PAYLOAD"
      /\ g = PayloadSymbols + 1 => w.Ti2 # "PAYLOAD"
      /\ (d + SamplesUp(t)) + N = PayloadCount + ((g + 1) - 1) * N
  BY <1>1, JoinedNumbers
<1>3. PICK q \in Nat, Q \in Nat, S \in Nat :
        /\ q = N \div 4 /\ Q = SymbolItems \div 4 /\ S = SymbolItems /\ Q = q * OS /\ S = 4 * Q /\ N = 4 * q
        /\ q > 0 /\ Q > 0 /\ S = N * OS
  <2>1. PICK q \in Nat, Q \in Nat, S \in Nat :
          /\ q = N \div 4 /\ Q = SymbolItems \div 4 /\ S = SymbolItems
          /\ q > 0 /\ S > 0 /\ N = 4 * q /\ S = N * OS
    BY Sizes
  <2>2. Q = q * OS /\ S = 4 * Q
    BY <2>1, Sizes
  <2> QED  BY <2>1, <2>2, SMTT(60)
<1>4. S = 4 * Q /\ N = 4 * q /\ q > 0 /\ Q > 0 /\ t \in Int /\ t >= 0 /\ t < S
  BY <1>3
<1>5. N \in Nat /\ OS \in Nat /\ OS > 0 /\ PayloadSymbols \in Nat
  BY Sizes
<1>6. PICK s \in Int : s = SamplesUp(t) /\ s \in 0 .. N /\ s * OS - t \in 0 .. OS - 1
  BY <1>5, SamplesOfPart, SMTT(60)
<1>7. IsDivided(w)
  BY DEF IsDivided
<1>8. /\ g >= 2 /\ Has(a, 1, g - 2) /\ Covers(a.pm, SymbolStart(1, g - 1), n)
      /\ a.pt = "PAYLOAD" \/ SamplesUp(t) = N
  <2>1. ~AtOnceTwo(a, g, t, u)
    BY DEF AtOnceTwo
  <2>2. ~(g = PayloadSymbols + 2)
    BY <1>2, <1>5
  <2>3. InPayloadTwo(a, g, n, t)
    BY <2>1, <2>2 DEF Joined
  <2> QED  BY <2>3 DEF InPayloadTwo
<1>9. InThreeParts(w) <=> t >= Q
  BY <1>3 DEF InThreeParts
<1>10. g = PayloadSymbols + 1 => FrameEnd(1) - n = t
  <2>1. ASSUME g = PayloadSymbols + 1 PROVE FrameEnd(1) - n = t
    <3>1. n + t = FrameEnd(1)
      BY <1>1, <2>1, SymbolPlaces
    <3> QED  BY <1>4, <3>1
  <2> QED  BY <2>1
<1>11. ~(g = PayloadSymbols + 1 /\ t >= Q)
  <2>1. ~(FrameEnd(1) - n \in SymbolItems \div 4 .. SymbolItems - 1)
    BY DEF TurnsInLast
  <2> QED  BY <1>3, <1>4, <1>10, <2>1, SMTT(60)
\* The symbol is in three parts: this window is the second.
<1>12. CASE t >= Q
  <2>1. PICK v \in Int : v = t - Q /\ v \in 0 .. SymbolItems - 1
    <3>1. t - Q \in 0 .. S - 1
      BY <1>4, <1>12
    <3>2. S = SymbolItems
      BY <1>3
    <3>3. t - Q \in Int
      BY <1>4
    <3> QED  BY <3>1, <3>2, <3>3
  <2>2. (t - SymbolItems \div 4) % SymbolItems = v
    <3>1. (v + 0 * SymbolItems) % SymbolItems = v
      BY <2>1, ModUnique
    <3>2. v + 0 * SymbolItems = t - Q
      BY <1>3, <2>1
    <3> QED  BY <1>3, <3>1, <3>2
  <2>3. g <= PayloadSymbols /\ b.pt = "PAYLOAD"
    BY <1>2, <1>5, <1>11, <1>12
  <2>4. b.sy[1] = a.sy[1] \o <<>> /\ b.pm = a.pm \o Mi1(w)
    BY <1>9, <1>12 DEF PartsIn
  <2>5. Has(b, 1, g - 2)
    BY <1>8, <2>4, HasKept DEF PartsTyped
  <2>6. q <= s
    <3>1. s < q => s * OS + OS <= q * OS
      BY Scaled
    <3>2. PICK y \in Int : y = s * OS /\ y - t \in 0 .. OS - 1
      BY <1>5, <1>6, SMTT(60)
    <3>3. s < q => y + OS <= Q
      BY <1>3, <3>1, <3>2
    <3> QED  BY ONLY <1>4, <1>5, <1>12, <3>2, <3>3, q \in Nat, s \in Int, Q \in Nat
  <2>7. Mi1(w) = <<<<n, n + q * OS>>>>
    <3>1. Mi1(w) = Piece(w, 0, q)
      BY <1>3, <1>6, <2>6, PartsOfWindow
    <3>2. 0 * OS = 0 /\ 0 < q /\ 0 \in Int /\ q \in Int
      BY <1>4, <1>5
    <3>3. Piece(w, 0, q) = <<<<w.at + 0 * OS, w.at + q * OS>>>>
      BY <3>2, PieceIs
    <3> QED  BY <3>1, <3>2, <3>3
  <2>8. Covers(b.pm, SymbolStart(1, g - 1), n + Q)
    <3>1. PICK x \in Int : x = SymbolStart(1, g - 1)
      <4>1. g - 1 \in Int
        BY <1>2, <1>5
      <4>2. SymbolStart(1, g - 1) \in Int
        BY <4>1, SymbolPlaces
      <4> QED  BY <4>2
    <3>2. a.pm \in Symbols /\ Covers(a.pm, x, n) /\ n \in Int
      BY <1>8, <3>1 DEF PartsTyped
    <3>3. Covers(a.pm \o Mi1(w), x, n + q * OS)
      BY <1>4, <2>7, <3>2, CoversFurther
    <3> QED  BY <1>3, <2>4, <3>1, <3>3
  <2>9. InPayloadTwo(b, g, n + Q, v)
    <3>1. g \in 2 .. PayloadSymbols + 1
      BY <1>2, <1>5, <1>8
    <3> QED  BY <2>3, <2>5, <2>8, <3>1 DEF InPayloadTwo
  <2>10. (d + q) + SamplesUp(v) = PayloadCount + (g - 1) * N
    <3>1. v = t + (-q) * OS
      <4>1. (-q) * OS = -(q * OS)
        BY <1>5
      <4> QED  BY <1>3, <1>4, <2>1, <4>1
    <3>2. SamplesUp(t + (-q) * OS) = SamplesUp(t) + (-q)
      <4>1. -q \in Int
        OBVIOUS
      <4> QED  BY <1>4, <4>1, SamplesUpOf
    <3>3. SamplesUp(v) = s - q
      BY <1>6, <3>1, <3>2
    <3>4. (d + q) + (s - q) = d + s
      BY <1>6
    <3> QED  BY <1>1, <1>6, <3>3, <3>4
  <2>11. n + Q + v = SymbolStart(1, g)
    <3>1. n + Q + v = n + t
      BY <1>4, <2>1
    <3> QED  BY <1>1, <3>1
  <2>12. Joined(b, n + Q, v, u + q, d + q, g)
    BY <2>9, <2>10, <2>11 DEF Joined
  <2> QED  BY <1>3, <2>2, <2>12
\* The symbol ends here.
<1>13. CASE t < Q
  <2>1. PICK v \in Int : v = t - Q + S /\ v \in 0 .. SymbolItems - 1
    <3>1. t - Q + S \in 0 .. S - 1
      BY <1>4, <1>13
    <3>2. S = SymbolItems
      BY <1>3
    <3>3. t - Q + S \in Int
      BY <1>4
    <3> QED  BY <3>1, <3>2, <3>3
  <2>2. (t - SymbolItems \div 4) % SymbolItems = v
    <3>1. (v + (-1) * SymbolItems) % SymbolItems = v
      BY <2>1, ModUnique
    <3>2. v + (-1) * SymbolItems = t - Q
      <4>1. (-1) * SymbolItems = -S
        BY <1>3
      <4>2. v - S = t - Q
        BY <1>4, <2>1
      <4> QED  BY <4>1, <4>2
    <3> QED  BY <1>3, <3>1, <3>2
  <2>3. ~InThreeParts(w)
    BY <1>4, <1>9, <1>13
  <2>4. b.sy[1] = a.sy[1] \o <<PartsIn(a, w)>> /\ b.pm = Mi2(w)
    BY <1>8, <2>3
  <2>5. SamplesUp(t) <= q
    <3>1. q < s => q * OS + OS <= s * OS
      BY Scaled
    <3> QED  BY <1>3, <1>5, <1>6, <1>13, <3>1, SMTT(60)
  <2>6. \/ g <= PayloadSymbols /\ \A y : InPayloadTwo(b, g + 1, n + q * OS, y)
        \/ g = PayloadSymbols + 1 /\ Settled(b)
    <3>1. t \in Nat /\ w.win_len = q
      BY <1>3, <1>4
    <3> QED  BY <1>1, <1>2, <1>7, <1>8, <2>4, <2>5, <3>1, SymbolJoined
  <2>7. PICK h \in Int : /\ h = g + 1 /\ h \in 1 .. PayloadSymbols + 2
                         /\ g = PayloadSymbols + 1 => h = PayloadSymbols + 2
    <3>1. /\ g + 1 \in Int /\ g + 1 \in 1 .. PayloadSymbols + 2
          /\ g = PayloadSymbols + 1 => g + 1 = PayloadSymbols + 2
      BY <1>2, <1>5
    <3> QED  BY <3>1
  <2>8. (d + q) + SamplesUp(v) = PayloadCount + (h - 1) * N
    <3>1. v = t + (N - q) * OS
      <4>1. (N - q) * OS = N * OS - q * OS
        BY <1>5, Distribute
      <4> QED  BY <1>3, <1>4, <2>1, <4>1, SMTT(60)
    <3>2. SamplesUp(t + (N - q) * OS) = SamplesUp(t) + (N - q)
      <4>1. N - q \in Int
        BY <1>5
      <4> QED  BY <1>4, <4>1, SamplesUpOf
    <3>3. SamplesUp(v) = s + (N - q)
      BY <1>6, <3>1, <3>2
    <3>4. (d + q) + (s + (N - q)) = (d + s) + N
      BY ONLY <1>5, <1>6, d \in Int, q \in Nat
    <3> QED  BY <1>2, <1>6, <2>7, <3>3, <3>4
  <2>9. n + Q + v = SymbolStart(1, h)
    <3>1. n + Q + v = (n + t) + S
      BY <1>4, <2>1, SMTT(60)
    <3>2. g \in Int
      BY <1>2, <1>5
    <3>3. SymbolStart(1, g + 1) = SymbolStart(1, g) + SymbolItems
      BY <3>2, SymbolPlaces
    <3> QED  BY <1>1, <1>3, <2>7, <3>1, <3>3
  <2>10. Joined(b, n + Q, v, u + q, d + q, h)
    BY <1>3, <2>6, <2>7, <2>8, <2>9 DEF Joined
  <2> QED  BY <1>3, <2>2, <2>7, <2>10
<1> QED  BY <1>4, <1>12, <1>13

----------------------------------------------------------------------------
(***************************************************************************)
(* TwoFrames in the next state, step by step.                              *)
(***************************************************************************)

\* What TwoFrames says of the state that sync_frame comes to.
LEMMA TwoFramesThen ==
  ASSUME UNCHANGED <<starts, powers>>, NEW b, PartsTyped(b),
         \/ m_sync_state' = "IDLE" /\ IdleTwo(b)'
         \/ m_sync_state' = "SINGLE_USER" /\ (FirstAlone(b)' \/ SecondAlone(b)')
         \/ m_sync_state' = "REALIGN_TO_NEW" /\ Stronger /\ Follows(b, 1)' /\ Fresh(b)
         \/ m_sync_state' = "MULTI_USER" /\ (WeakTwo(b)' \/ StrongTwo(b)')
         \/ m_sync_state' = "REALIGN_TO_PREV" /\ PrevTwo(b)'
  PROVE  TwoFrames(b)'
<1>1. PartsTyped(b)' /\ (Fresh(b) => Fresh(b)') /\ (Stronger => Stronger')
  BY OverlapStays, OutputsStay
<1>2. CASE m_sync_state' = "IDLE" /\ IdleTwo(b)'
  BY <1>1, <1>2 DEF TwoFrames, SingleTwo, NewTwo, MultiTwo, PrevTwo
<1>3. CASE m_sync_state' = "SINGLE_USER" /\ (FirstAlone(b)' \/ SecondAlone(b)')
  BY <1>1, <1>3 DEF TwoFrames, IdleTwo, SingleTwo, NewTwo, MultiTwo, PrevTwo
<1>4. CASE m_sync_state' = "REALIGN_TO_NEW" /\ Stronger /\ Follows(b, 1)' /\ Fresh(b)
  BY <1>1, <1>4 DEF TwoFrames, IdleTwo, SingleTwo, NewTwo, MultiTwo, PrevTwo
<1>5. CASE m_sync_state' = "MULTI_USER" /\ (WeakTwo(b)' \/ StrongTwo(b)')
  BY <1>1, <1>5 DEF TwoFrames, IdleTwo, SingleTwo, NewTwo, MultiTwo, PrevTwo
<1>6. CASE m_sync_state' = "REALIGN_TO_PREV" /\ PrevTwo(b)'
  BY <1>1, <1>6 DEF TwoFrames, IdleTwo, SingleTwo, NewTwo, MultiTwo
<1> QED  BY <1>2, <1>3, <1>4, <1>5, <1>6

LEMMA FirstUserTwo ==
  ASSUME FramesTyped, SynchroTyped, UNCHANGED <<starts, powers>>, Overlap,
         NEW a, KeepsPace(a), TwoFrames(a), FirstUser
  PROVE  TwoFrames(a)'
<1>1. PICK f \in 1 .. 2 : /\ TagsAhead = {f} /\ user_u' = UserOf(f, 0)
                          /\ nread' = nread + (starts[f] - nread)
  BY DEF FirstUser, Consume
<1>2. /\ m_sync_state = "IDLE" /\ m_sync_state' = "SINGLE_USER" /\ m_power2' = m_power2
      /\ starts' = starts /\ powers' = powers
  BY DEF FirstUser
<1>3. PICK s1 \in Nat, s2 \in Nat, n \in Nat, S \in Nat :
        /\ s1 = starts[1] /\ s2 = starts[2] /\ n = nread /\ S = SymbolItems /\ s1 + S <= s2 /\ S > 0
  <2>1. PICK p \in Nat, s1 \in Nat, s2 \in Nat, S \in Nat :
          /\ p = PayloadStart(1) /\ s1 = starts[1] /\ s2 = starts[2] /\ S = SymbolItems /\ S > 0
          /\ s1 + S <= p /\ p <= s2
    BY OverlapOrder, Sizes
  <2>2. s1 + S <= s2
    BY <2>1
  <2> QED  BY <2>1, <2>2, StateFacts
<1>4. starts[f] \in n .. n + S - 1 /\ (f = 2 => ~(s1 \in n .. n + S - 1))
  BY <1>1, <1>3 DEF TagsAhead
<1>5. nread' = starts[f]
  BY <1>1, <1>3, <1>4
<1>6. nread <= starts[1] /\ Has(a, 1, 0) /\ Fresh(a) /\ a.us[1] = "NONE"
  <2>1. ~(starts[2] < nread)
    BY <1>3, <1>4
  <2> QED  BY <1>2, <2>1 DEF TwoFrames, IdleTwo
<1>7. f = 1
  BY <1>3, <1>4, <1>6
<1>8. m_power2' = 0
  <2>1. ~(starts[1] < nread)
    BY <1>3, <1>6
  <2> QED  BY <1>2, <2>1 DEF KeepsPace, IdleStates
<1>9. Follows(a, 1)'
  <2>1. user_u'.frame = 1 /\ user_u'.cnt = 0
    BY <1>1, <1>7 DEF UserOf
  <2>2. 0 * OS = 0 /\ 0 * N = 0 /\ 0 \in 0 .. NUp + 4 /\ starts[1] + 0 = starts[1]
    BY <1>3, Sizes
  <2>3. Reached(a, 1, 0)
    BY <1>6, <2>2 DEF Reached
  <2>4. nread' = starts[1] + 0 * OS
    BY <1>5, <1>7, <2>2
  <2> QED  BY <2>1, <2>3, <2>4, FollowsThen
<1>10. nread' <= starts'[2]
  BY <1>2, <1>3, <1>5, <1>7
<1>11. Fresh(a)'
  BY <1>6, OutputsStay
<1>12. FirstAlone(a)'
  BY <1>6, <1>8, <1>9, <1>10, <1>11 DEF FirstAlone
<1> QED  BY <1>2, <1>12, TwoFramesThen DEF TwoFrames

LEMMA IdleStepTwo ==
  ASSUME FramesTyped, SynchroTyped, UNCHANGED <<starts, powers>>, Overlap,
         NEW a, KeepsPace(a), TwoFrames(a), Idle
  PROVE  TwoFrames(a)'
<1>1. /\ m_sync_state = "IDLE" /\ m_sync_state' = "IDLE"
      /\ nread' = nread + SymbolItems /\ starts' = starts /\ Cardinality(TagsAhead) # 1
  BY DEF Idle, Consume
<1>2. PICK s1 \in Nat, s2 \in Nat, n \in Nat, S \in Nat :
        /\ s1 = starts[1] /\ s2 = starts[2] /\ n = nread /\ S = SymbolItems /\ s1 + S <= s2 /\ S > 0
  <2>1. PICK p \in Nat, s1 \in Nat, s2 \in Nat, S \in Nat :
          /\ p = PayloadStart(1) /\ s1 = starts[1] /\ s2 = starts[2] /\ S = SymbolItems /\ S > 0
          /\ s1 + S <= p /\ p <= s2
    BY OverlapOrder, Sizes
  <2>2. s1 + S <= s2
    BY <2>1
  <2> QED  BY <2>1, <2>2, StateFacts
<1>3. TagsAhead # {1}
  <2>1. Cardinality({1}) = 1
    BY FS_Singleton
  <2> QED  BY <1>1, <2>1
<1>4. TagsAhead = {f \in 1 .. 2 : starts[f] \in n .. n + S - 1}
  BY <1>2 DEF TagsAhead
<1>5. /\ Fresh(a)' <=> Fresh(a)
      /\ \A f, k : Has(a, f, k)' <=> Has(a, f, k)
  BY OverlapStays, OutputsStay
<1>6. CASE nread <= starts[1] /\ Has(a, 1, 0) /\ Fresh(a) /\ a.us[1] = "NONE"
  <2>1. ~(s1 < n + S)
    <3> SUFFICES ASSUME s1 < n + S PROVE FALSE
      OBVIOUS
    <3>1. starts[1] \in n .. n + S - 1 /\ ~(starts[2] \in n .. n + S - 1)
      BY <1>2, <1>6
    <3>2. TagsAhead = {1}
      BY <1>4, <3>1
    <3> QED  BY <1>3, <3>2
  <2>2. nread' <= starts'[1]
    BY <1>1, <1>2, <2>1
  <2>3. Has(a, 1, 0)' /\ Fresh(a)'
    BY <1>5, <1>6
  <2>4. IdleTwo(a)'
    BY <1>6, <2>2, <2>3 DEF IdleTwo
  <2> QED  BY <1>1, <2>4, TwoFramesThen DEF TwoFrames
<1>7. CASE starts[2] < nread /\ Has(a, 1, PayloadSymbols) /\ Has(a, 2, PayloadSymbols)
  <2>1. starts'[2] < nread'
    BY <1>1, <1>2, <1>7
  <2>2. Has(a, 1, PayloadSymbols)' /\ Has(a, 2, PayloadSymbols)'
    BY <1>5, <1>7
  <2>3. IdleTwo(a)'
    BY <2>1, <2>2 DEF IdleTwo
  <2> QED  BY <1>1, <2>3, TwoFramesThen DEF TwoFrames
<1> QED  BY <1>1, <1>6, <1>7 DEF TwoFrames, IdleTwo

\* Where a frame that the windows follow has ended.
LEMMA FollowedEnds ==
  ASSUME FramesTyped, SynchroTyped, NUp > 0, NEW a, NEW f \in 1 .. 2, Follows(a, f),
         user_u.cnt >= 0, GetType(user_u.cnt) = "VOID"
  PROVE  nread = FrameEnd(f) /\ Has(a, f, PayloadSymbols)
<1>1. PICK c \in Int : c = user_u.cnt
  BY StateFacts
<1>2. nread = starts[f] + c * OS /\ Reached(a, f, c)
  BY <1>1 DEF Follows
<1>3. c >= PayloadEnd /\ c >= PayloadCount
  <2>1. /\ PayloadEnd \in Nat /\ PayloadEnd >= PayloadCount + N
        /\ GetType(c) = "VOID" /\ c >= 0 => c >= PayloadEnd
    BY TypeRanges
  <2>2. PayloadCount \in Nat /\ N \in Nat
    BY CountFacts, Sizes
  <2> QED  BY <1>1, <2>1, <2>2
<1>4. PICK k \in 0 .. PayloadSymbols :
        /\ Has(a, f, k) /\ starts[f] + c * OS = SymbolStart(f, k + 1)
        /\ k < PayloadSymbols <=> c < PayloadEnd
  BY <1>2, <1>3, ReachedSymbol
<1>5. k = PayloadSymbols
  <2>1. PayloadEnd \in Nat
    BY TypeRanges
  <2> QED  BY <1>3, <1>4, <2>1, Sizes
<1> QED  BY <1>2, <1>4, <1>5, SymbolPlaces

LEMMA FrameEndsTwo ==
  ASSUME FramesTyped, SynchroTyped, NUp > 0, UNCHANGED <<starts, powers>>, Overlap,
         NEW a, KeepsPace(a), TwoFrames(a), FrameEnds
  PROVE  TwoFrames(a)'
<1>1. /\ m_sync_state = "SINGLE_USER" /\ m_sync_state' = "IDLE" /\ GetType(user_u.cnt) = "VOID"
      /\ nread' = nread + SymbolItems /\ starts' = starts
  BY DEF FrameEnds, Consume
<1>2. user_u.cnt >= 0
  BY <1>1 DEF KeepsPace, SingleStates, SlotOne, SlotTwo, Followed
<1>3. PICK s2 \in Nat, e \in Nat, e2 \in Int, S \in Nat, n \in Nat :
        /\ s2 = starts[2] /\ e = FrameEnd(1) /\ e2 = FrameEnd(2) /\ S = SymbolItems /\ n = nread
        /\ s2 < e /\ e < e2
  <2>1. FrameEnd(2) \in Int
    BY SymbolPlaces, Sizes
  <2> QED  BY <2>1, OverlapOrder, Sizes, StateFacts
<1>4. ~FirstAlone(a)
  <2> SUFFICES ASSUME FirstAlone(a) PROVE FALSE
    OBVIOUS
  <2>1. Follows(a, 1) /\ nread <= starts[2]
    BY DEF FirstAlone
  <2>2. nread = FrameEnd(1)
    BY <1>1, <1>2, <2>1, FollowedEnds
  <2> QED  BY <1>3, <2>1, <2>2
<1>5. SecondAlone(a)
  BY <1>1, <1>4 DEF TwoFrames, SingleTwo
<1>6. nread = FrameEnd(2) /\ Has(a, 2, PayloadSymbols)
  BY <1>1, <1>2, <1>5, FollowedEnds DEF SecondAlone
<1>7. Has(a, 1, PayloadSymbols)
  <2>1. ~Pending(a)
    BY <1>3, <1>6 DEF Pending
  <2> QED  BY <1>5, <2>1 DEF SecondAlone, Settled
<1>8. IdleTwo(a)'
  <2>1. starts'[2] < nread'
    BY <1>1, <1>3, <1>6
  <2>2. Has(a, 1, PayloadSymbols)' /\ Has(a, 2, PayloadSymbols)'
    BY <1>6, <1>7, OverlapStays
  <2> QED  BY <2>1, <2>2 DEF IdleTwo
<1> QED  BY <1>1, <1>8, TwoFramesThen DEF TwoFrames

\* Nobody is refused.
LEMMA IgnoreWeakTwo ==
  ASSUME FramesTyped, SynchroTyped, OneUser, Overlap, IgnoreWeak
  PROVE  FALSE
BY WeakIsRefused, OverlapOrder

LEMMA AcceptSecondTwo ==
  ASSUME FramesTyped, SynchroTyped, OneUser, Distinguishable, UNCHANGED <<starts, powers>>, Overlap,
         NEW a, KeepsPace(a), TwoFrames(a), AcceptSecond
  PROVE  TwoFrames(a)'
<1>1. PICK f \in TagsAhead :
        LET i == UserOf(f, 0) IN
        /\ m_power1' = IF m_power1 = 0 THEN i.power ELSE m_power1
        /\ m_power2' = IF m_power1 # 0 /\ m_power2 = 0 THEN i.power ELSE m_power2
        /\ \/ i.power > user_u.power /\ m_sync_state' = "REALIGN_TO_NEW"
           \/ /\ i.power <= user_u.power
              /\ m_sync_state' = "MULTI_USER"
              /\ m_tau' = TauBetween(i, user_u)
              /\ user_i' = [i EXCEPT !.cnt = -Samples(m_tau')]
  BY DEF AcceptSecond
<1>2. /\ m_sync_state = "SINGLE_USER" /\ GetType(user_u.cnt) = "PAYLOAD"
      /\ user_u' = user_u /\ nread' = nread + 0 /\ starts' = starts /\ powers' = powers
  BY DEF AcceptSecond, SecondUser, Consume
<1>3. /\ f = 2 /\ user_u.frame = 1 /\ m_power1 = powers[1]
      /\ starts[2] \in nread .. nread + SymbolItems - 1
      /\ TauBetween(UserOf(2, 0), user_u) = starts[2] - nread
  BY <1>1, <1>2, SecondFound
<1>4. PICK c \in Int : c = user_u.cnt
  BY StateFacts
<1>5. c < PayloadEnd /\ PayloadEnd \in Nat
  BY <1>2, <1>4, TypeRanges DEF Distinguishable
<1>6. PICK p1 \in Nat, p2 \in Nat :
        p1 = powers[1] /\ p2 = powers[2] /\ p1 > 0 /\ p2 > 0 /\ p1 # p2
  <2>1. powers[1] # powers[2]
    BY DEF Distinguishable, FramesTyped
  <2> QED  BY <2>1, StateFacts
<1>7. SlotOne(a)
  <2>1. ~SlotTwo(a)
    BY <1>3, <1>6 DEF SlotTwo
  <2> QED  BY <1>2, <2>1 DEF KeepsPace, SingleStates
<1>8. m_power2 = 0 /\ user_u.power = p1 /\ Quiet(a)
  BY <1>3, <1>6, <1>7 DEF SlotOne
<1>9. FirstAlone(a)
  <2>1. ~SecondAlone(a)
    BY <1>3 DEF SecondAlone, Follows
  <2> QED  BY <1>2, <2>1 DEF TwoFrames, SingleTwo
<1>10. Fresh(a) /\ Reached(a, 1, c) /\ nread = starts[1] + c * OS
  BY <1>4, <1>9 DEF FirstAlone, Follows
<1>11. nread' = nread
  BY <1>2, StateFacts
<1>12. Follows(a, 1)'
  <2>1. user_u'.frame = 1 /\ user_u'.cnt = c /\ nread' = starts[1] + c * OS
    BY <1>2, <1>3, <1>4, <1>10, <1>11
  <2> QED  BY <1>10, <2>1, FollowsThen
<1>13. UserOf(2, 0).power = p2 /\ UserOf(2, 0).frame = 2
  BY <1>6 DEF UserOf
<1>14. CASE p2 > p1 /\ m_sync_state' = "REALIGN_TO_NEW"
  <2>1. Stronger
    BY <1>6, <1>14 DEF Stronger
  <2> QED  BY <1>10, <1>12, <1>14, <2>1, TwoFramesThen DEF TwoFrames
<1>15. CASE /\ p2 <= p1 /\ m_sync_state' = "MULTI_USER"
            /\ m_tau' = TauBetween(UserOf(2, 0), user_u)
            /\ user_i' = [UserOf(2, 0) EXCEPT !.cnt = -Samples(m_tau')]
  <2>1. PICK n \in Nat, t \in Int, s2 \in Nat :
          n = nread /\ s2 = starts[2] /\ t = s2 - n /\ m_tau' = t /\ n + t = s2
    <3>1. starts[2] - nread \in Int
      BY StateFacts
    <3> QED  BY <1>3, <1>15, <3>1, StateFacts
  <2>2. PICK s \in Int : s = Samples(t)
    BY <2>1, SamplesOf
  <2>3. user_i'.frame = 2 /\ user_i'.cnt = -s
    BY <1>15, <2>1, <2>2 DEF UserOf
  <2>4. user_i'.cnt + Samples(t) = 0
    BY <2>2, <2>3
  <2>5. Waits(a, n, t, 0)
    <3>1. 0 = 0 * N /\ 0 * SymbolItems = 0 /\ 0 \in 0 .. NUp + 4
      BY Sizes
    <3>2. n + t = starts[2] + 0 * SymbolItems
      BY <2>1, <3>1
    <3>3. WaitsInPreamble(n, t, 0)
      BY <3>1, <3>2 DEF WaitsInPreamble
    <3> QED  BY <1>8, <1>10, <3>3 DEF Waits, WaitsForPayload, Fresh, Quiet
  <2>6. ~Stronger
    BY <1>6, <1>15 DEF Stronger
  <2>7. m_power1' > m_power2'
    BY <1>1, <1>3, <1>6, <1>8, <1>13, <1>15
  <2>8. user_u'.cnt >= PayloadEnd => a.us[1] = "PAYLOAD"
    BY <1>2, <1>4, <1>5
  <2>9. WeakTwo(a)'
    BY <1>11, <1>12, <2>1, <2>3, <2>4, <2>5, <2>6, <2>7, <2>8, WeakThen
  <2> QED  BY <1>15, <2>9, TwoFramesThen DEF TwoFrames
<1> QED  BY <1>1, <1>3, <1>8, <1>13, <1>14, <1>15

\* Where a frame is in its preamble: a step leads to the payload at most, and where the quarter
\* downchirp begins.
LEMMA InPreambleNext ==
  ASSUME FramesTyped, NUp > 0, NEW a, NEW f \in 1 .. 2, NEW c \in Int, Reached(a, f, c),
         GetType(c) \notin {"VOID", "PAYLOAD"}
  PROVE  /\ GetType(c) # "QUARTER_DOWN" => c + N <= PayloadCount
         /\ GetType(c) = "QUARTER_DOWN" => /\ c + N \div 4 = PayloadCount
                                           /\ starts[f] + c * OS = QuarterStart(f)
<1>1. PICK k \in 0 .. NUp + 4 : c = k * N
  <2>1. ASSUME NEW k \in 0 .. PayloadSymbols PROVE c # PayloadCount + k * N
    <3>1. k < PayloadSymbols \/ k = PayloadSymbols
      BY Sizes
    <3> QED  BY <3>1, SymbolTypes
  <2> QED  BY <2>1 DEF Reached
<1>2. k \in Int /\ NUp + 4 \in Int /\ (k < NUp + 4 \/ k = NUp + 4)
  BY Sizes
<1>3. PICK m \in Int, p \in Int, q \in Nat, z \in Nat :
        m = (NUp + 4) * N /\ p = PayloadCount /\ q = N \div 4 /\ z = N /\ p = m + q
  BY CountFacts, Sizes
<1>4. GetType(c) # "QUARTER_DOWN" => c + N <= PayloadCount
  <2> SUFFICES ASSUME GetType(c) # "QUARTER_DOWN" PROVE c + N <= PayloadCount
    OBVIOUS
  <2>1. k < NUp + 4
    BY <1>1, <1>2, SymbolTypes
  <2>2. k * N + N <= (NUp + 4) * N
    BY <1>2, <2>1, CountsOrdered
  <2>3. c + z <= m
    BY <1>1, <1>3, <2>2
  <2> QED  BY <1>3, <2>3
<1>5. GetType(c) = "QUARTER_DOWN" => c + N \div 4 = PayloadCount /\ starts[f] + c * OS = QuarterStart(f)
  <2> SUFFICES ASSUME GetType(c) = "QUARTER_DOWN"
               PROVE  c + N \div 4 = PayloadCount /\ starts[f] + c * OS = QuarterStart(f)
    OBVIOUS
  <2>1. k = NUp + 4
    BY <1>1, <1>2, SymbolTypes
  <2>2. c = (NUp + 4) * N
    BY <1>1, <2>1
  <2>3. ((NUp + 4) * N) * OS = (NUp + 4) * (N * OS)
    BY Sizes
  <2>4. c * OS = (NUp + 4) * SymbolItems
    BY <2>2, <2>3, Sizes
  <2>5. c + q = p
    BY <1>3, <2>2
  <2> QED  BY <1>3, <2>4, <2>5 DEF QuarterStart
<1> QED  BY <1>4, <1>5

\* A window of user 1 alone.
LEMMA FirstWindowTwo ==
  ASSUME FramesTyped, SynchroTyped, NUp > 0, UNCHANGED <<starts, powers>>, Overlap,
         NEW a, KeepsPace(a), PartsTyped(a), FirstAlone(a), m_sync_state = "SINGLE_USER",
         GetType(user_u.cnt) # "VOID", ~SecondUser,
         NEW len \in Nat, GetType(user_u.cnt) = "QUARTER_DOWN" => len = N \div 4,
         GetType(user_u.cnt) # "QUARTER_DOWN" => len = N,
         user_u'.frame = user_u.frame, user_u'.cnt = user_u.cnt + len, nread' = nread + len * OS,
         m_power2' = m_power2,
         NEW w \in WindowSet, w.power1 = m_power1, w.power2 = m_power2, w.win_len = len,
         w.Tu = GetType(user_u.cnt), w.Ti1 = "VOID", w.Ti2 = "VOID", w.at = nread,
         NEW b, b = Step(a, w)
  PROVE  FirstAlone(b)'
<1>1. PICK c \in Int : c = user_u.cnt
  BY StateFacts
<1>2. /\ user_u.frame = 1 /\ nread = starts[1] + c * OS /\ Reached(a, 1, c) /\ m_power2 = 0
      /\ nread <= starts[2] /\ Fresh(a)
      /\ a.us[1] = "PAYLOAD" => c >= PayloadCount + N
  BY <1>1 DEF FirstAlone, Follows
<1>3. SlotOne(a) /\ StatesTyped(a)
  BY <1>2 DEF KeepsPace, SingleStates, SlotTwo
<1>4. /\ Quiet(a) /\ c >= 0 /\ m_power1 > 0
      /\ c = 0 => a.us[1] # "PREAMBLE"
      /\ c > 0 => Begun(a, 1, m_power1) /\ starts[1] < nread
  BY <1>1, <1>2, <1>3, StateFacts DEF SlotOne
<1>5. /\ c = 0 => GetType(c) = "UPCHIRP"
      /\ GetType(c) = "UPCHIRP" => c < PayloadCount
      /\ GetType(c) = "PAYLOAD" <=> c >= PayloadCount
      /\ PayloadCount \in Nat /\ PayloadCount > 0 /\ N \in Nat /\ N > 0
  <2>1. PayloadCount \in Nat /\ N \in Nat /\ N > 0
    BY CountFacts, Sizes
  <2>2. PayloadCount >= 4 * N
    BY TypeRanges
  <2>3. PayloadCount > 0
    BY <2>1, <2>2
  <2>4. GetType(c) # "VOID"
    BY <1>1
  <2>5. c = 0 => GetType(c) = "UPCHIRP"
    BY <2>1, TypeRanges
  <2>6. GetType(c) = "PAYLOAD" <=> c >= PayloadCount
    BY <2>4, TypeRanges
  <2>7. GetType(c) = "UPCHIRP" => c < PayloadCount
    BY TypeRanges
  <2> QED  BY <2>1, <2>3, <2>5, <2>6, <2>7
<1>6. /\ GetType(c) = "QUARTER_DOWN" => len = N \div 4
      /\ GetType(c) # "QUARTER_DOWN" => len = N
      /\ w.Tu = GetType(c) /\ w.Tu # "VOID"
  BY <1>1
<1>7. a.us[1] = "PAYLOAD" => w.Tu = "PAYLOAD"
  BY <1>2, <1>5, <1>6
<1>8. \/ Begun(a, 1, w.power1) /\ (w.Tu = "UPCHIRP" => w.win_len = N)
      \/ a.us[1] # "PREAMBLE" /\ w.Tu = "UPCHIRP" /\ w.win_len = N
  BY <1>4, <1>5, <1>6
<1>9. a.pt # "PAYLOAD" /\ a.pm = <<>> /\ Has(a, 2, 0)
  BY <1>2 DEF Fresh
<1>10. /\ OutputIn(a, w, 2) = <<>>
       /\ w.Tu = "PAYLOAD" => OutputIn(a, w, 1) = <<Su(w)>>
       /\ w.Tu # "PAYLOAD" => OutputIn(a, w, 1) = <<>> /\ b.us[1] # "PAYLOAD"
  BY <1>2, <1>3, <1>4, <1>6, <1>7, <1>8, <1>9, SoloOutput
<1>11. Quiet(b) /\ Begun(b, 1, w.power1)
  BY <1>2, <1>3, <1>4, <1>8, SoloOne
<1>12. b.pm = <<>> /\ b.pt = "VOID"
  BY <1>3, <1>4, <1>9, <1>11, SoloParts, StepOutput
<1>13. /\ a.sy[1] \in Seq(Symbols) /\ a.sy[2] \in Seq(Symbols)
       /\ b.sy[2] = a.sy[2] \o <<>>
       /\ w.Tu = "PAYLOAD" => b.sy[1] = a.sy[1] \o <<Su(w)>>
       /\ w.Tu # "PAYLOAD" => b.sy[1] = a.sy[1] \o <<>>
  BY <1>10, StepOutput, ZenonT(60) DEF PartsTyped
<1>14. Fresh(b)
  BY <1>9, <1>12, <1>13, HasKept DEF Fresh
<1>15. Reached(b, 1, c + len)
  <2>1. w.at = starts[1] + c * OS /\ w.win_len = len /\ GetType(c) # "VOID"
    BY <1>2, <1>6
  <2>2. /\ GetType(c) = "PAYLOAD" => b.sy[1] = a.sy[1] \o <<Su(w)>>
        /\ GetType(c) # "PAYLOAD" => b.sy[1] = a.sy[1] \o <<>>
    BY <1>6, <1>13
  <2>3. Reached(a, 1, c) /\ a.sy[1] \in Seq(Symbols)
    BY <1>2, <1>13
  <2>4. /\ GetType(c) = "QUARTER_DOWN" => len = N \div 4
        /\ GetType(c) # "QUARTER_DOWN" => len = N
    BY <1>6
  <2>5. 1 \in 1 .. 2
    OBVIOUS
  <2> QED  BY ONLY FramesTyped, NUp > 0, c \in Int, len \in Nat, w \in WindowSet, <2>1, <2>2, <2>3, <2>4,
              <2>5, ReachedNext, ZenonT(60)
<1>16. PICK d \in Int : d = c + len /\ user_u'.cnt = d
  BY <1>1
<1>17. nread' = starts[1] + d * OS
  <2>1. (c + len) * OS = c * OS + len * OS /\ c * OS \in Int /\ len * OS \in Int
    BY Sizes
  <2>2. starts[1] \in Int
    BY StateFacts
  <2> QED  BY <1>2, <1>16, <2>1, <2>2
<1>18. Follows(b, 1)'
  BY <1>2, <1>15, <1>16, <1>17, FollowsThen
<1>19. nread' <= starts[2]
  <2>1. CASE GetType(c) = "PAYLOAD"
    <3>1. PICK n \in Nat, s1 \in Nat, s2 \in Nat, S \in Nat :
            /\ n = nread /\ s1 = starts[1] /\ s2 = starts[2] /\ S = SymbolItems /\ S > 0
            /\ nread' = n + S
      BY <1>6, <2>1, StateFacts, Sizes
    <3>2. s1 < n
      BY <1>4, <1>5, <2>1, <3>1
    <3>3. ~(s2 \in n .. n + S - 1)
      <4> SUFFICES ASSUME s2 \in n .. n + S - 1 PROVE FALSE
        OBVIOUS
      <4>1. TagsAhead = {f \in 1 .. 2 : starts[f] \in n .. n + S - 1}
        BY <3>1 DEF TagsAhead
      <4>2. TagsAhead = {2}
        BY <3>1, <3>2, <4>1
      <4>3. Cardinality(TagsAhead) = 1
        BY <4>2, FS_Singleton
      <4> QED  BY <1>1, <2>1, <4>3 DEF SecondUser
    <3> QED  BY <1>2, <3>1, <3>3
  <2>2. CASE GetType(c) # "PAYLOAD"
    <3>1. d <= PayloadCount
      BY <1>2, <1>6, <1>16, <2>2, InPreambleNext
    <3>2. d * OS <= PayloadCount * OS /\ d * OS \in Int /\ PayloadCount * OS \in Int
      BY <1>5, <3>1, Scaled
    <3>3. PayloadStart(1) = starts[1] + PayloadCount * OS
      BY Places
    <3>4. PayloadStart(1) <= starts[2] /\ starts[1] \in Int /\ starts[2] \in Int
      BY OverlapOrder
    <3> QED  BY <1>17, <3>2, <3>3, <3>4
  <2> QED  BY <2>1, <2>2
<1>20. b.us[1] = "PAYLOAD" => user_u'.cnt >= PayloadCount' + N
  <2>1. PayloadCount' = PayloadCount
    BY DEF PayloadCount
  <2>2. w.Tu = "PAYLOAD" => d >= PayloadCount + N
    BY <1>5, <1>6, <1>16
  <2> QED  BY <1>10, <1>16, <2>1, <2>2
<1>21. Fresh(b)' /\ starts' = starts
  BY <1>14, OutputsStay
<1> QED  BY <1>2, <1>18, <1>19, <1>20, <1>21 DEF FirstAlone

\* What remains of the parts is the last symbol of the first frame.
LEMMA PendingSettled ==
  ASSUME FramesTyped, NEW a, PartsTyped(a), Pending(a),
         NEW w \in WindowSet, w.Ti1 = "VOID",
         NEW b, b.pt # "PAYLOAD", b.sy[1] = a.sy[1] \o <<PartsIn(a, w)>>
  PROVE  Settled(b)
<1>1. Has(a, 1, PayloadSymbols - 1) /\ Covers(a.pm, SymbolStart(1, PayloadSymbols), nread)
      /\ nread = FrameEnd(1)
  BY DEF Pending
<1>2. a.pm \in Symbols /\ a.sy[1] \in Seq(Symbols)
  BY DEF PartsTyped
<1>3. PICK m \in Symbols : m = a.pm
  BY <1>2
<1>4. PartsIn(a, w) = m
  <2>1. Mi1(w) = <<>>
    BY PartsOfWindow
  <2>2. m \o <<>> = m
    BY DEF Symbols
  <2> QED  BY <1>3, <2>1, <2>2 DEF PartsIn
<1>5. PayloadSymbols \in Nat /\ PayloadSymbols - 1 \in Nat /\ (PayloadSymbols - 1) + 1 = PayloadSymbols
      /\ 1 \in 1 .. 2 /\ PayloadSymbols \in Int
  BY MuAssumption
<1>6. PICK e \in Int : e = nread /\ e = SymbolStart(1, PayloadSymbols + 1)
  <2>1. SymbolStart(1, PayloadSymbols + 1) \in Int /\ FrameEnd(1) = SymbolStart(1, PayloadSymbols + 1)
    BY <1>5, SymbolPlaces
  <2> QED  BY <1>1, <2>1
<1>7. e - SymbolStart(1, PayloadSymbols + 1) \in 0 .. OS
  BY <1>6, Sizes
<1>8. Covers(m, SymbolStart(1, PayloadSymbols), e)
  BY <1>1, <1>3, <1>6
<1>9. IsSymbol(m, 1, PayloadSymbols)
  BY <1>5, <1>7, <1>8, CoversSymbol
<1>10. Has(b, 1, PayloadSymbols)
  <2>1. b.sy[1] = a.sy[1] \o <<m>> /\ IsSymbol(m, 1, (PayloadSymbols - 1) + 1)
    BY <1>4, <1>5, <1>9
  <2>2. Has(b, 1, (PayloadSymbols - 1) + 1)
    BY <1>1, <1>2, <1>5, <2>1, HasGrows
  <2> QED  BY <1>5, <2>2
<1> QED  BY <1>10 DEF Settled

\* A window of user 2 alone.
LEMMA SecondWindowTwo ==
  ASSUME FramesTyped, SynchroTyped, NUp > 0, UNCHANGED <<starts, powers>>, Overlap,
         NEW a, KeepsPace(a), PartsTyped(a), SecondAlone(a), m_sync_state = "SINGLE_USER",
         GetType(user_u.cnt) # "VOID",
         NEW len \in Nat, GetType(user_u.cnt) = "QUARTER_DOWN" => len = N \div 4,
         GetType(user_u.cnt) # "QUARTER_DOWN" => len = N,
         user_u'.frame = user_u.frame, user_u'.cnt = user_u.cnt + len, nread' = nread + len * OS,
         m_power1' = m_power1,
         NEW w \in WindowSet, w.power1 = m_power1, w.power2 = m_power2, w.win_len = len,
         w.Tu = GetType(user_u.cnt), w.Ti1 = "VOID", w.Ti2 = "VOID", w.at = nread,
         NEW b, b = Step(a, w)
  PROVE  SecondAlone(b)'
<1>1. PICK c \in Int : c = user_u.cnt
  BY StateFacts
<1>2. /\ user_u.frame = 2 /\ nread = starts[2] + c * OS /\ Reached(a, 2, c) /\ m_power1 = 0
      /\ a.us[1] = "PAYLOAD" \/ (a.us[1] = "NONE" /\ a.up[1] = 0)
      /\ Settled(a) \/ Pending(a)
  BY <1>1 DEF SecondAlone, Follows
<1>3. SlotTwo(a) /\ StatesTyped(a)
  <2>1. ~SlotOne(a)
    <3> SUFFICES ASSUME SlotOne(a) PROVE FALSE
      OBVIOUS
    <3>1. m_power1 = powers[2]
      BY <1>2 DEF SlotOne
    <3> QED  BY <1>2, <3>1, StateFacts
  <2> QED  BY <2>1 DEF KeepsPace, SingleStates
<1>4. /\ c >= 0 /\ m_power2 > 0
      /\ c = 0 => a.us[2] = "NONE" /\ a.up[1] <= m_power2
      /\ c > 0 => Begun(a, 2, m_power2) /\ (a.us[2] = "PAYLOAD" => c >= PayloadCount)
  BY <1>1, <1>3 DEF SlotTwo, Followed
<1>5. /\ c = 0 => GetType(c) = "UPCHIRP"
      /\ GetType(c) = "UPCHIRP" => c < PayloadCount
      /\ GetType(c) = "PAYLOAD" <=> c >= PayloadCount
      /\ PayloadCount \in Nat /\ PayloadCount > 0
  <2>1. PayloadCount \in Nat /\ N \in Nat /\ N > 0
    BY CountFacts, Sizes
  <2>2. PayloadCount >= 4 * N
    BY TypeRanges
  <2>3. PayloadCount > 0
    BY <2>1, <2>2
  <2>4. GetType(c) # "VOID"
    BY <1>1
  <2>5. c = 0 => GetType(c) = "UPCHIRP"
    BY <2>1, TypeRanges
  <2>6. GetType(c) = "PAYLOAD" <=> c >= PayloadCount
    BY <2>4, TypeRanges
  <2>7. GetType(c) = "UPCHIRP" => c < PayloadCount
    BY TypeRanges
  <2> QED  BY <2>1, <2>3, <2>5, <2>6, <2>7
<1>6. /\ GetType(c) = "QUARTER_DOWN" => len = N \div 4
      /\ GetType(c) # "QUARTER_DOWN" => len = N
      /\ w.Tu = GetType(c) /\ w.Tu # "VOID"
  BY <1>1
<1>7. \/ Begun(a, 2, w.power2) /\ (w.Tu = "UPCHIRP" => a.us[2] # "PAYLOAD")
      \/ /\ a.us[2] = "NONE" /\ a.up[1] <= w.power2
         /\ w.Tu = "UPCHIRP" /\ w.win_len = N
  BY <1>4, <1>5, <1>6
<1>8. /\ w.Tu = "PAYLOAD" => Begun(a, 2, w.power2) /\ w.win_len = N
      /\ a.us[2] = "PAYLOAD" => w.Tu = "PAYLOAD"
  BY <1>4, <1>5, <1>6
<1>9. w.power1 = 0 /\ w.power2 > 0
  BY <1>2, <1>4
<1>10. /\ b.us[1] = "NONE" /\ b.up[1] = 0 /\ b.pt = "VOID"
       /\ w.Tu = "PAYLOAD" => b.sy[2] = a.sy[2] \o <<Su(w)>>
       /\ w.Tu # "PAYLOAD" => b.sy[2] = a.sy[2] \o <<>>
       /\ a.pt # "PAYLOAD" => b.sy[1] = a.sy[1] \o <<>>
       /\ a.pt = "PAYLOAD" /\ ~InThreeParts(w) => b.sy[1] = a.sy[1] \o <<PartsIn(a, w)>>
  <2>1. /\ StatesTyped(a) /\ PartsTyped(a) /\ w.Ti1 = "VOID" /\ w.Ti2 = "VOID" /\ b = Step(a, w)
        /\ a.us[1] = "PAYLOAD" \/ (a.us[1] = "NONE" /\ a.up[1] = 0)
    BY <1>2, <1>3
  <2> QED  BY ONLY w \in WindowSet, <1>7, <1>8, <1>9, <2>1, LastOutput, SMTT(60)
<1>11. a.sy[1] \in Seq(Symbols) /\ a.sy[2] \in Seq(Symbols)
  BY DEF PartsTyped
<1>12. Reached(b, 2, c + len)
  <2>1. w.at = starts[2] + c * OS /\ w.win_len = len /\ GetType(c) # "VOID"
    BY <1>2, <1>6
  <2>2. /\ GetType(c) = "PAYLOAD" => b.sy[2] = a.sy[2] \o <<Su(w)>>
        /\ GetType(c) # "PAYLOAD" => b.sy[2] = a.sy[2] \o <<>>
    BY <1>6, <1>10
  <2>3. Reached(a, 2, c) /\ a.sy[2] \in Seq(Symbols)
    BY <1>2, <1>11
  <2>4. /\ GetType(c) = "QUARTER_DOWN" => len = N \div 4
        /\ GetType(c) # "QUARTER_DOWN" => len = N
    BY <1>6
  <2>5. 2 \in 1 .. 2
    OBVIOUS
  <2> QED  BY ONLY FramesTyped, NUp > 0, c \in Int, len \in Nat, w \in WindowSet, <2>1, <2>2, <2>3, <2>4,
              <2>5, ReachedNext, ZenonT(60)
<1>13. PICK d \in Int : d = c + len /\ user_u'.cnt = d
  BY <1>1
<1>14. nread' = starts[2] + d * OS
  <2>1. (c + len) * OS = c * OS + len * OS /\ c * OS \in Int /\ len * OS \in Int
    BY Sizes
  <2>2. starts[2] \in Int
    BY StateFacts
  <2> QED  BY <1>2, <1>13, <2>1, <2>2
<1>15. Follows(b, 2)'
  BY <1>2, <1>12, <1>13, <1>14, FollowsThen
<1>16. CASE Settled(a)
  <2>1. Has(b, 1, PayloadSymbols)
    BY <1>10, <1>11, <1>16, HasKept DEF Settled
  <2>2. Settled(b)'
    BY <1>10, <2>1, OutputsStay DEF Settled
  <2> QED  BY <1>2, <1>10, <1>15, <2>2 DEF SecondAlone
<1>17. CASE Pending(a)
  <2>1. w.Tu # "QUARTER_DOWN"
    <3> SUFFICES ASSUME w.Tu = "QUARTER_DOWN" PROVE FALSE
      OBVIOUS
    <3>1. nread = QuarterStart(2)
      BY <1>2, <1>6, InPreambleNext
    <3>2. FrameEnd(1) = QuarterStart(2) /\ FrameEnd(1) \in Nat /\ Stronger
      BY <1>17, <3>1, OverlapOrder DEF Pending
    <3>3. FrameEnd(1) - QuarterStart(2) = 0
      BY <3>2
    <3> QED  BY <3>2, <3>3 DEF TurnsInLast, Overlap
  <2>2. b.sy[1] = a.sy[1] \o <<PartsIn(a, w)>>
    BY <1>10, <1>17, <2>1 DEF Pending, InThreeParts
  <2>3. Settled(b)
    BY <1>10, <1>17, <2>2, PendingSettled
  <2>4. Settled(b)'
    BY <2>3, OutputsStay
  <2> QED  BY <1>2, <1>10, <1>15, <2>4 DEF SecondAlone
<1> QED  BY <1>2, <1>16, <1>17

LEMMA SingleWindowTwo ==
  ASSUME FramesTyped, SynchroTyped, NUp > 0, windows \in Seq(WindowSet),
         UNCHANGED <<starts, powers>>, Overlap,
         NEW a, KeepsPace(a), TwoFrames(a), NEW b, Moves(a, b), SingleWindow
  PROVE  TwoFrames(b)'
<1> DEFINE type == GetType(user_u.cnt)
           len == IF type = "QUARTER_DOWN" THEN N \div 4 ELSE N
<1>1. /\ m_sync_state = "SINGLE_USER" /\ m_sync_state' = "SINGLE_USER" /\ type # "VOID" /\ ~SecondUser
      /\ AddWindow(Window(m_power1, m_power2, len, type, "VOID", "VOID", len * OS))
      /\ user_u' = [user_u EXCEPT !.cnt = @ + len] /\ nread' = nread + len * OS
      /\ m_power1' = m_power1 /\ m_power2' = m_power2
  BY DEF SingleWindow, Consume
<1>2. PICK c \in Int : c = user_u.cnt
  BY StateFacts
<1>3. type \in WindowTypes
  BY <1>2, TypeOfCount
<1>4. len \in 1 .. N /\ len * OS \in 0 .. SymbolItems /\ len \in Nat
  BY Sizes
<1>5. /\ GetType(user_u.cnt) = "QUARTER_DOWN" => len = N \div 4
      /\ GetType(user_u.cnt) # "QUARTER_DOWN" => len = N
  OBVIOUS
<1>6. type = GetType(user_u.cnt)
  OBVIOUS
<1> HIDE DEF type, len
<1>7. "VOID" \in WindowTypes
  BY DEF WindowTypes
<1>8. PICK w \in WindowSet :
        /\ windows' = Append(windows, w)
        /\ w.power1 = m_power1 /\ w.power2 = m_power2 /\ w.win_len = len /\ w.Tu = type
        /\ w.Ti1 = "VOID" /\ w.Ti2 = "VOID" /\ w.at = nread
  BY <1>1, <1>3, <1>4, <1>7, WindowWritten, StateFacts, SMTT(60)
<1>9. user_u'.cnt = user_u.cnt + len /\ user_u'.frame = user_u.frame
  <2>1. user_u' = [user_u EXCEPT !.cnt = c + len] /\ c + len \in Int
    BY <1>1, <1>2, <1>4
  <2> QED  BY <1>2, <2>1, StateFacts
<1>10. b = Step(a, w)
  BY <1>8, MovesWritten
<1>11. PartsTyped(a) /\ PartsTyped(b)
  BY <1>10, StepParts DEF TwoFrames
<1>12. PICK l \in Nat : l = len
  BY <1>4
<1>13. CASE FirstAlone(a)
  <2>1. FirstAlone(b)'
    BY <1>1, <1>5, <1>6, <1>8, <1>9, <1>10, <1>11, <1>12, <1>13, FirstWindowTwo
  <2> QED  BY <1>1, <1>11, <2>1, TwoFramesThen
<1>14. CASE SecondAlone(a)
  <2>1. SecondAlone(b)'
    BY <1>1, <1>5, <1>6, <1>8, <1>9, <1>10, <1>11, <1>12, <1>14, SecondWindowTwo
  <2> QED  BY <1>1, <1>11, <2>1, TwoFramesThen
<1> QED  BY <1>1, <1>13, <1>14 DEF TwoFrames, SingleTwo

\* A piece leads from where it begins to where it ends, to a sample.
LEMMA OnePiece ==
  ASSUME NEW x \in Int, NEW z \in Int, NEW y \in Int, y - z \in 0 .. OS
  PROVE  Covers(<<<<x, z>>>>, x, y)
<1>1. PICK m : m = <<<<x, z>>>>
  OBVIOUS
<1>2. m # <<>> /\ Len(m) = 1 /\ m[1][1] = x /\ m[1][2] = z
  BY <1>1
<1>3. Last(m)[2] = z
  BY <1>2 DEF Last
<1>4. Near(m[1][1], x)
  BY <1>2, Sizes DEF Near
<1>5. 1 .. Len(m) - 1 = {}
  BY <1>2
<1> QED  BY <1>1, <1>2, <1>3, <1>4, <1>5 DEF Covers

\* The samples in front of a place in a symbol and those behind it.
LEMMA BothSides ==
  ASSUME NEW d \in 0 .. SymbolItems - 1, d > 0
  PROVE  /\ (SymbolItems - d) % SymbolItems = SymbolItems - d
         /\ Samples(d) + SamplesUp(SymbolItems - d) = N
<1>1. /\ SymbolItems \in Nat /\ N \in Nat /\ OS \in Nat /\ OS > 0 /\ SymbolItems = N * OS /\ d \in Int
  BY Sizes
<1>2. (SymbolItems - d) % SymbolItems = SymbolItems - d
  <2>1. PICK r \in 0 .. SymbolItems - 1 : r = SymbolItems - d
    BY <1>1
  <2>2. (r + 0 * SymbolItems) % SymbolItems = r /\ 0 * SymbolItems = 0
    BY <1>1, ModUnique
  <2> QED  BY <1>1, <2>1, <2>2
<1>3. PICK s \in Int, x \in Int : s = Samples(d) /\ x = s * OS /\ d - x \in 0 .. OS - 1
  <2>1. Samples(d) \in Int /\ d - Samples(d) * OS \in 0 .. OS - 1
    BY <1>1, SamplesOf
  <2> QED  BY <1>1, <2>1
<1>4. PICK z \in Int : z = 0 - d
  BY <1>1
<1>5. PICK v \in Int, y \in Int : v = SamplesUp(z) /\ y = v * OS /\ y - z \in 0 .. OS - 1
  <2>1. SamplesUp(z) \in Int /\ SamplesUp(z) * OS - z \in 0 .. OS - 1
    BY SamplesUpOf
  <2> QED  BY <1>1, <2>1
<1>6. SamplesUp(z + N * OS) = v + N
  BY <1>1, <1>5, SamplesUpOf
<1>7. z + N * OS = SymbolItems - d
  BY <1>1, <1>4
<1>8. v + s = 0
  <2>1. PICK q \in Int : q = v + s
    OBVIOUS
  <2>2. q * OS = y + x
    <3>1. (v + s) * OS = v * OS + s * OS
      BY <1>1
    <3> QED  BY <1>3, <1>5, <2>1, <3>1
  <2>3. q * OS < OS /\ 0 - OS < q * OS /\ q * OS \in Int
    BY <1>1, <1>3, <1>4, <1>5, <2>2
  <2>4. 0 < q => 0 * OS + OS <= q * OS
    <3>1. 0 \in Int
      OBVIOUS
    <3> QED  BY <3>1, Scaled
  <2>5. q < 0 => q * OS + OS <= 0 * OS
    <3>1. 0 \in Int
      OBVIOUS
    <3> QED  BY <3>1, Scaled
  <2>6. 0 * OS = 0
    BY <1>1
  <2>7. q = 0
    BY <1>1, <2>3, <2>4, <2>5, <2>6
  <2> QED  BY <2>1, <2>7
<1> QED  BY <1>1, <1>2, <1>3, <1>5, <1>6, <1>7, <1>8

\* When the windows begin to follow the second frame: the symbol of the first that this divides.
LEMMA NewJoined ==
  ASSUME FramesTyped, NUp > 0, NEW a, Fresh(a), PartsTyped(a), NEW c \in Int, Reached(a, 1, c),
         c >= PayloadCount, c < PayloadEnd, NEW n \in Nat, n = starts[1] + c * OS,
         NEW d \in 0 .. SymbolItems - 1, NEW s \in Nat, s = Samples(d),
         NEW t, t = (SymbolItems - d) % SymbolItems, NEW b,
         \/ s = 0 /\ b = a
         \/ /\ s > 0 /\ b.sy[1] = a.sy[1] \o <<>> /\ b.pt = "PAYLOAD"
            /\ \E w \in WindowSet : w.at = n /\ w.win_len = s /\ w.Tu = "VOID" /\ w.Ti2 = "PAYLOAD"
                                    /\ b.pm = Mi2(w)
  PROVE  \E g \in 1 .. PayloadSymbols + 2 : Joined(b, n + d, t, 0, c + s, g)
<1>1. PICK k \in 0 .. PayloadSymbols :
        c = PayloadCount + k * N /\ Has(a, 1, k) /\ n = SymbolStart(1, k + 1) /\ k < PayloadSymbols
  BY ReachedSymbol
<1>2. /\ SymbolItems \in Nat /\ N \in Nat /\ OS \in Nat /\ OS > 0 /\ d \in Int /\ k \in Int /\ k >= 0
      /\ PayloadSymbols \in Nat /\ PayloadCount \in Nat /\ k * N \in Int /\ SymbolItems > 0
  BY Sizes, CountFacts
<1>3. a.pt # "PAYLOAD" /\ a.pm = <<>>
  BY DEF Fresh
<1>4. CASE d = 0
  <2>1. t = 0
    <3>1. (0 + 1 * SymbolItems) % SymbolItems = 0
      BY <1>2, ModUnique
    <3>2. 0 + 1 * SymbolItems = SymbolItems - d
      BY <1>2, <1>4
    <3> QED  BY <3>1, <3>2
  <2>2. s = 0 /\ SamplesUp(0) = 0 /\ 0 * OS = 0
    <3>1. /\ Samples(d) \in Int /\ d - Samples(d) * OS \in 0 .. OS - 1
          /\ SamplesUp(0) \in Int /\ SamplesUp(0) * OS - 0 \in 0 .. OS - 1
      BY <1>2, SamplesOf, SamplesUpOf
    <3>2. \A x \in Int : x * OS \in 0 .. OS - 1 => x = 0
      <4> SUFFICES ASSUME NEW x \in Int, x * OS \in 0 .. OS - 1 PROVE x = 0
        OBVIOUS
      <4>1. 0 < x => 0 * OS + OS <= x * OS
        <5>1. 0 \in Int
          OBVIOUS
        <5> QED  BY <5>1, Scaled
      <4>2. x < 0 => x * OS + OS <= 0 * OS
        <5>1. 0 \in Int
          OBVIOUS
        <5> QED  BY <5>1, Scaled
      <4>3. 0 * OS = 0 /\ x * OS \in Int
        BY <1>2
      <4> QED  BY <1>2, <4>1, <4>2, <4>3
    <3>3. SamplesUp(0) = 0
      <4>1. PICK x \in Int : x = SamplesUp(0) /\ x * OS - 0 \in 0 .. OS - 1
        BY <3>1
      <4>2. x * OS \in Int
        BY <1>2
      <4>3. x * OS \in 0 .. OS - 1
        BY <1>2, <4>1, <4>2
      <4> QED  BY <3>2, <4>1, <4>3
    <3>4. s = 0
      <4>1. s * OS \in Nat
        BY <1>2
      <4>2. s * OS = 0
        BY <1>2, <1>4, <3>1, <4>1
      <4> QED  BY <1>2, <3>2, <4>2
    <3> QED  BY <1>2, <3>3, <3>4
  <2>3. b = a
    BY <2>2
  <2>4. PICK g \in 1 .. PayloadSymbols + 2 : g = k + 1 /\ g <= PayloadSymbols /\ g - 1 = k
    BY <1>1, <1>2
  <2>5. (n + d) + t = SymbolStart(1, g)
    BY <1>1, <1>4, <2>1, <2>4
  <2>6. (c + s) + SamplesUp(t) = PayloadCount + (g - 1) * N
    BY <1>1, <1>2, <2>1, <2>2, <2>4
  <2>7. AtOnceTwo(b, g, t, 0)
    BY <1>1, <1>3, <2>1, <2>3, <2>4 DEF AtOnceTwo
  <2>8. Joined(b, n + d, t, 0, c + s, g)
    BY <2>5, <2>6, <2>7 DEF Joined
  <2> QED  BY <2>8
<1>5. CASE d > 0
  <2>1. t = SymbolItems - d /\ s + SamplesUp(t) = N
    BY <1>5, BothSides
  <2>2. PICK v \in Int : v = SamplesUp(t)
    <3>1. t \in Int
      BY <1>2, <2>1
    <3> QED  BY <3>1, SamplesUpOf
  <2>3. PICK g \in 1 .. PayloadSymbols + 2 :
          /\ g = k + 2 /\ g \in 2 .. PayloadSymbols + 1 /\ g - 1 = k + 1 /\ g - 2 = k
    <3>1. k < PayloadSymbols
      BY <1>1
    <3>2. /\ k + 2 \in 1 .. PayloadSymbols + 2 /\ k + 2 \in 2 .. PayloadSymbols + 1
          /\ (k + 2) - 1 = k + 1 /\ (k + 2) - 2 = k
      BY <1>2, <3>1
    <3> QED  BY <3>2
  <2>4. (k + 1) * N = k * N + N
    BY <1>2, CountsOrdered
  <2>5. (c + s) + v = PayloadCount + (k + 1) * N
    <3>1. PICK x \in Int : x = k * N
      BY <1>2
    <3>2. c = PayloadCount + x /\ s + v = N /\ (k + 1) * N = x + N
      BY <1>1, <2>1, <2>2, <2>4, <3>1
    <3> QED  BY <1>2, <3>2
  <2>6. /\ SymbolStart(1, k + 2) = n + SymbolItems
    <3>1. 1 \in 1 .. 2 /\ k + 1 \in Int /\ (k + 1) + 1 = k + 2
      BY <1>2
    <3>2. SymbolStart(1, (k + 1) + 1) = SymbolStart(1, k + 1) + SymbolItems
      BY <3>1, SymbolPlaces
    <3> QED  BY <1>1, <3>1, <3>2
  <2>7. (n + d) + t = SymbolStart(1, g)
    BY <1>2, <2>1, <2>3, <2>6
  <2>8. (c + s) + SamplesUp(t) = PayloadCount + (g - 1) * N
    BY <2>2, <2>3, <2>5
  <2>9. s * OS \in Int /\ d - s * OS \in 0 .. OS - 1
    BY <1>2, SamplesOf, SMTT(60)
  <2>10. InPayloadTwo(b, g, n + d, t)
    <3>1. CASE s = 0 /\ b = a
      <4>1. d \in 0 .. OS - 1
        <5>1. s * OS = 0
          BY <1>2, <3>1
        <5> QED  BY <1>2, <2>9, <5>1
      <4>2. (n + d) - n \in 0 .. OS
        BY <1>2, <4>1
      <4>3. Covers(b.pm, SymbolStart(1, g - 1), n + d)
        BY <1>1, <1>3, <2>3, <3>1, <4>2 DEF Covers
      <4>4. SamplesUp(t) = N
        BY <1>2, <2>1, <2>2, <3>1
      <4> QED  BY <1>1, <2>3, <3>1, <4>3, <4>4 DEF InPayloadTwo
    <3>2. CASE /\ s > 0 /\ b.sy[1] = a.sy[1] \o <<>> /\ b.pt = "PAYLOAD"
               /\ \E w \in WindowSet : w.at = n /\ w.win_len = s /\ w.Tu = "VOID" /\ w.Ti2 = "PAYLOAD"
                                       /\ b.pm = Mi2(w)
      <4>1. PICK w \in WindowSet : w.at = n /\ w.win_len = s /\ w.Tu = "VOID" /\ w.Ti2 = "PAYLOAD"
                                   /\ b.pm = Mi2(w)
        BY <3>2
      <4>2. s # N
        <5>1. Samples(d) \in 0 .. N - 1
          BY SamplesOfPart
        <5> QED  BY <1>2, <5>1
      <4>3. ~IsDivided(w)
        BY <4>1, <4>2 DEF IsDivided
      <4>4. Mi2(w) = Piece(w, 0, s)
        BY <4>1, <4>3, PartsOfWindow
      <4>5. Piece(w, 0, s) = <<<<n + 0 * OS, n + s * OS>>>>
        <5>1. 0 \in Int /\ s \in Int
          OBVIOUS
        <5> QED  BY <3>2, <4>1, <5>1, PieceIs
      <4>6. PICK z \in Int : z = n + s * OS
        BY <2>9
      <4>7. 0 * OS = 0 /\ n + 0 = n
        BY <1>2
      <4>8. b.pm = <<<<n, z>>>>
        BY <4>1, <4>4, <4>5, <4>6, <4>7
      <4>9. (n + d) - z \in 0 .. OS /\ n + d \in Int
        <5>1. PICK x \in Int : x = s * OS /\ d - x \in 0 .. OS - 1 /\ z = n + x
          BY <2>9, <4>6
        <5>2. d - x \in 0 .. OS - 1 /\ z = n + x
          BY <5>1
        <5> QED  BY <1>2, <5>2
      <4>10. Covers(b.pm, n, n + d)
        BY <4>8, <4>9, OnePiece
      <4>11. Has(b, 1, k)
        BY <1>1, <3>2, HasKept DEF PartsTyped
      <4> QED  BY <1>1, <2>3, <3>2, <4>10, <4>11 DEF InPayloadTwo
    <3> QED  BY <3>1, <3>2
  <2>11. Joined(b, n + d, t, 0, c + s, g)
    BY <2>7, <2>8, <2>10 DEF Joined
  <2> QED  BY <2>11
<1> QED  BY <1>2, <1>4, <1>5

LEMMA RealignToNewTwo ==
  ASSUME FramesTyped, SynchroTyped, NewUserNext, NUp > 0, windows \in Seq(WindowSet),
         UNCHANGED <<starts, powers>>, Overlap,
         NEW a, KeepsPace(a), TwoFrames(a), NEW b, Moves(a, b), RealignToNew
  PROVE  TwoFrames(b)'
<1>1. /\ m_sync_state = "REALIGN_TO_NEW" /\ m_sync_state' = "MULTI_USER"
      /\ m_power1' = m_power1 /\ m_power2' = m_power2 /\ user_u' = user_i
  BY DEF RealignToNew
<1>2. NewStates(a) /\ StatesTyped(a) /\ PartsTyped(a) /\ Stronger /\ Follows(a, 1) /\ Fresh(a)
  BY <1>1 DEF KeepsPace, TwoFrames, NewTwo
<1>3. PICK c \in Int : c = user_u.cnt
  BY StateFacts
<1>4. /\ m_power2 > m_power1 /\ m_power1 > 0 /\ Quiet(a) /\ Begun(a, 1, m_power1)
      /\ c >= PayloadCount /\ c < PayloadEnd
  BY <1>1, <1>2, <1>3 DEF NewStates
<1>5. user_u.frame = 1 /\ user_i.frame = 2 /\ user_i.cnt = 0
  BY <1>1 DEF NewUserNext
<1>6. PICK n \in Nat : n = nread /\ n = starts[1] + c * OS
  BY <1>2, <1>3, StateFacts DEF Follows
<1>7. PICK d \in 0 .. SymbolItems - 1 : d = TauBetween(user_i, user_u) /\ n + d = starts[2]
  <2>1. starts[2] - n \in 0 .. SymbolItems - 1 /\ n + (starts[2] - n) = starts[2]
    <3>1. PICK s2 \in Nat, S \in Nat : s2 = starts[2] /\ S = SymbolItems /\ s2 \in n .. n + S - 1
      BY <1>1, <1>6, StateFacts, Sizes DEF NewUserNext
    <3> QED  BY <3>1
  <2> QED  BY <1>1, <1>6, <2>1 DEF NewUserNext
<1>8. PICK s \in Nat : s = Samples(d) /\ s \in 0 .. N - 1
  <2>1. Samples(d) \in 0 .. N - 1 /\ N \in Nat
    BY SamplesOfPart, Sizes
  <2> QED  BY <2>1
<1>9. PICK t \in 0 .. SymbolItems - 1 : t = (SymbolItems - d) % SymbolItems /\ t = m_tau'
  <2>1. SymbolItems - d \in Int
    BY Sizes
  <2>2. (SymbolItems - d) % SymbolItems \in 0 .. SymbolItems - 1
    BY <2>1, ModSymbols
  <2> QED  BY <1>7, <2>2 DEF RealignToNew
<1>10. AddWindow(Window(m_power1, 0, s, "VOID", "VOID", "PAYLOAD", t))
  <2>1. ~(m_power1 > m_power2)
    BY <1>4, StateFacts
  <2>2. AddWindow(Window(IF m_power1 > m_power2 THEN 0 ELSE m_power1,
                         IF m_power1 > m_power2 THEN m_power2 ELSE 0,
                         s, "VOID", "VOID", GetType(user_u.cnt), m_tau'))
    BY <1>7, <1>8 DEF RealignToNew
  <2>3. GetType(user_u.cnt) = "PAYLOAD"
    BY <1>3, <1>4, TypeRanges
  <2> QED  BY <1>9, <2>1, <2>2, <2>3
<1>11. user_i'.cnt = c + s /\ user_i'.frame = 1 /\ user_u'.cnt = 0 /\ user_u'.frame = 2
  <2>1. user_i' = [user_u EXCEPT !.cnt = c + s] /\ c + s \in Int
    <3>1. user_i' = [user_u EXCEPT !.cnt = user_u.cnt + Samples(TauBetween(user_i, user_u))]
      BY DEF RealignToNew
    <3>2. Samples(TauBetween(user_i, user_u)) = s
      BY <1>7, <1>8
    <3> QED  BY <1>3, <3>1, <3>2
  <2> QED  BY <1>1, <1>5, <2>1, StateFacts
<1>12. nread' = n + d /\ n + d \in Int
  <2>1. nread' = nread + TauBetween(user_i, user_u)
    BY DEF RealignToNew, Consume
  <2>2. d \in Int
    OBVIOUS
  <2>3. nread = n /\ TauBetween(user_i, user_u) = d
    BY <1>6, <1>7
  <2>4. n + d \in Int
    BY <2>2
  <2>5. nread' = n + d
    BY ONLY <2>1, <2>3, Zenon
  <2> QED  BY <2>4, <2>5
<1>13. /\ PartsTyped(b) /\ Has(b, 2, 0)
       /\ \/ s = 0 /\ b = a
          \/ /\ s > 0 /\ b.sy[1] = a.sy[1] \o <<>> /\ b.pt = "PAYLOAD"
             /\ \E w \in WindowSet : w.at = n /\ w.win_len = s /\ w.Tu = "VOID" /\ w.Ti2 = "PAYLOAD"
                                     /\ b.pm = Mi2(w)
  <2>1. CASE s = 0
    <3>1. windows' = windows
      BY <1>10, <2>1 DEF AddWindow, Window
    <3>2. b = a
      BY <3>1, MovesNothing
    <3> QED  BY <1>2, <2>1, <3>2 DEF Fresh
  <2>2. CASE s > 0
    <3>1. /\ s \in 1 .. N /\ s # N /\ t \in 0 .. SymbolItems
          /\ "VOID" \in WindowTypes /\ "PAYLOAD" \in WindowTypes
          /\ m_power1 \in Nat /\ 0 \in Nat /\ nread \in Nat
      <4>1. s \in 1 .. N /\ s # N
        BY <1>8, <2>2, Sizes
      <4>2. t \in 0 .. SymbolItems
        BY Sizes
      <4> QED  BY <4>1, <4>2, StateFacts DEF WindowTypes
    <3>2. PICK w \in WindowSet :
            /\ windows' = Append(windows, w)
            /\ w.power1 = m_power1 /\ w.power2 = 0 /\ w.win_len = s /\ w.Tu = "VOID" /\ w.Ti1 = "VOID"
            /\ w.Ti2 = "PAYLOAD" /\ w.tau = t /\ w.at = nread
      BY ONLY <1>10, <3>1, WindowWritten
    <3>3. b = Step(a, w)
      BY <3>2, MovesWritten
    <3>4. a.pt # "PAYLOAD" /\ w.win_len # N /\ w.power1 > 0 /\ Begun(a, 1, w.power1)
      BY <1>2, <1>4, <3>1, <3>2 DEF Fresh
    <3>5. /\ b.pt = w.Ti2 /\ b.pm = Mi2(w)
          /\ b.sy[1] = a.sy[1] \o <<>> /\ b.sy[2] = a.sy[2] \o <<>>
      BY <1>2, <1>4, <3>2, <3>3, <3>4, NewOutput
    <3>6. PartsTyped(b)
      BY <1>2, <3>3, StepParts
    <3>7. Has(b, 2, 0)
      BY <1>2, <3>5, HasKept DEF Fresh, PartsTyped
    <3> QED  BY <1>6, <2>2, <3>2, <3>5, <3>6, <3>7
  <2> QED  BY <1>8, <2>1, <2>2
<1>14. PICK g \in 1 .. PayloadSymbols + 2 : Joined(b, n + d, t, 0, c + s, g)
  <2>1. Fresh(a) /\ PartsTyped(a) /\ Reached(a, 1, c)
    BY <1>2, <1>3 DEF Follows
  <2> QED  BY <1>4, <1>6, <1>8, <1>9, <1>13, <2>1, NewJoined
<1>15. Follows(b, 2)'
  <2>1. 0 = 0 * N /\ 0 * OS = 0 /\ 0 \in 0 .. NUp + 4
    BY Sizes
  <2>2. Reached(b, 2, 0)
    BY <1>13, <2>1 DEF Reached
  <2>3. nread' = starts[2] + 0 * OS
    BY <1>7, <1>12, <2>1, StateFacts
  <2> QED  BY <1>11, <2>2, <2>3, FollowsThen
<1>16. StrongTwo(b)'
  <2>1. PICK e \in Int, m \in Int : e = c + s /\ m = n + d
    BY <1>12
  <2>2. m_power2' > m_power1' /\ ~(user_u'.cnt > 0)
    BY <1>1, <1>4, <1>11
  <2>3. /\ Joined(b, m, t, 0, e, g) /\ nread' = m /\ m_tau' = t /\ user_u'.cnt = 0 /\ user_i'.cnt = e
        /\ user_i'.frame = 1 /\ Stronger /\ t \in Int /\ 0 \in Int
    BY <1>2, <1>9, <1>11, <1>12, <1>14, <2>1
  <2> QED  BY <1>15, <2>2, <2>3, StrongThen
<1> QED  BY <1>1, <1>13, <1>16, TwoFramesThen

\* The weaker second frame is left: the first has ended.
LEMMA WeakEndsTwo ==
  ASSUME FramesTyped, SynchroTyped, NUp > 0, UNCHANGED <<starts, powers>>, Overlap,
         NEW a, KeepsPace(a), PartsTyped(a), WeakTwo(a), UserEnds
  PROVE  TwoFrames(a)'
<1>1. /\ m_sync_state = "MULTI_USER" /\ nread' = nread + 0
      /\ user_u' = user_u /\ user_i' = user_i /\ m_tau' = m_tau
      /\ \/ /\ GetType(user_u.cnt) = "VOID" /\ m_sync_state' = "REALIGN_TO_PREV"
            /\ m_power2' = IF m_power1 > m_power2 THEN m_power2 ELSE 0
         \/ GetType(user_u.cnt) # "VOID" /\ GetType(user_i.cnt) = "VOID" /\ user_i.cnt >= 0
  BY DEF UserEnds, SynchronisedEnds, InterfererEnds, Consume
<1>2. PICK p1 \in Nat, p2 \in Nat, u \in Int, d \in Int :
        p1 = m_power1 /\ p2 = m_power2 /\ u = user_u.cnt /\ d = user_i.cnt
  BY StateFacts
<1>3. /\ p1 > p2 /\ Follows(a, 1) /\ user_i.frame = 2
      /\ u >= PayloadEnd => a.us[1] = "PAYLOAD"
      /\ Waits(a, nread, m_tau, NextSymbolCount)
  BY <1>2 DEF WeakTwo
<1>4. WeakJoins(a)
  <2>1. ~StrongJoins(a)
    BY <1>2, <1>3 DEF StrongJoins
  <2> QED  BY <1>1, <2>1 DEF KeepsPace, MultiStates
<1>5. /\ u >= PayloadCount /\ u < PayloadEnd + N /\ u >= d + PayloadCount /\ Begun(a, 1, p1)
  BY <1>2, <1>4 DEF WeakJoins
<1>6. PICK pc \in Nat, pe \in Nat, z \in Nat :
        pc = PayloadCount /\ pe = PayloadEnd /\ z = N /\ pc >= z
  <2>1. PayloadCount \in Nat /\ N \in Nat
    BY CountFacts, Sizes
  <2>2. PayloadEnd \in Nat /\ PayloadCount >= 4 * N
    BY TypeRanges
  <2>3. PayloadCount >= N
    BY <2>1, <2>2
  <2> QED  BY <2>1, <2>2, <2>3
<1>7. /\ GetType(u) = "VOID" => u >= pe
      /\ GetType(d) = "VOID" /\ d >= 0 => d >= pe
  <2>1. u >= 0
    BY <1>5, <1>6
  <2> QED  BY <1>6, <2>1, TypeRanges
<1>8. ~(GetType(user_i.cnt) = "VOID" /\ user_i.cnt >= 0)
  BY <1>2, <1>5, <1>6, <1>7
<1>9. GetType(u) = "VOID" /\ m_sync_state' = "REALIGN_TO_PREV" /\ m_power2' = p2
  BY <1>1, <1>2, <1>3, <1>8
<1>10. nread = FrameEnd(1) /\ Has(a, 1, PayloadSymbols)
  <2>1. u >= 0
    BY <1>5, <1>6
  <2> QED  BY <1>2, <1>3, <1>9, <2>1, FollowedEnds
<1>11. nread' = nread /\ nread' = FrameEnd(1)'
  <2>1. nread' = nread
    BY <1>1, StateFacts
  <2> QED  BY <1>10, <2>1, OverlapStays
<1>12. a.us[1] = "PAYLOAD" /\ a.up[1] > p2
  BY <1>3, <1>5, <1>6, <1>7, <1>9 DEF Begun
<1>13. Waits(a, nread, m_tau, NextSymbolCount)'
  <2>1. PICK n, t, c : n = nread /\ t = m_tau /\ c = NextSymbolCount /\ Waits(a, n, t, c)
    BY <1>3
  <2>2. nread' = n /\ m_tau' = t /\ NextSymbolCount' = c
    BY <1>1, <1>11, <2>1 DEF NextSymbolCount, Samples
  <2>3. Waits(a, n, t, c)'
    BY <2>1, OutputsStay
  <2> QED  BY <2>2, <2>3 DEF Waits, WaitsForPayload, WaitsInPreamble, WaitsInPayload
<1>14. Has(a, 1, PayloadSymbols)'
  BY <1>10, OverlapStays
<1>15. PrevTwo(a)'
  BY <1>1, <1>3, <1>9, <1>11, <1>12, <1>13, <1>14 DEF PrevTwo
<1> QED  BY <1>9, <1>15, TwoFramesThen

\* The stronger second frame is left: the last symbol of the first is complete.
LEMMA StrongEndsTwo ==
  ASSUME FramesTyped, SynchroTyped, TwoUsers, NUp > 0, UNCHANGED <<starts, powers>>, Overlap,
         NEW a, KeepsPace(a), PartsTyped(a), StrongTwo(a), UserEnds
  PROVE  TwoFrames(a)'
<1>1. /\ m_sync_state = "MULTI_USER" /\ nread' = nread + 0
      /\ user_u' = user_u /\ user_i' = user_i
      /\ \/ GetType(user_u.cnt) = "VOID"
         \/ /\ GetType(user_u.cnt) # "VOID" /\ GetType(user_i.cnt) = "VOID" /\ user_i.cnt >= 0
            /\ m_sync_state' = "SINGLE_USER"
            /\ m_power1' = IF m_power1 > m_power2 THEN m_power1 ELSE 0
  BY DEF UserEnds, SynchronisedEnds, InterfererEnds, Consume
<1>2. PICK p1 \in Nat, p2 \in Nat, u \in Int, d \in Int, n \in Nat :
        p1 = m_power1 /\ p2 = m_power2 /\ u = user_u.cnt /\ d = user_i.cnt /\ n = nread
  BY StateFacts
<1>3. /\ Stronger /\ p2 > p1 /\ Follows(a, 2)
      /\ u > 0 => a.us[1] = "PAYLOAD"
  BY <1>2 DEF StrongTwo
<1>4. PICK g \in 1 .. PayloadSymbols + 2 : Joined(a, n, m_tau, u, d, g)
  BY <1>2 DEF StrongTwo
<1>5. PICK t \in 0 .. SymbolItems - 1 : t = m_tau
  <2>1. m_tau < SymbolItems /\ m_tau \in 0 .. SymbolItems
    BY <1>1 DEF TwoUsers, SynchroTyped
  <2> QED  BY <2>1, Sizes
<1>6. StrongJoins(a)
  <2>1. ~WeakJoins(a)
    BY <1>2, <1>3 DEF WeakJoins
  <2> QED  BY <1>1, <2>1 DEF KeepsPace, MultiStates
<1>7. u >= 0 /\ d >= u + PayloadCount /\ d < PayloadEnd + N
  BY <1>2, <1>6 DEF StrongJoins, Followed
<1>8. PICK pc \in Nat, pe \in Nat, z \in Nat :
        pc = PayloadCount /\ pe = PayloadEnd /\ z = N /\ pc >= z
  <2>1. PayloadCount \in Nat /\ N \in Nat
    BY CountFacts, Sizes
  <2>2. PayloadEnd \in Nat /\ PayloadCount >= 4 * N
    BY TypeRanges
  <2>3. PayloadCount >= N
    BY <2>1, <2>2
  <2> QED  BY <2>1, <2>2, <2>3
<1>9. GetType(u) # "VOID"
  <2>1. GetType(u) = "VOID" => u >= pe
    BY <1>7, <1>8, TypeRanges
  <2> QED  BY <1>7, <1>8, <2>1
<1>10. /\ GetType(d) = "VOID" /\ m_sync_state' = "SINGLE_USER" /\ m_power1' = 0
  BY <1>1, <1>2, <1>3, <1>9
<1>11. d >= pe
  <2>1. d >= 0
    BY <1>7, <1>8
  <2> QED  BY <1>8, <1>10, <2>1, TypeRanges
<1>12. PICK v \in 0 .. N : v = SamplesUp(t) /\ d + v = PayloadCount + (g - 1) * N /\ n + t = SymbolStart(1, g)
  <2>1. SamplesUp(t) \in 0 .. N
    BY SamplesOfPart
  <2> QED  BY <1>4, <1>5, <2>1 DEF Joined
<1>13. PayloadSymbols \in Int /\ g \in Int /\ 1 \in 1 .. 2 /\ N > 0
  BY Sizes
<1>14. g >= PayloadSymbols + 1
  <2> SUFFICES ASSUME g <= PayloadSymbols PROVE FALSE
    BY <1>13
  <2>1. PICK k \in Int : k = g - 1
    BY <1>13
  <2>2. k < PayloadSymbols
    BY <1>13, <2>1
  <2>3. k * N + N <= PayloadSymbols * N
    BY <1>13, <2>2, CountsOrdered
  <2>4. PICK x \in Int, y \in Int : x = k * N /\ y = PayloadSymbols * N
    BY <1>13, <2>1, CountsOrdered
  <2>5. pe = pc + y
    BY <1>8, <2>4 DEF PayloadEnd
  <2>6. d + v = pc + x /\ x + z <= y
    BY <1>8, <1>12, <2>1, <2>3, <2>4
  <2> QED  BY <1>8, <1>11, <1>13, <2>5, <2>6
<1>15. PICK e \in Nat, s2 \in Nat, S \in Nat : e = FrameEnd(1) /\ s2 = starts[2] /\ s2 < e /\ S = SymbolItems
  BY OverlapOrder, Sizes
<1>16. /\ SymbolStart(1, PayloadSymbols + 1) = e /\ SymbolStart(1, PayloadSymbols + 2) = e + S
  <2>1. SymbolStart(1, PayloadSymbols + 1) = e
    BY <1>13, <1>15, SymbolPlaces
  <2>2. PayloadSymbols + 1 \in Int /\ (PayloadSymbols + 1) + 1 = PayloadSymbols + 2
    BY <1>13
  <2>3. SymbolStart(1, (PayloadSymbols + 1) + 1) = SymbolStart(1, PayloadSymbols + 1) + SymbolItems
    BY <1>13, <2>2, SymbolPlaces
  <2> QED  BY <1>15, <2>1, <2>2, <2>3
<1>17. u = 0 => n = s2
  <2>1. n = starts[2] + u * OS
    BY <1>2, <1>3 DEF Follows
  <2>2. 0 * OS = 0
    BY Sizes
  <2>3. u = 0 => u * OS = 0
    BY <2>2
  <2> QED  BY <1>15, <2>1, <2>3
<1>18. nread' = n
  BY <1>1, <1>2
<1>19. Follows(a, 2)'
  <2>1. user_u'.frame = 2 /\ user_u'.cnt = u /\ nread' = starts[2] + u * OS /\ Reached(a, 2, u)
    BY <1>1, <1>2, <1>3, <1>18 DEF Follows
  <2> QED  BY <2>1, FollowsThen
<1>20. CASE g = PayloadSymbols + 1
  <2>1. v = 0
    <3>1. g - 1 = PayloadSymbols
      BY <1>13, <1>20
    <3>2. d + v = PayloadEnd
      BY <1>12, <3>1 DEF PayloadEnd
    <3> QED  BY <1>8, <1>11, <1>12, <1>13, <3>2
  <2>2. t = 0
    <3>1. SamplesUp(t) * OS - t \in 0 .. OS - 1
      BY SamplesOfPart
    <3>2. v * OS = 0 /\ t \in Int /\ t >= 0
      BY <2>1, Sizes
    <3> QED  BY <1>12, <3>1, <3>2, Sizes
  <2>3. n = e
    BY <1>12, <1>16, <1>20, <2>2
  <2>4. InPayloadTwo(a, g, n, t)
    BY <1>4, <1>5, <1>13, <1>20 DEF Joined, AtOnceTwo
  <2>5. a.pt = "PAYLOAD" /\ Has(a, 1, PayloadSymbols - 1) /\ Covers(a.pm, SymbolStart(1, PayloadSymbols), n)
    <3>1. g - 2 = PayloadSymbols - 1 /\ g - 1 = PayloadSymbols
      BY <1>13, <1>20
    <3>2. SamplesUp(t) # N
      BY <1>12, <1>13, <2>1
    <3> QED  BY <2>4, <3>1, <3>2 DEF InPayloadTwo
  <2>6. a.us[1] = "PAYLOAD"
    BY <1>3, <1>7, <1>15, <1>17, <2>3
  <2>7. Pending(a)'
    <3>1. Stronger' /\ nread' = FrameEnd(1)'
      BY <1>3, <1>15, <1>18, <2>3, OverlapStays
    <3>2. Has(a, 1, PayloadSymbols - 1)' /\ SymbolStart(1, PayloadSymbols)' = SymbolStart(1, PayloadSymbols)
      BY <2>5, OverlapStays
    <3>3. Covers(a.pm, SymbolStart(1, PayloadSymbols), nread)'
      BY <1>18, <2>5, <3>2
    <3> QED  BY <2>5, <2>6, <3>1, <3>2, <3>3 DEF Pending
  <2>8. SecondAlone(a)'
    BY <1>10, <1>19, <2>6, <2>7 DEF SecondAlone
  <2> QED  BY <1>10, <2>8, TwoFramesThen
<1>21. CASE g = PayloadSymbols + 2
  <2>1. Settled(a)
    BY <1>4, <1>13, <1>21 DEF Joined, InPayloadTwo, AtOnceTwo
  <2>2. u > 0
    <3>1. n + t = e + S /\ t < S
      BY <1>12, <1>15, <1>16, <1>21
    <3> QED  BY <1>7, <1>15, <1>17, <3>1
  <2>3. SecondAlone(a)'
    BY <1>3, <1>10, <1>19, <2>1, <2>2, OutputsStay DEF SecondAlone
  <2> QED  BY <1>10, <2>3, TwoFramesThen
<1> QED  BY <1>13, <1>14, <1>20, <1>21

LEMMA UserEndsTwo ==
  ASSUME FramesTyped, SynchroTyped, TwoUsers, NUp > 0, UNCHANGED <<starts, powers>>, Overlap,
         NEW a, KeepsPace(a), TwoFrames(a), UserEnds
  PROVE  TwoFrames(a)'
<1>1. m_sync_state = "MULTI_USER"
  BY DEF UserEnds
<1> QED  BY <1>1, WeakEndsTwo, StrongEndsTwo DEF TwoFrames, MultiTwo

\* The window of REALIGN_TO_PREV, and what is output.
PrevWritten(a, b, n, len, type) ==
  \E w \in WindowSet :
    /\ w.win_len = len /\ w.Tu = "VOID" /\ w.Ti1 = type /\ w.at = n
    /\ b.us[1] = "PAYLOAD" /\ b.pt = "VOID" /\ b.sy[1] = a.sy[1] \o <<>>
    /\ a.us[2] # "PAYLOAD" => b.sy[2] = a.sy[2] \o <<>>
    /\ a.us[2] = "PAYLOAD" /\ a.pt = "PAYLOAD" => b.sy[2] = a.sy[2] \o <<PartsIn(a, w)>>

\* The part of a symbol of the second frame that is left behind the first.
LEMMA PrevReached ==
  ASSUME FramesTyped, NUp > 0, NEW a, NEW b, PartsTyped(a), NEW n \in Nat, n = FrameEnd(1),
         NEW t \in 0 .. SymbolItems - 1, NEW d \in Int, d > 0, NEW len \in Nat, len = Samples(t),
         NEW c \in Int, c = d + len, Waits(a, n, t, c), a.us[1] = "PAYLOAD", Has(a, 1, PayloadSymbols),
         len = 0 => b = a,
         len > 0 /\ GetType(d) # "VOID" => PrevWritten(a, b, n, len, GetType(d))
  PROVE  n + t = starts[2] + c * OS /\ Reached(b, 2, c) /\ Settled(b) /\ b.us[1] = "PAYLOAD"
<1>1. /\ N \in Nat /\ N > 0 /\ OS \in Nat /\ OS > 0 /\ NUp \in Nat /\ PayloadSymbols \in Nat
      /\ SymbolItems = N * OS /\ SymbolItems \in Nat /\ t \in Int /\ PayloadCount \in Nat
      /\ 1 \in 1 .. 2 /\ 2 \in 1 .. 2
  BY Sizes, CountFacts
<1>2. len \in 0 .. N - 1 /\ (t >= OS => len >= 1) /\ t - len * OS \in 0 .. OS - 1 /\ len * OS \in Int
  BY <1>1, SamplesOfPart
<1>3. a.sy[1] \in Seq(Symbols) /\ a.sy[2] \in Seq(Symbols) /\ a.pm \in Symbols
  BY DEF PartsTyped
<1>4. PICK pc \in Nat, pe \in Nat : pc = PayloadCount /\ pe = PayloadEnd /\ pe >= pc + N
  <2>1. PayloadEnd \in Nat /\ PayloadEnd >= PayloadCount + N
    BY TypeRanges
  <2> QED  BY <1>1, <2>1
<1>5. CASE WaitsForPayload(a, n, t, c)
  <2>1. Has(a, 2, 0) /\ a.pt # "PAYLOAD" /\ a.us[2] # "PAYLOAD"
    BY <1>5 DEF WaitsForPayload
  <2>2. \/ \E k \in 0 .. NUp + 4 : c = k * N /\ n + t = starts[2] + k * SymbolItems
        \/ c = PayloadCount /\ n + t = PayloadStart(2)
    BY <1>5 DEF WaitsForPayload, WaitsInPreamble
  <2>3. n + t = starts[2] + c * OS
    <3>1. ASSUME NEW k \in 0 .. NUp + 4, c = k * N, n + t = starts[2] + k * SymbolItems
          PROVE  n + t = starts[2] + c * OS
      <4>1. k \in Int
        OBVIOUS
      <4>2. (k * N) * OS = k * (N * OS)
        BY <1>1, <4>1
      <4> QED  BY <1>1, <3>1, <4>2
    <3>2. PayloadStart(2) = starts[2] + PayloadCount * OS
      BY <1>1, Places
    <3> QED  BY <2>2, <3>1, <3>2
  <2>4. c <= pc
    <3>1. ASSUME NEW k \in 0 .. NUp + 4, c = k * N PROVE c <= pc
      <4>1. k * N \in Nat /\ k * N < PayloadCount
        BY SymbolTypes
      <4> QED  BY <1>4, <3>1, <4>1
    <3> QED  BY <1>4, <2>2, <3>1
  <2>5. GetType(d) # "VOID"
    <3>1. d < pe /\ d >= 0
      BY <1>1, <1>4, <2>4
    <3>2. GetType(d) = "VOID" /\ d >= 0 => d >= pe
      BY <1>4, TypeRanges
    <3> QED  BY <1>4, <3>1, <3>2
  <2>6. Has(b, 2, 0) /\ Has(b, 1, PayloadSymbols) /\ b.pt # "PAYLOAD" /\ b.us[1] = "PAYLOAD"
    <3>1. CASE len = 0
      BY <2>1, <3>1
    <3>2. CASE len > 0
      <4>1. /\ b.us[1] = "PAYLOAD" /\ b.pt = "VOID" /\ b.sy[1] = a.sy[1] \o <<>>
            /\ b.sy[2] = a.sy[2] \o <<>>
        BY <2>1, <2>5, <3>2 DEF PrevWritten
      <4>2. Has(b, 2, 0) /\ Has(b, 1, PayloadSymbols)
        BY <1>3, <2>1, <4>1, HasKept
      <4> QED  BY <4>1, <4>2
    <3> QED  BY <3>1, <3>2
  <2>7. Reached(b, 2, c)
    <3>1. CASE c = PayloadCount
      <4>1. PayloadCount = PayloadCount + 0 * N /\ 0 \in 0 .. PayloadSymbols
        BY <1>1
      <4> QED  BY <2>6, <3>1, <4>1 DEF Reached
    <3>2. CASE \E k \in 0 .. NUp + 4 : c = k * N
      BY <2>6, <3>2 DEF Reached
    <3> QED  BY <2>2, <3>1, <3>2
  <2> QED  BY <2>3, <2>6, <2>7 DEF Settled
<1>6. ASSUME NEW g \in 2 .. PayloadSymbols, WaitsInPayload(a, n, t, c, g)
      PROVE  n + t = starts[2] + c * OS /\ Reached(b, 2, c) /\ Settled(b) /\ b.us[1] = "PAYLOAD"
  <2>1. /\ c = PayloadCount + (g - 1) * N /\ n + t = SymbolStart(2, g)
        /\ Has(a, 2, g - 2) /\ a.pt = "PAYLOAD" /\ Covers(a.pm, SymbolStart(2, g - 1), n)
        /\ t >= OS
        /\ g > 2 => a.us[2] = "PAYLOAD"
        /\ g = 2 => n < FrameEnd(1)
    BY <1>6 DEF WaitsInPayload
  <2>2. PICK k \in Int : /\ k = g - 1 /\ k >= 2 /\ k < PayloadSymbols
                         /\ g = k + 1 /\ g - 2 = k - 1 /\ k - 1 \in Nat
                         /\ g > 2
    <3>1. g # 2
      BY <2>1
    <3>2. /\ g - 1 >= 2 /\ g - 1 < PayloadSymbols
          /\ g = (g - 1) + 1 /\ g - 2 = (g - 1) - 1 /\ (g - 1) - 1 \in Nat
          /\ g - 1 \in Int /\ g > 2
      BY <1>1, <3>1
    <3> QED  BY <3>2
  <2>3. n + t = starts[2] + c * OS
    <3>1. starts[2] + (PayloadCount + k * N) * OS = SymbolStart(2, k + 1)
      BY <1>1, SymbolPlaces
    <3> QED  BY <2>1, <2>2, <3>1
  <2>4. len >= 1
    BY <1>2, <2>1
  <2>5. GetType(d) = "PAYLOAD"
    <3>1. (k - 1) * N >= 0 /\ k * N = (k - 1) * N + N /\ k * N + N <= PayloadSymbols * N
          /\ (k - 1) * N \in Int /\ k * N \in Int /\ PayloadSymbols * N \in Int
      <4>1. (k - 1) * N \in Nat
        <5>1. PICK j \in Nat : j = k - 1
          BY <2>2
        <5>2. j * N \in Nat
          BY <1>1
        <5> QED  BY <5>1, <5>2
      <4>2. ((k - 1) + 1) * N = (k - 1) * N + N
        BY <2>2, CountsOrdered
      <4>3. (k - 1) + 1 = k
        OBVIOUS
      <4>4. k * N + N <= PayloadSymbols * N
        BY <1>1, <2>2, CountsOrdered
      <4> QED  BY <1>1, <4>1, <4>2, <4>3, <4>4
    <3>2. PICK x \in Int, y \in Int, z \in Int :
            x = (k - 1) * N /\ y = PayloadSymbols * N /\ z = k * N /\ z = x + N /\ z + N <= y /\ x >= 0
      BY <3>1
    <3>3. c = pc + z /\ pe = pc + y
      BY <1>4, <2>1, <2>2, <3>2 DEF PayloadEnd
    <3>4. z = x + N /\ z + N <= y /\ x >= 0
      BY <3>2
    <3>5. d >= pc /\ d < pe
      BY <1>1, <1>2, <2>4, <3>3, <3>4
    <3> QED  BY <1>4, <3>5, TypeRanges
  <2>6. PICK w \in WindowSet :
          /\ w.win_len = len /\ w.Tu = "VOID" /\ w.Ti1 = "PAYLOAD" /\ w.at = n
          /\ b.us[1] = "PAYLOAD" /\ b.pt = "VOID" /\ b.sy[1] = a.sy[1] \o <<>>
          /\ b.sy[2] = a.sy[2] \o <<PartsIn(a, w)>>
    <3>1. len > 0 /\ GetType(d) # "VOID" /\ a.us[2] = "PAYLOAD" /\ a.pt = "PAYLOAD"
      BY <2>1, <2>2, <2>4, <2>5
    <3>2. PrevWritten(a, b, n, len, "PAYLOAD")
      BY <2>5, <3>1
    <3> QED  BY <3>1, <3>2 DEF PrevWritten
  <2>7. Mi1(w) = <<<<n, n + len * OS>>>>
    <3>1. ~IsDivided(w)
      BY <1>1, <1>2, <2>6 DEF IsDivided
    <3>2. Mi1(w) = Piece(w, 0, len)
      BY <2>6, <3>1, PartsOfWindow
    <3>3. Piece(w, 0, len) = <<<<n + 0 * OS, n + len * OS>>>>
      <4>1. 0 \in Int /\ len \in Int /\ 0 < len
        BY <2>4
      <4> QED  BY <2>6, <4>1, PieceIs
    <3>4. 0 * OS = 0 /\ n + 0 = n
      BY <1>1
    <3> QED  BY <3>2, <3>3, <3>4
  <2>8. PICK m \in Symbols, x \in Int, e \in Int :
          /\ m = PartsIn(a, w) /\ x = SymbolStart(2, k) /\ e = n + len * OS
          /\ Covers(m, x, e) /\ m # <<>> /\ Last(m)[2] = e
    <3>1. SymbolStart(2, k) \in Int
      BY <1>1, SymbolPlaces
    <3>2. Covers(a.pm, SymbolStart(2, k), n)
      BY <2>1, <2>2
    <3>0. PICK q : q = Mi1(w)
      OBVIOUS
    <3>3. PICK p \in Symbols, x \in Int : q = Mi1(w) /\ p = a.pm /\ x = SymbolStart(2, k)
      BY <1>3, <3>0, <3>1
    <3>4. len > 0 => q = <<<<n, n + len * OS>>>>
      BY <2>7, <3>3
    <3>5. len = 0 => q = <<>>
      BY <2>4
    <3>6. n \in Int /\ Covers(p, x, n) /\ len > 0
      BY <2>4, <3>2, <3>3
    <3>7. /\ p \o q \in Symbols /\ Covers(p \o q, x, n + len * OS)
          /\ p \o q # <<>> /\ Last(p \o q)[2] = n + len * OS
      BY <3>4, <3>5, <3>6, CoversFurther
    <3>8. p \o q = PartsIn(a, w)
      BY <3>3 DEF PartsIn
    <3>9. n + len * OS \in Int
      BY <1>2
    <3> QED  BY <3>3, <3>7, <3>8, <3>9
  <2>9. SymbolStart(2, k + 1) - e \in 0 .. OS
    <3>1. SymbolStart(2, k + 1) = n + t
      BY <2>1, <2>2
    <3>2. PICK y \in Int : y = len * OS /\ t - y \in 0 .. OS - 1 /\ e = n + y
      BY <1>2, <2>8
    <3>3. t - y \in 0 .. OS - 1 /\ e = n + y
      BY <3>2
    <3>4. (n + t) - e \in 0 .. OS
      BY <1>1, <3>3
    <3> QED  BY <3>1, <3>4
  <2>10. IsSymbol(m, 2, k)
    BY <1>1, <2>8, <2>9, CoversSymbol
  <2>11. Has(b, 2, k)
    <3>1. Has(a, 2, k - 1) /\ (k - 1) + 1 = k /\ b.sy[2] = a.sy[2] \o <<m>>
      BY <2>1, <2>2, <2>6, <2>8
    <3>2. IsSymbol(m, 2, (k - 1) + 1) /\ k - 1 \in Nat
      BY <2>2, <2>10, <3>1
    <3>3. Has(b, 2, (k - 1) + 1)
      BY <1>3, <3>1, <3>2, HasGrows
    <3> QED  BY <3>1, <3>3
  <2>12. Reached(b, 2, c)
    <3>1. k \in 0 .. PayloadSymbols /\ c = PayloadCount + k * N
      <4>1. k \in 0 .. PayloadSymbols
        BY <1>1, <2>2
      <4>2. c = PayloadCount + k * N
        BY <2>1, <2>2
      <4> QED  BY <4>1, <4>2
    <3> QED  BY <2>11, <3>1 DEF Reached
  <2>13. Has(b, 1, PayloadSymbols)
    BY <1>3, <2>6, HasKept
  <2> QED  BY <2>3, <2>6, <2>12, <2>13 DEF Settled
<1> QED  BY <1>5, <1>6 DEF Waits

LEMMA RealignToPrevTwo ==
  ASSUME FramesTyped, SynchroTyped, TwoUsers, NUp > 0, windows \in Seq(WindowSet),
         UNCHANGED <<starts, powers>>, Overlap,
         NEW a, KeepsPace(a), TwoFrames(a), NEW b, Moves(a, b), RealignToPrev
  PROVE  TwoFrames(b)'
<1>1. m_sync_state = "REALIGN_TO_PREV" /\ m_sync_state' = "SINGLE_USER" /\ m_power1' = m_power1
  BY DEF RealignToPrev
<1>2. PrevStates(a) /\ StatesTyped(a) /\ PartsTyped(a) /\ PrevTwo(a)
  BY DEF KeepsPace, TwoFrames
<1>3. PICK d \in Int, n \in Nat, p2 \in Nat : d = user_i.cnt /\ n = nread /\ p2 = m_power2
  BY StateFacts
<1>4. /\ m_power1 = 0 /\ p2 > 0 /\ d > 0 /\ a.up[2] = p2 /\ a.us[2] \in {"PREAMBLE", "PAYLOAD"}
  BY <1>1, <1>2, <1>3 DEF PrevStates, Interferes
<1>5. PICK t \in 0 .. SymbolItems - 1 : t = m_tau
  <2>1. m_tau < SymbolItems /\ m_tau \in 0 .. SymbolItems
    BY <1>1 DEF TwoUsers, SynchroTyped
  <2> QED  BY <2>1, Sizes
<1>6. PICK len \in Nat : len = Samples(t) /\ len \in 0 .. N - 1
  <2>1. Samples(t) \in 0 .. N - 1 /\ N \in Nat
    BY SamplesOfPart, Sizes
  <2> QED  BY <2>1
<1>7. PICK c \in Int : c = d + len
  OBVIOUS
<1>8. /\ n = FrameEnd(1) /\ user_i.frame = 2 /\ Has(a, 1, PayloadSymbols)
      /\ a.us[1] = "PAYLOAD" /\ a.up[1] > p2 /\ Waits(a, n, t, c)
  <2>1. NextSymbolCount = c
    BY <1>3, <1>5, <1>6, <1>7 DEF NextSymbolCount
  <2> QED  BY <1>1, <1>2, <1>3, <1>5, <2>1 DEF PrevTwo
<1>9. AddWindow(Window(m_power1, m_power2, len, "VOID", GetType(d), "VOID", t))
  BY <1>3, <1>5, <1>6 DEF RealignToPrev
<1>10. user_u'.cnt = c /\ user_u'.frame = 2
  <2>1. user_u' = [user_i EXCEPT !.cnt = user_i.cnt + Samples(m_tau)]
    BY DEF RealignToPrev
  <2>2. user_u' = [user_i EXCEPT !.cnt = c]
    BY <1>3, <1>5, <1>6, <1>7, <2>1
  <2> QED  BY <1>8, <2>2, StateFacts
<1>11. nread' = n + t
  BY <1>3, <1>5 DEF RealignToPrev, Consume
<1>12. /\ PartsTyped(b)
       /\ len = 0 => b = a
       /\ len > 0 /\ GetType(d) # "VOID" => PrevWritten(a, b, n, len, GetType(d))
  <2>1. CASE len = 0
    <3>1. windows' = windows
      BY <1>9, <2>1 DEF AddWindow, Window
    <3>2. b = a
      BY <3>1, MovesNothing
    <3> QED  BY <1>2, <2>1, <3>2
  <2>2. CASE len > 0
    <3>1. /\ len \in 1 .. N /\ len # N /\ t \in 0 .. SymbolItems
          /\ "VOID" \in WindowTypes /\ GetType(d) \in WindowTypes
          /\ m_power1 \in Nat /\ m_power2 \in Nat /\ nread \in Nat
      <4>1. len \in 1 .. N /\ len # N
        BY <1>6, <2>2, Sizes
      <4>2. t \in 0 .. SymbolItems
        BY Sizes
      <4>3. GetType(d) \in WindowTypes
        BY TypeOfCount
      <4> QED  BY <4>1, <4>2, <4>3, StateFacts DEF WindowTypes
    <3>2. PICK w \in WindowSet :
            /\ windows' = Append(windows, w)
            /\ w.power1 = m_power1 /\ w.power2 = m_power2 /\ w.win_len = len /\ w.Tu = "VOID"
            /\ w.Ti1 = GetType(d) /\ w.Ti2 = "VOID" /\ w.tau = t /\ w.at = nread
      BY ONLY <1>9, <3>1, WindowWritten
    <3>3. b = Step(a, w)
      BY <3>2, MovesWritten
    <3>4. PartsTyped(b)
      BY <1>2, <3>3, StepParts
    <3>5. CASE GetType(d) # "VOID"
      <4>1. /\ w.power1 = 0 /\ w.power2 > 0 /\ w.Tu = "VOID" /\ w.Ti1 # "VOID" /\ w.win_len # N
            /\ a.us[2] \in {"PREAMBLE", "PAYLOAD"} /\ a.up[2] = w.power2
            /\ a.us[1] = "PAYLOAD" /\ a.up[1] > w.power2
        BY <1>3, <1>4, <1>8, <3>1, <3>2, <3>5
      <4>2. /\ b.us[1] = "PAYLOAD" /\ b.pt = w.Ti2 /\ b.sy[1] = a.sy[1] \o <<>>
            /\ a.us[2] # "PAYLOAD" => b.sy[2] = a.sy[2] \o <<>>
            /\ a.us[2] = "PAYLOAD" /\ a.pt = "PAYLOAD" => b.sy[2] = a.sy[2] \o <<PartsIn(a, w)>>
        BY ONLY <1>2, w \in WindowSet, <3>3, <4>1, PrevOutput, SMTT(60)
      <4>3. PrevWritten(a, b, n, len, GetType(d))
        BY <1>3, <3>2, <4>2 DEF PrevWritten
      <4> QED  BY <2>2, <3>4, <4>3
    <3> QED  BY <2>2, <3>4, <3>5
  <2> QED  BY <1>6, <2>1, <2>2
<1>13. n + t = starts[2] + c * OS /\ Reached(b, 2, c) /\ Settled(b) /\ b.us[1] = "PAYLOAD"
  <2>1. /\ PartsTyped(a) /\ n = FrameEnd(1) /\ d > 0 /\ len = Samples(t) /\ c = d + len
        /\ Waits(a, n, t, c) /\ a.us[1] = "PAYLOAD" /\ Has(a, 1, PayloadSymbols)
    BY <1>2, <1>4, <1>6, <1>7, <1>8
  <2> QED  BY <1>12, <2>1, PrevReached
<1>14. Follows(b, 2)'
  BY <1>10, <1>11, <1>13, FollowsThen
<1>15. SecondAlone(b)'
  BY <1>1, <1>4, <1>13, <1>14, OutputsStay DEF SecondAlone
<1> QED  BY <1>1, <1>12, <1>15, TwoFramesThen

\* A window of both users is written, with its fields.
LEMMA BothWritten ==
  ASSUME FramesTyped, SynchroTyped, NEW len \in 1 .. N, NEW Ti1 \in WindowTypes,
         NEW v \in 0 .. SymbolItems - 1, Both(len, Ti1, v)
  PROVE  /\ \E w \in WindowSet :
              /\ windows' = Append(windows, w)
              /\ w.power1 = m_power1 /\ w.power2 = m_power2 /\ w.win_len = len
              /\ w.Tu = GetType(user_u.cnt) /\ w.Ti1 = Ti1 /\ w.Ti2 = GetType(user_i.cnt + SamplesUp(v))
              /\ w.tau = v /\ w.at = nread
         /\ user_u'.cnt = user_u.cnt + len /\ user_i'.cnt = user_i.cnt + len
         /\ user_u'.frame = user_u.frame /\ user_i'.frame = user_i.frame
         /\ nread' = nread + len * OS
<1>1. PICK u \in Int, d \in Int : u = user_u.cnt /\ d = user_i.cnt
  BY StateFacts
<1>2. PICK s \in Int : s = SamplesUp(v)
  BY SamplesOfPart
<1>3. PICK Tu \in WindowTypes, Ti2 \in WindowTypes : Tu = GetType(u) /\ Ti2 = GetType(d + s)
  <2>1. d + s \in Int
    OBVIOUS
  <2> QED  BY <2>1, TypeOfCount
<1>4. AddWindow(Window(m_power1, m_power2, len, Tu, Ti1, Ti2, v))
  BY <1>1, <1>2, <1>3 DEF Both
<1>5. v \in 0 .. SymbolItems /\ m_power1 \in Nat /\ m_power2 \in Nat /\ nread \in Nat
  BY Sizes, StateFacts
<1>6. \E w \in WindowSet :
        /\ windows' = Append(windows, w)
        /\ w.power1 = m_power1 /\ w.power2 = m_power2 /\ w.win_len = len
        /\ w.Tu = Tu /\ w.Ti1 = Ti1 /\ w.Ti2 = Ti2 /\ w.tau = v /\ w.at = nread
  BY <1>4, <1>5, WindowWritten
<1>7. /\ user_u' = [user_u EXCEPT !.cnt = u + len] /\ user_i' = [user_i EXCEPT !.cnt = d + len]
      /\ nread' = nread + len * OS
  BY <1>1 DEF Both, Consume
<1>8. u + len \in Int /\ d + len \in Int
  BY Sizes
<1> QED  BY <1>1, <1>2, <1>3, <1>6, <1>7, <1>8, StateFacts

\* The window of a symbol of the first frame, with what it has of a weaker second.
LEMMA WeakWindowIs ==
  ASSUME FramesTyped, SynchroTyped, NUp > 0, MultiWindow,
         NEW u \in Int, u = user_u.cnt, u >= PayloadCount, NEW d \in Int, d = user_i.cnt,
         NEW t \in 0 .. SymbolItems - 1, t = m_tau, NEW c \in Int, c = d + Samples(t)
  PROVE  /\ GetType(u) = "PAYLOAD"
         /\ \E v \in 0 .. SymbolItems - 1, w \in WindowSet :
              /\ m_tau' = v /\ windows' = Append(windows, w)
              /\ w.power1 = m_power1 /\ w.power2 = m_power2 /\ w.win_len = N /\ w.Tu = "PAYLOAD"
              /\ w.Ti2 = GetType(d + SamplesUp(v)) /\ w.tau = v /\ w.at = nread
              /\ GetType(c) = "QUARTER_DOWN" =>
                   v = (t + SymbolItems \div 4) % SymbolItems /\ w.Ti1 = "DOWNCHIRP"
              /\ GetType(c) # "QUARTER_DOWN" => v = t /\ w.Ti1 = GetType(d)
         /\ user_u'.cnt = u + N /\ user_i'.cnt = d + N
         /\ user_u'.frame = user_u.frame /\ user_i'.frame = user_i.frame
         /\ nread' = nread + N * OS
<1>1. GetType(u) = "PAYLOAD"
  <2>1. GetType(u) # "VOID"
    BY DEF MultiWindow, SynchronisedEnds
  <2>2. PayloadEnd \in Nat /\ (u >= PayloadEnd => GetType(u) = "VOID")
    BY TypeRanges
  <2>3. u < PayloadEnd
    BY <2>1, <2>2
  <2> QED  BY <2>3, TypeRanges
<1>2. \/ /\ GetType(c) = "QUARTER_DOWN" /\ m_tau' = (t + SymbolItems \div 4) % SymbolItems
         /\ Both(N, "DOWNCHIRP", m_tau')
      \/ /\ GetType(c) # "QUARTER_DOWN" /\ m_tau' = t /\ Both(N, GetType(d), t)
  BY <1>1 DEF MultiWindow
<1>3. PICK v \in 0 .. SymbolItems - 1, Ti1 \in WindowTypes :
        /\ m_tau' = v /\ Both(N, Ti1, v)
        /\ GetType(c) = "QUARTER_DOWN" => v = (t + SymbolItems \div 4) % SymbolItems /\ Ti1 = "DOWNCHIRP"
        /\ GetType(c) # "QUARTER_DOWN" => v = t /\ Ti1 = GetType(d)
  <2>1. CASE GetType(c) = "QUARTER_DOWN"
    <3>1. t + SymbolItems \div 4 \in Int
      BY Sizes
    <3>2. PICK v \in 0 .. SymbolItems - 1 : v = (t + SymbolItems \div 4) % SymbolItems
      BY <3>1, ModSymbols
    <3>3. "DOWNCHIRP" \in WindowTypes
      BY DEF WindowTypes
    <3> QED  BY <1>2, <2>1, <3>2, <3>3
  <2>2. CASE GetType(c) # "QUARTER_DOWN"
    <3>1. GetType(d) \in WindowTypes
      BY TypeOfCount
    <3> QED  BY <1>2, <2>2, <3>1
  <2> QED  BY <2>1, <2>2
<1>4. N \in 1 .. N
  BY Sizes
<1>5. PICK w \in WindowSet :
        /\ windows' = Append(windows, w)
        /\ w.power1 = m_power1 /\ w.power2 = m_power2 /\ w.win_len = N
        /\ w.Tu = GetType(user_u.cnt) /\ w.Ti1 = Ti1 /\ w.Ti2 = GetType(user_i.cnt + SamplesUp(v))
        /\ w.tau = v /\ w.at = nread
  BY <1>3, <1>4, BothWritten
<1>6. /\ user_u'.cnt = user_u.cnt + N /\ user_i'.cnt = user_i.cnt + N
      /\ user_u'.frame = user_u.frame /\ user_i'.frame = user_i.frame
      /\ nread' = nread + N * OS
  BY <1>3, <1>4, BothWritten
<1>7. w.Tu = "PAYLOAD" /\ w.Ti2 = GetType(d + SamplesUp(v))
  BY <1>1, <1>5
<1> QED  BY <1>1, <1>3, <1>5, <1>6, <1>7

LEMMA WeakMultiTwo ==
  ASSUME FramesTyped, SynchroTyped, TwoUsers, NUp > 0, windows \in Seq(WindowSet),
         UNCHANGED <<starts, powers>>, Overlap,
         NEW a, KeepsPace(a), PartsTyped(a), WeakTwo(a), NEW b, Moves(a, b), MultiWindow
  PROVE  TwoFrames(b)'
<1>1. /\ m_sync_state = "MULTI_USER" /\ m_sync_state' = "MULTI_USER"
      /\ m_power1' = m_power1 /\ m_power2' = m_power2
  BY DEF MultiWindow
<1>2. PICK u \in Int, d \in Int, n \in Nat : u = user_u.cnt /\ d = user_i.cnt /\ n = nread
  BY StateFacts
<1>3. PICK t \in 0 .. SymbolItems - 1 : t = m_tau
  <2>1. m_tau < SymbolItems /\ m_tau \in 0 .. SymbolItems
    BY <1>1 DEF TwoUsers, SynchroTyped
  <2> QED  BY <2>1, Sizes
<1>4. PICK c \in Int : c = d + Samples(t)
  BY SamplesOfPart
<1>5. /\ ~Stronger /\ m_power1 > m_power2 /\ user_u.frame = 1 /\ user_i.frame = 2
      /\ n = starts[1] + u * OS /\ Reached(a, 1, u) /\ Waits(a, n, t, c)
  <2>1. NextSymbolCount = c
    BY <1>2, <1>3, <1>4 DEF NextSymbolCount
  <2> QED  BY <1>2, <1>3, <2>1 DEF WeakTwo, Follows
<1>6. WeakJoins(a) /\ StatesTyped(a)
  <2>1. ~StrongJoins(a)
    BY <1>5, StateFacts DEF StrongJoins
  <2> QED  BY <1>1, <2>1 DEF KeepsPace, MultiStates
<1>7. m_power2 > 0 /\ u >= PayloadCount /\ Begun(a, 1, m_power1) /\ Interferes(a)
  BY <1>2, <1>6 DEF WeakJoins
<1>8. GetType(u) = "PAYLOAD"
  BY <1>2, <1>3, <1>4, <1>7, WeakWindowIs
<1>9. PICK v \in 0 .. SymbolItems - 1, w \in WindowSet :
        /\ m_tau' = v /\ windows' = Append(windows, w)
        /\ w.power1 = m_power1 /\ w.power2 = m_power2 /\ w.win_len = N /\ w.Tu = "PAYLOAD"
        /\ w.Ti2 = GetType(d + SamplesUp(v)) /\ w.tau = v /\ w.at = nread
        /\ GetType(c) = "QUARTER_DOWN" =>
             v = (t + SymbolItems \div 4) % SymbolItems /\ w.Ti1 = "DOWNCHIRP"
        /\ GetType(c) # "QUARTER_DOWN" => v = t /\ w.Ti1 = GetType(d)
  BY <1>2, <1>3, <1>4, <1>7, WeakWindowIs, SMTT(60)
<1>10. /\ user_u'.cnt = u + N /\ user_i'.cnt = d + N
       /\ user_u'.frame = 1 /\ user_i'.frame = 2 /\ nread' = n + N * OS
  BY <1>2, <1>3, <1>4, <1>5, <1>7, WeakWindowIs
<1>11. b = Step(a, w)
  BY <1>9, MovesWritten
<1>12. PICK k \in 0 .. PayloadSymbols :
         u = PayloadCount + k * N /\ n = SymbolStart(1, k + 1) /\ k < PayloadSymbols
  <2>1. 1 \in 1 .. 2
    OBVIOUS
  <2> QED  BY <1>5, <1>7, <1>8, <2>1, ReachedSymbol, SMTT(60)
<1>13. w.Ti1 = "PAYLOAD" => d >= N /\ d >= PayloadCount
  <2> SUFFICES ASSUME w.Ti1 = "PAYLOAD" PROVE d >= N /\ d >= PayloadCount
    OBVIOUS
  <2>1. GetType(d) = "PAYLOAD"
    BY <1>9
  <2>2. d >= PayloadCount /\ PayloadCount >= 4 * N
    BY <2>1, TypeRanges
  <2>3. PayloadCount \in Nat /\ N \in Nat
    BY CountFacts, Sizes
  <2> QED  BY <2>2, <2>3
<1>14. /\ Quiet(a) \/ (a.us[2] \in {"PREAMBLE", "PAYLOAD"} /\ a.up[2] = w.power2)
       /\ w.Ti1 = "PAYLOAD" /\ a.us[2] = "PREAMBLE" => a.uc[2] > 0
       /\ d > 0 => ~Quiet(a)
  <2>1. Quiet(a) \/ (a.us[2] \in {"PREAMBLE", "PAYLOAD"} /\ a.up[2] = w.power2)
    BY <1>7, <1>9 DEF Interferes
  <2>2. w.Ti1 = "PAYLOAD" /\ a.us[2] = "PREAMBLE" => a.uc[2] > 0
    BY <1>2, <1>7, <1>13 DEF Interferes, Quiet
  <2>3. d > 0 => ~Quiet(a)
    BY <1>2, <1>7 DEF Interferes, Quiet
  <2> QED  BY <2>1, <2>2, <2>3
<1>15. /\ b.us[1] = "PAYLOAD" /\ b.pt = w.Ti2 /\ b.pm = Mi2(w)
       /\ b.sy[1] = a.sy[1] \o <<Su(w)>>
       /\ a.us[2] # "PAYLOAD" /\ w.Ti1 # "PAYLOAD" => b.us[2] # "PAYLOAD"
       /\ a.us[2] = "PAYLOAD" \/ (w.Ti1 = "PAYLOAD" /\ ~Quiet(a)) => b.us[2] = "PAYLOAD"
       /\ b.us[2] # "PAYLOAD" => b.sy[2] = a.sy[2] \o <<>>
       /\ b.us[2] = "PAYLOAD" /\ a.pt = "PAYLOAD" => b.sy[2] = a.sy[2] \o <<PartsIn(a, w)>>
  <2>1. /\ StatesTyped(a) /\ PartsTyped(a) /\ w.power1 > w.power2 /\ w.power2 > 0
        /\ w.Tu = "PAYLOAD" /\ w.win_len = N /\ Begun(a, 1, w.power1)
    BY <1>5, <1>6, <1>7, <1>9
  <2>2. \/ Quiet(a)
        \/ a.us[2] \in {"PREAMBLE", "PAYLOAD"} /\ a.up[2] = w.power2
    BY <1>14
  <2>3. w.Ti1 = "PAYLOAD" /\ a.us[2] = "PREAMBLE" => a.uc[2] > 0
    BY <1>14
  <2> QED  BY ONLY w \in WindowSet, <1>11, <2>1, <2>2, <2>3, WeakOutput, ZenonT(60)
<1>16. Waits(b, n + SymbolItems, v, d + N + Samples(v))
  <2>1. PICK j \in 1 .. PayloadSymbols : n = SymbolStart(1, j)
    <3>1. k + 1 \in 1 .. PayloadSymbols
      BY <1>12, Sizes
    <3> QED  BY <1>12, <3>1
  <2>2. /\ GetType(c) = "QUARTER_DOWN" => v = (t + SymbolItems \div 4) % SymbolItems
        /\ GetType(c) # "QUARTER_DOWN" => v = t
        /\ w.win_len = N /\ w.at = n /\ w.tau = v /\ w.Ti2 = GetType(d + SamplesUp(v))
        /\ GetType(c) = "QUARTER_DOWN" => w.Ti1 = "DOWNCHIRP"
        /\ GetType(c) # "QUARTER_DOWN" => w.Ti1 = GetType(d)
    BY <1>2, <1>9
  <2>3. /\ a.us[2] # "PAYLOAD" /\ w.Ti1 # "PAYLOAD" => b.us[2] # "PAYLOAD"
        /\ a.us[2] = "PAYLOAD" \/ (w.Ti1 = "PAYLOAD" /\ d > 0) => b.us[2] = "PAYLOAD"
        /\ b.us[2] # "PAYLOAD" => b.sy[2] = a.sy[2] \o <<>>
        /\ b.us[2] = "PAYLOAD" /\ a.pt = "PAYLOAD" => b.sy[2] = a.sy[2] \o <<PartsIn(a, w)>>
    BY <1>14, <1>15
  <2>4. ~Stronger /\ Waits(a, n, t, c) /\ c = d + Samples(t) /\ b.pt = w.Ti2 /\ b.pm = Mi2(w)
    BY <1>4, <1>5, <1>15
  <2> QED  BY ONLY FramesTyped, NUp > 0, Overlap, PartsTyped(a), n \in Nat, t \in 0 .. SymbolItems - 1,
              d \in Int, c \in Int, w \in WindowSet, j \in 1 .. PayloadSymbols,
              <2>1, <2>2, <2>3, <2>4, WeakWaits, ZenonT(150)
<1>17. Reached(b, 1, u + N)
  <2>1. w.at = starts[1] + u * OS /\ w.win_len = N /\ GetType(u) # "VOID" /\ GetType(u) # "QUARTER_DOWN"
    BY <1>2, <1>5, <1>8, <1>9
  <2>2. /\ GetType(u) = "PAYLOAD" => b.sy[1] = a.sy[1] \o <<Su(w)>>
        /\ GetType(u) # "PAYLOAD" => b.sy[1] = a.sy[1] \o <<>>
    BY <1>8, <1>15
  <2>3. Reached(a, 1, u) /\ a.sy[1] \in Seq(Symbols)
    BY <1>5 DEF PartsTyped
  <2>4. 1 \in 1 .. 2 /\ N \in Nat
    BY Sizes
  <2>5. /\ GetType(u) = "QUARTER_DOWN" => N = N \div 4
        /\ GetType(u) # "QUARTER_DOWN" => N = N
    BY <2>1
  <2> QED  BY ONLY FramesTyped, NUp > 0, u \in Int, w \in WindowSet, <2>1, <2>2, <2>3, <2>4, <2>5,
              ReachedNext, ZenonT(60)
<1>18. PICK m \in Int, e \in Int, h \in Int :
         /\ m = n + SymbolItems /\ e = u + N /\ h = d + N + Samples(v)
         /\ nread' = m /\ m = starts[1] + e * OS
  <2>1. (u + N) * OS = u * OS + N * OS /\ u * OS \in Int /\ N * OS \in Int /\ N * OS = SymbolItems
        /\ N \in Int
    BY Sizes
  <2>2. Samples(v) \in Int
    BY SamplesOfPart
  <2>3. starts[1] \in Int
    BY StateFacts, SMTT(60)
  <2>4. PICK x \in Int, y \in Int, z \in Int : x = u * OS /\ y = N * OS /\ z = (u + N) * OS /\ z = x + y
    BY <2>1
  <2>5. nread' = n + y /\ n = starts[1] + x /\ y = SymbolItems /\ z = x + y
    BY <1>5, <1>10, <2>1, <2>4
  <2>6. n + SymbolItems = starts[1] + z
    <3>1. n + SymbolItems = n + y /\ n = starts[1] + x /\ z = x + y
      BY ONLY <2>5, ZenonT(60)
    <3> QED  BY ONLY <2>3, <3>1, x \in Int, y \in Int, z \in Int
  <2>7. z = (u + N) * OS /\ nread' = n + SymbolItems
    BY ONLY <2>4, <2>5, ZenonT(60)
  <2>8. n + SymbolItems = starts[1] + (u + N) * OS
    BY ONLY <2>6, <2>7, ZenonT(60)
  <2>9. n + SymbolItems \in Int /\ u + N \in Int /\ d + N + Samples(v) \in Int
    <3>1. SymbolItems \in Int
      BY ONLY <2>5, y \in Int, ZenonT(60)
    <3> QED  BY ONLY <2>1, <2>2, <3>1, n \in Nat, u \in Int, d \in Int
  <2> QED  BY ONLY <2>7, <2>8, <2>9, ZenonT(60)
<1>19. Follows(b, 1)'
  <2>1. /\ user_u'.frame = 1 /\ user_u'.cnt = e /\ nread' = starts[1] + e * OS
        /\ Reached(b, 1, e) /\ 1 \in 1 .. 2
    BY <1>10, <1>17, <1>18
  <2> QED  BY <2>1, FollowsThen
<1>20. WeakTwo(b)'
  <2>1. user_i'.cnt + Samples(v) = h
    BY <1>10, <1>18
  <2>2. m_power1' > m_power2' /\ Waits(b, m, v, h) /\ nread' = m /\ m_tau' = v /\ user_i'.frame = 2
        /\ ~Stronger /\ b.us[1] = "PAYLOAD" /\ v \in Int
    BY <1>1, <1>5, <1>9, <1>10, <1>15, <1>16, <1>18
  <2> QED  BY <1>19, <2>1, <2>2, WeakThen
<1>21. PartsTyped(b)
  BY <1>11, StepParts
<1> QED  BY <1>1, <1>20, <1>21, TwoFramesThen

\* The window of a symbol of the second frame, or of its quarter downchirp, with what it has of a
\* weaker first frame, which is in its payload.
StrongWritten(u, d, t) ==
  \E len \in 1 .. N, v \in 0 .. SymbolItems - 1, w \in WindowSet :
    /\ GetType(u) = "QUARTER_DOWN" => len = N \div 4 /\ v = (t - SymbolItems \div 4) % SymbolItems
    /\ GetType(u) # "QUARTER_DOWN" => len = N /\ v = t
    /\ m_tau' = v /\ windows' = Append(windows, w)
    /\ w.power1 = m_power1 /\ w.power2 = m_power2 /\ w.win_len = len /\ w.Tu = GetType(u)
    /\ w.Ti1 = "PAYLOAD" /\ w.Ti2 = GetType(d + SamplesUp(t)) /\ w.tau = t /\ w.at = nread
    /\ user_u'.cnt = u + len /\ user_i'.cnt = d + len /\ nread' = nread + len * OS

LEMMA StrongWindowIs ==
  ASSUME FramesTyped, SynchroTyped, NUp > 0, MultiWindow,
         NEW u \in Int, u = user_u.cnt, u >= 0, NEW d \in Int, d = user_i.cnt, d >= u + PayloadCount,
         NEW t \in 0 .. SymbolItems - 1, t = m_tau
  PROVE  /\ GetType(u) # "VOID" /\ GetType(d) = "PAYLOAD" /\ d < PayloadEnd
         /\ StrongWritten(u, d, t)
         /\ user_u'.frame = user_u.frame /\ user_i'.frame = user_i.frame
<1>1. GetType(u) # "VOID" /\ ~(GetType(d) = "VOID" /\ d >= 0)
  BY DEF MultiWindow, SynchronisedEnds, InterfererEnds
<1>2. PICK p \in Nat, e \in Nat : p = PayloadCount /\ e = PayloadEnd
  BY CountFacts, TypeRanges
<1>3. d >= p /\ d >= 0
  BY <1>2
<1>4. GetType(d) = "PAYLOAD" /\ d < PayloadEnd
  <2>1. d >= e => GetType(d) = "VOID"
    BY <1>2, TypeRanges
  <2>2. d < e
    BY <1>1, <1>2, <1>3, <2>1
  <2> QED  BY <1>2, <1>3, <2>2, TypeRanges
<1>5. GetType(d + Samples(t)) # "QUARTER_DOWN"
  <2>1. PICK c \in Int : c = d + Samples(t) /\ c >= p
    <3>1. PICK s \in Nat : s = Samples(t)
      BY SamplesOfPart, Sizes
    <3> QED  BY <1>3, <3>1
  <2>2. GetType(c) = "PAYLOAD" \/ GetType(c) = "VOID"
    <3>1. c >= e \/ c < e
      BY <1>2
    <3> QED  BY <1>2, <2>1, <3>1, TypeRanges
  <2> QED  BY <2>1, <2>2
<1>6. \/ /\ GetType(u) = "QUARTER_DOWN" /\ Both(N \div 4, "PAYLOAD", t)
         /\ m_tau' = (t - SymbolItems \div 4) % SymbolItems
      \/ /\ GetType(u) # "QUARTER_DOWN" /\ Both(N, "PAYLOAD", t) /\ m_tau' = t
  BY <1>4, <1>5 DEF MultiWindow
<1>7. PICK len \in 1 .. N, v \in 0 .. SymbolItems - 1 :
        /\ GetType(u) = "QUARTER_DOWN" => len = N \div 4 /\ v = (t - SymbolItems \div 4) % SymbolItems
        /\ GetType(u) # "QUARTER_DOWN" => len = N /\ v = t
        /\ Both(len, "PAYLOAD", t) /\ m_tau' = v
  <2>1. CASE GetType(u) = "QUARTER_DOWN"
    <3>1. t - SymbolItems \div 4 \in Int
      BY Sizes
    <3>2. PICK v \in 0 .. SymbolItems - 1 : v = (t - SymbolItems \div 4) % SymbolItems
      BY <3>1, ModSymbols
    <3>3. N \div 4 \in 1 .. N
      BY Sizes
    <3> QED  BY <1>6, <2>1, <3>2, <3>3
  <2>2. CASE GetType(u) # "QUARTER_DOWN"
    <3>1. N \in 1 .. N
      BY Sizes
    <3> QED  BY <1>6, <2>2, <3>1
  <2> QED  BY <2>1, <2>2
<1>8. "PAYLOAD" \in WindowTypes
  BY DEF WindowTypes
<1>9. PICK w \in WindowSet :
        /\ windows' = Append(windows, w)
        /\ w.power1 = m_power1 /\ w.power2 = m_power2 /\ w.win_len = len
        /\ w.Tu = GetType(user_u.cnt) /\ w.Ti1 = "PAYLOAD" /\ w.Ti2 = GetType(user_i.cnt + SamplesUp(t))
        /\ w.tau = t /\ w.at = nread
  BY <1>7, <1>8, BothWritten, SMTT(60)
<1>10. /\ user_u'.cnt = user_u.cnt + len /\ user_i'.cnt = user_i.cnt + len
       /\ user_u'.frame = user_u.frame /\ user_i'.frame = user_i.frame
       /\ nread' = nread + len * OS
  BY <1>7, <1>8, BothWritten
<1>11. w.Tu = GetType(u) /\ w.Ti2 = GetType(d + SamplesUp(t))
  BY <1>9
<1>12. StrongWritten(u, d, t)
  BY <1>7, <1>9, <1>10, <1>11 DEF StrongWritten
<1> QED  BY <1>1, <1>4, <1>10, <1>12

LEMMA StrongMultiTwo ==
  ASSUME FramesTyped, SynchroTyped, TwoUsers, NUp > 0, windows \in Seq(WindowSet),
         UNCHANGED <<starts, powers>>, Overlap,
         NEW a, KeepsPace(a), PartsTyped(a), StrongTwo(a), NEW b, Moves(a, b), MultiWindow
  PROVE  TwoFrames(b)'
<1>1. /\ m_sync_state = "MULTI_USER" /\ m_sync_state' = "MULTI_USER"
      /\ m_power1' = m_power1 /\ m_power2' = m_power2
  BY DEF MultiWindow
<1>2. PICK u \in Int, d \in Int, n \in Nat : u = user_u.cnt /\ d = user_i.cnt /\ n = nread
  BY StateFacts
<1>3. PICK t \in 0 .. SymbolItems - 1 : t = m_tau
  <2>1. m_tau < SymbolItems /\ m_tau \in 0 .. SymbolItems
    BY <1>1 DEF TwoUsers, SynchroTyped
  <2> QED  BY <2>1, Sizes
<1>4. PICK g \in 1 .. PayloadSymbols + 2 : Joined(a, n, t, u, d, g)
  BY <1>2, <1>3 DEF StrongTwo
<1>5. /\ Stronger /\ m_power2 > m_power1 /\ user_u.frame = 2 /\ user_i.frame = 1
      /\ n = starts[2] + u * OS /\ Reached(a, 2, u)
  BY <1>2 DEF StrongTwo, Follows
<1>6. StrongJoins(a) /\ StatesTyped(a)
  <2>1. ~WeakJoins(a)
    BY <1>5, StateFacts DEF WeakJoins
  <2> QED  BY <1>1, <2>1 DEF KeepsPace, MultiStates
<1>7. /\ m_power1 > 0 /\ u >= 0 /\ d >= u + PayloadCount /\ Begun(a, 1, m_power1)
      /\ u > 0 => Begun(a, 2, m_power2) /\ (a.us[2] = "PAYLOAD" => u >= PayloadCount)
      /\ u = 0 => Quiet(a)
  BY <1>2, <1>6 DEF StrongJoins, Followed
<1>8. GetType(u) # "VOID" /\ GetType(d) = "PAYLOAD" /\ d < PayloadEnd
  BY <1>2, <1>3, <1>7, StrongWindowIs
<1>9. PICK len \in 1 .. N, v \in 0 .. SymbolItems - 1, w \in WindowSet :
        /\ GetType(u) = "QUARTER_DOWN" => len = N \div 4 /\ v = (t - SymbolItems \div 4) % SymbolItems
        /\ GetType(u) # "QUARTER_DOWN" => len = N /\ v = t
        /\ m_tau' = v /\ windows' = Append(windows, w)
        /\ w.power1 = m_power1 /\ w.power2 = m_power2 /\ w.win_len = len /\ w.Tu = GetType(u)
        /\ w.Ti1 = "PAYLOAD" /\ w.Ti2 = GetType(d + SamplesUp(t)) /\ w.tau = t /\ w.at = n
        /\ user_u'.cnt = u + len /\ user_i'.cnt = d + len /\ nread' = n + len * OS
  <2>1. StrongWritten(u, d, t)
    BY <1>2, <1>3, <1>7, StrongWindowIs
  <2> QED  BY <1>2, <2>1, ZenonT(60) DEF StrongWritten
<1>10. user_u'.frame = 2 /\ user_i'.frame = 1
  BY <1>2, <1>3, <1>5, <1>7, StrongWindowIs
<1>11. b = Step(a, w)
  BY <1>9, MovesWritten
<1>12. /\ GetType(u) = "UPCHIRP" => u < PayloadCount
       /\ GetType(u) = "PAYLOAD" <=> u >= PayloadCount /\ u < PayloadEnd
       /\ u = 0 => GetType(u) = "UPCHIRP"
  <2>1. 0 < N /\ 0 \in Int
    BY Sizes
  <2> QED  BY <2>1, TypeRanges
<1>13. /\ Begun(a, 2, w.power2) \/ (a.us[2] = "NONE" /\ w.Tu = "UPCHIRP" /\ w.win_len = N)
       /\ w.Tu = "PAYLOAD" => Begun(a, 2, w.power2) /\ w.win_len = N
       /\ a.us[2] = "PAYLOAD" => w.Tu = "PAYLOAD"
  <2>1. CASE u = 0
    <3>1. w.Tu = "UPCHIRP" /\ w.win_len = N /\ a.us[2] = "NONE"
      BY <1>7, <1>9, <1>12, <2>1 DEF Quiet
    <3> QED  BY <3>1
  <2>2. CASE u > 0
    <3>1. Begun(a, 2, w.power2) /\ (a.us[2] = "PAYLOAD" => u >= PayloadCount)
      BY <1>7, <1>9, <2>2
    <3>2. w.Tu = "PAYLOAD" => w.win_len = N
      BY <1>9
    <3>3. u >= PayloadCount => w.Tu = "PAYLOAD"
      <4>1. PayloadEnd \in Nat /\ (u >= PayloadEnd => GetType(u) = "VOID")
        BY TypeRanges
      <4>2. u < PayloadEnd
        BY <1>8, <4>1
      <4> QED  BY <1>9, <1>12, <4>2
    <3> QED  BY <3>1, <3>2, <3>3
  <2> QED  BY <1>7, <2>1, <2>2
<1>14. /\ b.us[1] = "PAYLOAD" /\ b.pt = w.Ti2
       /\ w.Tu = "PAYLOAD" => b.sy[2] = a.sy[2] \o <<Su(w)>>
       /\ w.Tu # "PAYLOAD" => b.sy[2] = a.sy[2] \o <<>>
       /\ InThreeParts(w) => b.sy[1] = a.sy[1] \o <<>> /\ b.pm = PartsIn(a, w)
       /\ ~InThreeParts(w) => b.pm = Mi2(w)
       /\ ~InThreeParts(w) /\ (a.pt = "PAYLOAD" \/ SamplesUp(t) = N) =>
            b.sy[1] = a.sy[1] \o <<PartsIn(a, w)>>
       /\ ~InThreeParts(w) /\ ~(a.pt = "PAYLOAD" \/ SamplesUp(t) = N) => b.sy[1] = a.sy[1] \o <<>>
  <2>1. /\ StatesTyped(a) /\ PartsTyped(a) /\ w.power2 > w.power1 /\ w.power1 > 0 /\ w.Ti1 = "PAYLOAD"
        /\ Begun(a, 1, w.power1) /\ w.tau = t
    BY <1>5, <1>6, <1>7, <1>9
  <2> QED  BY ONLY w \in WindowSet, <1>11, <1>13, <2>1, StrongOutput, ZenonT(60)
<1>15. Reached(b, 2, u + len)
  <2>1. w.at = starts[2] + u * OS /\ w.win_len = len
    BY <1>5, <1>9
  <2>2. /\ GetType(u) = "PAYLOAD" => b.sy[2] = a.sy[2] \o <<Su(w)>>
        /\ GetType(u) # "PAYLOAD" => b.sy[2] = a.sy[2] \o <<>>
    BY <1>9, <1>14
  <2>3. Reached(a, 2, u) /\ a.sy[2] \in Seq(Symbols) /\ GetType(u) # "VOID"
    BY <1>5, <1>8 DEF PartsTyped
  <2>4. 2 \in 1 .. 2 /\ len \in Nat
    BY Sizes
  <2>5. /\ GetType(u) = "QUARTER_DOWN" => len = N \div 4
        /\ GetType(u) # "QUARTER_DOWN" => len = N
    BY <1>9
  <2> QED  BY ONLY FramesTyped, NUp > 0, u \in Int, w \in WindowSet, <2>1, <2>2, <2>3, <2>4, <2>5,
              ReachedNext, ZenonT(60)
<1>16. PICK h \in 1 .. PayloadSymbols + 2 : Joined(b, n + len * OS, v, u + len, d + len, h)
  <2>1. CASE GetType(u) = "QUARTER_DOWN"
    <3>1. n = QuarterStart(2)
      <4>1. GetType(u) \notin {"VOID", "PAYLOAD"} /\ 2 \in 1 .. 2 /\ Reached(a, 2, u)
        BY <1>5, <2>1
      <4>2. starts[2] + u * OS = QuarterStart(2)
        BY <2>1, <4>1, InPreambleNext
      <4> QED  BY <1>5, <4>2
    <3>2. u > 0
      BY <1>7, <1>12, <2>1
    <3>3. /\ w.win_len = N \div 4 /\ w.at = n /\ w.tau = t /\ w.Tu = "QUARTER_DOWN" /\ w.Ti1 = "PAYLOAD"
          /\ w.Ti2 = GetType(d + SamplesUp(t)) /\ b.pt = w.Ti2
      BY <1>9, <1>14, <2>1
    <3>4. /\ InThreeParts(w) => b.sy[1] = a.sy[1] \o <<>> /\ b.pm = PartsIn(a, w)
          /\ ~InThreeParts(w) => b.pm = Mi2(w)
          /\ ~InThreeParts(w) /\ (a.pt = "PAYLOAD" \/ SamplesUp(t) = N) =>
               b.sy[1] = a.sy[1] \o <<PartsIn(a, w)>>
      BY <1>14
    <3>5. Stronger /\ ~TurnsInLast /\ d < PayloadEnd /\ PartsTyped(a) /\ Joined(a, n, t, u, d, g)
      BY <1>4, <1>5, <1>8 DEF Overlap
    <3>6. \E h \in 1 .. PayloadSymbols + 2 :
            Joined(b, n + SymbolItems \div 4, (t - SymbolItems \div 4) % SymbolItems,
                   u + N \div 4, d + N \div 4, h)
      BY ONLY FramesTyped, NUp > 0, n \in Nat, t \in 0 .. SymbolItems - 1, u \in Int, d \in Int,
              g \in 1 .. PayloadSymbols + 2, w \in WindowSet, <3>1, <3>2, <3>3, <3>4, <3>5,
              JoinedQuarter, ZenonT(60)
    <3>7. len * OS = SymbolItems \div 4 /\ len = N \div 4 /\ v = (t - SymbolItems \div 4) % SymbolItems
      BY <1>9, <2>1, Sizes
    <3> QED  BY <3>6, <3>7
  <2>2. CASE GetType(u) # "QUARTER_DOWN"
    <3>1. ~InThreeParts(w)
      BY <1>9, <2>2 DEF InThreeParts
    <3>2. /\ w.win_len = N /\ w.at = n /\ w.tau = t /\ w.Ti1 = "PAYLOAD"
          /\ w.Ti2 = GetType(d + SamplesUp(t)) /\ b.pt = w.Ti2 /\ b.pm = Mi2(w)
      BY <1>9, <1>14, <2>2, <3>1
    <3>3. /\ a.pt = "PAYLOAD" \/ SamplesUp(t) = N => b.sy[1] = a.sy[1] \o <<PartsIn(a, w)>>
          /\ ~(a.pt = "PAYLOAD" \/ SamplesUp(t) = N) => b.sy[1] = a.sy[1] \o <<>>
      BY <1>14, <3>1
    <3>4. d < PayloadEnd /\ PartsTyped(a) /\ Joined(a, n, t, u, d, g)
      BY <1>4, <1>8
    <3>5. \E h \in 1 .. PayloadSymbols + 2 : Joined(b, n + SymbolItems, t, u + N, d + N, h)
      BY ONLY FramesTyped, NUp > 0, n \in Nat, t \in 0 .. SymbolItems - 1, u \in Int, d \in Int,
              g \in 1 .. PayloadSymbols + 2, w \in WindowSet, <3>2, <3>3, <3>4, JoinedWhole, ZenonT(60)
    <3>6. len * OS = SymbolItems /\ len = N /\ v = t
      BY <1>9, <2>2, Sizes
    <3> QED  BY <3>5, <3>6
  <2> QED  BY <2>1, <2>2
<1>17. PICK m \in Int, e \in Int, i \in Int :
         /\ m = n + len * OS /\ e = u + len /\ i = d + len /\ nread' = m /\ m = starts[2] + e * OS
  <2>1. (u + len) * OS = u * OS + len * OS /\ u * OS \in Int /\ len * OS \in Int /\ len \in Int
    BY Sizes
  <2>2. starts[2] \in Int
    BY StateFacts, SMTT(60)
  <2>3. PICK x \in Int, y \in Int, z \in Int : x = u * OS /\ y = len * OS /\ z = (u + len) * OS /\ z = x + y
    BY <2>1
  <2>4. n + y = starts[2] + z
    <3>1. n = starts[2] + x
      BY <1>5, <2>3
    <3>2. z = x + y
      BY <2>3
    <3> QED  BY ONLY <2>2, n \in Nat, x \in Int, y \in Int, z \in Int, <3>1, <3>2
  <2>5. /\ n + len * OS = starts[2] + (u + len) * OS /\ n + len * OS \in Int
        /\ u + len \in Int /\ d + len \in Int
    BY <2>1, <2>3, <2>4, SMTT(60)
  <2> QED  BY <1>9, <2>5
<1>18. Follows(b, 2)'
  <2>1. /\ user_u'.frame = 2 /\ user_u'.cnt = e /\ nread' = starts[2] + e * OS
        /\ Reached(b, 2, e) /\ 2 \in 1 .. 2
    BY <1>9, <1>10, <1>15, <1>17
  <2> QED  BY <2>1, FollowsThen
<1>19. StrongTwo(b)'
  <2>1. /\ Joined(b, m, v, e, i, h) /\ nread' = m /\ m_tau' = v /\ user_u'.cnt = e /\ user_i'.cnt = i
        /\ user_i'.frame = 1 /\ Stronger /\ v \in Int /\ m_power2' > m_power1' /\ b.us[1] = "PAYLOAD"
    BY <1>1, <1>5, <1>9, <1>10, <1>14, <1>16, <1>17
  <2> QED  BY <1>18, <2>1, StrongThen
<1>20. PartsTyped(b)
  BY <1>11, StepParts
<1> QED  BY <1>1, <1>19, <1>20, TwoFramesThen

LEMMA MultiWindowTwo ==
  ASSUME FramesTyped, SynchroTyped, TwoUsers, NUp > 0, windows \in Seq(WindowSet),
         UNCHANGED <<starts, powers>>, Overlap,
         NEW a, KeepsPace(a), TwoFrames(a), NEW b, Moves(a, b), MultiWindow
  PROVE  TwoFrames(b)'
<1>1. m_sync_state = "MULTI_USER"
  BY DEF MultiWindow
<1> QED  BY <1>1, WeakMultiTwo, StrongMultiTwo DEF TwoFrames, MultiTwo

\* Where the windows are that follow a frame: behind symbol k of its payload at most when k
\* symbols of it have been output.
LEMMA ReachedWhere ==
  ASSUME FramesTyped, NUp > 0, NEW a, NEW f \in 1 .. 2, NEW c \in Int, Reached(a, f, c)
  PROVE  \E k \in 0 .. PayloadSymbols :
           /\ starts[f] + c * OS <= SymbolStart(f, k + 1)
           /\ k > 0 => Has(a, f, k)
<1>1. CASE c >= PayloadCount
  <2>1. PICK k \in 0 .. PayloadSymbols : Has(a, f, k) /\ starts[f] + c * OS = SymbolStart(f, k + 1)
    BY <1>1, ReachedSymbol
  <2>2. SymbolStart(f, k + 1) \in Int
    <3>1. k + 1 \in Int
      BY Sizes
    <3> QED  BY <3>1, SymbolPlaces
  <2> QED  BY <2>1, <2>2
<1>2. CASE c < PayloadCount
  <2>1. PICK e \in Nat : PayloadCount = c + e
    <3>1. PayloadCount \in Nat
      BY CountFacts
    <3>2. PayloadCount - c \in Nat /\ PayloadCount = c + (PayloadCount - c)
      BY <1>2, <3>1
    <3> QED  BY <3>2
  <2>2. PICK x \in Int, y \in Nat, z \in Int : x = c * OS /\ y = e * OS /\ z = PayloadCount * OS /\ z = x + y
    <3>1. (c + e) * OS = c * OS + e * OS /\ c * OS \in Int /\ e * OS \in Nat
      BY Sizes
    <3>2. PayloadCount * OS = c * OS + e * OS
      BY <2>1, <3>1
    <3>3. PayloadCount * OS \in Int
      BY CountFacts, Sizes
    <3> QED  BY <3>1, <3>2, <3>3
  <2>3. PICK s \in Nat : s = starts[f]
    BY FrameFacts
  <2>4. SymbolStart(f, 1) = s + z
    <3>1. PayloadStart(f) = starts[f] + PayloadCount * OS
      BY Places
    <3>2. SymbolStart(f, 1) = PayloadStart(f)
      BY SymbolPlaces
    <3> QED  BY <2>2, <2>3, <3>1, <3>2
  <2>5. s + x <= s + z
    BY <2>2
  <2>6. 0 \in 0 .. PayloadSymbols /\ 0 + 1 = 1 /\ ~(0 > 0)
    BY Sizes
  <2>7. starts[f] + c * OS <= SymbolStart(f, 0 + 1)
    BY <2>2, <2>3, <2>4, <2>5, <2>6
  <2> QED  BY <2>6, <2>7
<1>3. PayloadCount \in Nat
  BY CountFacts
<1> QED  BY <1>1, <1>2, <1>3

\* When the input is used up, all symbols of both frames have been output.
LEMMA AllOutput ==
  ASSUME FramesTyped, SynchroTyped, TwoUsers, NUp > 0, Overlap, nread + SymbolItems > FrameEnd(2),
         NEW a, TwoFrames(a)
  PROVE  Has(a, 1, PayloadSymbols) /\ Has(a, 2, PayloadSymbols)
<1>1. PICK P \in Nat : P = PayloadSymbols /\ P > 0
  BY MuAssumption
<1>2. PICK n \in Nat, S \in Nat, s1 \in Nat, s2 \in Nat, e \in Nat, l \in Int :
        /\ n = nread /\ S = SymbolItems /\ S > 0 /\ s1 = starts[1] /\ s2 = starts[2]
        /\ e = FrameEnd(1) /\ l = SymbolStart(2, P) /\ FrameEnd(2) = l + S
        /\ s1 < e /\ s2 < e /\ e + S <= l
  <2>1. /\ starts[1] \in Nat /\ starts[2] \in Nat /\ PayloadStart(1) \in Nat /\ FrameEnd(1) \in Nat
        /\ starts[1] + SymbolItems <= PayloadStart(1) /\ PayloadStart(1) <= starts[2]
        /\ starts[2] < FrameEnd(1) /\ FrameEnd(1) + SymbolItems <= SymbolStart(2, P)
    BY <1>1, OverlapOrder
  <2>2. FrameEnd(2) = SymbolStart(2, P) + SymbolItems /\ SymbolStart(2, P) \in Int
    <3>1. P \in Int /\ 2 \in 1 .. 2
      BY <1>1
    <3>2. FrameEnd(2) = SymbolStart(2, P + 1) /\ SymbolStart(2, P + 1) = SymbolStart(2, P) + SymbolItems
      BY <1>1, <3>1, SymbolPlaces
    <3> QED  BY <3>1, <3>2, SymbolPlaces
  <2>3. SymbolItems \in Nat /\ SymbolItems > 0 /\ nread \in Nat
    BY StateFacts, Sizes
  <2>4. starts[1] < FrameEnd(1)
    BY <2>1, <2>3
  <2> QED  BY <2>1, <2>2, <2>3, <2>4
<1>3. n > l /\ n > e + S
  BY <1>2
<1>4. ~Follows(a, 1)
  <2> SUFFICES ASSUME Follows(a, 1) PROVE FALSE
    OBVIOUS
  <2>1. PICK c \in Int : c = user_u.cnt /\ n = starts[1] + c * OS /\ Reached(a, 1, c)
    BY <1>2, StateFacts DEF Follows
  <2>2. PICK k \in 0 .. PayloadSymbols : starts[1] + c * OS <= SymbolStart(1, k + 1)
    <3>1. 1 \in 1 .. 2
      OBVIOUS
    <3> QED  BY <2>1, <3>1, ReachedWhere
  <2>3. k + 1 \in Int /\ P + 1 \in Int /\ k + 1 <= P + 1
    BY <1>1
  <2>4. SymbolStart(1, k + 1) <= SymbolStart(1, P + 1)
    BY <2>3, SymbolOrder
  <2>5. SymbolStart(1, P + 1) = e /\ SymbolStart(1, k + 1) \in Int
    BY <1>1, <1>2, <2>3, SymbolPlaces
  <2> QED  BY <1>2, <1>3, <2>1, <2>2, <2>4, <2>5
<1>5. CASE m_sync_state = "IDLE"
  <2>1. ~(nread <= starts[1])
    BY <1>2, <1>3
  <2> QED  BY <1>5, <2>1 DEF TwoFrames, IdleTwo
<1>6. CASE m_sync_state = "SINGLE_USER"
  <2>1. SecondAlone(a)
    BY <1>4, <1>6 DEF TwoFrames, SingleTwo, FirstAlone
  <2>2. ~Pending(a)
    BY <1>2, <1>3 DEF Pending
  <2>3. Has(a, 1, PayloadSymbols)
    BY <2>1, <2>2 DEF SecondAlone, Settled
  <2>4. PICK c \in Int : c = user_u.cnt /\ n = starts[2] + c * OS /\ Reached(a, 2, c)
    BY <1>2, <2>1, StateFacts DEF SecondAlone, Follows
  <2>5. PICK k \in 0 .. PayloadSymbols :
          starts[2] + c * OS <= SymbolStart(2, k + 1) /\ (k > 0 => Has(a, 2, k))
    <3>1. 2 \in 1 .. 2
      OBVIOUS
    <3> QED  BY <2>4, <3>1, ReachedWhere
  <2>6. k = P
    <3> SUFFICES ASSUME k < P PROVE FALSE
      BY <1>1
    <3>1. k + 1 \in Int /\ P \in Int /\ k + 1 <= P
      BY <1>1
    <3>2. SymbolStart(2, k + 1) <= SymbolStart(2, P) /\ SymbolStart(2, k + 1) \in Int
      BY <3>1, SymbolOrder, SymbolPlaces
    <3> QED  BY <1>2, <1>3, <2>4, <2>5, <3>2
  <2> QED  BY <1>1, <2>3, <2>5, <2>6
<1>7. CASE m_sync_state = "REALIGN_TO_NEW"
  BY <1>4, <1>7 DEF TwoFrames, NewTwo
<1>8. CASE m_sync_state = "MULTI_USER"
  <2>1. StrongTwo(a)
    BY <1>4, <1>8 DEF TwoFrames, MultiTwo, WeakTwo
  <2>2. PICK g \in 1 .. P + 2 : n + m_tau = SymbolStart(1, g)
    BY <1>1, <1>2, <2>1 DEF StrongTwo, Joined
  <2>3. m_tau \in Int /\ m_tau >= 0
    BY Sizes DEF SynchroTyped
  <2>4. g \in Int /\ P + 2 \in Int /\ g <= P + 2 /\ P + 1 \in Int /\ (P + 1) + 1 = P + 2
    BY <1>1, <2>2
  <2>5. SymbolStart(1, g) <= SymbolStart(1, P + 2) /\ SymbolStart(1, g) \in Int
    <3>1. 1 \in 1 .. 2
      OBVIOUS
    <3>2. SymbolStart(1, g) <= SymbolStart(1, P + 2)
      BY <2>4, <3>1, SymbolOrder
    <3>3. SymbolStart(1, g) \in Int
      BY <2>4, <3>1, SymbolPlaces
    <3> QED  BY <3>2, <3>3
  <2>6. SymbolStart(1, P + 2) = e + S
    <3>1. SymbolStart(1, P + 1) = e
      BY <1>1, <1>2, SymbolPlaces
    <3>2. SymbolStart(1, (P + 1) + 1) = SymbolStart(1, P + 1) + SymbolItems
      BY <2>4, SymbolPlaces
    <3> QED  BY <1>2, <2>4, <3>1, <3>2
  <2> QED  BY <1>2, <1>3, <2>2, <2>3, <2>5, <2>6
<1>9. CASE m_sync_state = "REALIGN_TO_PREV"
  <2>1. nread = FrameEnd(1)
    BY <1>9 DEF TwoFrames, PrevTwo
  <2> QED  BY <1>2, <1>3, <2>1
<1> QED  BY <1>5, <1>6, <1>7, <1>8, <1>9 DEF SynchroTyped, SyncStates

\* What is known of the two frames speaks of mu_synchro and of the state that the windows lead to.
LEMMA TwoFramesStay ==
  ASSUME UNCHANGED <<starts, powers, nread, m_sync_state, m_tau, user_u, user_i, m_power1, m_power2>>,
         NEW v, TwoFrames(v)
  PROVE  TwoFrames(v)'
<1>1. /\ starts' = starts /\ powers' = powers /\ nread' = nread /\ m_sync_state' = m_sync_state
      /\ m_tau' = m_tau /\ user_u' = user_u /\ user_i' = user_i
      /\ m_power1' = m_power1 /\ m_power2' = m_power2
  OBVIOUS
<1>2. /\ Stronger' <=> Stronger
      /\ FrameEnd(1)' = FrameEnd(1)
      /\ \A f, j : SymbolStart(f, j)' = SymbolStart(f, j)
      /\ \A f, n : Has(v, f, n)' <=> Has(v, f, n)
      /\ \A f, c : Reached(v, f, c)' <=> Reached(v, f, c)
  BY <1>1, OverlapStays
<1>3. /\ Fresh(v)' <=> Fresh(v)
      /\ Settled(v)' <=> Settled(v)
      /\ PartsTyped(v)' <=> PartsTyped(v)
      /\ \A n, t, c : Waits(v, n, t, c)' <=> Waits(v, n, t, c)
      /\ \A n, t, u, d, g : Joined(v, n, t, u, d, g)' <=> Joined(v, n, t, u, d, g)
  BY <1>1, OutputsStay
<1>4. NextSymbolCount' = NextSymbolCount
  BY <1>1 DEF NextSymbolCount, Samples
<1>5. \A f : Follows(v, f)' <=> Follows(v, f)
  BY <1>1, <1>2 DEF Follows
<1>6. Pending(v)' <=> Pending(v)
  BY <1>1, <1>2 DEF Pending
<1>7. IdleTwo(v)' <=> IdleTwo(v)
  BY <1>1, <1>2, <1>3 DEF IdleTwo
<1>8. SingleTwo(v)' <=> SingleTwo(v)
  BY <1>1, <1>3, <1>5, <1>6 DEF SingleTwo, FirstAlone, SecondAlone, PayloadCount
<1>9. NewTwo(v)' <=> NewTwo(v)
  BY <1>1, <1>2, <1>3, <1>5 DEF NewTwo
<1>10. WeakTwo(v)' <=> WeakTwo(v)
  <2>1. Waits(v, nread, m_tau, NextSymbolCount)' <=> Waits(v, nread, m_tau, NextSymbolCount)
    BY <1>1, <1>3, <1>4
  <2> QED  BY <1>1, <1>2, <1>5, <2>1 DEF WeakTwo, PayloadEnd, PayloadCount
<1>11. StrongTwo(v)' <=> StrongTwo(v)
  <2>1. \A g : Joined(v, nread, m_tau, user_u.cnt, user_i.cnt, g)'
                 <=> Joined(v, nread, m_tau, user_u.cnt, user_i.cnt, g)
    BY <1>1, <1>3
  <2> QED  BY <1>1, <1>2, <1>5, <2>1 DEF StrongTwo
<1>12. PrevTwo(v)' <=> PrevTwo(v)
  <2>1. Waits(v, nread, m_tau, NextSymbolCount)' <=> Waits(v, nread, m_tau, NextSymbolCount)
    BY <1>1, <1>3, <1>4
  <2> QED  BY <1>1, <1>2, <2>1 DEF PrevTwo
<1>13. MultiTwo(v)' <=> MultiTwo(v)
  BY <1>1, <1>10, <1>11 DEF MultiTwo
<1> QED  BY <1>3, <1>7, <1>8, <1>9, <1>12, <1>13 DEF TwoFrames

\* The windows lead to a state in which the outputs for both frames are right so far.
BothInv == Overlap => \E v : Leads(Current, windows, v) /\ KeepsPace(v) /\ TwoFrames(v)

LEMMA InitBoth == Init => BothInv
<1> SUFFICES ASSUME Init PROVE BothInv
  OBVIOUS
<1>1. FramesTyped /\ nread = 0 /\ m_sync_state = "IDLE" /\ windows = <<>>
  BY DEF Init, SynchroInit, FramesTyped
<1>2. PICK v : Leads(Current, windows, v) /\ KeepsPace(v)
  BY InitPace DEF PaceInv
<1>3. v = Current
  <2>1. Len(windows) = 0
    BY <1>1
  <2> QED  BY <1>2, <2>1 DEF Leads
<1>4. v.sy[1] = <<>> /\ v.sy[2] = <<>> /\ v.pt = "NONE" /\ v.pm = <<>> /\ v.us[1] = "NONE"
  <2>1. /\ symbols = [u \in Users |-> <<>>] /\ prev_Ti2 = "NONE" /\ prev_Mi2 = <<>>
        /\ user_states = [u \in Users |-> "NONE"] /\ 1 \in Users /\ 2 \in Users
    BY DEF Init, AggregInit, Users
  <2> QED  BY <1>3, <2>1 DEF Current
<1>5. Has(v, 1, 0) /\ Has(v, 2, 0)
  <2>1. Len(<<>>) = 0 /\ 1 .. 0 = {}
    OBVIOUS
  <2> QED  BY <1>4, <2>1 DEF Has
<1>6. nread <= starts[1]
  BY <1>1, FrameFacts
<1>7. PartsTyped(v)
  <2>1. <<>> \in Symbols
    BY DEF Symbols
  <2>2. <<>> \in Seq(Symbols)
    OBVIOUS
  <2> QED  BY <1>4, <2>1, <2>2 DEF PartsTyped
<1>8. TwoFrames(v)
  BY <1>1, <1>4, <1>5, <1>6, <1>7 DEF TwoFrames, IdleTwo, SingleTwo, NewTwo, MultiTwo, PrevTwo, Fresh
<1> QED  BY <1>2, <1>8 DEF BothInv

LEMMA SynchroBoth ==
  ASSUME Distinguishable, IInv, BothInv, Synchro
  PROVE  BothInv'
<1>1. FramesTyped /\ SynchroTyped /\ windows \in Seq(WindowSet)
  BY TypedParts DEF IInv, SynchroTyped
<1>2. SyncFrame /\ UNCHANGED <<starts, powers>> /\ UNCHANGED aggregVars
  BY DEF Synchro
<1>3. (Overlap' <=> Overlap) /\ NUp > 0
  BY <1>2, OverlapStays DEF Distinguishable
<1> SUFFICES ASSUME Overlap PROVE \E v : Leads(Current, windows, v)' /\ KeepsPace(v)' /\ TwoFrames(v)'
  BY <1>3 DEF BothInv
<1>4. OneUser /\ NewUserNext /\ TwoUsers
  BY <1>1, OverlapOrder DEF IInv, SyncInv
<1>5. PICK a : Leads(Current, windows, a) /\ KeepsPace(a) /\ TwoFrames(a)
  BY DEF BothInv
<1>6. PICK b : KeepsPace(b)' /\ Moves(a, b)
  BY <1>5, SynchroMoves
<1>7. windows' = windows => b = a
  BY <1>1, <1>6, MovesNothing
<1>8. TwoFrames(b)'
  <2>1. CASE FirstUser
    <3>1. b = a
      BY <1>7, <2>1 DEF FirstUser
    <3>2. TwoFrames(a)'
      BY <1>1, <1>2, <1>5, <2>1, FirstUserTwo
    <3> QED  BY <3>1, <3>2
  <2>2. CASE Idle
    <3>1. b = a
      BY <1>7, <2>2 DEF Idle
    <3>2. TwoFrames(a)'
      BY <1>1, <1>2, <1>5, <2>2, IdleStepTwo
    <3> QED  BY <3>1, <3>2
  <2>3. CASE FrameEnds
    <3>1. b = a
      BY <1>7, <2>3 DEF FrameEnds
    <3>2. TwoFrames(a)'
      BY <1>1, <1>2, <1>3, <1>5, <2>3, FrameEndsTwo
    <3> QED  BY <3>1, <3>2
  <2>4. CASE IgnoreWeak
    BY <1>1, <1>4, <2>4, IgnoreWeakTwo
  <2>5. CASE AcceptSecond
    <3>1. b = a
      BY <1>7, <2>5 DEF AcceptSecond
    <3>2. TwoFrames(a)'
      BY <1>1, <1>2, <1>4, <1>5, <2>5, AcceptSecondTwo
    <3> QED  BY <3>1, <3>2
  <2>6. CASE SingleWindow
    BY <1>1, <1>2, <1>3, <1>5, <1>6, <2>6, SingleWindowTwo
  <2>7. CASE RealignToNew
    BY <1>1, <1>2, <1>3, <1>4, <1>5, <1>6, <2>7, RealignToNewTwo
  <2>8. CASE RealignToPrev
    BY <1>1, <1>2, <1>3, <1>4, <1>5, <1>6, <2>8, RealignToPrevTwo
  <2>9. CASE UserEnds
    <3>1. b = a
      BY <1>7, <2>9 DEF UserEnds
    <3>2. TwoFrames(a)'
      BY <1>1, <1>2, <1>3, <1>4, <1>5, <2>9, UserEndsTwo
    <3> QED  BY <3>1, <3>2
  <2>10. CASE MultiWindow
    BY <1>1, <1>2, <1>3, <1>4, <1>5, <1>6, <2>10, MultiWindowTwo
  <2> QED
    BY <1>2, <2>1, <2>2, <2>3, <2>4, <2>5, <2>6, <2>7, <2>8, <2>9, <2>10 DEF SyncFrame
<1>9. Leads(Current, windows, b)'
  BY <1>1, <1>2, <1>5, <1>6, LeadsMoves
<1> QED  BY <1>6, <1>8, <1>9

LEMMA AggregateBoth ==
  ASSUME IInv, BothInv, Aggregate
  PROVE  BothInv'
<1>1. windows \in Seq(WindowSet) /\ ProcessWindow
  BY TypedParts DEF IInv, SynchroTyped, Aggregate
<1>2. Overlap' <=> Overlap
  BY OverlapStays DEF Aggregate
<1> SUFFICES ASSUME Overlap PROVE \E v : Leads(Current, windows, v)' /\ KeepsPace(v)' /\ TwoFrames(v)'
  BY <1>2 DEF BothInv
<1>3. PICK v : Leads(Current, windows, v) /\ KeepsPace(v) /\ TwoFrames(v)
  BY DEF BothInv
<1>4. Leads(Current, windows, v)'
  BY <1>1, <1>3, LeadsProcess
<1>5. KeepsPace(v)' /\ TwoFrames(v)'
  BY <1>3, PaceStays, TwoFramesStay DEF Aggregate
<1> QED  BY <1>4, <1>5

LEMMA UnchangedBoth ==
  ASSUME BothInv, UNCHANGED vars
  PROVE  BothInv'
<1>1. Overlap' <=> Overlap
  BY OverlapStays DEF vars
<1> SUFFICES ASSUME Overlap PROVE \E v : Leads(Current, windows, v)' /\ KeepsPace(v)' /\ TwoFrames(v)'
  BY <1>1 DEF BothInv
<1>2. PICK v : Leads(Current, windows, v) /\ KeepsPace(v) /\ TwoFrames(v)
  BY DEF BothInv
<1>3. Leads(Current, windows, v)'
  BY <1>2, LeadsStays
<1>4. KeepsPace(v)' /\ TwoFrames(v)'
  BY <1>2, PaceStays, TwoFramesStay DEF vars, synchroVars
<1> QED  BY <1>3, <1>4

LEMMA BothInvariant == ASSUME Distinguishable PROVE Spec => [](IInv /\ BothInv)
<1>1. Init => IInv /\ BothInv
  BY InitIInv, InitBoth
<1>2. IInv /\ BothInv /\ [Next]_vars => (IInv /\ BothInv)'
  <2> SUFFICES ASSUME IInv, BothInv, [Next]_vars PROVE (IInv /\ BothInv)'
    OBVIOUS
  <2>1. CASE Synchro
    BY <2>1, SynchroStep, SynchroBoth
  <2>2. CASE Aggregate
    BY <2>2, AggregateStep, AggregateBoth
  <2>3. CASE UNCHANGED vars
    BY <2>3, UnchangedIInv, UnchangedBoth
  <2> QED  BY <2>1, <2>2, <2>3 DEF Next
<1> QED  BY <1>1, <1>2, PTL DEF Spec

\* All symbols of a frame, once they have been output.
LEMMA HasAll ==
  ASSUME NEW f \in 1 .. 2, NEW a, Has(a, f, PayloadSymbols), a.sy = symbols
  PROVE  AllOf(f, symbols[f])
<1> DEFINE fs == [k \in 1 .. PayloadSymbols |-> f]
           js == [k \in 1 .. PayloadSymbols |-> k]
<1>1. PICK n \in Nat : n = PayloadSymbols
  BY Sizes
<1>2. Len(js) = n /\ \A k \in 1 .. n : fs[k] = f /\ js[k] = k
  BY <1>1
<1> HIDE DEF fs, js
<1>3. PICK s : s = symbols[f]
  OBVIOUS
<1>4. Len(s) = n /\ \A k \in 1 .. n : IsSymbol(s[k], f, k)
  BY <1>1, <1>3 DEF Has
<1>5. Are(s, fs, js)
  BY <1>2, <1>4 DEF Are
<1> QED  BY <1>3, <1>5 DEF AllOf, fs, js

LEMMA BothComplete ==
  ASSUME IInv, NUp > 0, FramesInside, BothInv
  PROVE  BothDecoded
<1> SUFFICES ASSUME Finished, Overlap PROVE AllOf(1, symbols[1]) /\ AllOf(2, symbols[2])
  BY DEF BothDecoded, Overlap
<1>1. FramesTyped /\ SynchroTyped
  BY TypedParts DEF IInv
<1>2. TwoUsers
  BY <1>1, OverlapOrder DEF IInv, SyncInv
<1>3. PICK v : Leads(Current, windows, v) /\ TwoFrames(v)
  BY DEF BothInv
<1>4. v.sy = symbols
  <2>1. Len(windows) = 0
    BY DEF Finished
  <2> QED  BY <1>3, <2>1 DEF Leads, Current
<1>5. nread + SymbolItems > FrameEnd(2)
  <2>1. PICK s \in Nat, q \in Nat, z \in Nat, m \in Nat :
          s = starts[2] /\ q = PayloadCount * OS /\ z = PayloadSymbols * SymbolItems /\ m = MaxItems
    <3>1. PayloadCount * OS \in Nat /\ PayloadSymbols * SymbolItems \in Nat
      BY CountFacts, Sizes
    <3> QED  BY <1>1, <3>1, FrameFacts, MuAssumption
  <2>2. s + q + z <= m
    BY <1>1, <2>1 DEF FramesInside, FramesTyped
  <2>3. FrameEnd(2) = s + q + z
    <3>1. 2 \in 1 .. 2 /\ 1 \in Int
      OBVIOUS
    <3>2. PayloadStart(2) = starts[2] + PayloadCount * OS
      BY <1>1, <3>1, Places
    <3>3. FrameEnd(2) = PayloadStart(2) + PayloadSymbols * SymbolItems
      BY <1>1, <3>1, SymbolPlaces
    <3> QED  BY <2>1, <3>2, <3>3
  <2>4. nread + SymbolItems > m /\ nread \in Nat /\ SymbolItems \in Nat
    BY <1>1, <2>1, StateFacts, Sizes DEF Finished
  <2> QED  BY <2>2, <2>3, <2>4
<1>6. Has(v, 1, PayloadSymbols) /\ Has(v, 2, PayloadSymbols)
  BY <1>1, <1>2, <1>3, <1>5, AllOutput
<1> QED  BY <1>4, <1>6, HasAll

(***************************************************************************)
(* Of two frames that overlap, the second beginning in the payload of the  *)
(* first and not refused, every payload symbol is output, in order, for    *)
(* the right user, for frames of any lengths and powers and at any offset  *)
(* but where TurnsInLast or Together: mu_synchro's windows and the parts   *)
(* that ml_aggreg joins are the symbols, all of them and no more.          *)
(***************************************************************************)
THEOREM BothFramesDecoded ==
  ASSUME Distinguishable, FramesInside PROVE Spec => []BothDecoded
<1>1. NUp > 0
  BY DEF Distinguishable
<1>2. IInv /\ BothInv => BothDecoded
  BY <1>1, BothComplete
<1> QED  BY <1>2, BothInvariant, PTL
=============================================================================
