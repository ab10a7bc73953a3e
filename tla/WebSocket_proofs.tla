-------------------------- MODULE WebSocket_proofs --------------------------
(***************************************************************************)
(* WebSocket: whatever the client's frames, in whatever form their lengths *)
(* are, wherever the stream is cut and whoever sends beside the handlers,  *)
(* handlers and answers get the frames in order, whole and with their own  *)
(* payload, senders are told the truth, and the handshake comes first.     *)
(*                                                                         *)
(* What the server has not taken is a stretch of the client's stream, and  *)
(* the invariant says at which byte of which frame it begins in every      *)
(* place the server can be.                                                *)
(***************************************************************************)
EXTENDS WebSocket, SequenceTheorems, Induction, TLAPS

(* The recursive function of Picked(): it exists, and any two of them agree *)
(* where both are defined.                                                  *)
Picks(g, n, S, val) ==
  g = [i \in 0 .. n |-> IF i = 0 THEN <<>> ELSE IF i \in S THEN Append(g[i - 1], val[i]) ELSE g[i - 1]]

LEMMA PicksExist ==
  ASSUME NEW n \in Nat, NEW S, NEW val
  PROVE  \E g : Picks(g, n, S, val)
<1> DEFINE T == {m \in Nat : \E g : Picks(g, m, S, val)}
<1>1. 0 \in T
  <2> DEFINE h == [i \in 0 .. 0 |-> <<>>]
  <2>1. h = [i \in 0 .. 0 |-> IF i = 0 THEN <<>> ELSE IF i \in S THEN Append(h[i - 1], val[i]) ELSE h[i - 1]]
    <3>1. \A i \in 0 .. 0 : i = 0
      OBVIOUS
    <3> QED
      BY <3>1, Zenon
  <2>2. Picks(h, 0, S, val)
    BY <2>1 DEF Picks
  <2> QED
    BY <2>2
<1>2. ASSUME NEW m \in Nat, m \in T PROVE m + 1 \in T
  <2>1. PICK g : Picks(g, m, S, val)
    BY <1>2
  <2> DEFINE h == [i \in 0 .. m + 1 |-> IF i = m + 1 THEN IF m + 1 \in S THEN Append(g[m], val[m + 1]) ELSE g[m]
                                                     ELSE g[i]]
  <2>2. \A i \in 0 .. m : g[i] = IF i = 0 THEN <<>> ELSE IF i \in S THEN Append(g[i - 1], val[i]) ELSE g[i - 1]
    BY <2>1 DEF Picks
  <2>3. \A i \in 0 .. m + 1 : h[i] = IF i = 0 THEN <<>> ELSE IF i \in S THEN Append(h[i - 1], val[i]) ELSE h[i - 1]
    <3> TAKE i \in 0 .. m + 1
    <3>1. CASE i = m + 1
      <4>1. i # 0 /\ i - 1 = m /\ m \in 0 .. m + 1 /\ m # m + 1
        BY <3>1
      <4>2. h[m] = g[m] /\ h[i] = IF m + 1 \in S THEN Append(g[m], val[m + 1]) ELSE g[m]
        BY <3>1, <4>1
      <4> HIDE DEF h
      <4> QED
        BY <3>1, <4>1, <4>2
    <3>2. CASE i # m + 1
      <4>1. i \in 0 .. m /\ (i # 0 => i - 1 \in 0 .. m + 1 /\ i - 1 # m + 1)
        BY <3>2
      <4>2. h[i] = g[i] /\ (i # 0 => h[i - 1] = g[i - 1])
        BY <3>2, <4>1
      <4> HIDE DEF h
      <4> QED
        BY <2>2, <4>1, <4>2
    <3> QED
      BY <3>1, <3>2
  <2>4. Picks(h, m + 1, S, val)
    <3>1. h = [i \in 0 .. m + 1 |-> h[i]]
      OBVIOUS
    <3> HIDE DEF h
    <3> QED
      BY <2>3, <3>1 DEF Picks
  <2> HIDE DEF h
  <2> QED
    BY <2>4
<1> HIDE DEF T
<1>3. n \in T
  BY <1>1, <1>2, NatSetInduction
<1> QED
  BY <1>3 DEF T

LEMMA PicksAgree ==
  ASSUME NEW n \in Nat, NEW m \in Nat, n <= m, NEW S, NEW val, NEW T, NEW w,
         \A i \in 1 .. n : (i \in S <=> i \in T) /\ (i \in S => val[i] = w[i]),
         NEW g, NEW h, Picks(g, n, S, val), Picks(h, m, T, w)
  PROVE  g[n] = h[n]
<1> DEFINE Z == {k \in Nat : k <= n => g[k] = h[k]}
<1>0. /\ \A i \in 0 .. n : g[i] = IF i = 0 THEN <<>> ELSE IF i \in S THEN Append(g[i - 1], val[i]) ELSE g[i - 1]
      /\ \A i \in 0 .. n : h[i] = IF i = 0 THEN <<>> ELSE IF i \in T THEN Append(h[i - 1], w[i]) ELSE h[i - 1]
  <2>1. \A i \in 0 .. n : g[i] = IF i = 0 THEN <<>> ELSE IF i \in S THEN Append(g[i - 1], val[i]) ELSE g[i - 1]
    BY DEF Picks
  <2>2. \A i \in 0 .. m : h[i] = IF i = 0 THEN <<>> ELSE IF i \in T THEN Append(h[i - 1], w[i]) ELSE h[i - 1]
    BY DEF Picks
  <2>3. \A i \in 0 .. n : i \in 0 .. m
    OBVIOUS
  <2> QED
    BY <2>1, <2>2, <2>3
<1>1. 0 \in Z
  BY <1>0
<1>2. ASSUME NEW k \in Nat, k \in Z PROVE k + 1 \in Z
  <2> SUFFICES ASSUME k + 1 <= n PROVE g[k + 1] = h[k + 1]
    OBVIOUS
  <2>1. k + 1 \in 0 .. n /\ k + 1 \in 1 .. n /\ k + 1 # 0 /\ (k + 1) - 1 = k /\ k <= n
    OBVIOUS
  <2>2. g[k] = h[k]
    BY <1>2, <2>1
  <2> QED
    BY <1>0, <2>1, <2>2
<1> HIDE DEF Z
<1>3. n \in Z
  BY <1>1, <1>2, NatSetInduction
<1> QED
  BY <1>3 DEF Z

LEMMA PickedIs ==
  ASSUME NEW n \in Nat, NEW S, NEW val
  PROVE  \E g : Picks(g, n, S, val) /\ Picked(n, S, val) = g[n]
<1> DEFINE g == CHOOSE f : Picks(f, n, S, val)
<1>1. Picks(g, n, S, val)
  BY PicksExist
<1>2. Picked(n, S, val) = g[n]
  BY DEF Picked, Picks
<1> QED
  BY <1>1, <1>2

(* What is picked depends on what is there only. *)
LEMMA PickedSame ==
  ASSUME NEW n \in Nat, NEW S, NEW val, NEW T, NEW w,
         \A i \in 1 .. n : (i \in S <=> i \in T) /\ (i \in S => val[i] = w[i])
  PROVE  Picked(n, S, val) = Picked(n, T, w)
<1>1. PICK g : Picks(g, n, S, val) /\ Picked(n, S, val) = g[n]
  BY PickedIs
<1>2. PICK h : Picks(h, n, T, w) /\ Picked(n, T, w) = h[n]
  BY PickedIs
<1>3. n <= n
  OBVIOUS
<1> QED
  BY <1>1, <1>2, <1>3, PicksAgree

LEMMA PickedNone == ASSUME NEW S, NEW val PROVE Picked(0, S, val) = <<>>
<1>1. PICK g : Picks(g, 0, S, val) /\ Picked(0, S, val) = g[0]
  BY PickedIs
<1>2. 0 \in 0 .. 0
  OBVIOUS
<1>3. g[0] = <<>>
  BY <1>1, <1>2 DEF Picks
<1> QED
  BY <1>1, <1>3

LEMMA PickedNext ==
  ASSUME NEW n \in Nat, NEW S, NEW val
  PROVE  Picked(n + 1, S, val) = IF n + 1 \in S THEN Append(Picked(n, S, val), val[n + 1]) ELSE Picked(n, S, val)
<1>1. PICK g : Picks(g, n, S, val) /\ Picked(n, S, val) = g[n]
  BY PickedIs
<1>2. PICK h : Picks(h, n + 1, S, val) /\ Picked(n + 1, S, val) = h[n + 1]
  BY PickedIs
<1>3. g[n] = h[n]
  <2>1. n <= n + 1 /\ n + 1 \in Nat
    OBVIOUS
  <2> QED
    BY <1>1, <1>2, <2>1, PicksAgree
<1>4. n + 1 \in 0 .. n + 1 /\ n + 1 # 0 /\ (n + 1) - 1 = n
  OBVIOUS
<1>5. h[n + 1] = IF n + 1 \in S THEN Append(h[n], val[n + 1]) ELSE h[n]
  BY <1>2, <1>4 DEF Picks
<1> QED
  BY <1>1, <1>2, <1>3, <1>5

LEMMA PickedSeq ==
  ASSUME NEW n \in Nat, NEW S, NEW val, NEW V, \A i \in 1 .. n : i \in S => val[i] \in V
  PROVE  Picked(n, S, val) \in Seq(V)
<1> DEFINE Z == {k \in Nat : k <= n => Picked(k, S, val) \in Seq(V)}
<1>1. 0 \in Z
  <2>1. Picked(0, S, val) = <<>>
    BY PickedNone
  <2>2. <<>> \in Seq(V)
    BY EmptySeq
  <2> QED
    BY <2>1, <2>2
<1>2. ASSUME NEW k \in Nat, k \in Z PROVE k + 1 \in Z
  <2> SUFFICES ASSUME k + 1 <= n PROVE Picked(k + 1, S, val) \in Seq(V)
    OBVIOUS
  <2>1. Picked(k, S, val) \in Seq(V) /\ k + 1 \in 1 .. n
    BY <1>2
  <2>2. Picked(k + 1, S, val) = IF k + 1 \in S THEN Append(Picked(k, S, val), val[k + 1]) ELSE Picked(k, S, val)
    BY PickedNext
  <2>3. k + 1 \in S => val[k + 1] \in V
    BY <2>1
  <2> DEFINE p == Picked(k, S, val)
             v == val[k + 1]
  <2>4. k + 1 \in S => Append(p, v) \in Seq(V)
    BY <2>1, <2>3, AppendProperties
  <2> QED
    BY <2>1, <2>2, <2>4
<1> HIDE DEF Z
<1>3. n \in Z
  BY <1>1, <1>2, NatSetInduction
<1> QED
  BY <1>3 DEF Z

(* What is picked up to a place is a prefix of what is picked up to a later one. *)
LEMMA PickedPrefix ==
  ASSUME NEW n \in Nat, NEW m \in Nat, m <= n, NEW S, NEW val, NEW V, \A i \in 1 .. n : i \in S => val[i] \in V
  PROVE  IsPrefix(Picked(m, S, val), Picked(n, S, val))
<1> DEFINE P(k) == Picked(k, S, val)
           Z == {d \in Nat : m + d <= n => Len(P(m)) <= Len(P(m + d)) /\ \A i \in 1 .. Len(P(m)) : P(m + d)[i] = P(m)[i]}
<1>0. \A k \in 0 .. n : P(k) \in Seq(V)
  BY PickedSeq
<1>1. 0 \in Z
  <2>1. m + 0 = m
    OBVIOUS
  <2>2. Len(P(m)) \in Nat
    BY <1>0, LenProperties
  <2> HIDE DEF P
  <2> QED
    BY <2>1, <2>2
<1>2. ASSUME NEW d \in Nat, d \in Z PROVE d + 1 \in Z
  <2> SUFFICES ASSUME m + (d + 1) <= n
               PROVE  Len(P(m)) <= Len(P(m + (d + 1))) /\ \A i \in 1 .. Len(P(m)) : P(m + (d + 1))[i] = P(m)[i]
    OBVIOUS
  <2>1. m + d \in 0 .. n /\ m \in 0 .. n /\ m + (d + 1) = (m + d) + 1 /\ (m + d) + 1 \in 1 .. n
    OBVIOUS
  <2> DEFINE p == P(m)
             q == P(m + d)
             r == P((m + d) + 1)
             v == val[(m + d) + 1]
  <2>2. Len(p) <= Len(q) /\ \A i \in 1 .. Len(p) : q[i] = p[i]
    BY <1>2, <2>1
  <2>3. r = IF (m + d) + 1 \in S THEN Append(q, v) ELSE q
    BY <2>1, PickedNext
  <2>4. p \in Seq(V) /\ q \in Seq(V)
    BY <1>0, <2>1
  <2>5. (m + d) + 1 \in S => v \in V
    BY <2>1
  <2>6. P(m + (d + 1)) = r
    BY <2>1
  <2> HIDE DEF p, q, r, v, P
  <2>7. CASE (m + d) + 1 \in S
    <3>1. r = Append(q, v) /\ v \in V
      BY <2>3, <2>5, <2>7
    <3>2. Len(r) = Len(q) + 1 /\ \A i \in 1 .. Len(q) : r[i] = q[i]
      BY <2>4, <3>1, AppendProperties
    <3>3. Len(p) \in Nat /\ Len(q) \in Nat
      BY <2>4, LenProperties
    <3>4. Len(p) <= Len(r) /\ \A i \in 1 .. Len(p) : r[i] = p[i]
      BY <2>2, <3>2, <3>3
    <3> QED
      BY <2>6, <3>4 DEF p
  <2>8. CASE (m + d) + 1 \notin S
    BY <2>2, <2>3, <2>6, <2>8 DEF p
  <2> QED
    BY <2>7, <2>8
<1> HIDE DEF Z
<1>3. n - m \in Z
  BY <1>1, <1>2, NatSetInduction
<1>4. m + (n - m) = n /\ n - m \in Nat
  OBVIOUS
<1> DEFINE p == P(m)
           q == P(n)
<1>5. Len(p) <= Len(q) /\ \A i \in 1 .. Len(p) : q[i] = p[i]
  BY <1>3, <1>4 DEF Z
<1>6. p \in Seq(V) /\ q \in Seq(V)
  BY <1>0
<1> HIDE DEF P, p, q
<1>7. SubSeq(p, 1, Len(p)) = p
  BY <1>6, SubSeqFull
<1>8. SubSeq(q, 1, Len(p)) = p
  <2>1. Len(p) \in Nat /\ Len(q) \in Nat
    BY <1>6, LenProperties
  <2>2. \A i \in 1 .. Len(p) : q[i] \in V
    BY <1>5, <1>6, <2>1, ElementOfSeq
  <2> DEFINE s == SubSeq(q, 1, Len(p))
  <2>3. s \in Seq(V) /\ Len(s) = (IF 1 <= Len(p) THEN Len(p) - 1 + 1 ELSE 0) /\ \A i \in 1 .. Len(p) - 1 + 1 : s[i] = q[1 + i - 1]
    BY <2>1, <2>2, SubSeqProperties
  <2> HIDE DEF s
  <2>4. Len(s) = Len(p) /\ \A i \in 1 .. Len(s) : s[i] = p[i]
    BY <1>5, <2>1, <2>3
  <2>5. s = p
    BY <1>6, <2>3, <2>4, SeqEqual
  <2> QED
    BY <2>5 DEF s
<1>9. IsPrefix(p, q)
  BY <1>5, <1>7, <1>8 DEF IsPrefix
<1> QED
  BY <1>9 DEF p, q, P

(* Frames as the client builds them. *)
FrameLen(f) == HeadLen(f) + f.len
GoodFrames(fs) == fs \in Seq(ClientFrames) /\ \A k \in DOMAIN fs : IsFrame(fs[k])

LEMMA FrameLenNat ==
  ASSUME NEW f \in ClientFrames
  PROVE  /\ f.len \in Nat /\ f.ext \in {0, 2, 8} /\ f.masked \in BOOLEAN
         /\ HeadLen(f) \in Nat /\ HeadLen(f) = 2 + f.ext + (IF f.masked THEN 4 ELSE 0)
         /\ FrameLen(f) \in Nat /\ FrameLen(f) = HeadLen(f) + f.len /\ FrameLen(f) >= 2
<1>1. f.len \in Nat /\ f.ext \in {0, 2, 8} /\ f.masked \in BOOLEAN
  <2>1. f.len \in Nat
    BY SMT DEF ClientFrames
  <2>2. f.ext \in {0, 2, 8}
    BY SMT DEF ClientFrames
  <2>3. f.masked \in BOOLEAN
    BY SMT DEF ClientFrames
  <2> QED
    BY <2>1, <2>2, <2>3
<1>2. HeadLen(f) = 2 + f.ext + (IF f.masked THEN 4 ELSE 0)
  BY DEF HeadLen
<1>3. HeadLen(f) \in Nat /\ HeadLen(f) >= 2
  <2>1. CASE f.masked
    BY <1>1, <1>2, <2>1
  <2>2. CASE ~f.masked
    BY <1>1, <1>2, <2>2
  <2> QED
    BY <2>1, <2>2
<1> QED
  BY <1>1, <1>2, <1>3 DEF FrameLen

(* The byte at i of frame k, where the frame is over the first of the next. *)
Position(fs, k, i) == IF i <= FrameLen(fs[k]) THEN <<k, i>> ELSE <<k + 1, 1>>

(* A stretch of what the client sends. *)
Stretch(fs, s) ==
  /\ s \in Seq(Nat \X Nat)
  /\ \A j \in 1 .. Len(s) : s[j][1] \in DOMAIN fs /\ s[j][2] \in 1 .. FrameLen(fs[s[j][1]])
  /\ \A j \in 1 .. Len(s) - 1 : s[j + 1] = Position(fs, s[j][1], s[j][2] + 1)

LEMMA StretchPart ==
  ASSUME NEW fs, NEW s, Stretch(fs, s), NEW m \in Nat, NEW n \in Nat, 1 <= m, n <= Len(s)
  PROVE  /\ Stretch(fs, SubSeq(s, m, n))
         /\ Len(SubSeq(s, m, n)) = IF m <= n THEN n - m + 1 ELSE 0
         /\ \A i \in 1 .. n - m + 1 : SubSeq(s, m, n)[i] = s[m + i - 1]
<1>1. s \in Seq(Nat \X Nat) /\ Len(s) \in Nat
  BY LenProperties DEF Stretch
<1>2. \A i \in m .. n : s[i] \in Nat \X Nat
  BY <1>1, ElementOfSeq
<1> DEFINE t == SubSeq(s, m, n)
<1>3. /\ t \in Seq(Nat \X Nat) /\ Len(t) = (IF m <= n THEN n - m + 1 ELSE 0)
      /\ \A i \in 1 .. n - m + 1 : t[i] = s[m + i - 1]
  BY <1>2, SubSeqProperties
<1> HIDE DEF t
<1>4. ASSUME NEW j \in 1 .. Len(t)
      PROVE  t[j][1] \in DOMAIN fs /\ t[j][2] \in 1 .. FrameLen(fs[t[j][1]])
  <2>0. m <= n /\ j \in 1 .. n - m + 1
    BY <1>3
  <2>1. j \in 1 .. n - m + 1 /\ m + j - 1 \in 1 .. Len(s)
    BY <1>1, <2>0
  <2>2. t[j] = s[m + j - 1]
    BY <1>3, <2>1
  <2> QED
    BY <2>1, <2>2 DEF Stretch
<1>5. ASSUME NEW j \in 1 .. Len(t) - 1
      PROVE  t[j + 1] = Position(fs, t[j][1], t[j][2] + 1)
  <2>1. /\ j \in 1 .. n - m + 1 /\ j + 1 \in 1 .. n - m + 1 /\ m + j - 1 \in 1 .. Len(s) - 1
        /\ m + (j + 1) - 1 = (m + j - 1) + 1
    BY <1>1, <1>3, <1>5
  <2>2. t[j] = s[m + j - 1] /\ t[j + 1] = s[(m + j - 1) + 1]
    BY <1>3, <2>1
  <2>3. s[(m + j - 1) + 1] = Position(fs, s[m + j - 1][1], s[m + j - 1][2] + 1)
    BY <2>1 DEF Stretch
  <2> QED
    BY <2>2, <2>3
<1> QED
  BY <1>3, <1>4, <1>5 DEF Stretch, t

(* From byte i of frame k on, the stretch goes through the frame, and then  *)
(* to the next.                                                             *)
Runs(fs, s, k, i) ==
  /\ i \in 1 .. FrameLen(fs[k])
  /\ \A j \in 1 .. Len(s) : i + (j - 1) <= FrameLen(fs[k]) => s[j] = <<k, i + (j - 1)>>
  /\ \A n \in 1 .. Len(s) - 1 : i + (n - 1) <= FrameLen(fs[k]) => s[n + 1] = Position(fs, k, i + n)

LEMMA StretchRuns ==
  ASSUME NEW fs, GoodFrames(fs), NEW s, Stretch(fs, s), NEW k \in DOMAIN fs, NEW i \in Nat, s # <<>>,
         s[1] = <<k, i>>
  PROVE  Runs(fs, s, k, i)
<1>0. s \in Seq(Nat \X Nat) /\ Len(s) \in Nat \ {0} /\ FrameLen(fs[k]) \in Nat
  <2>1. s \in Seq(Nat \X Nat)
    BY DEF Stretch
  <2>2. Len(s) \in Nat \ {0}
    BY <2>1, EmptySeq
  <2>3. fs[k] \in ClientFrames
    BY SMT DEF GoodFrames, IsFrame
  <2> QED
    BY <2>1, <2>2, <2>3, FrameLenNat
<1>1. i \in 1 .. FrameLen(fs[k])
  <2>1. 1 \in 1 .. Len(s) /\ s[1][1] = k /\ s[1][2] = i
    BY <1>0
  <2> QED
    BY <2>1 DEF Stretch
<1> DEFINE Z == {d \in Nat : d + 1 <= Len(s) /\ i + d <= FrameLen(fs[k]) => s[d + 1] = <<k, i + d>>}
<1>2. 0 \in Z
  <2>1. i + 0 = i /\ 0 + 1 = 1
    OBVIOUS
  <2> QED
    BY <2>1
<1>3. ASSUME NEW d \in Nat, d \in Z PROVE d + 1 \in Z
  <2> SUFFICES ASSUME (d + 1) + 1 <= Len(s), i + (d + 1) <= FrameLen(fs[k])
               PROVE  s[(d + 1) + 1] = <<k, i + (d + 1)>>
    OBVIOUS
  <2>1. d + 1 <= Len(s) /\ i + d <= FrameLen(fs[k]) /\ d + 1 \in 1 .. Len(s) - 1 /\ (i + d) + 1 = i + (d + 1)
    BY <1>0
  <2>2. s[d + 1] = <<k, i + d>>
    BY <1>3, <2>1
  <2>3. s[(d + 1) + 1] = Position(fs, s[d + 1][1], s[d + 1][2] + 1)
    BY <2>1 DEF Stretch
  <2>4. s[d + 1][1] = k /\ s[d + 1][2] = i + d
    BY <2>2
  <2> QED
    BY <2>1, <2>3, <2>4 DEF Position
<1> HIDE DEF Z
<1>4. \A d \in Nat : d \in Z
  BY <1>2, <1>3, NatSetInduction
<1>5. ASSUME NEW j \in 1 .. Len(s), i + (j - 1) <= FrameLen(fs[k]) PROVE s[j] = <<k, i + (j - 1)>>
  <2>1. j - 1 \in Nat /\ (j - 1) + 1 = j /\ j <= Len(s)
    BY <1>0
  <2>2. j - 1 \in Z
    BY <1>4, <2>1
  <2> QED
    BY <1>5, <2>1, <2>2 DEF Z
<1>6. ASSUME NEW n \in 1 .. Len(s) - 1, i + (n - 1) <= FrameLen(fs[k]) PROVE s[n + 1] = Position(fs, k, i + n)
  <2>1. n \in 1 .. Len(s) /\ (i + (n - 1)) + 1 = i + n
    BY <1>0, <1>6
  <2>2. s[n] = <<k, i + (n - 1)>>
    BY <1>5, <1>6, <2>1
  <2>3. s[n][1] = k /\ s[n][2] = i + (n - 1)
    BY <2>2
  <2>4. s[n + 1] = Position(fs, s[n][1], s[n][2] + 1)
    BY <1>6 DEF Stretch
  <2> QED
    BY <2>1, <2>3, <2>4
<1> QED
  BY <1>1, <1>5, <1>6 DEF Runs

(* The bytes of one frame, and those of all. *)
LEMMA FrameStretch ==
  ASSUME NEW fs, GoodFrames(fs), NEW k \in DOMAIN fs
  PROVE  /\ Stretch(fs, FrameBytes(fs[k], k)) /\ Len(FrameBytes(fs[k], k)) = FrameLen(fs[k])
         /\ \A i \in 1 .. FrameLen(fs[k]) : FrameBytes(fs[k], k)[i] = <<k, i>>
<1>0. DOMAIN fs = 1 .. Len(fs) /\ Len(fs) \in Nat
  BY LenProperties DEF GoodFrames
<1>1. fs[k] \in ClientFrames /\ k \in Nat
  BY <1>0, SMT DEF GoodFrames, IsFrame
<1> DEFINE n == FrameLen(fs[k])
           s == [i \in 1 .. n |-> <<k, i>>]
<1>2. n \in Nat
  BY <1>1, FrameLenNat
<1>3. FrameBytes(fs[k], k) = s
  BY DEF FrameBytes, FrameLen
<1> HIDE DEF n
<1>4. s \in Seq(Nat \X Nat) /\ Len(s) = n /\ \A i \in 1 .. n : s[i] = <<k, i>>
  BY <1>1, <1>2
<1> HIDE DEF s
<1>5. ASSUME NEW j \in 1 .. Len(s) PROVE s[j][1] \in DOMAIN fs /\ s[j][2] \in 1 .. FrameLen(fs[s[j][1]])
  <2>1. s[j] = <<k, j>>
    BY <1>4, <1>5
  <2>2. s[j][1] = k /\ s[j][2] = j
    BY <2>1
  <2> QED
    BY <1>4, <2>2 DEF n
<1>6. ASSUME NEW j \in 1 .. Len(s) - 1 PROVE s[j + 1] = Position(fs, s[j][1], s[j][2] + 1)
  <2>1. j \in 1 .. n /\ j + 1 \in 1 .. n /\ j + 1 <= n
    BY <1>2, <1>4, <1>6
  <2>2. s[j] = <<k, j>> /\ s[j + 1] = <<k, j + 1>>
    BY <1>4, <2>1
  <2>3. s[j][1] = k /\ s[j][2] = j
    BY <2>2
  <2> QED
    BY <2>1, <2>2, <2>3 DEF Position, n
<1> QED
  BY <1>3, <1>4, <1>5, <1>6 DEF Stretch, n

LEMMA StretchJoins ==
  ASSUME NEW fs, NEW s, NEW t, Stretch(fs, s), Stretch(fs, t), s # <<>>, t # <<>>,
         t[1] = Position(fs, s[Len(s)][1], s[Len(s)][2] + 1)
  PROVE  /\ Stretch(fs, s \o t) /\ s \o t # <<>> /\ Len(s \o t) = Len(s) + Len(t)
         /\ (s \o t)[1] = s[1] /\ (s \o t)[Len(s \o t)] = t[Len(t)]
<1>1. s \in Seq(Nat \X Nat) /\ t \in Seq(Nat \X Nat) /\ Len(s) \in Nat \ {0} /\ Len(t) \in Nat \ {0}
  <2>1. s \in Seq(Nat \X Nat) /\ t \in Seq(Nat \X Nat)
    BY DEF Stretch
  <2> QED
    BY <2>1, EmptySeq
<1> DEFINE u == s \o t
           a == Len(s)
           b == Len(t)
<1>2. /\ u \in Seq(Nat \X Nat) /\ Len(u) = a + b
      /\ \A i \in 1 .. a + b : u[i] = IF i <= a THEN s[i] ELSE t[i - a]
  BY <1>1, ConcatProperties
<1>0. a \in Nat \ {0} /\ b \in Nat \ {0}
  BY <1>1
<1> HIDE DEF u, a, b
<1>7. \A i \in 1 .. a : u[i] = s[i]
  <2>1. \A i \in 1 .. a : i \in 1 .. a + b /\ i <= a
    BY <1>0
  <2> QED
    BY <1>2, <2>1
<1>8. \A i \in 1 .. b : u[a + i] = t[i]
  <2>1. \A i \in 1 .. b : a + i \in 1 .. a + b /\ ~(a + i <= a) /\ (a + i) - a = i
    BY <1>0
  <2> QED
    BY <1>2, <2>1
<1>9. \A j \in 1 .. a + b : j \in 1 .. a \/ \E i \in 1 .. b : j = a + i
  <2> SUFFICES ASSUME NEW j \in 1 .. a + b, j \notin 1 .. a PROVE \E i \in 1 .. b : j = a + i
    OBVIOUS
  <2>1. j - a \in 1 .. b /\ j = a + (j - a)
    BY <1>0
  <2> QED
    BY <2>1
<1>3. ASSUME NEW j \in 1 .. a + b PROVE u[j][1] \in DOMAIN fs /\ u[j][2] \in 1 .. FrameLen(fs[u[j][1]])
  <2>1. CASE j \in 1 .. a
    <3>1. u[j] = s[j]
      BY <1>7, <2>1
    <3> QED
      BY <2>1, <3>1 DEF Stretch, a
  <2>2. ASSUME NEW i \in 1 .. b, j = a + i PROVE u[j][1] \in DOMAIN fs /\ u[j][2] \in 1 .. FrameLen(fs[u[j][1]])
    <3>1. u[j] = t[i]
      BY <1>8, <2>2
    <3> QED
      BY <3>1 DEF Stretch, b
  <2> QED
    BY <1>9, <2>1, <2>2
<1>4. ASSUME NEW j \in 1 .. (a + b) - 1 PROVE u[j + 1] = Position(fs, u[j][1], u[j][2] + 1)
  <2>0. j \in 1 .. a + b
    BY <1>0
  <2>1. CASE j \in 1 .. a /\ j # a
    <3>1. j \in 1 .. a - 1 /\ j + 1 \in 1 .. a
      BY <1>0, <2>1
    <3>2. u[j] = s[j] /\ u[j + 1] = s[j + 1]
      BY <1>7, <2>1, <3>1
    <3> QED
      BY <3>1, <3>2 DEF Stretch, a
  <2>2. CASE j = a
    <3>1. a \in 1 .. a /\ 1 \in 1 .. b
      BY <1>0
    <3>2. u[a + 1] = t[1] /\ u[a] = s[a]
      BY <1>7, <1>8, <3>1
    <3> QED
      BY <2>2, <3>2 DEF a
  <2>3. ASSUME NEW i \in 1 .. b, j = a + i PROVE u[j + 1] = Position(fs, u[j][1], u[j][2] + 1)
    <3>1. i \in 1 .. b - 1 /\ i + 1 \in 1 .. b /\ j + 1 = a + (i + 1)
      BY <1>0, <2>3
    <3>2. u[j] = t[i] /\ u[a + (i + 1)] = t[i + 1]
      BY <1>8, <2>3, <3>1
    <3>3. t[i + 1] = Position(fs, t[i][1], t[i][2] + 1)
      BY <3>1 DEF Stretch, b
    <3> QED
      BY <3>1, <3>2, <3>3
  <2> QED
    BY <1>9, <2>0, <2>1, <2>2, <2>3
<1>5. Len(u) # 0 /\ u # <<>>
  <2>1. Len(u) # 0
    BY <1>0, <1>2
  <2> QED
    BY <2>1, EmptySeq
<1>6. u[1] = s[1] /\ u[Len(u)] = t[b]
  <2>1. 1 \in 1 .. a /\ b \in 1 .. b
    BY <1>0
  <2> QED
    BY <1>2, <1>7, <1>8, <2>1
<1> QED
  BY <1>2, <1>3, <1>4, <1>5, <1>6 DEF Stretch, u, a, b

(* The recursive function of FlattenSeq(). *)
Joins(h, n, seqs) == h = [i \in 1 .. n |-> IF i = 1 THEN seqs[i] ELSE h[i - 1] \o seqs[i]]

LEMMA JoinsExist ==
  ASSUME NEW n \in Nat, NEW seqs
  PROVE  \E h : Joins(h, n, seqs)
<1> DEFINE T == {m \in Nat : \E h : Joins(h, m, seqs)}
<1>1. 0 \in T
  <2> DEFINE h == [i \in 1 .. 0 |-> <<>>]
  <2>1. h = [i \in 1 .. 0 |-> IF i = 1 THEN seqs[i] ELSE h[i - 1] \o seqs[i]]
    <3>1. \A i \in 1 .. 0 : FALSE
      OBVIOUS
    <3> QED
      BY <3>1, Zenon
  <2>2. Joins(h, 0, seqs)
    BY <2>1 DEF Joins
  <2> QED
    BY <2>2
<1>2. ASSUME NEW m \in Nat, m \in T PROVE m + 1 \in T
  <2>1. PICK g : Joins(g, m, seqs)
    BY <1>2
  <2> DEFINE last == IF m + 1 = 1 THEN seqs[m + 1] ELSE g[m] \o seqs[m + 1]
             h == [i \in 1 .. m + 1 |-> IF i = m + 1 THEN last ELSE g[i]]
  <2>2. \A i \in 1 .. m : g[i] = IF i = 1 THEN seqs[i] ELSE g[i - 1] \o seqs[i]
    BY <2>1 DEF Joins
  <2>3. \A i \in 1 .. m + 1 : h[i] = IF i = 1 THEN seqs[i] ELSE h[i - 1] \o seqs[i]
    <3> TAKE i \in 1 .. m + 1
    <3>1. CASE i = m + 1
      <4>1. i # 1 => i - 1 = m /\ m \in 1 .. m + 1 /\ m # m + 1
        BY <3>1
      <4>2. h[i] = last /\ (i # 1 => h[m] = g[m])
        <5> HIDE DEF last
        <5> QED
          BY <3>1, <4>1
      <4> HIDE DEF h
      <4> QED
        BY <3>1, <4>1, <4>2
    <3>2. CASE i # m + 1
      <4>1. i \in 1 .. m /\ (i # 1 => i - 1 \in 1 .. m + 1 /\ i - 1 # m + 1)
        BY <3>2
      <4>2. h[i] = g[i] /\ (i # 1 => h[i - 1] = g[i - 1])
        <5> HIDE DEF last
        <5> QED
          BY <3>2, <4>1
      <4> HIDE DEF h
      <4> QED
        BY <2>2, <4>1, <4>2
    <3> QED
      BY <3>1, <3>2
  <2>4. Joins(h, m + 1, seqs)
    <3>1. h = [i \in 1 .. m + 1 |-> h[i]]
      OBVIOUS
    <3> HIDE DEF h
    <3> QED
      BY <2>3, <3>1 DEF Joins
  <2> HIDE DEF h
  <2> QED
    BY <2>4
<1> HIDE DEF T
<1>3. n \in T
  BY <1>1, <1>2, NatSetInduction
<1> QED
  BY <1>3 DEF T

(* What the client sends is one stretch, from its first byte. *)
LEMMA AllBytesStretch ==
  ASSUME NEW fs, GoodFrames(fs)
  PROVE  Stretch(fs, AllBytes(fs)) /\ (AllBytes(fs) # <<>> => AllBytes(fs)[1] = <<1, 1>>)
<1> DEFINE n == Len(fs)
           seqs == [k \in 1 .. n |-> FrameBytes(fs[k], k)]
<1>0. n \in Nat /\ DOMAIN fs = 1 .. n
  BY LenProperties DEF GoodFrames
<1>1. Len(seqs) = n
  BY <1>0
<1>2. \A k \in 1 .. n : seqs[k] = FrameBytes(fs[k], k)
  OBVIOUS
<1>3. AllBytes(fs) = FlattenSeq(seqs)
  BY DEF AllBytes
<1>4. CASE n = 0
  <2>1. \A j \in 1 .. n : seqs[j] \in Nat \X Nat
    BY <1>0, <1>4
  <2>2. seqs \in Seq(Nat \X Nat)
    BY <1>0, <2>1
  <2>3. FlattenSeq(seqs) = seqs
    BY <1>1, <1>4 DEF FlattenSeq
  <2> HIDE DEF seqs
  <2>4. seqs = <<>>
    BY <1>1, <1>4, <2>2, EmptySeq
  <2>5. Stretch(fs, seqs)
    BY <1>1, <1>4, <2>2 DEF Stretch
  <2> QED
    BY <1>3, <2>3, <2>4, <2>5
<1>5. CASE n # 0
  <2> DEFINE h == CHOOSE f : Joins(f, n, seqs)
  <2>1. Joins(h, n, seqs)
    BY <1>0, JoinsExist
  <2>2. FlattenSeq(seqs) = h[n]
    BY <1>1, <1>5 DEF FlattenSeq, Joins
  <2> HIDE DEF seqs
  <2>3. \A i \in 1 .. n : h[i] = IF i = 1 THEN seqs[i] ELSE h[i - 1] \o seqs[i]
    BY <2>1 DEF Joins
  <2> HIDE DEF h, n
  <2> DEFINE Good(i) == /\ Stretch(fs, h[i]) /\ h[i] # <<>> /\ h[i][1] = <<1, 1>>
                        /\ h[i][Len(h[i])] = <<i, FrameLen(fs[i])>>
             Z == {d \in Nat : d + 1 <= n => Good(d + 1)}
  <2>4. \A k \in 1 .. n : /\ Stretch(fs, seqs[k]) /\ seqs[k] # <<>> /\ seqs[k][1] = <<k, 1>>
                          /\ seqs[k][Len(seqs[k])] = <<k, FrameLen(fs[k])>>
    <3> SUFFICES ASSUME NEW k \in 1 .. n
                 PROVE  /\ Stretch(fs, seqs[k]) /\ seqs[k] # <<>> /\ seqs[k][1] = <<k, 1>>
                        /\ seqs[k][Len(seqs[k])] = <<k, FrameLen(fs[k])>>
      OBVIOUS
    <3> DEFINE s == seqs[k]
               l == FrameLen(fs[k])
    <3>1. k \in DOMAIN fs /\ s = FrameBytes(fs[k], k)
      BY <1>0, <1>2
    <3>2. fs[k] \in ClientFrames
      BY <3>1, SMT DEF GoodFrames, IsFrame
    <3>3. l \in Nat /\ l >= 2
      BY <3>2, FrameLenNat
    <3>4. Stretch(fs, s) /\ Len(s) = l /\ \A i \in 1 .. l : s[i] = <<k, i>>
      BY <3>1, FrameStretch
    <3> HIDE DEF s, l
    <3>5. 1 \in 1 .. l /\ l \in 1 .. l /\ l # 0
      BY <3>3
    <3>6. s # <<>>
      <4>1. s \in Seq(Nat \X Nat)
        BY <3>4 DEF Stretch
      <4> QED
        BY <3>4, <3>5, <4>1, EmptySeq
    <3>7. s[1] = <<k, 1>> /\ s[Len(s)] = <<k, l>>
      BY <3>4, <3>5
    <3> QED
      BY <3>4, <3>6, <3>7 DEF s, l
  <2>5. 0 \in Z
    <3>1. 0 + 1 = 1 /\ (1 <= n => 1 \in 1 .. n)
      BY <1>0
    <3>2. 1 <= n => h[1] = seqs[1]
      BY <2>3, <3>1
    <3>3. 1 <= n => Good(1)
      BY <2>4, <3>1, <3>2
    <3> HIDE DEF Good
    <3> QED
      BY <3>1, <3>3
  <2>6. ASSUME NEW d \in Nat, d \in Z PROVE d + 1 \in Z
    <3> SUFFICES ASSUME (d + 1) + 1 <= n PROVE Good((d + 1) + 1)
      OBVIOUS
    <3> DEFINE i == d + 1
               s == h[i]
               t == seqs[i + 1]
    <3>1. i \in 1 .. n /\ i + 1 \in 1 .. n /\ i + 1 # 1 /\ (i + 1) - 1 = i /\ d + 1 <= n
      BY <1>0
    <3>2. Good(i)
      BY <2>6, <3>1
    <3>3. h[i + 1] = s \o t
      BY <2>3, <3>1
    <3>4. /\ Stretch(fs, t) /\ t # <<>> /\ t[1] = <<i + 1, 1>> /\ t[Len(t)] = <<i + 1, FrameLen(fs[i + 1])>>
      BY <2>4, <3>1
    <3>5. Stretch(fs, s) /\ s # <<>> /\ s[1] = <<1, 1>> /\ s[Len(s)] = <<i, FrameLen(fs[i])>>
      BY <3>2
    <3>6. fs[i] \in ClientFrames
      BY <1>0, <3>1, SMT DEF GoodFrames, IsFrame
    <3>7. FrameLen(fs[i]) \in Nat
      BY <3>6, FrameLenNat
    <3> HIDE DEF Good, s, t, i
    <3>8. t[1] = Position(fs, s[Len(s)][1], s[Len(s)][2] + 1)
      <4>1. s[Len(s)][1] = i /\ s[Len(s)][2] = FrameLen(fs[i])
        BY <3>5
      <4>2. ~(FrameLen(fs[i]) + 1 <= FrameLen(fs[i]))
        BY <3>7
      <4> QED
        BY <3>4, <4>1, <4>2 DEF Position
    <3> DEFINE u == s \o t
    <3>9. Stretch(fs, u) /\ u # <<>> /\ u[1] = s[1] /\ u[Len(u)] = t[Len(t)]
      BY <3>4, <3>5, <3>8, StretchJoins
    <3>10. h[i + 1] = u
      BY <3>3
    <3> HIDE DEF u
    <3>11. Good(i + 1)
      BY <3>4, <3>5, <3>9, <3>10 DEF Good
    <3> QED
      BY <3>11 DEF i
  <2> HIDE DEF Good, Z
  <2>7. n - 1 \in Z
    BY <1>0, <1>5, <2>5, <2>6, NatSetInduction
  <2>8. (n - 1) + 1 = n /\ n <= n
    BY <1>0
  <2>9. Good(n)
    BY <2>7, <2>8 DEF Z
  <2> QED
    BY <1>3, <2>2, <2>9 DEF Good
<1> QED
  BY <1>4, <1>5

(* Numbers in their bytes, and back. *)
LEMMA LastDigit ==
  ASSUME NEW v \in Nat
  PROVE  /\ 256 * (v \div 256) + (v % 256) = v /\ v \div 256 \in Nat /\ v % 256 \in Nat
         /\ (v < 256 => v % 256 = v)
<1>1. 256 * (v \div 256) + (v % 256) = v
  OBVIOUS
<1>2. v \div 256 \in Nat /\ v % 256 \in Nat /\ (v < 256 => v % 256 = v)
  OBVIOUS
<1> QED
  BY <1>1, <1>2

LEMMA TwoDigits == ASSUME NEW v \in Nat, v < 65536 PROVE 256 * ((v \div 256) % 256) + ((v \div 1) % 256) = v
<1> DEFINE a == v \div 256
<1>1. a \in Nat /\ a < 256 /\ v \div 1 = v
  OBVIOUS
<1>2. 256 * a + (v % 256) = v
  BY LastDigit
<1> HIDE DEF a
<1>3. a % 256 = a
  BY <1>1, LastDigit
<1>4. 256 * (a % 256) + ((v \div 1) % 256) = v
  BY <1>1, <1>2, <1>3
<1> QED
  BY <1>4 DEF a

LEMMA FourDigits ==
  ASSUME NEW v \in Nat, v \div 65536 < 32768
  PROVE  16777216 * ((v \div 16777216) % 256) + 65536 * ((v \div 65536) % 256) + 256 * ((v \div 256) % 256)
            + ((v \div 1) % 256) = v
<1> DEFINE a == v \div 256
           b == v \div 65536
           c == v \div 16777216
<1>1. a \in Nat /\ b \in Nat /\ c \in Nat /\ v \div 1 = v /\ c < 256
  OBVIOUS
<1>2. b = a \div 256
  OBVIOUS
<1>3. c = b \div 256
  OBVIOUS
<1>4. 256 * a + (v % 256) = v /\ v % 256 \in Nat
  BY LastDigit
<1> HIDE DEF a, b, c
<1>5. 256 * b + (a % 256) = a /\ a % 256 \in Nat
  BY <1>1, <1>2, LastDigit
<1>6. 256 * c + (b % 256) = b /\ b % 256 \in Nat
  BY <1>1, <1>3, LastDigit
<1>7. c % 256 = c
  BY <1>1, LastDigit
<1> DEFINE p == a % 256
           q == b % 256
           r == v % 256
           w == (v \div 1) % 256
           m == c % 256
<1>8. 256 * a + r = v /\ r \in Nat
  BY <1>4
<1>9. 256 * b + p = a /\ p \in Nat
  BY <1>5
<1>10. 256 * c + q = b /\ q \in Nat
  BY <1>6
<1>11. w = r /\ m = c
  BY <1>1, <1>7
<1> HIDE DEF p, q, r, w, m
<1>12. 16777216 * m + 65536 * q + 256 * p + w = v
  BY <1>1, <1>8, <1>9, <1>10, <1>11
<1> QED
  BY <1>12 DEF a, b, c, m, p, q, w

LEMMA BigEndianTwo ==
  ASSUME NEW v \in Nat, v < 65536
  PROVE  BigEndian(v, 2) \in Seq(Nat) /\ Len(BigEndian(v, 2)) = 2 /\ Number(BigEndian(v, 2)) = v
<1> DEFINE b == BigEndian(v, 2)
<1>1. b = [i \in 1 .. 2 |-> IF 2 - i > 3 THEN 0 ELSE (v \div Weights[4 - (2 - i)]) % 256]
  BY DEF BigEndian
<1>2. b[1] = (v \div 256) % 256
  BY <1>1 DEF Weights
<1>3. b[2] = (v \div 1) % 256
  BY <1>1 DEF Weights
<1> DEFINE e(i) == IF 2 - i > 3 THEN 0 ELSE (v \div Weights[4 - (2 - i)]) % 256
<1>4. \A i \in 1 .. 2 : e(i) \in Nat
  <2>1. \A i \in 1 .. 2 : i = 1 \/ i = 2
    OBVIOUS
  <2>2. e(1) \in Nat
    BY DEF Weights
  <2>3. e(2) \in Nat
    BY DEF Weights
  <2> QED
    BY <2>1, <2>2, <2>3
<1>5. b = [i \in 1 .. 2 |-> e(i)]
  BY <1>1
<1> HIDE DEF b, e
<1>6. b \in Seq(Nat) /\ Len(b) = 2
  BY <1>4, <1>5
<1>7. Number(b) = 256 * b[1] + b[2]
  BY <1>6 DEF Number
<1>8. Number(b) = v
  BY <1>2, <1>3, <1>7, TwoDigits
<1> QED
  BY <1>6, <1>8 DEF b

LEMMA BigEndianEight ==
  ASSUME NEW v \in Nat, v \div 65536 < 32768
  PROVE  BigEndian(v, 8) \in Seq(Nat) /\ Len(BigEndian(v, 8)) = 8 /\ Number(BigEndian(v, 8)) = v
<1> DEFINE b == BigEndian(v, 8)
           e(i) == IF 8 - i > 3 THEN 0 ELSE (v \div Weights[4 - (8 - i)]) % 256
<1>1. b = [i \in 1 .. 8 |-> e(i)]
  BY DEF BigEndian
<1>2. e(1) = 0 /\ e(2) = 0 /\ e(3) = 0 /\ e(4) = 0
  OBVIOUS
<1>3. e(5) = (v \div 16777216) % 256
  BY DEF Weights
<1>4. e(6) = (v \div 65536) % 256
  BY DEF Weights
<1>5. e(7) = (v \div 256) % 256
  BY DEF Weights
<1>6. e(8) = (v \div 1) % 256
  BY DEF Weights
<1>7. e(5) \in Nat /\ e(6) \in Nat /\ e(7) \in Nat /\ e(8) \in Nat
  BY <1>3, <1>4, <1>5, <1>6
<1> HIDE DEF b, e
<1>8. \A i \in 1 .. 8 : e(i) \in Nat
  <2>1. \A i \in 1 .. 8 : i = 1 \/ i = 2 \/ i = 3 \/ i = 4 \/ i = 5 \/ i = 6 \/ i = 7 \/ i = 8
    OBVIOUS
  <2> QED
    BY <1>2, <1>7, <2>1
<1>9. b \in Seq(Nat) /\ Len(b) = 8
  <2>1. 8 \in Nat
    OBVIOUS
  <2> DEFINE n == 8
  <2> HIDE DEF n
  <2>2. b = [i \in 1 .. n |-> e(i)] /\ n \in Nat /\ \A i \in 1 .. n : e(i) \in Nat
    BY <1>1, <1>8, <2>1 DEF n
  <2>3. b \in Seq(Nat) /\ Len(b) = n
    BY <2>2
  <2> QED
    BY <2>3 DEF n
<1>10. b[1] = 0 /\ b[2] = 0 /\ b[3] = 0 /\ b[4] = 0
  BY <1>1, <1>2
<1>11. b[5] = (v \div 16777216) % 256 /\ b[6] = (v \div 65536) % 256
  BY <1>1, <1>3, <1>4
<1>12. b[7] = (v \div 256) % 256 /\ b[8] = (v \div 1) % 256
  BY <1>1, <1>5, <1>6
<1>13. Word(b, 1) = 0
  <2>1. Word(b, 1) = 16777216 * b[1] + 65536 * b[2] + 256 * b[3] + b[4]
    BY DEF Word, Weights
  <2> QED
    BY <1>10, <2>1
<1>14. Word(b, 5) = v
  <2>1. Word(b, 5) = 16777216 * b[5] + 65536 * b[6] + 256 * b[7] + b[8]
    BY DEF Word, Weights
  <2> QED
    BY <1>11, <1>12, <2>1, FourDigits
<1>15. Number(b) = 65536 * (65536 * Word(b, 1)) + Word(b, 5)
  BY <1>9 DEF Number
<1>16. Number(b) = v
  BY <1>13, <1>14, <1>15
<1> QED
  BY <1>9, <1>16 DEF b

(* A marker and the bytes behind it. *)
MarkRead(t, m, b) == t[1] = m /\ Len(t) = 1 + Len(b) /\ RxLength(t) = Number(b)

LEMMA Marked == ASSUME NEW m \in Nat, NEW b \in Seq(Nat), b # <<>> PROVE MarkRead(<<m>> \o b, m, b)
<1> DEFINE s == <<m>>
           t == s \o b
<1>1. s \in Seq(Nat) /\ Len(s) = 1 /\ s[1] = m
  OBVIOUS
<1> HIDE DEF s
<1>2. /\ t \in Seq(Nat) /\ Len(t) = Len(s) + Len(b)
      /\ \A i \in 1 .. Len(s) + Len(b) : t[i] = IF i <= Len(s) THEN s[i] ELSE b[i - Len(s)]
  BY <1>1, ConcatProperties
<1> HIDE DEF t
<1>3. Len(b) \in Nat \ {0}
  BY EmptySeq
<1>4. t[1] = m /\ Len(t) = 1 + Len(b) /\ Len(t) # 1 /\ t # <<>>
  <2>1. Len(t) = 1 + Len(b) /\ Len(t) # 1 /\ Len(t) # 0
    BY <1>1, <1>2, <1>3
  <2>2. t[1] = m
    BY <1>1, <1>2, <1>3
  <2> QED
    BY <2>1, <2>2, EmptySeq
<1>5. Tail(t) \in Seq(Nat) /\ Len(Tail(t)) = Len(t) - 1 /\ \A i \in 1 .. Len(Tail(t)) : Tail(t)[i] = t[i + 1]
  BY <1>2, <1>4, HeadTailProperties
<1> DEFINE u == Tail(t)
<1>6. u = b
  <2>1. Len(u) = Len(b)
    BY <1>3, <1>4, <1>5
  <2>2. ASSUME NEW i \in 1 .. Len(b) PROVE u[i] = b[i]
    <3>1. i + 1 \in 1 .. Len(s) + Len(b) /\ ~(i + 1 <= Len(s)) /\ (i + 1) - Len(s) = i
      BY <1>1, <1>3
    <3> QED
      BY <1>2, <1>5, <2>1, <3>1
  <2> HIDE DEF u
  <2>3. u \in Seq(Nat)
    BY <1>5 DEF u
  <2> QED
    BY <2>1, <2>2, <2>3, SeqEqual
<1>7. RxLength(t) = Number(Tail(t))
  BY <1>4 DEF RxLength
<1> QED
  BY <1>4, <1>6, <1>7 DEF t, s, MarkRead

(* What the server makes of a length the client wrote, in any of the three  *)
(* forms, and of one it wrote itself.                                       *)
LEMMA LengthRead ==
  ASSUME NEW f, IsFrame(f)
  PROVE  RxLength(LengthBytes(f)) = f.len /\ ExtLen(LengthBytes(f)[1]) = f.ext
<1>1. f \in ClientFrames /\ f.len \div 65536 < 32768 /\ (f.ext = 0 => f.len < 126) /\ (f.ext = 2 => f.len < 65536)
  BY SMT DEF IsFrame
<1>2. f.len \in Nat /\ f.ext \in {0, 2, 8}
  BY <1>1, FrameLenNat
<1> DEFINE v == f.len
<1>3. CASE f.ext = 0
  <2>1. LengthBytes(f) = <<v>>
    BY <1>3, SMT DEF LengthBytes
  <2>2. v \in Nat /\ v < 126
    BY <1>1, <1>2, <1>3
  <2> HIDE DEF v
  <2> DEFINE s == <<v>>
  <2>3. Len(s) = 1 /\ s[1] = v
    OBVIOUS
  <2> HIDE DEF s
  <2>4. RxLength(s) = v
    BY <2>3 DEF RxLength
  <2>5. ExtLen(s[1]) = 0
    BY <2>2, <2>3 DEF ExtLen
  <2> QED
    BY <1>3, <2>1, <2>4, <2>5 DEF s, v
<1>4. CASE f.ext = 2
  <2> DEFINE b == BigEndian(v, 2)
  <2>1. LengthBytes(f) = <<126>> \o b
    BY <1>4, SMT DEF LengthBytes
  <2>2. v \in Nat /\ v < 65536
    BY <1>1, <1>2, <1>4
  <2> HIDE DEF v
  <2>3. b \in Seq(Nat) /\ Len(b) = 2 /\ Number(b) = v
    BY <2>2, BigEndianTwo
  <2> HIDE DEF b
  <2>4. b # <<>>
    <3>1. Len(b) # 0
      BY <2>3
    <3> QED
      BY <2>3, <3>1, EmptySeq
  <2>5. MarkRead(<<126>> \o b, 126, b)
    BY <2>3, <2>4, Marked
  <2>6. ExtLen(126) = 2
    BY DEF ExtLen
  <2> QED
    BY <1>4, <2>1, <2>3, <2>5, <2>6, SMT DEF v, MarkRead
<1>5. CASE f.ext = 8
  <2> DEFINE b == BigEndian(v, 8)
  <2>1. LengthBytes(f) = <<127>> \o b
    BY <1>5, SMT DEF LengthBytes
  <2>2. v \in Nat /\ v \div 65536 < 32768
    BY <1>1, <1>2
  <2> HIDE DEF v
  <2>3. b \in Seq(Nat) /\ Len(b) = 8 /\ Number(b) = v
    BY <2>2, BigEndianEight
  <2> HIDE DEF b
  <2>4. b # <<>>
    <3>1. Len(b) # 0
      BY <2>3
    <3> QED
      BY <2>3, <3>1, EmptySeq
  <2>5. MarkRead(<<127>> \o b, 127, b)
    BY <2>3, <2>4, Marked
  <2>6. ExtLen(127) = 8
    BY DEF ExtLen
  <2> QED
    BY <1>5, <2>1, <2>3, <2>5, <2>6, SMT DEF v, MarkRead
<1> QED
  BY <1>2, <1>3, <1>4, <1>5

LEMMA LengthSent ==
  ASSUME NEW v \in Nat, v \div 65536 < 32768
  PROVE  RxLength(TxLength(v)) = v /\ Len(TxLength(v)) = 1 + ExtLen(TxLength(v)[1])
<1>1. CASE v <= 125
  <2> DEFINE s == <<v>>
  <2>1. TxLength(v) = s
    BY <1>1 DEF TxLength
  <2>2. Len(s) = 1 /\ s[1] = v /\ v < 126
    BY <1>1
  <2> HIDE DEF s
  <2>3. RxLength(s) = v
    BY <2>2 DEF RxLength
  <2>4. ExtLen(s[1]) = 0
    BY <2>2 DEF ExtLen
  <2> QED
    BY <2>1, <2>2, <2>3, <2>4
<1>2. CASE ~(v <= 125) /\ v < 65535
  <2> DEFINE b == BigEndian(v, 2)
  <2>1. TxLength(v) = <<126>> \o b
    BY <1>2, SMT DEF TxLength
  <2>2. v < 65536
    BY <1>2
  <2>3. b \in Seq(Nat) /\ Len(b) = 2 /\ Number(b) = v
    BY <2>2, BigEndianTwo
  <2>7. b \in Seq(Nat) /\ Len(b) = 2
    BY <2>3
  <2> HIDE DEF b
  <2>4. b # <<>>
    <3>1. Len(b) # 0
      BY <2>7
    <3> QED
      BY <3>1
  <2>5. MarkRead(<<126>> \o b, 126, b)
    <3>1. PICK m : m = 126
      OBVIOUS
    <3>2. m \in Nat
      BY <3>1
    <3>3. MarkRead(<<m>> \o b, m, b)
      BY <2>4, <2>7, <3>2, Marked
    <3> QED
      BY <3>1, <3>3
  <2>6. ExtLen(126) = 2
    BY DEF ExtLen
  <2> QED
    BY <2>1, <2>3, <2>5, <2>6, <2>7, SMT DEF MarkRead
<1>3. CASE ~(v <= 125) /\ ~(v < 65535)
  <2> DEFINE b == BigEndian(v, 8)
  <2>1. TxLength(v) = <<127>> \o b
    BY <1>3, SMT DEF TxLength
  <2>3. b \in Seq(Nat) /\ Len(b) = 8 /\ Number(b) = v
    BY BigEndianEight
  <2>7. b \in Seq(Nat) /\ Len(b) = 8
    BY <2>3
  <2> HIDE DEF b
  <2>4. b # <<>>
    <3>1. Len(b) # 0
      BY <2>7
    <3> QED
      BY <3>1
  <2>5. MarkRead(<<127>> \o b, 127, b)
    <3>1. PICK m : m = 127
      OBVIOUS
    <3>2. m \in Nat
      BY <3>1
    <3>3. MarkRead(<<m>> \o b, m, b)
      BY <2>4, <2>7, <3>2, Marked
    <3> QED
      BY <3>1, <3>3
  <2>6. ExtLen(127) = 8
    BY DEF ExtLen
  <2> QED
    BY <2>1, <2>3, <2>5, <2>6, <2>7, SMT DEF MarkRead
<1> QED
  BY <1>1, <1>2, <1>3

LEMMA LengthsDoTravel == LengthsTravel
<1>1. \A len \in Lengths : len \in Nat /\ len \div 65536 < 32768
  BY SMT DEF Lengths
<1>2. ASSUME NEW len \in Lengths
      PROVE  RxLength(TxLength(len)) = len /\ Len(TxLength(len)) = 1 + ExtLen(TxLength(len)[1])
  BY <1>1, LengthSent
<1> QED
  BY <1>2 DEF LengthsTravel

Fs == talk.frames
Frame(k) == talk.frames[k]

Begins(s, p) == s # <<>> => s[1] = p

Key(k) == [i \in 1 .. 4 |-> <<k, 2 + Frame(k).ext + i>>]

(* What the frame k is for the handler with l bytes still to be read. *)
PartOf(k, n) == SubSeq(MeantPayload(Frame(k), k), 1, n)
PktOf(k, l) == Pkt(Frame(k).type, Frame(k).final, Frame(k).len, l, PartOf(k, Frame(k).len - l))

(* inflow from behind its byte h. *)
Behind(h) == SubSeq(inflow, h + 1, Len(inflow))

(* Where the next byte is when l of frame k are still to be read. *)
Next(k, l) == Position(Fs, k, FrameLen(Frame(k)) - l + 1)

RecvOk(r, k, m, max_len, partial) ==
  /\ m \in 0 .. Frame(k).len /\ r.pkt = PktOf(k, m) /\ r.key = Key(k)
  /\ r.taken \in 0 .. Len(inflow) /\ Begins(Behind(r.taken), Next(k, m))
  /\ (max_len > 0 /\ ~partial => m = 0)

Masks == (Nat \X Nat) \X (Nat \X Nat)

LEMMA MeantFacts ==
  ASSUME NEW k \in Nat, Frame(k) \in ClientFrames
  PROVE  /\ MeantPayload(Frame(k), k) \in Seq(Masks)
         /\ Len(MeantPayload(Frame(k), k)) = Frame(k).len
         /\ \A i \in 1 .. Frame(k).len :
              MeantPayload(Frame(k), k)[i] = <<<<k, HeadLen(Frame(k)) + i>>, <<k, 3 + Frame(k).ext + ((i - 1) % 4)>>>>
<1> DEFINE n == Frame(k).len
           h == HeadLen(Frame(k))
           x == Frame(k).ext
           e(i) == <<<<k, h + i>>, <<k, 3 + x + ((i - 1) % 4)>>>>
           s == [i \in 1 .. n |-> e(i)]
<1>1. n \in Nat /\ h \in Nat /\ x \in Nat
  BY FrameLenNat
<1>2. MeantPayload(Frame(k), k) = s
  BY DEF MeantPayload
<1> HIDE DEF n, h, x
<1>3. \A i \in 1 .. n : e(i) \in Masks
  <2> SUFFICES ASSUME NEW i \in 1 .. n PROVE e(i) \in Masks
    OBVIOUS
  <2>1. h + i \in Nat /\ 3 + x + ((i - 1) % 4) \in Nat
    BY <1>1
  <2> QED
    BY <2>1 DEF Masks
<1> HIDE DEF e
<1>4. s \in Seq(Masks) /\ Len(s) = n /\ \A i \in 1 .. n : s[i] = e(i)
  BY <1>1, <1>3
<1> HIDE DEF s
<1> QED
  BY <1>2, <1>4 DEF n, e, h, x

LEMMA PartFacts ==
  ASSUME NEW k \in Nat, Frame(k) \in ClientFrames, NEW n \in 0 .. Frame(k).len
  PROVE  /\ PartOf(k, n) \in Seq(Masks) /\ Len(PartOf(k, n)) = n
         /\ \A i \in 1 .. n : PartOf(k, n)[i] = MeantPayload(Frame(k), k)[i]
<1> DEFINE s == MeantPayload(Frame(k), k)
           l == Frame(k).len
<1>1. s \in Seq(Masks) /\ Len(s) = l
  BY MeantFacts
<1>2. l \in Nat
  BY FrameLenNat
<1>3. PartOf(k, n) = SubSeq(s, 1, n)
  BY DEF PartOf
<1> HIDE DEF s, l
<1>4. n \in Nat /\ n <= l
  BY <1>2 DEF l
<1>5. \A i \in 1 .. n : s[i] \in Masks
  BY <1>1, <1>2, <1>4, ElementOfSeq
<1> DEFINE t == SubSeq(s, 1, n)
<1>6. /\ t \in Seq(Masks) /\ Len(t) = (IF 1 <= n THEN n - 1 + 1 ELSE 0)
      /\ \A i \in 1 .. n - 1 + 1 : t[i] = s[1 + i - 1]
  BY <1>4, <1>5, SubSeqProperties
<1> HIDE DEF t
<1>7. Len(t) = n
  BY <1>4, <1>6
<1>8. \A i \in 1 .. n : t[i] = s[i]
  <2> SUFFICES ASSUME NEW i \in 1 .. n PROVE t[i] = s[i]
    OBVIOUS
  <2>1. i \in 1 .. n - 1 + 1 /\ 1 + i - 1 = i
    BY <1>4
  <2> QED
    BY <1>6, <2>1
<1> QED
  BY <1>3, <1>6, <1>7, <1>8 DEF s, t

LEMMA PartNone == ASSUME NEW k PROVE PartOf(k, 0) = <<>>
  BY SubSeqEmpty DEF PartOf

LEMMA PartWhole ==
  ASSUME NEW k \in Nat, Frame(k) \in ClientFrames
  PROVE  PartOf(k, Frame(k).len) = MeantPayload(Frame(k), k)
<1>1. MeantPayload(Frame(k), k) \in Seq(Masks) /\ Len(MeantPayload(Frame(k), k)) = Frame(k).len
  BY MeantFacts
<1> QED
  BY <1>1, SubSeqFull DEF PartOf

(* A part unmasked at its place in the payload is the payload's next part. *)
LEMMA PartGrows ==
  ASSUME NEW k \in Nat, Frame(k) \in ClientFrames, NEW l \in 0 .. Frame(k).len, NEW n \in 0 .. l,
         NEW bytes \in Seq(Nat \X Nat), Len(bytes) = n,
         \A i \in 1 .. n : bytes[i] = <<k, FrameLen(Frame(k)) - l + i>>
  PROVE  PartOf(k, Frame(k).len - l) \o Unmask(bytes, Key(k), Frame(k).len - l) = PartOf(k, Frame(k).len - (l - n))
<1> DEFINE len == Frame(k).len
           h == HeadLen(Frame(k))
           x == Frame(k).ext
           d == len - l
           s == PartOf(k, d)
           key == Key(k)
           e(i) == <<bytes[i], key[((i - 1 + d) % 4) + 1]>>
           u == Unmask(bytes, key, d)
           w == PartOf(k, d + n)
           M == MeantPayload(Frame(k), k)
<1>1. len \in Nat /\ h \in Nat /\ x \in Nat /\ FrameLen(Frame(k)) = h + len
  BY FrameLenNat
<1>2. d \in 0 .. len /\ d + n \in 0 .. len /\ d \in Nat /\ n \in Nat
  <2>1. len \in Nat /\ l \in 0 .. len /\ d = len - l
    BY <1>1
  <2> HIDE DEF len, d
  <2> QED
    BY <2>1
<1>3. s \in Seq(Masks) /\ Len(s) = d /\ \A i \in 1 .. d : s[i] = M[i]
  BY <1>2, PartFacts
<1>4. w \in Seq(Masks) /\ Len(w) = d + n /\ \A i \in 1 .. d + n : w[i] = M[i]
  BY <1>2, PartFacts
<1>5. \A i \in 1 .. len : M[i] = <<<<k, h + i>>, <<k, 3 + x + ((i - 1) % 4)>>>>
  BY MeantFacts
<1>6. \A i \in 1 .. 4 : key[i] = <<k, 2 + x + i>>
  BY DEF Key
<1>7. \A i \in 1 .. n : bytes[i] = <<k, h + (d + i)>>
  <2> SUFFICES ASSUME NEW i \in 1 .. n PROVE bytes[i] = <<k, h + (d + i)>>
    OBVIOUS
  <2>1. FrameLen(Frame(k)) - l + i = h + (d + i)
    BY <1>1
  <2> QED
    BY <2>1
<1>8. u = [i \in 1 .. n |-> e(i)]
  BY DEF Unmask
<1>9. Frame(k).len - (l - n) = d + n
  BY <1>1
<1> HIDE DEF len, h, x, d, s, key, u, w, M
<1>10. \A i \in 1 .. n : e(i) = M[d + i]
  <2> SUFFICES ASSUME NEW i \in 1 .. n PROVE e(i) = M[d + i]
    OBVIOUS
  <2> DEFINE q == (i - 1 + d) % 4
  <2>1. q \in 0 .. 3 /\ (d + i) - 1 = i - 1 + d /\ d + i \in 1 .. len
    BY <1>1, <1>2
  <2>2. q = ((d + i) - 1) % 4
    BY <2>1
  <2>3. M[d + i] = <<<<k, h + (d + i)>>, <<k, 3 + x + q>>>>
    BY <1>5, <2>1, <2>2
  <2> HIDE DEF q
  <2>4. q + 1 \in 1 .. 4 /\ 2 + x + (q + 1) = 3 + x + q
    BY <1>1, <2>1
  <2>5. key[q + 1] = <<k, 3 + x + q>>
    BY <1>6, <2>4
  <2>6. e(i) = <<bytes[i], key[q + 1]>>
    BY DEF q
  <2> QED
    BY <1>7, <2>3, <2>5, <2>6
<1> HIDE DEF e
<1>11. u \in Seq(Masks) /\ Len(u) = n /\ \A i \in 1 .. n : u[i] = M[d + i]
  <2>1. \A i \in 1 .. n : e(i) \in Masks
    <3> SUFFICES ASSUME NEW i \in 1 .. n PROVE e(i) \in Masks
      OBVIOUS
    <3>1. d + i \in 1 .. d + n
      BY <1>2
    <3>2. w[d + i] = M[d + i] /\ w[d + i] \in Masks
      BY <1>4, <3>1, ElementOfSeq
    <3> QED
      BY <1>10, <3>2
  <2>2. u \in Seq(Masks) /\ Len(u) = n /\ \A i \in 1 .. n : u[i] = e(i)
    BY <1>2, <1>8, <2>1
  <2> QED
    BY <1>10, <2>2
<1> DEFINE c == s \o u
<1>12. /\ c \in Seq(Masks) /\ Len(c) = Len(s) + Len(u)
       /\ \A i \in 1 .. Len(s) + Len(u) : c[i] = IF i <= Len(s) THEN s[i] ELSE u[i - Len(s)]
  BY <1>3, <1>11, ConcatProperties
<1> HIDE DEF c
<1>13. Len(c) = d + n /\ \A i \in 1 .. d + n : c[i] = IF i <= d THEN s[i] ELSE u[i - d]
  BY <1>3, <1>11, <1>12
<1>14. ASSUME NEW i \in 1 .. d + n PROVE c[i] = w[i]
  <2>1. CASE i <= d
    <3>1. i \in 1 .. d
      BY <1>2, <2>1
    <3> QED
      BY <1>3, <1>4, <1>13, <2>1, <3>1
  <2>2. CASE ~(i <= d)
    <3>1. i - d \in 1 .. n /\ d + (i - d) = i
      BY <1>2, <2>2
    <3>2. u[i - d] = M[d + (i - d)]
      BY <1>11, <3>1
    <3> QED
      BY <1>4, <1>13, <2>2, <3>1, <3>2
  <2> QED
    BY <2>1, <2>2
<1>15. c = w
  BY <1>4, <1>12, <1>13, <1>14, SeqEqual
<1> QED
  BY <1>9, <1>15 DEF c, w, s, u, d, key, len

LEMMA FrameFacts ==
  ASSUME GoodFrames(Fs), NEW k \in DOMAIN Fs
  PROVE  /\ IsFrame(Frame(k)) /\ Frame(k) \in ClientFrames /\ k \in Nat /\ k >= 1
         /\ Frame(k).len \in Nat /\ FrameLen(Frame(k)) \in Nat
         /\ FrameLen(Frame(k)) = HeadLen(Frame(k)) + Frame(k).len
         /\ HeadLen(Frame(k)) \in Nat /\ HeadLen(Frame(k)) >= 2 /\ FrameLen(Frame(k)) >= 2
<1>1. IsFrame(Frame(k))
  BY DEF GoodFrames, Fs, Frame
<1>2. Frame(k) \in ClientFrames
  BY <1>1, SMT DEF IsFrame
<1>3. k \in Nat /\ k >= 1
  <2>1. Fs \in Seq(ClientFrames)
    BY DEF GoodFrames
  <2>2. DOMAIN Fs = 1 .. Len(Fs) /\ Len(Fs) \in Nat
    BY <2>1, LenProperties
  <2> QED
    BY <2>2
<1>4. /\ Frame(k).len \in Nat /\ FrameLen(Frame(k)) \in Nat
      /\ FrameLen(Frame(k)) = HeadLen(Frame(k)) + Frame(k).len /\ HeadLen(Frame(k)) \in Nat
  BY <1>2, FrameLenNat
<1>5. HeadLen(Frame(k)) >= 2
  <2>1. Frame(k).ext \in {0, 2, 8} /\ HeadLen(Frame(k)) = 2 + Frame(k).ext + (IF Frame(k).masked THEN 4 ELSE 0)
    BY <1>2, FrameLenNat
  <2> QED
    BY <2>1
<1>6. FrameLen(Frame(k)) >= 2
  BY <1>4, <1>5
<1> QED
  BY <1>1, <1>2, <1>3, <1>4, <1>5, <1>6

LEMMA InflowFacts ==
  ASSUME Stretch(Fs, inflow), NEW h \in 0 .. Len(inflow)
  PROVE  /\ inflow \in Seq(Nat \X Nat) /\ Len(inflow) \in Nat
         /\ Stretch(Fs, Behind(h)) /\ Len(Behind(h)) = Len(inflow) - h
         /\ \A i \in 1 .. Len(inflow) - h : Behind(h)[i] = inflow[h + i]
         /\ Behind(h) # <<>> <=> h < Len(inflow)
<1>1. inflow \in Seq(Nat \X Nat)
  BY DEF Stretch
<1> DEFINE n == Len(inflow)
           t == SubSeq(inflow, h + 1, n)
<1>2. n \in Nat /\ h \in Nat /\ h + 1 \in Nat /\ 1 <= h + 1 /\ n <= Len(inflow)
  BY <1>1, LenProperties
<1>3. /\ Stretch(Fs, t) /\ Len(t) = (IF h + 1 <= n THEN n - (h + 1) + 1 ELSE 0)
      /\ \A i \in 1 .. n - (h + 1) + 1 : t[i] = inflow[(h + 1) + i - 1]
  BY <1>2, StretchPart
<1>4. Behind(h) = t
  BY DEF Behind
<1> HIDE DEF t
<1>5. Len(t) = n - h
  BY <1>2, <1>3
<1>6. \A i \in 1 .. n - h : t[i] = inflow[h + i]
  <2> SUFFICES ASSUME NEW i \in 1 .. n - h PROVE t[i] = inflow[h + i]
    OBVIOUS
  <2>1. i \in 1 .. n - (h + 1) + 1 /\ (h + 1) + i - 1 = h + i
    BY <1>2
  <2> QED
    BY <1>3, <2>1
<1>7. t # <<>> <=> h < n
  <2>1. t \in Seq(Nat \X Nat)
    BY <1>3 DEF Stretch
  <2>2. t # <<>> <=> Len(t) # 0
    BY <2>1, EmptySeq
  <2>3. n - h # 0 <=> h < n
    BY <1>2
  <2> QED
    BY <1>5, <2>2, <2>3
<1> QED
  BY <1>1, <1>2, <1>3, <1>4, <1>5, <1>6, <1>7

(* The n bytes behind byte h, where l of frame k are still to come. *)
LEMMA BytesTaken ==
  ASSUME GoodFrames(Fs), Stretch(Fs, inflow), NEW k \in DOMAIN Fs, NEW l \in 0 .. Frame(k).len,
         NEW h \in 0 .. Len(inflow), Begins(Behind(h), Next(k, l)), NEW n \in 1 .. l, h + n <= Len(inflow)
  PROVE  /\ SubSeq(inflow, h + 1, h + n) \in Seq(Nat \X Nat) /\ Len(SubSeq(inflow, h + 1, h + n)) = n
         /\ \A i \in 1 .. n : SubSeq(inflow, h + 1, h + n)[i] = <<k, FrameLen(Frame(k)) - l + i>>
         /\ h + n \in 0 .. Len(inflow) /\ Begins(Behind(h + n), Next(k, l - n))
<1> DEFINE t == Behind(h)
           F == FrameLen(Frame(k))
           b == F - l + 1
           s == SubSeq(inflow, h + 1, h + n)
           N == Len(inflow)
<1>1. /\ F \in Nat /\ F = HeadLen(Frame(k)) + Frame(k).len /\ Frame(k).len \in Nat
      /\ HeadLen(Frame(k)) \in Nat /\ HeadLen(Frame(k)) >= 2 /\ k \in Nat
  BY FrameFacts
<1>2. N \in Nat /\ inflow \in Seq(Nat \X Nat) /\ Stretch(Fs, t) /\ Len(t) = N - h /\ \A i \in 1 .. N - h : t[i] = inflow[h + i]
  BY InflowFacts
<1>3. h \in Nat /\ h < N /\ n \in Nat /\ n >= 1 /\ l \in Nat /\ l <= Frame(k).len /\ n <= l
  BY <1>2
<1>4. b \in Nat /\ b <= F
  <2> DEFINE len == Frame(k).len
             H == HeadLen(Frame(k))
  <2>1. F \in Nat /\ F = H + len /\ len \in Nat /\ H \in Nat /\ H >= 2 /\ l \in Nat /\ l <= len /\ l >= 1
    BY <1>1, <1>3
  <2>2. b = F - l + 1
    OBVIOUS
  <2> HIDE DEF F, b, len, H
  <2> QED
    BY <2>1, <2>2
<1>5. t # <<>>
  BY <1>3, InflowFacts
<1>6. t[1] = <<k, b>>
  <2>1. t[1] = Next(k, l)
    BY <1>5 DEF Begins
  <2> QED
    BY <1>4, <2>1 DEF Next, Position, Fs, Frame
<1> HIDE DEF t
<1>17. Runs(Fs, t, k, b)
  <2> HIDE DEF b
  <2> QED
    BY <1>2, <1>4, <1>5, <1>6, StretchRuns
<1>7. /\ \A j \in 1 .. Len(t) : b + (j - 1) <= F => t[j] = <<k, b + (j - 1)>>
      /\ \A j \in 1 .. Len(t) - 1 : b + (j - 1) <= F => t[j + 1] = Position(Fs, k, b + j)
  <2>1. FrameLen(Fs[k]) = F
    BY DEF Fs, Frame
  <2> HIDE DEF F, b
  <2> QED
    BY <1>17, <2>1 DEF Runs
<1>18. h + n <= N /\ F - l + 1 = b
  OBVIOUS
<1>20. /\ h + n <= N /\ F - l + 1 = b /\ l <= F /\ F \in Nat /\ N \in Nat /\ l \in Nat /\ n \in Nat /\ h \in Nat
       /\ 1 <= n /\ n <= l /\ b \in Nat
  <2>1. l <= F
    BY <1>1, <1>3
  <2> HIDE DEF N, F, b
  <2> QED
    BY <1>1, <1>2, <1>3, <1>4, <1>18, <2>1, Zenon
<1> HIDE DEF N, F, b
<1>8. \A i \in 1 .. n : inflow[h + i] = <<k, F - l + i>>
  <2> SUFFICES ASSUME NEW i \in 1 .. n PROVE inflow[h + i] = <<k, F - l + i>>
    OBVIOUS
  <2>1. i \in 1 .. N - h /\ b + (i - 1) = F - l + i /\ b + (i - 1) <= F
    BY <1>20, <1>2
  <2>2. t[i] = inflow[h + i]
    BY <1>2, <2>1
  <2>3. t[i] = <<k, b + (i - 1)>>
    BY <1>2, <1>7, <2>1
  <2> QED
    BY <2>1, <2>2, <2>3
<1>9. s \in Seq(Nat \X Nat) /\ Len(s) = n /\ \A i \in 1 .. n : s[i] = inflow[h + i]
  <2>1. h + 1 \in Nat /\ h + n \in Nat /\ 1 <= h + 1 /\ h + n <= Len(inflow)
    BY <1>3
  <2>2. /\ Stretch(Fs, s) /\ Len(s) = (IF h + 1 <= h + n THEN (h + n) - (h + 1) + 1 ELSE 0)
        /\ \A i \in 1 .. (h + n) - (h + 1) + 1 : s[i] = inflow[(h + 1) + i - 1]
    BY <2>1, StretchPart
  <2> HIDE DEF s
  <2>3. Len(s) = n
    BY <1>3, <2>2
  <2>4. \A i \in 1 .. n : i \in 1 .. (h + n) - (h + 1) + 1 /\ (h + 1) + i - 1 = h + i
    BY <1>3
  <2>5. \A i \in 1 .. n : s[i] = inflow[h + i]
    BY <2>2, <2>4
  <2> QED
    BY <2>2, <2>3, <2>5 DEF Stretch
<1>10. h + n \in 0 .. N
  BY <1>2, <1>3, <1>20
<1>11. Begins(Behind(h + n), Next(k, l - n))
  <2>1. SUFFICES ASSUME Behind(h + n) # <<>> PROVE Behind(h + n)[1] = Next(k, l - n)
    BY DEF Begins
  <2>2. h + n < N
    BY <1>10, <2>1, InflowFacts DEF N
  <2>3. Behind(h + n)[1] = inflow[(h + n) + 1]
    <3>1. 1 \in 1 .. N - (h + n)
      BY <1>2, <1>3, <2>2
    <3> QED
      BY <1>10, <3>1, InflowFacts DEF N
  <2>4. n \in 1 .. Len(t) - 1 /\ n + 1 \in 1 .. N - h /\ h + (n + 1) = (h + n) + 1 /\ b + (n - 1) <= F
    BY <1>20, <1>2, <2>2
  <2>5. t[n + 1] = Position(Fs, k, b + n) /\ t[n + 1] = inflow[(h + n) + 1]
    <3>1. t[n + 1] = Position(Fs, k, b + n)
      BY <1>7, <2>4
    <3>2. PICK c : c = n + 1
      OBVIOUS
    <3>3. c \in 1 .. N - h /\ h + c = (h + n) + 1
      BY <1>20, <2>4, <3>2
    <3>4. t[c] = inflow[h + c]
      BY <1>2, <3>3
    <3> QED
      BY <3>1, <3>2, <3>3, <3>4
  <2>6. b + n = F - (l - n) + 1
    BY <1>20
  <2> QED
    BY <2>3, <2>5, <2>6 DEF Next, F
<1> QED
  BY <1>8, <1>9, <1>10, <1>11 DEF F, N

(* The payload of frame k is read on from behind byte h. *)
LEMMA PayloadRight ==
  ASSUME GoodFrames(Fs), Stretch(Fs, inflow), NEW k \in DOMAIN Fs, NEW l \in 0 .. Frame(k).len,
         NEW h \in 0 .. Len(inflow), Begins(Behind(h), Next(k, l)), NEW max_len \in Nat, NEW partial \in BOOLEAN,
         NEW r \in RecvPayload(PktOf(k, l), Key(k), h, max_len, partial), r.ok
  PROVE  \E m \in 0 .. Frame(k).len : RecvOk(r, k, m, max_len, partial)
<1> DEFINE len == Frame(k).len
           p == PktOf(k, l)
           key == Key(k)
           n == LessOf(max_len, l)
           bytes == SubSeq(inflow, h + 1, h + n)
           u == Unmask(bytes, key, len - l)
           s == PartOf(k, len - l)
           read == Pkt(Frame(k).type, Frame(k).final, len, l - n, s \o u)
<1>0. Frame(k) \in ClientFrames /\ k \in Nat /\ len \in Nat /\ l \in Nat /\ l <= len
  BY FrameFacts
<1>1. p.len = len /\ p.left_len = l /\ p.type = Frame(k).type /\ p.final = Frame(k).final /\ p.payload = s
  BY DEF PktOf, Pkt
<1>2. RecvPayload(p, key, h, max_len, partial) =
        IF max_len = 0 THEN {Received(p, key, h)}
        ELSE IF len > max_len /\ ~partial THEN {RecvError(p)}
        ELSE IF l = 0 THEN {Received(p, key, h)}
        ELSE Where(Comes(h + n), Received(read, key, h + n)) \union Where(MayFail(h + n), RecvError(p))
  <2> HIDE DEF p, key
  <2> QED
    BY <1>1 DEF RecvPayload
<1>3. ~RecvError(p).ok /\ r \in RecvPayload(p, key, h, max_len, partial)
  BY DEF RecvError
<1>4. \/ r = Received(p, key, h) /\ (max_len = 0 \/ l = 0)
      \/ r = Received(read, key, h + n) /\ max_len > 0 /\ l > 0 /\ Comes(h + n) /\ (len <= max_len \/ partial)
  <2> HIDE DEF p, key, n, read
  <2>1. CASE max_len = 0 \/ (l = 0 /\ ~(len > max_len /\ ~partial))
    BY <1>2, <1>3, <2>1
  <2>2. CASE max_len # 0 /\ len > max_len /\ ~partial
    BY <1>2, <1>3, <2>2
  <2>3. CASE max_len # 0 /\ ~(len > max_len /\ ~partial) /\ l # 0
    <3> DEFINE over == len > max_len /\ ~partial
               none == max_len = 0
               all == l = 0
               last == Where(Comes(h + n), Received(read, key, h + n)) \union Where(MayFail(h + n), RecvError(p))
    <3>1. r \in last
      <4>1. ~none /\ ~over /\ ~all
        BY <2>3
      <4>2. r \in IF none THEN {Received(p, key, h)} ELSE IF over THEN {RecvError(p)}
                   ELSE IF all THEN {Received(p, key, h)} ELSE last
        BY <1>2, <1>3, Zenon
      <4> HIDE DEF none, over, all, last
      <4> QED
        BY <4>1, <4>2
    <3>2. r = Received(read, key, h + n) /\ Comes(h + n)
      BY <1>3, <3>1 DEF Where
    <3>3. max_len > 0 /\ l > 0 /\ (len <= max_len \/ partial)
      BY <1>0, <2>3
    <3> QED
      BY <3>2, <3>3
  <2> QED
    BY <2>1, <2>2, <2>3
<1>5. CASE r = Received(p, key, h) /\ (max_len = 0 \/ l = 0)
  <2>1. r.pkt = PktOf(k, l) /\ r.key = Key(k) /\ r.taken = h
    BY <1>5 DEF Received
  <2>2. max_len > 0 /\ ~partial => l = 0
    BY <1>5
  <2>3. RecvOk(r, k, l, max_len, partial)
    BY <2>1, <2>2 DEF RecvOk
  <2> QED
    BY <2>3
<1>6. CASE r = Received(read, key, h + n) /\ max_len > 0 /\ l > 0 /\ Comes(h + n) /\ (len <= max_len \/ partial)
  <2>1. n \in 1 .. l /\ n \in 0 .. l /\ l - n \in 0 .. len /\ (len <= max_len => n = l)
    BY <1>0, <1>6 DEF LessOf
  <2>2. h + n <= Len(inflow)
    <3>1. Len(inflow) \in Nat
      BY InflowFacts
    <3> HIDE DEF n
    <3> QED
      BY <1>6, <2>1, <3>1 DEF Comes
  <2>3. /\ bytes \in Seq(Nat \X Nat) /\ Len(bytes) = n
        /\ \A i \in 1 .. n : bytes[i] = <<k, FrameLen(Frame(k)) - l + i>>
        /\ h + n \in 0 .. Len(inflow) /\ Begins(Behind(h + n), Next(k, l - n))
    <3> HIDE DEF n
    <3> QED
      BY <2>1, <2>2, BytesTaken
  <2>4. s \o u = PartOf(k, len - (l - n))
    <3> HIDE DEF n, bytes
    <3> QED
      BY <1>0, <2>1, <2>3, PartGrows
  <2>5. r.pkt = PktOf(k, l - n) /\ r.key = Key(k) /\ r.taken = h + n
    <3>1. read = PktOf(k, l - n)
      <4> HIDE DEF n, s, u
      <4> QED
        BY <2>4 DEF PktOf
    <3> HIDE DEF n, read
    <3> QED
      BY <1>6, <3>1 DEF Received
  <2>6. max_len > 0 /\ ~partial => l - n = 0
    <3> HIDE DEF n
    <3> QED
      BY <1>0, <1>6, <2>1
  <2>7. RecvOk(r, k, l - n, max_len, partial)
    <3> HIDE DEF n
    <3> QED
      BY <2>1, <2>3, <2>5, <2>6 DEF RecvOk
  <2> QED
    BY <2>1, <2>7
<1> QED
  BY <1>4, <1>5, <1>6

LEMMA BehindNone == ASSUME inflow \in Seq(Nat \X Nat) PROVE Behind(0) = inflow
<1>1. 0 + 1 = 1
  OBVIOUS
<1> QED
  BY <1>1, SubSeqFull DEF Behind

(* The header of frame k, behind its first byte. *)
LEMMA HeaderRead ==
  ASSUME GoodFrames(Fs), Stretch(Fs, inflow), NEW k \in DOMAIN Fs, inflow # <<>>, inflow[1] = <<k, 2>>
  PROVE  /\ RxFrame = Frame(k) /\ RxHead = HeadLen(Frame(k)) - 1 /\ RxLength(LengthBytes(RxFrame)) = Frame(k).len
         /\ Comes(RxHead) => /\ RxHead \in 0 .. Len(inflow) /\ Begins(Behind(RxHead), Next(k, Frame(k).len))
                             /\ (Frame(k).masked => RxMask = Key(k))
<1> DEFINE f == Frame(k)
           H == HeadLen(f)
           F == FrameLen(f)
           N == Len(inflow)
<1>1. /\ IsFrame(f) /\ f \in ClientFrames /\ k \in Nat /\ F \in Nat /\ F = H + f.len /\ H \in Nat /\ H >= 2
      /\ f.len \in Nat /\ k >= 1
  BY FrameFacts
<1>2. f.ext \in {0, 2, 8} /\ f.masked \in BOOLEAN /\ H = 2 + f.ext + (IF f.masked THEN 4 ELSE 0)
  BY <1>1, FrameLenNat
<1>3. RxFrame = f
  <2>1. inflow[1][1] = k
    OBVIOUS
  <2> QED
    BY <2>1 DEF RxFrame, Frame
<1>4. RxLength(LengthBytes(f)) = f.len /\ ExtLen(LengthBytes(f)[1]) = f.ext
  BY <1>1, LengthRead
<1>5. RxExt = f.ext
  BY <1>3, <1>4 DEF RxExt
<1>6. RxHead = H - 1
  <2>1. RxHead = 1 + f.ext + (IF f.masked THEN 4 ELSE 0)
    BY <1>3, <1>5 DEF RxHead
  <2>2. CASE f.masked
    BY <1>2, <2>1, <2>2
  <2>3. CASE ~f.masked
    BY <1>2, <2>1, <2>3
  <2> QED
    BY <2>2, <2>3
<1>7. Runs(Fs, inflow, k, 2)
  BY StretchRuns
<1>8. N \in Nat /\ N >= 1 /\ inflow \in Seq(Nat \X Nat)
  <2>1. inflow \in Seq(Nat \X Nat)
    BY DEF Stretch
  <2> QED
    BY <2>1, EmptySeq
<1>9. /\ \A j \in 1 .. N : 2 + (j - 1) <= F => inflow[j] = <<k, 2 + (j - 1)>>
      /\ \A j \in 1 .. N - 1 : 2 + (j - 1) <= F => inflow[j + 1] = Position(Fs, k, 2 + j)
  <2>1. FrameLen(Fs[k]) = F
    BY DEF Fs, Frame
  <2> HIDE DEF F
  <2> QED
    BY <1>7, <2>1 DEF Runs
<1>10. ASSUME Comes(RxHead) PROVE RxHead \in 0 .. N /\ RxHead <= N
  BY <1>1, <1>6, <1>8, <1>10 DEF Comes
<1>11. ASSUME Comes(RxHead) PROVE Begins(Behind(RxHead), Next(k, f.len))
  <2>0. RxHead \in 0 .. Len(inflow)
    BY <1>10, <1>11
  <2> SUFFICES ASSUME Behind(RxHead) # <<>> PROVE Behind(RxHead)[1] = Next(k, f.len)
    BY DEF Begins
  <2>1. RxHead < N
    BY <2>0, InflowFacts
  <2> DEFINE h == RxHead
  <2>2. h \in Nat /\ h >= 1 /\ h \in 1 .. N - 1 /\ 2 + (h - 1) <= F /\ 2 + h = F - f.len + 1 /\ 1 \in 1 .. N - h
    <3> DEFINE q == f.len
    <3>1. H - 1 = h /\ H + q = F /\ H \in Nat /\ q \in Nat /\ H >= 2 /\ N \in Nat /\ h < N
      BY <1>1, <1>6, <1>8, <2>1
    <3> HIDE DEF q, h, F, N, H
    <3>2. h \in Nat /\ h >= 1 /\ h \in 1 .. N - 1 /\ 2 + (h - 1) <= F /\ 2 + h = F - q + 1 /\ 1 \in 1 .. N - h
      BY <3>1
    <3> QED
      BY <3>2 DEF q
  <2>3. Behind(h)[1] = inflow[h + 1]
    BY <2>0, <2>2, InflowFacts
  <2>4. inflow[h + 1] = Position(Fs, k, 2 + h)
    BY <1>9, <2>2
  <2> HIDE DEF h
  <2>5. Behind(h)[1] = Next(k, f.len)
    BY <2>2, <2>3, <2>4 DEF Next
  <2> QED
    BY <2>5 DEF h
<1>12. ASSUME Comes(RxHead), f.masked PROVE RxMask = Key(k)
  <2> DEFINE h == RxHead
             x == f.ext
             s == SubSeq(inflow, h - 3, h)
  <2>1. h = 5 + x /\ x \in Nat /\ h \in Nat /\ h <= N /\ h + 1 <= F
    <3> DEFINE q == f.len
    <3>1. H = 2 + x + 4 /\ x \in Nat
      BY <1>2, <1>12
    <3>2. H - 1 = h /\ H + q = F /\ H \in Nat /\ q \in Nat /\ h <= N
      BY <1>1, <1>6, <1>10, <1>12
    <3> HIDE DEF q, h, F, N, H, x
    <3> QED
      BY <3>1, <3>2
  <2>2. Key(k) = [i \in 1 .. 4 |-> <<k, 2 + x + i>>]
    BY DEF Key
  <2> HIDE DEF h, x, F, N
  <2>3. h - 3 \in Nat /\ 1 <= h - 3 /\ h <= N
    BY <2>1
  <2>4. /\ Stretch(Fs, s) /\ Len(s) = (IF h - 3 <= h THEN h - (h - 3) + 1 ELSE 0)
        /\ \A i \in 1 .. h - (h - 3) + 1 : s[i] = inflow[(h - 3) + i - 1]
    BY <2>1, <2>3, StretchPart DEF N
  <2> HIDE DEF s
  <2>5. Len(s) = 4 /\ s \in Seq(Nat \X Nat)
    <3>1. Len(s) = 4
      BY <2>1, <2>4
    <3> QED
      BY <2>4, <3>1 DEF Stretch
  <2>6. \A i \in 1 .. 4 : s[i] = <<k, 2 + x + i>>
    <3> SUFFICES ASSUME NEW i \in 1 .. 4 PROVE s[i] = <<k, 2 + x + i>>
      OBVIOUS
    <3>1. PICK j : j = (h - 3) + i - 1
      OBVIOUS
    <3>2. i \in Nat /\ i >= 1 /\ i <= 4 /\ N \in Nat /\ F \in Nat
      BY <1>1, <1>8
    <3>3. j = h + i - 4 /\ h - (h - 3) + 1 = 4
      BY <2>1, <3>1, <3>2
    <3>4. j \in Nat /\ j >= 1 /\ j <= h
      BY <2>1, <3>2, <3>3
    <3>5. 2 + (j - 1) <= F /\ 2 + (j - 1) = 2 + x + i
      BY <2>1, <3>2, <3>3
    <3>6. i \in 1 .. h - (h - 3) + 1 /\ j \in 1 .. N
      BY <2>1, <3>2, <3>3, <3>4
    <3>7. s[i] = inflow[j]
      BY <2>4, <3>1, <3>6
    <3>8. inflow[j] = <<k, 2 + (j - 1)>>
      BY <1>9, <3>5, <3>6
    <3> QED
      BY <3>5, <3>7, <3>8
  <2>7. s = [i \in 1 .. 4 |-> <<k, 2 + x + i>>]
    <3>1. DOMAIN s = 1 .. 4 /\ s = [i \in 1 .. 4 |-> s[i]]
      BY <2>5, LenProperties
    <3> QED
      BY <2>6, <3>1
  <2> QED
    BY <2>2, <2>7 DEF s, RxMask, h
<1> QED
  BY <1>3, <1>4, <1>6, <1>10, <1>11, <1>12

(* A frame read from its second byte. *)
LEMMA FrameBegun ==
  ASSUME GoodFrames(Fs), Stretch(Fs, inflow), NEW k \in DOMAIN Fs, Begins(inflow, Position(Fs, k, 2)),
         aux.type = Frame(k).type, aux.final = Frame(k).final, NEW max_len \in Nat, NEW partial \in BOOLEAN,
         NEW r \in RecvFrame(NoPkt, max_len, partial), r.ok
  PROVE  Frame(k).masked /\ \E m \in 0 .. Frame(k).len : RecvOk(r, k, m, max_len, partial)
<1>1. ~RecvError(NoPkt).ok
  BY DEF RecvError
<1>2. NoPkt.len = 0 /\ NoPkt.payload = <<>>
  BY DEF NoPkt, Pkt
<1> DEFINE len == RxLength(LengthBytes(RxFrame))
           begun == Pkt(aux.type, aux.final, len, len, NoPkt.payload)
           gone == ~Comes(1) \/ ~Comes(RxHead)
           late == Where(MayFail(RxHead), RecvError(begun))
           read == RecvPayload(begun, RxMask, RxHead, max_len, partial)
<1>3. r \in IF gone THEN {RecvError(NoPkt)}
            ELSE late \union IF ~RxFrame.masked THEN {RecvError(begun)} ELSE read
  <2>1. ~(NoPkt.len > 0)
    BY <1>2
  <2> QED
    BY <2>1 DEF RecvFrame
<1>4. ~RecvError(begun).ok
  BY DEF RecvError
<1>5. ~gone /\ RxFrame.masked /\ r \in read
  <2> HIDE DEF gone, begun, read
  <2>1. ~gone
    BY <1>1, <1>3
  <2>2. r \in late \union IF ~RxFrame.masked THEN {RecvError(begun)} ELSE read
    BY <1>3, <2>1
  <2>3. r \notin late
    BY <1>4 DEF Where
  <2> QED
    BY <1>4, <2>1, <2>2, <2>3
<1>6. inflow # <<>> /\ inflow \in Seq(Nat \X Nat)
  <2>1. inflow \in Seq(Nat \X Nat)
    BY DEF Stretch
  <2>2. Comes(1)
    BY <1>5
  <2>3. Len(inflow) >= 1 /\ Len(<<>>) = 0
    BY <2>2, EmptySeq DEF Comes
  <2> QED
    BY <2>1, <2>3
<1>7. inflow[1] = <<k, 2>>
  <2>1. 2 <= FrameLen(Fs[k])
    BY FrameFacts DEF Fs, Frame
  <2>2. inflow[1] = Position(Fs, k, 2)
    BY <1>6 DEF Begins
  <2> QED
    BY <2>1, <2>2 DEF Position
<1>8. /\ RxFrame = Frame(k) /\ len = Frame(k).len
      /\ RxHead \in 0 .. Len(inflow) /\ Begins(Behind(RxHead), Next(k, Frame(k).len)) /\ RxMask = Key(k)
  <2>1. /\ RxFrame = Frame(k) /\ RxLength(LengthBytes(RxFrame)) = Frame(k).len
        /\ Comes(RxHead) => /\ RxHead \in 0 .. Len(inflow) /\ Begins(Behind(RxHead), Next(k, Frame(k).len))
                            /\ (Frame(k).masked => RxMask = Key(k))
    BY <1>6, <1>7, HeaderRead
  <2> QED
    BY <1>5, <2>1
<1>9. begun = PktOf(k, Frame(k).len)
  <2>1. Frame(k).len - Frame(k).len = 0
    BY FrameFacts
  <2>2. PartOf(k, 0) = <<>>
    BY PartNone
  <2> QED
    BY <1>2, <1>8, <2>1, <2>2 DEF PktOf
<1>10. r \in RecvPayload(PktOf(k, Frame(k).len), Key(k), RxHead, max_len, partial)
  BY <1>5, <1>8, <1>9
<1>11. Frame(k).len \in 0 .. Frame(k).len
  BY FrameFacts
<1>12. \E m \in 0 .. Frame(k).len : RecvOk(r, k, m, max_len, partial)
  BY <1>8, <1>10, <1>11, PayloadRight
<1> QED
  BY <1>5, <1>8, <1>12

(* A frame read on. *)
LEMMA FrameReadOn ==
  ASSUME GoodFrames(Fs), Stretch(Fs, inflow), NEW k \in DOMAIN Fs, NEW l \in 1 .. Frame(k).len,
         Begins(inflow, Next(k, l)), aux.mask_key = Key(k), NEW max_len \in Nat, NEW partial \in BOOLEAN,
         NEW r \in RecvFrame(PktOf(k, l), max_len, partial), r.ok
  PROVE  \E m \in 0 .. Frame(k).len : RecvOk(r, k, m, max_len, partial)
<1>1. PktOf(k, l).len > 0 /\ l \in 0 .. Frame(k).len
  <2>1. PktOf(k, l).len = Frame(k).len
    BY DEF PktOf, Pkt
  <2>2. Frame(k).len \in Nat
    BY FrameFacts
  <2> QED
    BY <2>1, <2>2
<1>2. r \in RecvPayload(PktOf(k, l), Key(k), 0, max_len, partial)
  BY <1>1 DEF RecvFrame
<1>3. 0 \in 0 .. Len(inflow) /\ inflow \in Seq(Nat \X Nat)
  <2>1. inflow \in Seq(Nat \X Nat)
    BY DEF Stretch
  <2>2. Len(inflow) \in Nat
    BY <2>1, LenProperties
  <2> QED
    BY <2>1, <2>2
<1>4. Begins(Behind(0), Next(k, l))
  BY <1>3, BehindNone
<1> QED
  BY <1>1, <1>2, <1>3, <1>4, PayloadRight

(* A sequence of anything. *)
IsSeq(s) == \E S : s \in Seq(S)

LEMMA AppendAny ==
  ASSUME NEW s, IsSeq(s), NEW e
  PROVE  /\ IsSeq(Append(s, e)) /\ Len(Append(s, e)) = Len(s) + 1 /\ Len(s) \in Nat /\ Append(s, e) # <<>>
         /\ DOMAIN s = 1 .. Len(s) /\ DOMAIN Append(s, e) = 1 .. Len(s) + 1
         /\ \A i \in 1 .. Len(s) : Append(s, e)[i] = s[i]
         /\ Append(s, e)[Len(s) + 1] = e
<1>1. PICK S : s \in Seq(S)
  BY DEF IsSeq
<1> DEFINE T == S \union {e}
           t == Append(s, e)
<1>2. s \in Seq(T)
  <2>1. S \subseteq T
    OBVIOUS
  <2> QED
    BY <1>1, <2>1, SeqMonotonic
<1>3. e \in T
  OBVIOUS
<1> HIDE DEF T
<1>4. /\ t \in Seq(T) /\ t # <<>> /\ Len(t) = Len(s) + 1 /\ \A i \in 1 .. Len(s) : t[i] = s[i]
      /\ t[Len(s) + 1] = e
  BY <1>2, <1>3, AppendProperties
<1> HIDE DEF t
<1>5. Len(s) \in Nat /\ DOMAIN s = 1 .. Len(s) /\ DOMAIN t = 1 .. Len(t)
  BY <1>2, <1>4, LenProperties
<1>6. IsSeq(t)
  BY <1>4 DEF IsSeq
<1> QED
  BY <1>4, <1>5, <1>6 DEF t

(* The answers among what was sent. *)
AnswersOf(o) ==
  Picked(Len(o), {j \in DOMAIN o : o[j].by = "answer"}, [j \in DOMAIN o |-> Tx(o[j].type, o[j].by, o[j].data)])

LEMMA AnswersOne ==
  ASSUME NEW o, IsSeq(o), NEW e
  PROVE  AnswersOf(Append(o, e)) =
           IF e.by = "answer" THEN Append(AnswersOf(o), Tx(e.type, e.by, e.data)) ELSE AnswersOf(o)
<1> DEFINE n == Len(o)
           t == Append(o, e)
           S == {j \in DOMAIN o : o[j].by = "answer"}
           v == [j \in DOMAIN o |-> Tx(o[j].type, o[j].by, o[j].data)]
           T == {j \in DOMAIN t : t[j].by = "answer"}
           w == [j \in DOMAIN t |-> Tx(t[j].type, t[j].by, t[j].data)]
<1>1. /\ Len(t) = n + 1 /\ n \in Nat /\ DOMAIN o = 1 .. n /\ DOMAIN t = 1 .. n + 1
      /\ \A i \in 1 .. n : t[i] = o[i]
      /\ t[n + 1] = e
  BY AppendAny
<1> HIDE DEF n, t
<1>2. \A i \in 1 .. n : i \in 1 .. n + 1
  BY <1>1
<1>3. \A i \in 1 .. n : (i \in T <=> i \in S) /\ (i \in T => w[i] = v[i])
  <2> SUFFICES ASSUME NEW i \in 1 .. n PROVE (i \in T <=> i \in S) /\ w[i] = v[i]
    OBVIOUS
  <2>1. i \in DOMAIN o /\ i \in DOMAIN t /\ t[i] = o[i]
    BY <1>1, <1>2
  <2>2. w[i] = Tx(t[i].type, t[i].by, t[i].data) /\ v[i] = Tx(o[i].type, o[i].by, o[i].data)
    BY <2>1
  <2>3. i \in T <=> i \in S
    BY <2>1
  <2> QED
    BY <2>1, <2>2, <2>3
<1>4. n + 1 \in DOMAIN t
  BY <1>1
<1>5. (n + 1 \in T <=> e.by = "answer") /\ w[n + 1] = Tx(e.type, e.by, e.data)
  BY <1>1, <1>4
<1>6. AnswersOf(t) = Picked(n + 1, T, w) /\ AnswersOf(o) = Picked(n, S, v)
  BY <1>1 DEF AnswersOf, n
<1> HIDE DEF S, v, T, w
<1>7. Picked(n + 1, T, w) = IF n + 1 \in T THEN Append(Picked(n, T, w), w[n + 1]) ELSE Picked(n, T, w)
  BY <1>1, PickedNext
<1>8. Picked(n, T, w) = Picked(n, S, v)
  BY <1>1, <1>3, PickedSame
<1> QED
  BY <1>5, <1>6, <1>7, <1>8 DEF t

LEMMA AnswersNone == AnswersOf(<<>>) = <<>>
<1>1. Len(<<>>) = 0
  BY EmptySeq
<1> QED
  BY <1>1, PickedNone DEF AnswersOf

LEMMA AnswersIs == Answers = AnswersOf(outflow)
  BY DEF Answers, AnswersOf

-----------------------------------------------------------------------------
(* What is told and due before one frame and the next. *)
LEMMA ToldFirst == Told(1) = <<>> /\ Due(1) = <<>> /\ Reached(1)
<1>1. 1 - 1 = 0
  OBVIOUS
<1>2. Told(1) = <<>>
  BY <1>1, PickedNone DEF Told
<1>3. Due(1) = <<>>
  BY <1>1, PickedNone DEF Due
<1>4. Reached(1)
  BY DEF Reached
<1> QED
  BY <1>2, <1>3, <1>4

LEMMA ToldNext ==
  ASSUME NEW k \in DOMAIN Fs, k \in Nat, k >= 1, Reached(k)
  PROVE  /\ Told(k + 1) = IF Dispatched(Frame(k).type) THEN Append(Told(k), AsHandled(k)) ELSE Told(k)
         /\ Due(k + 1) = IF AnsweredFor(Frame(k).type) THEN Append(Due(k), AsAnswered(k)) ELSE Due(k)
         /\ Frame(k).type # "close" => Reached(k + 1)
<1> DEFINE n == k - 1
<1>1. n \in Nat /\ n + 1 = k /\ (k + 1) - 1 = k
  OBVIOUS
<1> HIDE DEF n
<1>2. Told(k + 1) = IF Dispatched(Frame(k).type) THEN Append(Told(k), AsHandled(k)) ELSE Told(k)
  <2> DEFINE S == {j \in DOMAIN talk.frames : Reached(j) /\ Dispatched(talk.frames[j].type)}
             v == [j \in DOMAIN talk.frames |-> AsHandled(j)]
  <2>1. Told(k + 1) = Picked(n + 1, S, v) /\ Told(k) = Picked(n, S, v)
    BY <1>1 DEF Told, n
  <2>2. (k \in S <=> Dispatched(Frame(k).type)) /\ v[k] = AsHandled(k)
    BY DEF Frame, Fs
  <2> HIDE DEF S, v
  <2>3. Picked(n + 1, S, v) = IF n + 1 \in S THEN Append(Picked(n, S, v), v[n + 1]) ELSE Picked(n, S, v)
    BY <1>1, PickedNext
  <2> QED
    BY <1>1, <2>1, <2>2, <2>3
<1>3. Due(k + 1) = IF AnsweredFor(Frame(k).type) THEN Append(Due(k), AsAnswered(k)) ELSE Due(k)
  <2> DEFINE S == {j \in DOMAIN talk.frames : Reached(j) /\ AnsweredFor(talk.frames[j].type)}
             v == [j \in DOMAIN talk.frames |-> AsAnswered(j)]
  <2>1. Due(k + 1) = Picked(n + 1, S, v) /\ Due(k) = Picked(n, S, v)
    BY <1>1 DEF Due, n
  <2>2. (k \in S <=> AnsweredFor(Frame(k).type)) /\ v[k] = AsAnswered(k)
    BY DEF Frame, Fs
  <2> HIDE DEF S, v
  <2>3. Picked(n + 1, S, v) = IF n + 1 \in S THEN Append(Picked(n, S, v), v[n + 1]) ELSE Picked(n, S, v)
    BY <1>1, PickedNext
  <2> QED
    BY <1>1, <2>1, <2>2, <2>3
<1>4. ASSUME Frame(k).type # "close" PROVE Reached(k + 1)
  <2>1. \A i \in 1 .. (k + 1) - 1 : i \in 1 .. k - 1 \/ i = k
    OBVIOUS
  <2> QED
    BY <1>4, <2>1 DEF Reached, Frame
<1> QED
  BY <1>2, <1>3, <1>4

(* Each of them is a prefix of what it becomes. *)
LEMMA ToldPrefix ==
  ASSUME NEW k \in Nat, NEW m \in Nat, 1 <= k, k <= m
  PROVE  IsPrefix(Told(k), Told(m)) /\ IsPrefix(Due(k), Due(m))
<1> DEFINE n == m - 1
           d == k - 1
<1>1. n \in Nat /\ d \in Nat /\ d <= n
  OBVIOUS
<1>2. IsPrefix(Told(k), Told(m))
  <2> DEFINE S == {j \in DOMAIN talk.frames : Reached(j) /\ Dispatched(talk.frames[j].type)}
             v == [j \in DOMAIN talk.frames |-> AsHandled(j)]
             V == {v[i] : i \in 1 .. n}
  <2>1. Told(m) = Picked(n, S, v) /\ Told(k) = Picked(d, S, v)
    BY DEF Told
  <2> HIDE DEF S, v, n, d
  <2>2. \A i \in 1 .. n : i \in S => v[i] \in V
    OBVIOUS
  <2> HIDE DEF V
  <2> QED
    BY <1>1, <2>1, <2>2, PickedPrefix
<1>3. IsPrefix(Due(k), Due(m))
  <2> DEFINE S == {j \in DOMAIN talk.frames : Reached(j) /\ AnsweredFor(talk.frames[j].type)}
             v == [j \in DOMAIN talk.frames |-> AsAnswered(j)]
             V == {v[i] : i \in 1 .. n}
  <2>1. Due(m) = Picked(n, S, v) /\ Due(k) = Picked(d, S, v)
    BY DEF Due
  <2> HIDE DEF S, v, n, d
  <2>2. \A i \in 1 .. n : i \in S => v[i] \in V
    OBVIOUS
  <2> HIDE DEF V
  <2> QED
    BY <1>1, <2>1, <2>2, PickedPrefix
<1> QED
  BY <1>2, <1>3

(* A step that leaves the client's frames and what handlers want alone.     *)
LEMMA ToldKept ==
  ASSUME talk' = talk, ws'.control_frames = ws.control_frames
  PROVE  /\ \A k : Told(k)' = Told(k) /\ Due(k)' = Due(k) /\ Reached(k)' = Reached(k)
         /\ \A type : Dispatched(type)' = Dispatched(type) /\ AnsweredFor(type)' = AnsweredFor(type)
<1>1. \A k : Reached(k)' = Reached(k)
  BY DEF Reached
<1>2. \A type : Dispatched(type)' = Dispatched(type)
  BY DEF Dispatched
<1>3. \A type : AnsweredFor(type)' = AnsweredFor(type)
  BY DEF AnsweredFor
<1>4. \A k : AsHandled(k)' = AsHandled(k) /\ AsAnswered(k)' = AsAnswered(k)
  BY DEF AsHandled, AsAnswered
<1>5. \A k : Told(k)' = Told(k)
  BY <1>1, <1>2, <1>4 DEF Told
<1>6. \A k : Due(k)' = Due(k)
  BY <1>1, <1>3, <1>4 DEF Due
<1> QED
  BY <1>1, <1>2, <1>3, <1>5, <1>6

WsSet == [open : BOOLEAN, handshake_done : BOOLEAN, close : BOOLEAN, control_frames : BOOLEAN]

LEMMA WsMarked ==
  ASSUME ws \in WsSet, NEW type, MarkIf(type)
  PROVE  /\ ws' \in WsSet /\ ws'.open = ws.open /\ ws'.handshake_done = ws.handshake_done
         /\ ws'.control_frames = ws.control_frames /\ (ws'.close <=> ws.close \/ type = "close")
<1> DEFINE c == ws.close \/ type = "close"
<1>1. c \in BOOLEAN
  OBVIOUS
<1>2. ws' = [ws EXCEPT !.close = c]
  BY DEF MarkIf
<1> HIDE DEF c
<1>3. ws' \in WsSet
  BY <1>1, <1>2 DEF WsSet
<1>4. ws'.open = ws.open
  BY <1>2 DEF WsSet
<1>5. ws'.handshake_done = ws.handshake_done
  BY <1>2 DEF WsSet
<1>6. ws'.control_frames = ws.control_frames
  BY <1>2 DEF WsSet
<1>7. ws'.close = c
  BY <1>2 DEF WsSet
<1> QED
  BY <1>3, <1>4, <1>5, <1>6, <1>7 DEF c

LEMMA WsGone ==
  ASSUME ws \in WsSet, ws' = WsClosed
  PROVE  /\ ws' \in WsSet /\ ws'.open = FALSE /\ ws'.handshake_done = ws.handshake_done
         /\ ws'.control_frames = ws.control_frames /\ ws'.close = ws.close
<1>1. ws' = [ws EXCEPT !.open = FALSE]
  BY DEF WsClosed
<1>2. ws' \in WsSet
  BY <1>1 DEF WsSet
<1>3. ws'.open = FALSE
  BY <1>1 DEF WsSet
<1>4. ws'.handshake_done = ws.handshake_done
  BY <1>1 DEF WsSet
<1>5. ws'.control_frames = ws.control_frames
  BY <1>1 DEF WsSet
<1>6. ws'.close = ws.close
  BY <1>1 DEF WsSet
<1> QED
  BY <1>2, <1>3, <1>4, <1>5, <1>6

LEMMA WsShaken ==
  ASSUME ws \in WsSet, NEW c \in BOOLEAN, ws' = [ws EXCEPT !.handshake_done = TRUE, !.control_frames = c]
  PROVE  /\ ws' \in WsSet /\ ws'.open = ws.open /\ ws'.handshake_done = TRUE
         /\ ws'.control_frames = c /\ ws'.close = ws.close
<1>1. ws' \in WsSet
  BY DEF WsSet
<1>2. ws'.open = ws.open
  BY DEF WsSet
<1>3. ws'.handshake_done = TRUE
  BY DEF WsSet
<1>4. ws'.control_frames = c
  BY DEF WsSet
<1>5. ws'.close = ws.close
  BY DEF WsSet
<1> QED
  BY <1>1, <1>2, <1>3, <1>4, <1>5

(* Every frame's type is answered for or dispatched, and not both. *)
LEMMA TypesCovered ==
  ASSUME NEW k \in DOMAIN Fs, GoodFrames(Fs), ws \in WsSet
  PROVE  AnsweredFor(Frame(k).type) <=> ~Dispatched(Frame(k).type)
<1> DEFINE t == Frame(k).type
           c == ws.control_frames
<1>1. t \in Control \union {"continue", "text", "binary"}
  <2>1. Frame(k) \in ClientFrames
    BY FrameFacts
  <2> QED
    BY <2>1, SMT DEF ClientFrames
<1>2. c \in BOOLEAN
  BY DEF WsSet
<1> HIDE DEF t, c
<1>3. (~c /\ t \in {"ping", "close"}) <=> ~(t \notin Control \/ t = "pong" \/ c)
  BY <1>1, <1>2 DEF Control
<1> QED
  BY <1>3 DEF AnsweredFor, Dispatched, t, c

-----------------------------------------------------------------------------
(* The inductive invariant. *)

(* A talk is one of those explored; pending_len counts what there is. *)
WsShapes ==
  /\ talk \in Talks /\ ws \in WsSet
  /\ Stretch(Fs, inflow) /\ pending_len \in 0 .. Len(inflow)
  /\ where \in {"request", "idle", "answer", "handler", "done", "failed", "closed"}
  /\ IsSeq(outflow) /\ IsSeq(handled)

All == Len(talk.frames) + 1

(* Frame k is next, and what came before it was told and answered. *)
Boundary(k) ==
  /\ k \in 1 .. All /\ handled = Told(k) /\ Answers = Due(k)
  /\ Begins(inflow, <<k, 1>>) /\ (~ws.close => Reached(k))

(* The first byte of frame k is taken. *)
Inside(k) ==
  /\ k \in DOMAIN Fs /\ handled = Told(k) /\ Answers = Due(k) /\ Reached(k)
  /\ aux.type = Frame(k).type /\ aux.final = Frame(k).final

Unread(k) == pkt = NoPkt /\ Begins(inflow, Position(Fs, k, 2))

(* The handler has frame k but for l bytes. *)
Reading(k, l) ==
  /\ l \in 0 .. Frame(k).len /\ pkt = PktOf(k, l) /\ aux.mask_key = Key(k) /\ Begins(inflow, Next(k, l))

InHandler(k) ==
  /\ Inside(k) /\ Dispatched(Frame(k).type) /\ (Frame(k).type = "close" => ws.close)
  /\ Unread(k) \/ \E l \in 0 .. Frame(k).len : Reading(k, l)

InAnswer(k) == Inside(k) /\ AnsweredFor(Frame(k).type) /\ Begins(inflow, Position(Fs, k, 2))

Gone == inflow = <<>> /\ pkt = NoPkt

Somewhere == \E k \in 1 .. All : handled = Told(k)
Answered == \E m \in 1 .. All : Answers = Due(m)

AnswersWhole == \A j \in DOMAIN outflow : outflow[j].by = "answer" => outflow[j].whole

(* What is taken, told and answered keep step with the client's frames. *)
InStep ==
  /\ ~mistaken
  /\ where = "request" => Begins(inflow, <<1, 1>>)
  /\ where \in {"idle", "done"} => \E k \in 1 .. All : Boundary(k)
  /\ where = "answer" => \E k \in DOMAIN Fs : InAnswer(k)
  /\ where = "handler" => Gone \/ \E k \in DOMAIN Fs : InHandler(k)
  /\ where \notin {"handler", "done", "failed"} => pkt = NoPkt
  /\ where \notin {"failed", "closed"} => AnswersWhole
  /\ Somewhere /\ Answered

LEMMA TalkFacts ==
  ASSUME talk \in Talks
  PROVE  /\ GoodFrames(Fs) /\ DOMAIN Fs = 1 .. Len(talk.frames) /\ Len(talk.frames) \in Nat
         /\ talk.cut \in 0 .. Len(AllBytes(Fs)) /\ talk.upgrade.protocols \in Seq(STRING)
         /\ talk.uri.control_frames \in BOOLEAN /\ talk.asks.partial \in BOOLEAN /\ talk.asks.room \in Nat
<1>1. IsTalk(talk)
  BY WsConstants
<1>2. GoodFrames(Fs)
  BY <1>1 DEF IsTalk, GoodFrames, Fs
<1>3. DOMAIN Fs = 1 .. Len(talk.frames) /\ Len(talk.frames) \in Nat
  BY <1>2, LenProperties DEF GoodFrames, Fs
<1>4. talk.cut \in 0 .. Len(AllBytes(Fs)) /\ talk.upgrade.protocols \in Seq(STRING)
  BY <1>1 DEF IsTalk, Fs
<1>5. talk.uri.control_frames \in BOOLEAN
  BY <1>1 DEF IsTalk
<1>6. talk.asks.partial \in BOOLEAN
  BY <1>1 DEF IsTalk
<1>7. talk.asks.room \in Nat
  BY <1>1 DEF IsTalk
<1> QED
  BY <1>2, <1>3, <1>4, <1>5, <1>6, <1>7

(* What a sent frame does to the history. *)
LEMMA WrittenFacts ==
  ASSUME NEW frame, NEW w \in FrameWritten(frame)
  PROVE  \/ w.out = outflow /\ w.ok = FALSE
         \/ w.out = Append(outflow, OnWire(frame, TRUE)) /\ w.ok = TRUE
         \/ w.out = Append(outflow, OnWire(frame, FALSE)) /\ w.ok = FALSE
<1> DEFINE a == [ok |-> TRUE, out |-> Append(outflow, OnWire(frame, TRUE))]
           b == [ok |-> FALSE, out |-> outflow]
           c == [ok |-> FALSE, out |-> Append(outflow, OnWire(frame, FALSE))]
<1>1. w = a \/ w = b \/ w = c
  <2> HIDE DEF a, b, c
  <2>1. w \in {a, b} \union Where(frame.data # <<>>, c)
    BY DEF FrameWritten, a, b, c
  <2> QED
    BY <2>1 DEF Where
<1>2. a.ok = TRUE /\ a.out = Append(outflow, OnWire(frame, TRUE))
  OBVIOUS
<1>3. b.ok = FALSE /\ b.out = outflow
  OBVIOUS
<1>4. c.ok = FALSE /\ c.out = Append(outflow, OnWire(frame, FALSE))
  OBVIOUS
<1> HIDE DEF a, b, c
<1>5. CASE w = a
  BY <1>2, <1>5
<1>6. CASE w = b
  BY <1>3, <1>6
<1>7. CASE w = c
  BY <1>4, <1>7
<1> QED
  BY <1>1, <1>5, <1>6, <1>7

LEMMA OutflowGrows ==
  ASSUME IsSeq(outflow), NEW type, NEW by, NEW data, NEW b, outflow' = Append(outflow, OnWire(Tx(type, by, data), b))
  PROVE  /\ IsSeq(outflow') /\ outflow' # <<>>
         /\ Answers' = IF by = "answer" THEN Append(Answers, Tx(type, by, data)) ELSE Answers
         /\ AnswersWhole /\ (by = "answer" => b) => AnswersWhole'
<1> DEFINE e == OnWire(Tx(type, by, data), b)
<1>1. e.type = type /\ e.by = by /\ e.data = data /\ e.whole = b
  BY DEF OnWire, Tx
<1> HIDE DEF e
<1>2. /\ IsSeq(outflow') /\ outflow' # <<>> /\ DOMAIN outflow = 1 .. Len(outflow) /\ Len(outflow) \in Nat
      /\ DOMAIN outflow' = 1 .. Len(outflow) + 1
      /\ \A i \in 1 .. Len(outflow) : outflow'[i] = outflow[i]
      /\ outflow'[Len(outflow) + 1] = e
  BY AppendAny DEF e
<1>3. AnswersOf(outflow') = IF by = "answer" THEN Append(AnswersOf(outflow), Tx(type, by, data)) ELSE AnswersOf(outflow)
  <2>1. AnswersOf(Append(outflow, e)) =
          IF e.by = "answer" THEN Append(AnswersOf(outflow), Tx(e.type, e.by, e.data)) ELSE AnswersOf(outflow)
    BY AnswersOne
  <2>2. outflow' = Append(outflow, e)
    BY DEF e
  <2> QED
    BY <1>1, <2>1, <2>2
<1>4. Answers' = AnswersOf(outflow') /\ Answers = AnswersOf(outflow)
  BY DEF Answers, AnswersOf
<1>5. ASSUME AnswersWhole, by = "answer" => b PROVE AnswersWhole'
  <2> SUFFICES ASSUME NEW j \in DOMAIN outflow', outflow'[j].by = "answer" PROVE outflow'[j].whole
    BY DEF AnswersWhole
  <2>1. j \in 1 .. Len(outflow) \/ j = Len(outflow) + 1
    BY <1>2
  <2>2. CASE j \in 1 .. Len(outflow)
    BY <1>2, <1>5, <2>2 DEF AnswersWhole
  <2>3. CASE j = Len(outflow) + 1
    BY <1>1, <1>2, <1>5, <2>3
  <2> QED
    BY <2>1, <2>2, <2>3
<1> QED
  BY <1>2, <1>3, <1>4, <1>5

(* Bytes taken. *)
LEMMA InflowTaken ==
  ASSUME Stretch(Fs, inflow), pending_len \in 0 .. Len(inflow), NEW n \in 0 .. Len(inflow), TakeBytes(n), talk' = talk
  PROVE  Stretch(Fs, inflow)' /\ (pending_len \in 0 .. Len(inflow))' /\ inflow' = Behind(n)
<1>1. inflow' = Behind(n)
  BY DEF TakeBytes, Behind
<1>2. Stretch(Fs, Behind(n)) /\ Len(Behind(n)) = Len(inflow) - n /\ Len(inflow) \in Nat
  BY InflowFacts
<1>3. Fs' = Fs
  BY DEF Fs
<1>4. Stretch(Fs, inflow)'
  <2>1. Stretch(Fs', inflow')
    BY <1>1, <1>2, <1>3
  <2> QED
    BY <2>1 DEF Stretch, Position, FrameLen, HeadLen
<1>5. pending_len' = IF pending_len > n THEN pending_len - n ELSE 0
  BY DEF TakeBytes
<1>6. pending_len' \in 0 .. Len(inflow')
  BY <1>1, <1>2, <1>5
<1> QED
  BY <1>1, <1>4, <1>6

(* The invariant's parts, where nothing they are about changes. *)
LEMMA PartsKept ==
  ASSUME talk' = talk, ws'.control_frames = ws.control_frames
  PROVE  /\ \A k : handled' = handled /\ Answers' = Answers /\ inflow' = inflow /\ (ws.close => ws'.close) /\ Boundary(k)
                      => Boundary(k)'
         /\ handled' = handled /\ Somewhere => Somewhere'
         /\ Answers' = Answers /\ Answered => Answered'
         /\ Fs' = Fs /\ All' = All /\ \A k : Frame(k)' = Frame(k)
         /\ inflow' = inflow /\ Stretch(Fs, inflow) => Stretch(Fs, inflow)'
<1>1. Fs' = Fs /\ All' = All /\ \A k : Frame(k)' = Frame(k)
  BY DEF Fs, All, Frame
<1>2. \A k : Told(k)' = Told(k) /\ Due(k)' = Due(k) /\ Reached(k)' = Reached(k)
  BY ToldKept
<1>3. ASSUME NEW k, handled' = handled, Answers' = Answers, inflow' = inflow, ws.close => ws'.close, Boundary(k)
      PROVE  Boundary(k)'
  <2>1. k \in 1 .. All' /\ handled' = Told(k)' /\ Answers' = Due(k)'
    BY <1>1, <1>2, <1>3 DEF Boundary
  <2>2. Begins(inflow', <<k, 1>>) /\ (~ws'.close => Reached(k)')
    BY <1>2, <1>3 DEF Boundary
  <2> QED
    BY <2>1, <2>2 DEF Boundary, Begins
<1>4. ASSUME handled' = handled, Somewhere PROVE Somewhere'
  BY <1>1, <1>2, <1>4 DEF Somewhere
<1>5. ASSUME Answers' = Answers, Answered PROVE Answered'
  BY <1>1, <1>2, <1>5 DEF Answered
<1>6. ASSUME inflow' = inflow, Stretch(Fs, inflow) PROVE Stretch(Fs, inflow)'
  <2>1. Stretch(Fs', inflow')
    BY <1>1, <1>6
  <2> QED
    BY <2>1 DEF Stretch, Position, FrameLen, HeadLen
<1> QED
  BY <1>1, <1>3, <1>4, <1>5, <1>6

LEMMA AnswersSame == ASSUME outflow' = outflow PROVE Answers' = Answers /\ (AnswersWhole => AnswersWhole')
  BY DEF Answers, AnswersWhole

-----------------------------------------------------------------------------
(* The steps, one by one. *)
Kept == WsShapes /\ InStep

LEMMA MarkedCloseKept == ASSUME Kept, MarkedClose PROVE Kept'
<1>1. /\ where = "idle" /\ where' = "done" /\ talk' = talk /\ inflow' = inflow /\ pending_len' = pending_len /\ ws' = ws
      /\ aux' = aux /\ pkt' = pkt /\ mistaken' = mistaken /\ handled' = handled /\ outflow' = outflow
  BY DEF MarkedClose
<1>2. Answers' = Answers /\ (AnswersWhole => AnswersWhole')
  BY <1>1, AnswersSame
<1>3. WsShapes'
  BY <1>1, PartsKept DEF Kept, WsShapes
<1>4. PICK k \in 1 .. All : Boundary(k)
  BY <1>1 DEF Kept, InStep
<1>5. Boundary(k)' /\ k \in 1 .. All'
  BY <1>1, <1>2, <1>4, PartsKept
<1>6. Somewhere' /\ Answered'
  BY <1>1, <1>2, PartsKept DEF Kept, InStep
<1>7. pkt' = NoPkt /\ AnswersWhole' /\ ~mistaken'
  BY <1>1, <1>2 DEF Kept, InStep
<1>8. InStep'
  BY <1>1, <1>5, <1>6, <1>7 DEF InStep
<1> QED
  BY <1>3, <1>8 DEF Kept

(* Between two requests. *)
LEMMA RunWorkKept == ASSUME Kept, RunWork PROVE Kept'
<1>1. /\ where \in {"idle", "closed"} /\ talk' = talk /\ inflow' = inflow /\ pending_len' = pending_len
      /\ aux' = aux /\ pkt' = pkt /\ mistaken' = mistaken /\ handled' = handled
  BY DEF RunWork
<1>2. \/ ws' = WsClosed /\ where' = "closed" /\ outflow' = outflow
      \/ ws' = ws /\ where' = where
  <2>1. CASE Head(works) = CloseWork
    BY <2>1 DEF RunWork
  <2>2. CASE Head(works) # CloseWork
    BY <2>2 DEF RunWork
  <2> QED
    BY <2>1, <2>2
<1>3. /\ ws' \in WsSet /\ ws'.control_frames = ws.control_frames /\ ws'.close = ws.close
      /\ where' = "closed" \/ where' = where
  BY <1>2, WsGone DEF Kept, WsShapes
<1>4. /\ IsSeq(outflow') /\ Answers' = Answers /\ (AnswersWhole => AnswersWhole')
  <2>1. CASE outflow' = outflow
    BY <2>1, AnswersSame DEF Kept, WsShapes
  <2>2. ASSUME NEW w \in FrameWritten(Tx("text", "task", <<Head(works)>>)), outflow' = w.out
        PROVE  IsSeq(outflow') /\ Answers' = Answers /\ (AnswersWhole => AnswersWhole')
    <3>1. \/ w.out = outflow
          \/ \E b \in BOOLEAN : w.out = Append(outflow, OnWire(Tx("text", "task", <<Head(works)>>), b))
      BY <2>2, WrittenFacts
    <3>2. CASE w.out = outflow
      BY <2>1, <2>2, <3>2
    <3>3. ASSUME NEW b \in BOOLEAN, w.out = Append(outflow, OnWire(Tx("text", "task", <<Head(works)>>), b))
          PROVE  IsSeq(outflow') /\ Answers' = Answers /\ (AnswersWhole => AnswersWhole')
      <4>1. IsSeq(outflow) /\ "task" # "answer"
        BY DEF Kept, WsShapes
      <4> DEFINE d == <<Head(works)>>
      <4> HIDE DEF d
      <4>2. outflow' = Append(outflow, OnWire(Tx("text", "task", d), b))
        BY <2>2, <3>3 DEF d
      <4> QED
        BY <4>1, <4>2, OutflowGrows
    <3> QED
      BY <3>1, <3>2, <3>3
  <2> QED
    BY <2>1, <2>2 DEF RunWork
<1>5. WsShapes'
  BY <1>1, <1>3, <1>4, PartsKept DEF Kept, WsShapes
<1>6. Somewhere' /\ Answered'
  BY <1>1, <1>3, <1>4, PartsKept DEF Kept, InStep
<1>7. pkt' = NoPkt /\ ~mistaken' /\ (where' = "idle" => AnswersWhole')
  BY <1>1, <1>3, <1>4 DEF Kept, InStep
<1>8. where' = "idle" => \E k \in 1 .. All' : Boundary(k)'
  <2> SUFFICES ASSUME where' = "idle" PROVE \E k \in 1 .. All' : Boundary(k)'
    OBVIOUS
  <2>1. PICK k \in 1 .. All : Boundary(k)
    BY <1>1, <1>3 DEF Kept, InStep
  <2>2. Boundary(k)' /\ k \in 1 .. All'
    BY <1>1, <1>3, <1>4, <2>1, PartsKept
  <2> QED
    BY <2>2
<1>9. where' \in {"idle", "closed"}
  BY <1>1, <1>3
<1>10. InStep'
  BY <1>6, <1>7, <1>8, <1>9 DEF InStep
<1> QED
  BY <1>5, <1>10 DEF Kept

LEMMA WsCleanupKept == ASSUME Kept, WsCleanup PROVE Kept'
<1>1. /\ where \in {"done", "failed"} /\ talk' = talk /\ inflow' = inflow /\ pending_len' = pending_len
      /\ pkt' = NoPkt /\ mistaken' = mistaken /\ handled' = handled /\ outflow' = outflow
  BY DEF WsCleanup
<1>2. \/ where = "failed" /\ ws' = WsClosed /\ where' = "closed"
      \/ where = "done" /\ ws' = ws /\ where' = "idle"
  <2>1. CASE where = "failed"
    BY <2>1 DEF WsCleanup
  <2>2. CASE where = "done"
    <3>1. where # "failed"
      BY <2>2
    <3> QED
      BY <2>2, <3>1 DEF WsCleanup
  <2> QED
    BY <1>1, <2>1, <2>2
<1>3. ws' \in WsSet /\ ws'.control_frames = ws.control_frames /\ ws'.close = ws.close
  BY <1>2, WsGone DEF Kept, WsShapes
<1>4. Answers' = Answers /\ (AnswersWhole => AnswersWhole')
  BY <1>1, AnswersSame
<1>5. WsShapes'
  BY <1>1, <1>2, <1>3, PartsKept DEF Kept, WsShapes
<1>6. Somewhere' /\ Answered'
  BY <1>1, <1>3, <1>4, PartsKept DEF Kept, InStep
<1>7. ~mistaken' /\ (where' = "idle" => AnswersWhole')
  BY <1>1, <1>2, <1>4 DEF Kept, InStep
<1>8. where' = "idle" => \E k \in 1 .. All' : Boundary(k)'
  <2> SUFFICES ASSUME where' = "idle" PROVE \E k \in 1 .. All' : Boundary(k)'
    OBVIOUS
  <2>1. PICK k \in 1 .. All : Boundary(k)
    BY <1>2 DEF Kept, InStep
  <2>2. Boundary(k)' /\ k \in 1 .. All'
    BY <1>1, <1>3, <1>4, <2>1, PartsKept
  <2> QED
    BY <2>2
<1>9. InStep'
  BY <1>1, <1>2, <1>6, <1>7, <1>8 DEF InStep
<1> QED
  BY <1>5, <1>9 DEF Kept

LEMMA UntouchedKept ==
  ASSUME Kept, UNCHANGED <<talk, inflow, pending_len, ws, aux, pkt, where, mistaken, handled, outflow>>
  PROVE  Kept'
<1>1. WsShapes'
  BY PartsKept DEF Kept, WsShapes
<1>2. Answers' = Answers /\ (AnswersWhole => AnswersWhole')
  BY AnswersSame
<1>3. Somewhere' /\ Answered'
  BY <1>2, PartsKept DEF Kept, InStep
<1>4. \A k : Boundary(k) => Boundary(k)'
  BY <1>2, PartsKept
<1>5. \A k : Told(k)' = Told(k) /\ Due(k)' = Due(k) /\ Reached(k)' = Reached(k)
  BY ToldKept
<1>6. \A type : Dispatched(type)' = Dispatched(type) /\ AnsweredFor(type)' = AnsweredFor(type)
  BY ToldKept
<1>7. Fs' = Fs /\ All' = All /\ \A k : Frame(k)' = Frame(k)
  BY PartsKept
<1>8. \A k : Inside(k) => Inside(k)'
  BY <1>2, <1>5, <1>7 DEF Inside
<1>9. \A k : InAnswer(k) => InAnswer(k)'
  BY <1>6, <1>7, <1>8 DEF InAnswer, Begins, Position, FrameLen, HeadLen
<1>10. \A k : Unread(k) => Unread(k)'
  BY <1>7 DEF Unread, Begins, Position, FrameLen, HeadLen, NoPkt, Pkt
<1>11. \A k, l : PktOf(k, l)' = PktOf(k, l) /\ Key(k)' = Key(k) /\ Next(k, l)' = Next(k, l)
  BY DEF PktOf, Key, Next, Frame, Fs, PartOf, Pkt, MeantPayload, HeadLen, Position, FrameLen
<1>12. \A k, l : Reading(k, l) => Reading(k, l)'
  BY <1>7, <1>11 DEF Reading, Begins
<1>13. \A k : InHandler(k) => InHandler(k)'
  BY <1>6, <1>7, <1>8, <1>10, <1>12 DEF InHandler
<1>14. Gone => Gone'
  BY DEF Gone, NoPkt, Pkt
<1>15. NoPkt' = NoPkt
  BY DEF NoPkt, Pkt
<1>16. InStep'
  BY <1>2, <1>3, <1>4, <1>7, <1>9, <1>13, <1>14, <1>15 DEF Kept, InStep, Begins
<1> QED
  BY <1>1, <1>16 DEF Kept

(* The frames do not change. *)
LEMMA FramesSame ==
  ASSUME talk' = talk
  PROVE  /\ Fs' = Fs /\ All' = All /\ NoPkt' = NoPkt
         /\ \A k : Frame(k)' = Frame(k) /\ Key(k)' = Key(k) /\ Position(Fs, k, 2)' = Position(Fs, k, 2)
         /\ \A k, l : PktOf(k, l)' = PktOf(k, l) /\ Next(k, l)' = Next(k, l)
<1>1. Fs' = Fs /\ All' = All /\ NoPkt' = NoPkt
  BY DEF Fs, All, NoPkt, Pkt
<1>2. \A k : Frame(k)' = Frame(k) /\ Key(k)' = Key(k) /\ Position(Fs, k, 2)' = Position(Fs, k, 2)
  BY DEF Frame, Key, Fs, Position, FrameLen, HeadLen
<1>3. \A k, l : PktOf(k, l)' = PktOf(k, l) /\ Next(k, l)' = Next(k, l)
  BY DEF PktOf, Next, Frame, Fs, PartOf, Pkt, MeantPayload, HeadLen, Position, FrameLen
<1> QED
  BY <1>1, <1>2, <1>3

LEMMA AllFacts ==
  ASSUME talk \in Talks
  PROVE  /\ DOMAIN Fs = 1 .. Len(talk.frames) /\ Len(talk.frames) \in Nat /\ All = Len(talk.frames) + 1
         /\ \A k \in DOMAIN Fs : k \in Nat /\ k >= 1 /\ k \in 1 .. All /\ k + 1 \in 1 .. All
         /\ \A k \in 1 .. All : k \in Nat /\ k >= 1
<1>1. DOMAIN Fs = 1 .. Len(talk.frames) /\ Len(talk.frames) \in Nat /\ All = Len(talk.frames) + 1
  BY TalkFacts DEF All
<1> QED
  BY <1>1

(* The step reaches the place between two frames, or into a frame. *)
LEMMA BoundaryMade ==
  ASSUME talk' = talk, ws'.control_frames = ws.control_frames, NEW k \in 1 .. All, handled' = Told(k),
         Answers' = Due(k), Begins(inflow', <<k, 1>>), ws'.close \/ Reached(k)
  PROVE  (\E j \in 1 .. All : Boundary(j))' /\ Somewhere' /\ Answered'
<1>1. Told(k)' = Told(k) /\ Due(k)' = Due(k) /\ Reached(k)' = Reached(k)
  BY ToldKept
<1>2. All' = All
  BY FramesSame
<1>3. Boundary(k)'
  BY <1>1, <1>2 DEF Boundary, Begins
<1>4. Somewhere' /\ Answered'
  BY <1>1, <1>2 DEF Somewhere, Answered
<1> QED
  BY <1>2, <1>3, <1>4

LEMMA InsideMade ==
  ASSUME talk \in Talks, talk' = talk, ws'.control_frames = ws.control_frames, NEW k \in DOMAIN Fs, handled' = Told(k),
         Answers' = Due(k), Reached(k), aux'.type = Frame(k).type, aux'.final = Frame(k).final
  PROVE  Inside(k)' /\ Somewhere' /\ Answered'
<1>1. Told(k)' = Told(k) /\ Due(k)' = Due(k) /\ Reached(k)' = Reached(k)
  BY ToldKept
<1>2. All' = All /\ Fs' = Fs /\ Frame(k)' = Frame(k)
  BY FramesSame
<1>3. Inside(k)'
  BY <1>1, <1>2 DEF Inside
<1>4. k \in 1 .. All
  BY AllFacts
<1>5. Somewhere' /\ Answered'
  BY <1>1, <1>2, <1>4 DEF Somewhere, Answered
<1> QED
  BY <1>3, <1>5

(* A frame written by another than the server's answer. *)
LEMMA OthersWritten ==
  ASSUME IsSeq(outflow), NEW type, NEW by, by # "answer", NEW data,
         NEW w \in FrameWritten(Tx(type, by, data)), outflow' = w.out
  PROVE  IsSeq(outflow') /\ Answers' = Answers /\ (AnswersWhole => AnswersWhole')
<1>1. \/ w.out = outflow
      \/ \E b \in BOOLEAN : w.out = Append(outflow, OnWire(Tx(type, by, data), b))
  <2> DEFINE f == Tx(type, by, data)
  <2> HIDE DEF f
  <2>1. w \in FrameWritten(f)
    BY DEF f
  <2>2. w.out = outflow \/ w.out = Append(outflow, OnWire(f, TRUE)) \/ w.out = Append(outflow, OnWire(f, FALSE))
    BY <2>1, WrittenFacts
  <2> QED
    BY <2>2 DEF f
<1>2. CASE w.out = outflow
  BY <1>2, AnswersSame
<1>3. ASSUME NEW b \in BOOLEAN, w.out = Append(outflow, OnWire(Tx(type, by, data), b))
      PROVE  IsSeq(outflow') /\ Answers' = Answers /\ (AnswersWhole => AnswersWhole')
  BY <1>3, OutflowGrows
<1> QED
  BY <1>1, <1>2, <1>3

LEMMA WsHandlerReturnsKept == ASSUME Kept, WsHandlerReturns PROVE Kept'
<1>1. /\ where = "handler" /\ FrameRead /\ talk' = talk /\ inflow' = inflow /\ pending_len' = pending_len /\ ws' = ws
      /\ aux' = aux /\ pkt' = pkt /\ mistaken' = mistaken
      /\ handled' = Append(handled, [type |-> pkt.type, final |-> pkt.final, payload |-> pkt.payload])
  BY DEF WsHandlerReturns
<1>2. where' \in {"done", "failed"}
  <2>1. CASE talk.asks.echo
    <3>1. PICK w \in FrameWritten(Tx(pkt.type, "handler", pkt.payload)) : where' = IF w.ok THEN "done" ELSE "failed"
      BY <2>1 DEF WsHandlerReturns
    <3> QED
      BY <3>1
  <2>2. CASE ~talk.asks.echo
    BY <2>2 DEF WsHandlerReturns
  <2> QED
    BY <2>1, <2>2
<1>3. IsSeq(outflow') /\ Answers' = Answers /\ (AnswersWhole => AnswersWhole')
  <2>0. IsSeq(outflow)
    BY DEF Kept, WsShapes
  <2>1. CASE talk.asks.echo
    <3>1. PICK w \in FrameWritten(Tx(pkt.type, "handler", pkt.payload)) : outflow' = w.out
      BY <2>1 DEF WsHandlerReturns
    <3>2. "handler" # "answer"
      OBVIOUS
    <3> QED
      BY <2>0, <3>1, <3>2, OthersWritten
  <2>2. CASE ~talk.asks.echo
    <3>1. outflow' = outflow
      BY <2>2 DEF WsHandlerReturns
    <3> QED
      BY <2>0, <3>1, AnswersSame
  <2> QED
    BY <2>1, <2>2
<1>4. talk \in Talks /\ ws \in WsSet /\ GoodFrames(Fs)
  BY TalkFacts DEF Kept, WsShapes
<1>5. PICK k \in DOMAIN Fs : InHandler(k)
  BY <1>1 DEF Kept, InStep, FrameRead, Gone
<1>6. k \in Nat /\ k >= 1 /\ k + 1 \in 1 .. All /\ Frame(k) \in ClientFrames /\ Frame(k).len \in Nat
  BY <1>4, AllFacts, FrameFacts
<1>7. PICK l \in 0 .. Frame(k).len : Reading(k, l)
  BY <1>1, <1>5 DEF FrameRead, InHandler, Unread
<1>8. l = 0
  <2>1. pkt = PktOf(k, l) /\ pkt.left_len = 0
    BY <1>1, <1>7 DEF Reading, FrameRead
  <2> QED
    BY <2>1 DEF PktOf, Pkt
<1>9. [type |-> pkt.type, final |-> pkt.final, payload |-> pkt.payload] = AsHandled(k)
  <2>1. pkt.type = Frame(k).type /\ pkt.final = Frame(k).final /\ pkt.payload = PartOf(k, Frame(k).len - l)
    BY <1>7 DEF Reading, PktOf, Pkt
  <2>2. Frame(k).len - l = Frame(k).len
    BY <1>6, <1>8
  <2>3. pkt.payload = MeantPayload(Frame(k), k)
    BY <1>6, <2>1, <2>2, PartWhole
  <2> QED
    BY <2>1, <2>3 DEF AsHandled, Frame
<1>10. handled' = Told(k + 1)
  <2>1. handled = Told(k) /\ Reached(k) /\ Dispatched(Frame(k).type)
    BY <1>5 DEF InHandler, Inside
  <2> QED
    BY <1>1, <1>6, <1>9, <2>1, ToldNext
<1>11. Answers' = Due(k + 1) /\ (ws'.close \/ Reached(k + 1))
  <2>1. Answers = Due(k) /\ Reached(k) /\ Dispatched(Frame(k).type) /\ (Frame(k).type = "close" => ws.close)
    BY <1>5 DEF InHandler, Inside
  <2>2. ~AnsweredFor(Frame(k).type)
    BY <1>4, <2>1, TypesCovered
  <2> QED
    BY <1>1, <1>3, <1>6, <2>1, <2>2, ToldNext
<1>12. Begins(inflow', <<k + 1, 1>>)
  <2>1. Begins(inflow, Next(k, 0))
    BY <1>7, <1>8 DEF Reading
  <2>2. Next(k, 0) = <<k + 1, 1>>
    <3>1. FrameLen(Frame(k)) \in Nat
      BY <1>4, FrameFacts
    <3>2. ~(FrameLen(Frame(k)) - 0 + 1 <= FrameLen(Frame(k)))
      BY <3>1
    <3> QED
      BY <3>2 DEF Next, Position, Fs, Frame
  <2> QED
    BY <1>1, <2>1, <2>2
<1>13. (\E j \in 1 .. All : Boundary(j))' /\ Somewhere' /\ Answered'
  BY <1>1, <1>6, <1>10, <1>11, <1>12, BoundaryMade
<1>14. IsSeq(handled')
  BY <1>1, AppendAny DEF Kept, WsShapes
<1>15. Stretch(Fs, inflow)'
  BY <1>1, PartsKept DEF Kept, WsShapes
<1>16. WsShapes'
  BY <1>1, <1>2, <1>3, <1>14, <1>15 DEF Kept, WsShapes
<1>17. InStep'
  BY <1>1, <1>2, <1>3, <1>13 DEF Kept, InStep
<1> QED
  BY <1>16, <1>17 DEF Kept

LEMMA AuxFacts ==
  ASSUME NEW type, NEW final, NEW key, aux' = Aux(type, final, key)
  PROVE  aux'.type = type /\ aux'.final = final /\ aux'.mask_key = key
BY DEF Aux

LEMMA PktFacts ==
  ASSUME NEW k, NEW l
  PROVE  PktOf(k, l).len = Frame(k).len /\ PktOf(k, l).left_len = l /\ PktOf(k, l).type = Frame(k).type
BY DEF PktOf, Pkt

(* A frame that was begun is not none. *)
LEMMA PktNotNone == ASSUME NEW k, Frame(k) \in ClientFrames, NEW l PROVE PktOf(k, l) # NoPkt
<1>1. Frame(k).type \in Control \union {"continue", "text", "binary"}
  BY SMT DEF ClientFrames
<1>2. Frame(k).type # "none"
  BY <1>1 DEF Control
<1>3. NoPkt.type = "none"
  BY DEF NoPkt, Pkt
<1> QED
  BY <1>2, <1>3, PktFacts

(* The second byte of a frame is where one is asked for. *)
LEMMA SecondByte ==
  ASSUME GoodFrames(Fs), NEW k \in DOMAIN Fs
  PROVE  Position(Fs, k, 2) = <<k, 2>>
<1>1. 2 <= FrameLen(Fs[k])
  BY FrameFacts DEF Frame, Fs
<1> QED
  BY <1>1 DEF Position

LEMMA NothingComes == ASSUME inflow = <<>> PROVE ~Comes(1)
<1>1. Len(inflow) = 0
  OBVIOUS
<1> QED
  BY <1>1 DEF Comes

LEMMA GoneFails ==
  ASSUME inflow = <<>>, NEW max_len, NEW partial, NEW r \in RecvFrame(NoPkt, max_len, partial)
  PROVE  ~r.ok
<1>1. NoPkt.len = 0
  BY DEF NoPkt, Pkt
<1>2. ~(NoPkt.len > 0) /\ ~Comes(1)
  BY <1>1, NothingComes
<1>3. RecvFrame(NoPkt, max_len, partial) = {RecvError(NoPkt)}
  BY <1>2 DEF RecvFrame
<1>4. r = RecvError(NoPkt)
  BY <1>3
<1> QED
  BY <1>4 DEF RecvError

LEMMA HandlerReadsKept == ASSUME Kept, HandlerReads PROVE Kept'
<1>1. /\ where = "handler" /\ ~FrameRead /\ talk' = talk /\ ws' = ws /\ handled' = handled /\ outflow' = outflow
      /\ mistaken' = Misread(pkt)
  BY DEF HandlerReads
<1>2. PICK r \in RecvFrame(pkt, MaxLen, talk.asks.partial) :
        /\ pkt' = r.pkt
        /\ IF r.ok THEN TakeBytes(r.taken) /\ aux' = Aux(aux.type, aux.final, r.key) /\ where' = where
           ELSE where' = "failed" /\ inflow' = inflow /\ pending_len' = pending_len
  BY DEF HandlerReads
<1>3. /\ talk \in Talks /\ ws \in WsSet /\ GoodFrames(Fs) /\ Stretch(Fs, inflow) /\ pending_len \in 0 .. Len(inflow)
      /\ talk.asks.partial \in BOOLEAN /\ talk.asks.room \in Nat
  BY TalkFacts DEF Kept, WsShapes
<1>4. Answers' = Answers /\ (AnswersWhole => AnswersWhole') /\ IsSeq(outflow') /\ IsSeq(handled')
  BY <1>1, AnswersSame DEF Kept, WsShapes
<1>5. Somewhere' /\ Answered'
  BY <1>1, <1>4, PartsKept DEF Kept, InStep
<1>6. Gone \/ \E k \in DOMAIN Fs : InHandler(k)
  BY <1>1 DEF Kept, InStep
<1>7. CASE Gone
  <2>1. ~r.ok
    BY <1>2, <1>7, GoneFails DEF Gone
  <2>2. where' = "failed" /\ inflow' = inflow /\ pending_len' = pending_len
    BY <1>2, <2>1
  <2>3. ~mistaken'
    BY <1>1, <1>7, NothingComes DEF Gone, Misread
  <2>4. WsShapes'
    BY <1>1, <1>3, <1>4, <2>2, PartsKept DEF WsShapes
  <2>5. InStep'
    BY <1>5, <2>2, <2>3 DEF InStep
  <2> QED
    BY <2>4, <2>5 DEF Kept
<1>8. ASSUME NEW k \in DOMAIN Fs, InHandler(k) PROVE Kept'
  <2>1. k \in Nat /\ Frame(k) \in ClientFrames /\ Frame(k).len \in Nat
    BY <1>3, FrameFacts
  <2>2. /\ Inside(k) /\ handled = Told(k) /\ Answers = Due(k) /\ Reached(k)
        /\ aux.type = Frame(k).type /\ aux.final = Frame(k).final
        /\ Dispatched(Frame(k).type) /\ (Frame(k).type = "close" => ws.close)
    BY <1>8 DEF InHandler, Inside
  <2>3. Unread(k) \/ \E l \in 1 .. Frame(k).len : Reading(k, l)
    <3>1. ASSUME NEW l \in 0 .. Frame(k).len, Reading(k, l) PROVE l # 0
      <4>1. pkt = PktOf(k, l) /\ pkt # NoPkt /\ pkt.left_len = l
        BY <2>1, <3>1, PktNotNone, PktFacts DEF Reading
      <4> QED
        BY <1>1, <4>1 DEF FrameRead
    <3>2. ASSUME NEW l \in 0 .. Frame(k).len, Reading(k, l) PROVE l \in 1 .. Frame(k).len
      BY <2>1, <3>1, <3>2
    <3>3. Unread(k) \/ \E l \in 0 .. Frame(k).len : Reading(k, l)
      BY <1>8 DEF InHandler
    <3> QED
      BY <3>2, <3>3
  <2>4. MaxLen \in Nat
    <3>1. CASE Unread(k)
      BY <1>3, <3>1 DEF Unread, MaxLen
    <3>2. ASSUME NEW l \in 1 .. Frame(k).len, Reading(k, l) PROVE MaxLen \in Nat
      <4>1. pkt # NoPkt /\ pkt.len = Frame(k).len
        BY <2>1, <3>2, PktNotNone, PktFacts DEF Reading
      <4> QED
        BY <1>3, <2>1, <4>1 DEF MaxLen
    <3> QED
      BY <2>3, <3>1, <3>2
  <2>5. ~mistaken'
    <3>1. CASE Unread(k)
      <4>1. inflow # <<>> => inflow[1] = <<k, 2>>
        BY <1>3, <3>1, SecondByte DEF Unread, Begins
      <4>2. inflow # <<>> => inflow[1][2] = 2
        BY <4>1
      <4> QED
        BY <1>1, <4>2, NothingComes DEF Misread
    <3>2. ASSUME NEW l \in 1 .. Frame(k).len, Reading(k, l) PROVE ~mistaken'
      <4>1. pkt.len = Frame(k).len
        BY <3>2, PktFacts DEF Reading
      <4>2. pkt.len # 0
        BY <2>1, <4>1
      <4> QED
        BY <1>1, <4>2 DEF Misread
    <3> QED
      BY <2>3, <3>1, <3>2
  <2>6. CASE ~r.ok
    <3>1. where' = "failed" /\ inflow' = inflow /\ pending_len' = pending_len
      BY <1>2, <2>6
    <3>2. WsShapes'
      BY <1>1, <1>3, <1>4, <3>1, PartsKept DEF WsShapes
    <3>3. InStep'
      BY <1>5, <2>5, <3>1 DEF InStep
    <3> QED
      BY <3>2, <3>3 DEF Kept
  <2>7. CASE r.ok
    <3>1. /\ TakeBytes(r.taken) /\ aux' = Aux(aux.type, aux.final, r.key) /\ where' = "handler" /\ pkt' = r.pkt
      BY <1>1, <1>2, <2>7
    <3>2. PICK m \in 0 .. Frame(k).len : RecvOk(r, k, m, MaxLen, talk.asks.partial)
      <4>1. CASE Unread(k)
        <5>1. r \in RecvFrame(NoPkt, MaxLen, talk.asks.partial) /\ Begins(inflow, Position(Fs, k, 2))
          BY <1>2, <4>1 DEF Unread
        <5> QED
          BY <1>3, <2>2, <2>4, <2>7, <5>1, FrameBegun
      <4>2. ASSUME NEW l \in 1 .. Frame(k).len, Reading(k, l)
            PROVE  \E m \in 0 .. Frame(k).len : RecvOk(r, k, m, MaxLen, talk.asks.partial)
        <5>1. r \in RecvFrame(PktOf(k, l), MaxLen, talk.asks.partial) /\ Begins(inflow, Next(k, l)) /\ aux.mask_key = Key(k)
          BY <1>2, <4>2 DEF Reading
        <5> QED
          BY <1>3, <2>4, <2>7, <5>1, FrameReadOn
      <4> QED
        BY <2>3, <4>1, <4>2
    <3>3. /\ r.pkt = PktOf(k, m) /\ r.key = Key(k)
          /\ r.taken \in 0 .. Len(inflow) /\ Begins(Behind(r.taken), Next(k, m))
      BY <3>2 DEF RecvOk
    <3>4. Stretch(Fs, inflow)' /\ (pending_len \in 0 .. Len(inflow))' /\ inflow' = Behind(r.taken)
      BY <1>1, <1>3, <3>1, <3>3, InflowTaken
    <3>5. aux'.type = Frame(k).type /\ aux'.final = Frame(k).final /\ aux'.mask_key = Key(k)
      BY <2>2, <3>1, <3>3, AuxFacts
    <3>6. Inside(k)'
      BY <1>1, <1>3, <1>4, <2>2, <3>5, InsideMade
    <3>7. Reading(k, m)'
      BY <1>1, <3>1, <3>3, <3>4, <3>5, FramesSame DEF Reading
    <3>8. InHandler(k)'
      <4>1. Frame(k)' = Frame(k) /\ Dispatched(Frame(k).type)' = Dispatched(Frame(k).type)
        BY <1>1, FramesSame DEF Dispatched
      <4>2. m \in 0 .. Frame(k)'.len
        BY <4>1
      <4> QED
        BY <1>1, <2>2, <3>6, <3>7, <4>1, <4>2 DEF InHandler
    <3>9. k \in DOMAIN Fs'
      BY <1>1, FramesSame
    <3>10. WsShapes'
      BY <1>1, <1>3, <1>4, <3>1, <3>4 DEF WsShapes
    <3>11. AnswersWhole'
      BY <1>1, <1>4 DEF Kept, InStep
    <3>12. InStep'
      BY <1>5, <2>5, <3>1, <3>8, <3>9, <3>11 DEF InStep
    <3> QED
      BY <3>10, <3>12 DEF Kept
  <2> QED
    BY <2>6, <2>7
<1> QED
  BY <1>6, <1>7, <1>8

(* Where nothing of frame k is left, frame k + 1 begins. *)
LEMMA FrameOver ==
  ASSUME GoodFrames(Fs), NEW k \in DOMAIN Fs
  PROVE  Next(k, 0) = <<k + 1, 1>>
<1>1. FrameLen(Frame(k)) \in Nat
  BY FrameFacts
<1>2. ~(FrameLen(Frame(k)) - 0 + 1 <= FrameLen(Frame(k)))
  BY <1>1
<1> QED
  BY <1>2 DEF Next, Position, Fs, Frame

LEMMA AnswerKept == ASSUME Kept, Answer PROVE Kept'
<1>1. /\ where = "answer" /\ talk' = talk /\ pkt' = pkt /\ handled' = handled
      /\ mistaken' = Misread(NoPkt) /\ MarkIf(aux.type)
  BY DEF Answer
<1> DEFINE F(r) == IF aux.type = "ping" THEN Tx("pong", "answer", r.pkt.payload) ELSE Tx("close", "answer", <<>>)
<1>2. PICK r \in RecvFrame(NoPkt, ControlMax, FALSE) :
        IF ~r.ok THEN where' = "failed" /\ inflow' = inflow /\ pending_len' = pending_len /\ outflow' = outflow
        ELSE /\ TakeBytes(r.taken)
             /\ \E w \in FrameWritten(F(r)) : outflow' = w.out /\ where' = IF w.ok THEN "done" ELSE "failed"
  BY DEF Answer
<1>3. /\ talk \in Talks /\ ws \in WsSet /\ GoodFrames(Fs) /\ Stretch(Fs, inflow) /\ pending_len \in 0 .. Len(inflow)
      /\ IsSeq(outflow) /\ IsSeq(handled) /\ AnswersWhole /\ Somewhere /\ Answered
  BY <1>1, TalkFacts DEF Kept, WsShapes, InStep
<1>4. /\ ws' \in WsSet /\ ws'.control_frames = ws.control_frames /\ (ws'.close <=> ws.close \/ aux.type = "close")
  BY <1>1, <1>3, WsMarked
<1>5. PICK k \in DOMAIN Fs : InAnswer(k)
  BY <1>1 DEF Kept, InStep
<1>6. /\ handled = Told(k) /\ Answers = Due(k) /\ Reached(k) /\ AnsweredFor(Frame(k).type)
      /\ aux.type = Frame(k).type /\ aux.final = Frame(k).final /\ Begins(inflow, Position(Fs, k, 2))
  BY <1>5 DEF InAnswer, Inside
<1>7. k \in Nat /\ k >= 1 /\ k \in 1 .. All /\ k + 1 \in 1 .. All /\ Frame(k) \in ClientFrames /\ Frame(k).len \in Nat
  BY <1>3, AllFacts, FrameFacts
<1>8. ~mistaken'
  <2>1. inflow # <<>> => inflow[1] = <<k, 2>>
    BY <1>3, <1>6, SecondByte DEF Begins
  <2>2. inflow # <<>> => inflow[1][2] = 2
    BY <2>1
  <2> QED
    BY <1>1, <2>2, NothingComes DEF Misread
<1>9. Somewhere'
  BY <1>1, <1>3, <1>4, PartsKept
<1>10. CASE ~r.ok
  <2>1. where' = "failed" /\ inflow' = inflow /\ pending_len' = pending_len /\ outflow' = outflow
    BY <1>2, <1>10
  <2>2. Answers' = Answers /\ Answered'
    BY <1>1, <1>3, <1>4, <2>1, AnswersSame, PartsKept
  <2>3. WsShapes'
    BY <1>1, <1>3, <1>4, <2>1, PartsKept DEF WsShapes
  <2>4. InStep'
    BY <1>8, <1>9, <2>1, <2>2 DEF InStep
  <2> QED
    BY <2>3, <2>4 DEF Kept
<1>11. CASE r.ok
  <2>1. TakeBytes(r.taken)
    BY <1>2, <1>11
  <2>2. PICK w \in FrameWritten(F(r)) : outflow' = w.out /\ where' = IF w.ok THEN "done" ELSE "failed"
    BY <1>2, <1>11
  <2>3. ControlMax \in Nat /\ ControlMax > 0
    BY WsConstants
  <2>4. PICK m \in 0 .. Frame(k).len : RecvOk(r, k, m, ControlMax, FALSE)
    BY <1>3, <1>6, <1>11, <2>3, FrameBegun
  <2>5. /\ m = 0 /\ r.pkt = PktOf(k, m) /\ r.taken \in 0 .. Len(inflow) /\ Begins(Behind(r.taken), Next(k, m))
    BY <2>3, <2>4 DEF RecvOk
  <2>6. r.pkt.payload = MeantPayload(Frame(k), k)
    <3>1. r.pkt.payload = PartOf(k, Frame(k).len - m)
      BY <2>5 DEF PktOf, Pkt
    <3>2. Frame(k).len - m = Frame(k).len
      BY <1>7, <2>5
    <3> QED
      BY <1>7, <3>1, <3>2, PartWhole
  <2>7. Stretch(Fs, inflow)' /\ (pending_len \in 0 .. Len(inflow))' /\ inflow' = Behind(r.taken)
    BY <1>1, <1>3, <2>1, <2>5, InflowTaken
  <2>8. Begins(inflow', <<k + 1, 1>>)
    BY <1>3, <2>5, <2>7, FrameOver
  <2> DEFINE type == IF aux.type = "ping" THEN "pong" ELSE "close"
             data == IF aux.type = "ping" THEN r.pkt.payload ELSE <<>>
  <2>9. F(r) = Tx(type, "answer", data)
    OBVIOUS
  <2>10. AsAnswered(k) = Tx(type, "answer", data)
    BY <1>6, <2>6 DEF AsAnswered, Frame
  <2> HIDE DEF type, data, F
  <2>11. Told(k + 1) = Told(k) /\ Due(k + 1) = Append(Due(k), Tx(type, "answer", data))
         /\ (Frame(k).type # "close" => Reached(k + 1))
    <3>1. ~Dispatched(Frame(k).type)
      BY <1>3, <1>6, TypesCovered
    <3> QED
      BY <1>6, <1>7, <2>10, <3>1, ToldNext
  <2>12. ASSUME NEW b \in BOOLEAN, outflow' = Append(outflow, OnWire(Tx(type, "answer", data), b))
         PROVE  IsSeq(outflow') /\ Answers' = Due(k + 1) /\ (b => AnswersWhole')
    BY <1>3, <1>6, <2>11, <2>12, OutflowGrows
  <2>13. \/ w.out = outflow /\ w.ok = FALSE
         \/ w.out = Append(outflow, OnWire(Tx(type, "answer", data), TRUE)) /\ w.ok = TRUE
         \/ w.out = Append(outflow, OnWire(Tx(type, "answer", data), FALSE)) /\ w.ok = FALSE
    BY <2>2, <2>9, WrittenFacts
  <2>14. /\ IsSeq(outflow') /\ where' \in {"done", "failed"} /\ (Answers' = Due(k) \/ Answers' = Due(k + 1))
         /\ (where' = "done" => Answers' = Due(k + 1) /\ AnswersWhole')
    <3>1. CASE w.out = outflow /\ w.ok = FALSE
      BY <1>3, <1>6, <2>2, <3>1, AnswersSame
    <3>2. CASE w.out = Append(outflow, OnWire(Tx(type, "answer", data), TRUE)) /\ w.ok = TRUE
      BY <2>2, <2>12, <3>2
    <3>3. CASE w.out = Append(outflow, OnWire(Tx(type, "answer", data), FALSE)) /\ w.ok = FALSE
      BY <2>2, <2>12, <3>3
    <3> QED
      BY <2>13, <3>1, <3>2, <3>3
  <2>15. Answered'
    <3>1. Due(k)' = Due(k) /\ Due(k + 1)' = Due(k + 1) /\ All' = All
      BY <1>1, <1>4, ToldKept, FramesSame
    <3> QED
      BY <1>7, <2>14, <3>1 DEF Answered
  <2>16. where' = "done" => (\E j \in 1 .. All : Boundary(j))'
    <3> SUFFICES ASSUME where' = "done" PROVE (\E j \in 1 .. All : Boundary(j))'
      OBVIOUS
    <3>1. handled' = Told(k + 1) /\ Answers' = Due(k + 1)
      BY <1>1, <1>6, <2>11, <2>14
    <3>2. ws'.close \/ Reached(k + 1)
      BY <1>4, <1>6, <2>11
    <3> QED
      BY <1>1, <1>4, <1>7, <2>8, <3>1, <3>2, BoundaryMade
  <2>17. WsShapes'
    BY <1>1, <1>3, <1>4, <2>7, <2>14 DEF WsShapes
  <2>18. InStep'
    BY <1>8, <1>9, <2>14, <2>15, <2>16 DEF InStep
  <2> QED
    BY <2>17, <2>18 DEF Kept
<1> QED
  BY <1>10, <1>11

LEMMA FirstByteKept == ASSUME Kept, FirstByte PROVE Kept'
<1>1. /\ where = "idle" /\ ~ws.close /\ talk' = talk /\ pkt' = pkt /\ handled' = handled /\ outflow' = outflow
  BY DEF FirstByte
<1>2. /\ talk \in Talks /\ ws \in WsSet /\ GoodFrames(Fs) /\ Stretch(Fs, inflow) /\ pending_len \in 0 .. Len(inflow)
      /\ IsSeq(outflow) /\ IsSeq(handled) /\ AnswersWhole /\ Somewhere /\ Answered /\ pkt = NoPkt /\ ~mistaken
  BY <1>1, TalkFacts DEF Kept, WsShapes, InStep
<1>3. PICK k \in 1 .. All : Boundary(k)
  BY <1>1 DEF Kept, InStep
<1>4. handled = Told(k) /\ Answers = Due(k) /\ Reached(k) /\ Begins(inflow, <<k, 1>>)
  BY <1>1, <1>3 DEF Boundary
<1>5. IsSeq(outflow') /\ IsSeq(handled') /\ Answers' = Answers /\ AnswersWhole' /\ pkt' = NoPkt'
  BY <1>1, <1>2, AnswersSame, FramesSame
<1>6. CASE inflow = <<>>
  <2>1. MarkIf("close") /\ inflow' = inflow /\ pending_len' = pending_len /\ mistaken' = mistaken
    BY <1>6 DEF FirstByte
  <2>2. where' \in {"handler", "done"}
    BY <1>6 DEF FirstByte
  <2>3. ws' \in WsSet /\ ws'.control_frames = ws.control_frames /\ ws'.close
    BY <1>2, <2>1, WsMarked
  <2>4. (\E j \in 1 .. All : Boundary(j))' /\ Somewhere' /\ Answered'
    BY <1>1, <1>3, <1>4, <1>5, <2>1, <2>3, BoundaryMade
  <2>5. Gone'
    BY <1>5, <1>6, <2>1 DEF Gone
  <2>6. WsShapes'
    BY <1>1, <1>2, <1>5, <2>1, <2>2, <2>3, PartsKept DEF WsShapes
  <2>7. InStep'
    BY <1>2, <1>5, <2>1, <2>2, <2>4, <2>5 DEF InStep
  <2> QED
    BY <2>6, <2>7 DEF Kept
<1>7. CASE inflow # <<>>
  <2>1. inflow[1] = <<k, 1>> /\ inflow[1][1] = k /\ inflow[1][2] = 1
    BY <1>4, <1>7 DEF Begins
  <2>2. Len(inflow) \in Nat /\ Len(inflow) >= 1 /\ 1 \in 0 .. Len(inflow) /\ inflow \in Seq(Nat \X Nat)
    BY <1>2, <1>7, EmptySeq, LenProperties DEF Stretch
  <2>3. k \in DOMAIN Fs /\ k \in Nat
    BY <1>2, <2>1, <2>2, FrameFacts DEF Stretch
  <2>4. /\ TakeBytes(1) /\ mistaken' = (inflow[1][2] # 1)
        /\ aux' = Aux(Frame(k).type, Frame(k).final, aux.mask_key)
        /\ where' = IF AnsweredFor(Frame(k).type) THEN "answer" ELSE IF Dispatched(Frame(k).type) THEN "handler" ELSE "done"
        /\ IF AnsweredFor(Frame(k).type) THEN ws' = ws ELSE MarkIf(Frame(k).type)
    BY <1>7, <2>1 DEF FirstByte, Frame
  <2>5. ~mistaken'
    BY <2>1, <2>4
  <2>6. Stretch(Fs, inflow)' /\ (pending_len \in 0 .. Len(inflow))' /\ inflow' = Behind(1)
    BY <1>1, <1>2, <2>2, <2>4, InflowTaken
  <2>7. Begins(inflow', Position(Fs, k, 2))
    <3> SUFFICES ASSUME Behind(1) # <<>> PROVE Behind(1)[1] = Position(Fs, k, 2)
      BY <2>6 DEF Begins
    <3>1. 1 < Len(inflow) /\ \A i \in 1 .. Len(inflow) - 1 : Behind(1)[i] = inflow[1 + i]
      BY <1>2, <2>2, InflowFacts
    <3>2. inflow[1 + 1] = Position(Fs, inflow[1][1], inflow[1][2] + 1)
      BY <1>2, <2>2, <3>1 DEF Stretch
    <3>3. inflow[2] = Position(Fs, k, 2)
      BY <2>1, <3>2
    <3>4. Behind(1)[1] = inflow[2]
      BY <2>2, <3>1
    <3> QED
      BY <3>3, <3>4
  <2>8. ws' \in WsSet /\ ws'.control_frames = ws.control_frames
        /\ (~AnsweredFor(Frame(k).type) /\ Frame(k).type = "close" => ws'.close)
    <3>1. CASE AnsweredFor(Frame(k).type)
      BY <1>2, <2>4, <3>1
    <3>2. CASE ~AnsweredFor(Frame(k).type)
      BY <1>2, <2>4, <3>2, WsMarked
    <3> QED
      BY <3>1, <3>2
  <2>9. aux'.type = Frame(k).type /\ aux'.final = Frame(k).final
    BY <2>4, AuxFacts
  <2>10. Inside(k)' /\ Somewhere' /\ Answered'
    BY <1>1, <1>2, <1>4, <1>5, <2>3, <2>8, <2>9, InsideMade
  <2>11. /\ Frame(k)' = Frame(k) /\ DOMAIN Fs' = DOMAIN Fs /\ Position(Fs, k, 2)' = Position(Fs, k, 2)
         /\ Dispatched(Frame(k).type)' = Dispatched(Frame(k).type)
         /\ AnsweredFor(Frame(k).type)' = AnsweredFor(Frame(k).type)
    <3>1. Frame(k)' = Frame(k) /\ DOMAIN Fs' = DOMAIN Fs /\ Position(Fs, k, 2)' = Position(Fs, k, 2)
      BY <1>1, FramesSame
    <3> QED
      BY <2>8, <3>1 DEF Dispatched, AnsweredFor
  <2>12. WsShapes'
    <3>1. where' \in {"answer", "handler", "done"}
      BY <2>4
    <3> QED
      BY <1>1, <1>2, <1>5, <2>6, <2>8, <3>1 DEF WsShapes
  <2>13. CASE AnsweredFor(Frame(k).type)
    <3>1. where' = "answer"
      BY <2>4, <2>13
    <3>2. InAnswer(k)'
      BY <2>7, <2>10, <2>11, <2>13 DEF InAnswer, Begins
    <3>3. InStep'
      BY <1>5, <2>3, <2>5, <2>10, <2>11, <3>1, <3>2 DEF InStep
    <3> QED
      BY <2>12, <3>3 DEF Kept
  <2>14. CASE ~AnsweredFor(Frame(k).type)
    <3>1. Dispatched(Frame(k).type)
      BY <1>2, <2>3, <2>14, TypesCovered
    <3>2. where' = "handler"
      BY <2>4, <2>14, <3>1
    <3>3. Unread(k)'
      BY <1>5, <2>7, <2>11 DEF Unread, Begins
    <3>4. InHandler(k)'
      BY <2>8, <2>10, <2>11, <2>14, <3>1, <3>3 DEF InHandler
    <3>5. InStep'
      BY <1>5, <2>3, <2>5, <2>10, <2>11, <3>2, <3>4 DEF InStep
    <3> QED
      BY <2>12, <3>5 DEF Kept
  <2> QED
    BY <2>13, <2>14
<1> QED
  BY <1>6, <1>7

(* What is sent follows the answer to the handshake. *)
ByOthers == {"answer", "handler", "task"}

Shaken == outflow # <<>> /\ HandshakeFits /\ outflow[1].by = "handshake" /\ outflow[1].data = Subprotocol

FramesSent ==
  /\ where \in {"idle", "answer", "handler", "done"} => ws.handshake_done
  /\ where = "request" => ~ws.handshake_done
  /\ ~ws.handshake_done => handled = <<>> /\ outflow = <<>> /\ sends = <<>>
  /\ ws.handshake_done => Shaken
  /\ \A j \in 2 .. Len(outflow) : outflow[j].by \in ByOthers

LEMMA ByTx ==
  ASSUME NEW type, NEW by, NEW data, NEW b
  PROVE  /\ OnWire(Tx(type, by, data), b).by = by /\ OnWire(Tx(type, by, data), b).data = data
         /\ OnWire(Tx(type, by, data), b).type = type /\ OnWire(Tx(type, by, data), b).whole = b
BY DEF OnWire, Tx

(* outflow is left alone, or one frame longer. *)
GrowsBy(S) ==
  \/ outflow' = outflow
  \/ ws.handshake_done
       /\ \E type, data, b : \E by \in S : outflow' = Append(outflow, OnWire(Tx(type, by, data), b))

LEMMA SentKept ==
  ASSUME talk' = talk, ws'.handshake_done = ws.handshake_done, IsSeq(outflow), FramesSent, GrowsBy(ByOthers)
  PROVE  /\ ~ws'.handshake_done => outflow' = <<>>
         /\ ws'.handshake_done => Shaken'
         /\ \A j \in 2 .. Len(outflow') : outflow'[j].by \in ByOthers
<1>1. Subprotocol' = Subprotocol /\ HandshakeFits' = HandshakeFits
  BY DEF Subprotocol, HandshakeFits
<1>2. CASE outflow' = outflow
  BY <1>1, <1>2 DEF FramesSent, Shaken
<1>3. ASSUME ws.handshake_done, NEW type, NEW data, NEW b, NEW by \in ByOthers,
             outflow' = Append(outflow, OnWire(Tx(type, by, data), b))
      PROVE  Shaken' /\ \A j \in 2 .. Len(outflow') : outflow'[j].by \in ByOthers
  <2> DEFINE e == OnWire(Tx(type, by, data), b)
  <2>1. e.by \in ByOthers
    BY ByTx
  <2> HIDE DEF e
  <2>2. /\ outflow' # <<>> /\ Len(outflow') = Len(outflow) + 1 /\ Len(outflow) \in Nat
        /\ \A i \in 1 .. Len(outflow) : outflow'[i] = outflow[i]
        /\ outflow'[Len(outflow) + 1] = e /\ DOMAIN outflow = 1 .. Len(outflow)
    BY <1>3, AppendAny DEF e
  <2>3. Shaken
    BY <1>3 DEF FramesSent
  <2>4. Len(outflow) >= 1
    <3>1. PICK S : outflow \in Seq(S)
      BY DEF IsSeq
    <3> QED
      BY <2>2, <2>3, <3>1, EmptySeq DEF Shaken
  <2>5. outflow'[1] = outflow[1]
    BY <2>2, <2>4
  <2>6. Shaken'
    BY <1>1, <2>2, <2>3, <2>5 DEF Shaken
  <2>7. ASSUME NEW j \in 2 .. Len(outflow') PROVE outflow'[j].by \in ByOthers
    <3>1. CASE j \in 2 .. Len(outflow)
      <4>1. outflow'[j] = outflow[j]
        BY <2>2, <3>1
      <4> QED
        BY <3>1, <4>1 DEF FramesSent
    <3>2. CASE j = Len(outflow) + 1
      BY <2>1, <2>2, <3>2
    <3> QED
      BY <2>2, <3>1, <3>2
  <2> QED
    BY <2>6, <2>7
<1> QED
  BY <1>2, <1>3 DEF GrowsBy

(* A frame written makes outflow grow. *)
LEMMA WrittenGrows ==
  ASSUME NEW S, ws.handshake_done, NEW type, NEW by \in S, NEW data,
         NEW w \in FrameWritten(Tx(type, by, data)), outflow' = w.out
  PROVE  GrowsBy(S)
<1> DEFINE f == Tx(type, by, data)
<1> HIDE DEF f
<1>1. w.out = outflow \/ w.out = Append(outflow, OnWire(f, TRUE)) \/ w.out = Append(outflow, OnWire(f, FALSE))
  <2>1. w \in FrameWritten(f)
    BY DEF f
  <2> QED
    BY <2>1, WrittenFacts
<1> QED
  BY <1>1 DEF f, GrowsBy

-----------------------------------------------------------------------------
(* The upgrade. *)
LEMMA HandshakeKept == ASSUME Kept, FramesSent, Handshake PROVE Kept' /\ FramesSent'
<1>1. /\ where = "request" /\ talk' = talk /\ inflow' = inflow /\ aux' = aux /\ pkt' = pkt /\ mistaken' = mistaken
      /\ handled' = handled /\ sends' = sends
      /\ \E n \in 0 .. LessOf(PendingSize, Len(inflow)) : pending_len' = n
  BY DEF Handshake
<1>2. /\ talk \in Talks /\ ws \in WsSet /\ GoodFrames(Fs) /\ Stretch(Fs, inflow) /\ IsSeq(outflow) /\ IsSeq(handled)
      /\ talk.uri.control_frames \in BOOLEAN /\ ~mistaken /\ Somewhere /\ Answered /\ Begins(inflow, <<1, 1>>)
  BY <1>1, TalkFacts DEF Kept, WsShapes, InStep
<1>3. ~ws.handshake_done /\ handled = <<>> /\ outflow = <<>> /\ sends = <<>>
  BY <1>1 DEF FramesSent
<1>4. Stretch(Fs, inflow)'
  BY <1>1, <1>2, FramesSame DEF Stretch, Position, FrameLen, HeadLen
<1>5. (pending_len \in 0 .. Len(inflow))'
  <2>1. PICK n \in 0 .. LessOf(PendingSize, Len(inflow)) : pending_len' = n
    BY <1>1
  <2>2. PendingSize \in Nat /\ Len(inflow) \in Nat
    BY <1>2, WsConstants, LenProperties DEF Stretch
  <2>3. n \in 0 .. Len(inflow)
    BY <2>2 DEF LessOf
  <2> QED
    BY <1>1, <2>1, <2>3
<1>6. CASE where' = "failed" /\ UNCHANGED <<outflow, ws>>
  <2>1. where' = "failed" /\ outflow' = outflow /\ ws' = ws
    BY <1>6
  <2>2. Somewhere' /\ Answered'
    BY <1>1, <1>2, <2>1, AnswersSame, PartsKept
  <2>3. WsShapes'
    BY <1>1, <1>2, <1>4, <1>5, <2>1 DEF WsShapes
  <2>4. InStep'
    BY <1>1, <1>2, <2>1, <2>2 DEF InStep
  <2>5. FramesSent'
    <3>1. \A j \in 2 .. Len(outflow') : outflow'[j].by \in ByOthers
      BY <2>1 DEF FramesSent
    <3> QED
      BY <1>1, <1>3, <2>1, <3>1 DEF FramesSent
  <2> QED
    BY <2>3, <2>4, <2>5 DEF Kept
<1>7. CASE /\ UpgradeTaken /\ talk.uri.pre /\ HandshakeFits
           /\ outflow' = <<OnWire(Tx("101", "handshake", Subprotocol), TRUE)>>
           /\ ws' = [ws EXCEPT !.handshake_done = TRUE, !.control_frames = talk.uri.control_frames]
           /\ where' = IF talk.uri.post THEN "done" ELSE "failed"
  <2> DEFINE c == talk.uri.control_frames
             s == Subprotocol
             e == OnWire(Tx("101", "handshake", s), TRUE)
  <2>1. e.by = "handshake" /\ e.data = s
    <3> DEFINE type == "101"
               by == "handshake"
               b == TRUE
    <3> HIDE DEF s, type, by, b
    <3>1. OnWire(Tx(type, by, s), b).by = by /\ OnWire(Tx(type, by, s), b).data = s
      BY ByTx
    <3> QED
      BY <3>1 DEF type, by, b
  <2>2. outflow' = Append(outflow, e) /\ outflow' = <<e>>
    BY <1>3, <1>7
  <2>3. c \in BOOLEAN /\ ws' = [ws EXCEPT !.handshake_done = TRUE, !.control_frames = c]
    BY <1>2, <1>7
  <2> HIDE DEF c
  <2>4. ws' \in WsSet /\ ws'.handshake_done = TRUE /\ ws'.close = ws.close
    BY <1>2, <2>3, WsShaken
  <2>5. IsSeq(outflow') /\ Answers' = Answers /\ AnswersWhole'
    <3>1. AnswersWhole
      BY <1>3 DEF AnswersWhole
    <3> DEFINE type == "101"
               by == "handshake"
               b == TRUE
    <3>3. outflow' = Append(outflow, OnWire(Tx(type, by, s), b)) /\ by # "answer"
      BY <2>2
    <3> HIDE DEF s, type, by, b
    <3> QED
      BY <1>2, <3>1, <3>3, OutflowGrows
  <2> HIDE DEF s, e
  <2>6. Told(1)' = <<>> /\ Due(1)' = <<>>
    <3>1. 1 - 1 = 0
      OBVIOUS
    <3> QED
      BY <3>1, PickedNone DEF Told, Due
  <2>7. Answers' = <<>>
    BY <1>3, <2>5, AnswersNone, AnswersIs
  <2>8. 1 \in 1 .. All'
    <3>1. All \in Nat /\ All >= 1
      BY <1>2, AllFacts
    <3> QED
      BY <1>1, <3>1, FramesSame
  <2>9. Reached(1)'
    BY DEF Reached
  <2>10. Boundary(1)'
    BY <1>1, <1>2, <1>3, <2>6, <2>7, <2>8, <2>9 DEF Boundary, Begins
  <2>11. Somewhere' /\ Answered'
    BY <1>1, <1>3, <2>6, <2>7, <2>8 DEF Somewhere, Answered
  <2>12. where' \in {"done", "failed"}
    BY <1>7
  <2>13. WsShapes'
    BY <1>1, <1>2, <1>4, <1>5, <2>4, <2>5, <2>12 DEF WsShapes
  <2>14. InStep'
    BY <1>1, <1>2, <2>5, <2>8, <2>10, <2>11, <2>12 DEF InStep
  <2>15. FramesSent'
    <3>1. outflow'[1] = e /\ Len(outflow') = 1 /\ outflow' # <<>>
      BY <2>2
    <3>2. Subprotocol' = s /\ HandshakeFits'
      BY <1>1, <1>7 DEF s, Subprotocol, HandshakeFits
    <3>3. Shaken'
      BY <2>1, <3>1, <3>2 DEF Shaken
    <3>4. \A j \in 2 .. Len(outflow') : outflow'[j].by \in ByOthers
      BY <3>1
    <3> QED
      BY <2>4, <2>12, <3>3, <3>4 DEF FramesSent
  <2> QED
    BY <2>13, <2>14, <2>15 DEF Kept
<1> QED
  BY <1>6, <1>7 DEF Handshake

(* Transfers. *)
Waits(n) == \E j \in DOMAIN works : works[j] = n

WentOut(n) == \E j \in DOMAIN outflow : outflow[j].by = "task" /\ outflow[j].data = <<n>> /\ outflow[j].whole

Transfers ==
  /\ sends \in Seq({"queued", "refused", "ok", "failed"}) /\ works \in Seq(Nat)
  /\ \A j \in DOMAIN works : works[j] = CloseWork \/ works[j] \in DOMAIN sends
  /\ \A i, j \in DOMAIN works : works[i] = works[j] /\ works[i] # CloseWork => i = j
  /\ \A n \in DOMAIN sends : sends[n] = "queued" <=> Waits(n)
  /\ \A j \in DOMAIN outflow : outflow[j].by = "task" => \E n \in DOMAIN sends : outflow[j].data = <<n>>
  /\ \A n \in DOMAIN sends : sends[n] = "ok" <=> WentOut(n)

(* What others than tasks send is no transfer. *)
NoTransfer ==
  /\ \A n : WentOut(n)' <=> WentOut(n)
  /\ \A j \in DOMAIN outflow' : outflow'[j].by = "task" =>
       \E i \in DOMAIN outflow : outflow[i].by = "task" /\ outflow[i].data = outflow'[j].data

LEMMA OutOfOthers ==
  ASSUME IsSeq(outflow), NEW type, NEW by, by # "task", NEW data, NEW b,
         outflow' = Append(outflow, OnWire(Tx(type, by, data), b))
  PROVE  NoTransfer
<1> DEFINE e == OnWire(Tx(type, by, data), b)
<1>1. e.by # "task"
  BY ByTx
<1> HIDE DEF e
<1>2. /\ DOMAIN outflow = 1 .. Len(outflow) /\ DOMAIN outflow' = 1 .. Len(outflow) + 1 /\ Len(outflow) \in Nat
      /\ \A i \in 1 .. Len(outflow) : outflow'[i] = outflow[i]
      /\ outflow'[Len(outflow) + 1] = e
  BY AppendAny DEF e
<1>3. ASSUME NEW j \in DOMAIN outflow', outflow'[j].by = "task" PROVE j \in DOMAIN outflow /\ outflow'[j] = outflow[j]
  BY <1>1, <1>2, <1>3
<1>4. ASSUME NEW j \in DOMAIN outflow PROVE j \in DOMAIN outflow' /\ outflow'[j] = outflow[j]
  BY <1>2
<1>5. \A n : WentOut(n)' <=> WentOut(n)
  BY <1>3, <1>4 DEF WentOut
<1>6. \A j \in DOMAIN outflow' : outflow'[j].by = "task" =>
        \E i \in DOMAIN outflow : outflow[i].by = "task" /\ outflow[i].data = outflow'[j].data
  BY <1>3
<1> QED
  BY <1>5, <1>6 DEF NoTransfer

LEMMA OutUnchanged == ASSUME outflow' = outflow PROVE NoTransfer
  BY DEF NoTransfer, WentOut

LEMMA OutGrows == ASSUME IsSeq(outflow), GrowsBy({"answer", "handler"}) PROVE NoTransfer
<1>1. CASE outflow' = outflow
  BY <1>1, OutUnchanged
<1>2. ASSUME NEW type, NEW data, NEW b, NEW by \in {"answer", "handler"},
             outflow' = Append(outflow, OnWire(Tx(type, by, data), b))
      PROVE  NoTransfer
  <2>1. by # "task"
    OBVIOUS
  <2> QED
    BY <1>2, <2>1, OutOfOthers
<1> QED
  BY <1>1, <1>2 DEF GrowsBy

(* Steps that are about no transfer. *)
LEMMA TransfersKept ==
  ASSUME Transfers, NoTransfer, sends' = sends, works' = works
  PROVE  Transfers'
<1>1. \A n : Waits(n)' <=> Waits(n)
  BY DEF Waits
<1>2. \A j \in DOMAIN outflow' : outflow'[j].by = "task" => \E n \in DOMAIN sends' : outflow'[j].data = <<n>>
  BY DEF Transfers, NoTransfer
<1>3. \A n \in DOMAIN sends' : sends'[n] = "ok" <=> WentOut(n)'
  BY DEF Transfers, NoTransfer
<1>4. \A n \in DOMAIN sends' : sends'[n] = "queued" <=> Waits(n)'
  BY <1>1 DEF Transfers
<1> QED
  BY <1>2, <1>3, <1>4 DEF Transfers

(* One more work. *)
LEMMA WorkQueued ==
  ASSUME works \in Seq(Nat), NEW m \in Nat, works' = Append(works, m)
  PROVE  /\ works' \in Seq(Nat) /\ DOMAIN works = 1 .. Len(works) /\ DOMAIN works' = 1 .. Len(works) + 1 /\ Len(works) \in Nat
         /\ \A j \in DOMAIN works : works'[j] = works[j]
         /\ works'[Len(works) + 1] = m
         /\ \A n : Waits(n)' <=> Waits(n) \/ n = m
<1>1. /\ works' \in Seq(Nat) /\ DOMAIN works = 1 .. Len(works) /\ DOMAIN works' = 1 .. Len(works) + 1 /\ Len(works) \in Nat
      /\ \A j \in DOMAIN works : works'[j] = works[j]
      /\ works'[Len(works) + 1] = m
  BY AppendProperties, LenProperties
<1>2. \A n : Waits(n)' <=> Waits(n) \/ n = m
  BY <1>1 DEF Waits
<1> QED
  BY <1>1, <1>2

(* One work less. *)
LEMMA WorkTaken ==
  ASSUME works \in Seq(Nat), works # <<>>, works' = Tail(works),
         \A i, j \in DOMAIN works : works[i] = works[j] /\ works[i] # CloseWork => i = j
  PROVE  /\ works' \in Seq(Nat) /\ 1 \in DOMAIN works /\ Head(works) = works[1]
         /\ \A j \in DOMAIN works' : j + 1 \in DOMAIN works /\ works'[j] = works[j + 1]
         /\ \A i, j \in DOMAIN works' : works'[i] = works'[j] /\ works'[i] # CloseWork => i = j
         /\ \A n : n # CloseWork => (Waits(n)' <=> Waits(n) /\ n # Head(works))
<1>1. /\ works' \in Seq(Nat) /\ Head(works) = works[1] /\ Len(works) \in Nat /\ Len(works) >= 1
      /\ DOMAIN works = 1 .. Len(works) /\ DOMAIN works' = 1 .. Len(works) - 1
      /\ \A j \in 1 .. Len(works) - 1 : works'[j] = works[j + 1]
  BY HeadTailProperties, EmptySeq, LenProperties
<1>2. \A j \in DOMAIN works' : j + 1 \in DOMAIN works /\ works'[j] = works[j + 1]
  BY <1>1
<1>3. \A i, j \in DOMAIN works' : works'[i] = works'[j] /\ works'[i] # CloseWork => i = j
  BY <1>1, <1>2
<1>4. ASSUME NEW n, n # CloseWork PROVE Waits(n)' <=> Waits(n) /\ n # Head(works)
  <2>1. ASSUME Waits(n)' PROVE Waits(n) /\ n # Head(works)
    <3>1. PICK j \in DOMAIN works' : works'[j] = n
      BY <2>1 DEF Waits
    <3>2. j + 1 \in DOMAIN works /\ works[j + 1] = n /\ 1 \in DOMAIN works /\ j + 1 # 1
      BY <1>1, <3>1
    <3>3. works[1] # n
      BY <1>4, <3>2
    <3> QED
      BY <1>1, <3>2, <3>3 DEF Waits
  <2>2. ASSUME Waits(n), n # Head(works) PROVE Waits(n)'
    <3>1. PICK j \in DOMAIN works : works[j] = n
      BY <2>2 DEF Waits
    <3>2. j # 1
      BY <1>1, <2>2, <3>1
    <3>3. PICK i \in 1 .. Len(works) - 1 : j = i + 1
      <4>1. j - 1 \in 1 .. Len(works) - 1 /\ j = (j - 1) + 1
        BY <1>1, <3>2
      <4> QED
        BY <4>1
    <3>4. i \in DOMAIN works' /\ works'[i] = n
      BY <1>1, <3>1, <3>3
    <3> QED
      BY <3>4 DEF Waits
  <2> QED
    BY <2>1, <2>2
<1> QED
  BY <1>1, <1>2, <1>3, <1>4

WsInv == Kept /\ FramesSent /\ Transfers

(* FramesSent, once the handshake is made or failed. *)
LEMMA FramesSentKept ==
  ASSUME FramesSent, talk' = talk, IsSeq(outflow), GrowsBy(ByOthers), ws'.handshake_done = ws.handshake_done,
         where' \in {"idle", "answer", "handler", "done"} => ws.handshake_done, where' # "request",
         ~ws.handshake_done => handled' = handled /\ sends' = sends
  PROVE  FramesSent'
<1>1. /\ ~ws'.handshake_done => outflow' = <<>>
      /\ ws'.handshake_done => Shaken'
      /\ \A j \in 2 .. Len(outflow') : outflow'[j].by \in ByOthers
  BY SentKept
<1>2. ~ws'.handshake_done => handled' = <<>> /\ sends' = <<>>
  BY DEF FramesSent
<1> QED
  BY <1>1, <1>2 DEF FramesSent

LEMMA HandshakeRight == ASSUME WsInv, Handshake PROVE WsInv'
<1>1. Kept' /\ FramesSent'
  BY HandshakeKept DEF WsInv
<1>2. sends' = sends /\ works' = works /\ IsSeq(outflow)
  BY DEF Handshake, WsInv, Kept, WsShapes
<1>3. outflow = <<>>
  BY DEF Handshake, WsInv, FramesSent
<1>4. NoTransfer
  <2>1. CASE outflow' = outflow
    BY <2>1, OutUnchanged
  <2>2. CASE outflow' = <<OnWire(Tx("101", "handshake", Subprotocol), TRUE)>>
    <3> DEFINE type == "101"
               by == "handshake"
               b == TRUE
               s == Subprotocol
    <3>1. outflow' = Append(outflow, OnWire(Tx(type, by, s), b)) /\ by # "task"
      BY <1>3, <2>2
    <3> HIDE DEF type, by, b, s
    <3> QED
      BY <1>2, <3>1, OutOfOthers
  <2> QED
    BY <2>1, <2>2 DEF Handshake
<1>5. Transfers'
  BY <1>2, <1>4, TransfersKept DEF WsInv
<1> QED
  BY <1>1, <1>5 DEF WsInv

(* Steps of the request that send nothing. *)
LEMMA QuietRight ==
  ASSUME WsInv, Kept', talk' = talk, outflow' = outflow, sends' = sends, works' = works, handled' = handled,
         ws'.handshake_done = ws.handshake_done, ws.handshake_done, where' # "request"
  PROVE  WsInv'
<1>1. NoTransfer
  BY OutUnchanged
<1>2. Transfers'
  BY <1>1, TransfersKept DEF WsInv
<1>3. GrowsBy(ByOthers)
  BY DEF GrowsBy
<1>4. FramesSent'
  BY <1>3, FramesSentKept DEF WsInv, Kept, WsShapes
<1> QED
  BY <1>2, <1>4 DEF WsInv

LEMMA MarkedCloseRight == ASSUME WsInv, MarkedClose PROVE WsInv'
<1>1. Kept'
  BY MarkedCloseKept DEF WsInv
<1>2. /\ talk' = talk /\ outflow' = outflow /\ sends' = sends /\ works' = works /\ handled' = handled /\ ws' = ws
      /\ where = "idle" /\ where' = "done"
  BY DEF MarkedClose
<1>3. ws.handshake_done
  BY <1>2 DEF WsInv, FramesSent
<1> QED
  BY <1>1, <1>2, <1>3, QuietRight

LEMMA FirstByteRight == ASSUME WsInv, FirstByte PROVE WsInv'
<1>1. Kept'
  BY FirstByteKept DEF WsInv
<1>2. /\ talk' = talk /\ outflow' = outflow /\ sends' = sends /\ works' = works /\ handled' = handled /\ where = "idle"
  BY DEF FirstByte
<1>3. ws.handshake_done
  BY <1>2 DEF WsInv, FramesSent
<1>4. ws' = ws \/ \E type : MarkIf(type)
  BY DEF FirstByte
<1>5. ws'.handshake_done = ws.handshake_done
  BY <1>4, WsMarked DEF WsInv, Kept, WsShapes
<1>6. where' # "request"
  <2>1. CASE inflow = <<>>
    BY <2>1 DEF FirstByte
  <2>2. CASE inflow # <<>>
    BY <2>2 DEF FirstByte
  <2> QED
    BY <2>1, <2>2
<1> QED
  BY <1>1, <1>2, <1>3, <1>5, <1>6, QuietRight

LEMMA HandlerReadsRight == ASSUME WsInv, HandlerReads PROVE WsInv'
<1>1. Kept'
  BY HandlerReadsKept DEF WsInv
<1>2. /\ talk' = talk /\ outflow' = outflow /\ sends' = sends /\ works' = works /\ handled' = handled /\ ws' = ws
      /\ where = "handler"
  BY DEF HandlerReads
<1>3. ws.handshake_done
  BY <1>2 DEF WsInv, FramesSent
<1>4. where' = where \/ where' = "failed"
  BY DEF HandlerReads
<1> QED
  BY <1>1, <1>2, <1>3, <1>4, QuietRight

(* Steps of the request that may send a frame. *)
LEMMA SpeakRight ==
  ASSUME WsInv, Kept', talk' = talk, GrowsBy({"answer", "handler"}), sends' = sends, works' = works,
         ws'.handshake_done = ws.handshake_done, ws.handshake_done, where' # "request"
  PROVE  WsInv'
<1>1. IsSeq(outflow)
  BY DEF WsInv, Kept, WsShapes
<1>2. NoTransfer
  BY <1>1, OutGrows
<1>3. Transfers'
  BY <1>2, TransfersKept DEF WsInv
<1>4. GrowsBy(ByOthers)
  BY DEF GrowsBy, ByOthers
<1>5. FramesSent'
  BY <1>1, <1>4, FramesSentKept DEF WsInv
<1> QED
  BY <1>3, <1>5 DEF WsInv

LEMMA AnswerRight == ASSUME WsInv, Answer PROVE WsInv'
<1>1. Kept'
  BY AnswerKept DEF WsInv
<1>2. talk' = talk /\ sends' = sends /\ works' = works /\ MarkIf(aux.type) /\ where = "answer"
  BY DEF Answer
<1>3. ws.handshake_done
  BY <1>2 DEF WsInv, FramesSent
<1>4. ws'.handshake_done = ws.handshake_done
  BY <1>2, WsMarked DEF WsInv, Kept, WsShapes
<1>5. PICK r \in RecvFrame(NoPkt, ControlMax, FALSE) :
        \/ where' = "failed" /\ outflow' = outflow
        \/ \E w \in FrameWritten(IF aux.type = "ping" THEN Tx("pong", "answer", r.pkt.payload)
                                 ELSE Tx("close", "answer", <<>>)) :
             outflow' = w.out /\ where' = IF w.ok THEN "done" ELSE "failed"
  BY DEF Answer
<1>6. CASE where' = "failed" /\ outflow' = outflow
  BY <1>1, <1>2, <1>3, <1>4, <1>6, SpeakRight DEF GrowsBy
<1>7. ASSUME NEW w \in FrameWritten(IF aux.type = "ping" THEN Tx("pong", "answer", r.pkt.payload)
                                    ELSE Tx("close", "answer", <<>>)),
             outflow' = w.out /\ where' = IF w.ok THEN "done" ELSE "failed"
      PROVE  WsInv'
  <2> DEFINE by == "answer"
             S == {"answer", "handler"}
             type == IF aux.type = "ping" THEN "pong" ELSE "close"
             data == IF aux.type = "ping" THEN r.pkt.payload ELSE <<>>
  <2>1. w \in FrameWritten(Tx(type, by, data)) /\ by \in S
    BY <1>7
  <2>2. where' # "request"
    BY <1>7
  <2> HIDE DEF type, data, by, S
  <2>3. GrowsBy(S)
    BY <1>3, <1>7, <2>1, WrittenGrows
  <2> QED
    BY <1>1, <1>2, <1>3, <1>4, <2>2, <2>3, SpeakRight DEF S
<1> QED
  BY <1>5, <1>6, <1>7

LEMMA WsHandlerReturnsRight == ASSUME WsInv, WsHandlerReturns PROVE WsInv'
<1>1. Kept'
  BY WsHandlerReturnsKept DEF WsInv
<1>2. talk' = talk /\ sends' = sends /\ works' = works /\ ws' = ws /\ where = "handler"
  BY DEF WsHandlerReturns
<1>3. ws.handshake_done
  BY <1>2 DEF WsInv, FramesSent
<1> DEFINE by == "handler"
           S == {"answer", "handler"}
<1>4. by \in S
  OBVIOUS
<1>5. \/ where' \in {"done", "failed"} /\ outflow' = outflow
      \/ \E w \in FrameWritten(Tx(pkt.type, by, pkt.payload)) :
           outflow' = w.out /\ where' = IF w.ok THEN "done" ELSE "failed"
  BY DEF WsHandlerReturns
<1> HIDE DEF by, S
<1>6. CASE where' \in {"done", "failed"} /\ outflow' = outflow
  BY <1>1, <1>2, <1>3, <1>6, SpeakRight DEF GrowsBy
<1>7. ASSUME NEW w \in FrameWritten(Tx(pkt.type, by, pkt.payload)),
             outflow' = w.out /\ where' = IF w.ok THEN "done" ELSE "failed"
      PROVE  WsInv'
  <2>1. GrowsBy(S)
    BY <1>3, <1>4, <1>7, WrittenGrows
  <2>2. where' # "request"
    BY <1>7
  <2> QED
    BY <1>1, <1>2, <1>3, <2>1, <2>2, SpeakRight DEF S
<1> QED
  BY <1>5, <1>6, <1>7

LEMMA WsCleanupRight == ASSUME WsInv, WsCleanup PROVE WsInv'
<1>1. Kept'
  BY WsCleanupKept DEF WsInv
<1>2. talk' = talk /\ sends' = sends /\ handled' = handled /\ outflow' = outflow /\ where \in {"done", "failed"}
  BY DEF WsCleanup
<1>3. \/ where = "failed" /\ ws' = WsClosed /\ where' = "closed"
      \/ where = "done" /\ ws' = ws /\ where' = "idle"
  <2>1. CASE where = "failed"
    BY <2>1 DEF WsCleanup
  <2>2. CASE where = "done"
    <3>1. where # "failed"
      BY <2>2
    <3> QED
      BY <2>2, <3>1 DEF WsCleanup
  <2> QED
    BY <1>2, <2>1, <2>2
<1>4. ws'.handshake_done = ws.handshake_done
  BY <1>3, WsGone DEF WsInv, Kept, WsShapes
<1>5. FramesSent'
  <2>1. GrowsBy(ByOthers)
    BY <1>2 DEF GrowsBy
  <2>2. where' # "request" /\ (where' \in {"idle", "answer", "handler", "done"} => ws.handshake_done)
    BY <1>3 DEF WsInv, FramesSent
  <2> QED
    BY <1>2, <1>4, <2>1, <2>2, FramesSentKept DEF WsInv, Kept, WsShapes
<1>6. Transfers'
  <2>1. works' = works \/ works' = Append(works, CloseWork)
    BY DEF WsCleanup
  <2>2. CASE works' = works
    BY <1>2, <2>2, OutUnchanged, TransfersKept DEF WsInv
  <2>3. CASE works' = Append(works, CloseWork)
    <3>1. CloseWork \in Nat /\ CloseWork \notin DOMAIN sends
      <4>1. DOMAIN sends = 1 .. Len(sends)
        BY LenProperties DEF WsInv, Transfers
      <4> QED
        BY <4>1 DEF CloseWork
    <3> HIDE DEF CloseWork
    <3>2. /\ works' \in Seq(Nat) /\ DOMAIN works = 1 .. Len(works) /\ DOMAIN works' = 1 .. Len(works) + 1 /\ Len(works) \in Nat
          /\ \A j \in DOMAIN works : works'[j] = works[j]
          /\ works'[Len(works) + 1] = CloseWork
          /\ \A n : Waits(n)' <=> Waits(n) \/ n = CloseWork
      BY <2>3, <3>1, WorkQueued DEF WsInv, Transfers
    <3>3. \A j \in DOMAIN works' : works'[j] = CloseWork \/ works'[j] \in DOMAIN sends'
      <4>1. \A j \in DOMAIN works : works[j] = CloseWork \/ works[j] \in DOMAIN sends
        BY DEF WsInv, Transfers
      <4>2. ASSUME NEW j \in DOMAIN works' PROVE works'[j] = CloseWork \/ works'[j] \in DOMAIN sends
        <5>1. j \in DOMAIN works \/ j = Len(works) + 1
          BY <3>2
        <5> QED
          BY <3>2, <4>1, <5>1
      <4> QED
        BY <1>2, <4>2
    <3>4. \A i, j \in DOMAIN works' : works'[i] = works'[j] /\ works'[i] # CloseWork => i = j
      <4>1. \A i, j \in DOMAIN works : works[i] = works[j] /\ works[i] # CloseWork => i = j
        BY DEF WsInv, Transfers
      <4> SUFFICES ASSUME NEW i \in DOMAIN works', NEW j \in DOMAIN works', works'[i] = works'[j], works'[i] # CloseWork
                   PROVE  i = j
        OBVIOUS
      <4>2. i \in DOMAIN works /\ j \in DOMAIN works
        BY <3>2
      <4> QED
        BY <3>2, <4>1, <4>2
    <3>5. \A n \in DOMAIN sends' : sends'[n] = "queued" <=> Waits(n)'
      BY <1>2, <3>1, <3>2 DEF WsInv, Transfers
    <3>6. \A n : WentOut(n)' <=> WentOut(n)
      BY <1>2 DEF WentOut
    <3> QED
      BY <1>2, <3>2, <3>3, <3>4, <3>5, <3>6 DEF WsInv, Transfers
  <2> QED
    BY <2>1, <2>2, <2>3
<1> QED
  BY <1>1, <1>5, <1>6 DEF WsInv

LEMMA SendDataRight == ASSUME WsInv, SendData PROVE WsInv'
<1>1. UNCHANGED <<talk, inflow, pending_len, ws, aux, pkt, where, mistaken, handled, outflow>>
  BY DEF SendData
<1>2. Kept'
  BY <1>1, UntouchedKept DEF WsInv
<1>3. ws.handshake_done
  BY DEF SendData, FdInfo
<1>4. FramesSent'
  <2>1. GrowsBy(ByOthers)
    BY <1>1 DEF GrowsBy
  <2>2. where # "request"
    BY <1>3 DEF WsInv, FramesSent
  <2> QED
    BY <1>1, <1>3, <2>1, <2>2, FramesSentKept DEF WsInv, Kept, WsShapes
<1> DEFINE how == {"queued", "refused", "ok", "failed"}
           m == Len(sends) + 1
<1>5. sends \in Seq(how) /\ works \in Seq(Nat) /\ DOMAIN sends = 1 .. Len(sends) /\ Len(sends) \in Nat /\ m \in Nat
  BY LenProperties DEF WsInv, Transfers
<1>6. ASSUME NEW h \in how, sends' = Append(sends, h)
      PROVE  /\ sends' \in Seq(how) /\ DOMAIN sends' = 1 .. m /\ sends'[m] = h
             /\ \A n \in DOMAIN sends : n \in DOMAIN sends' /\ sends'[n] = sends[n] /\ n # m
             /\ \A n \in DOMAIN sends' : n \in DOMAIN sends \/ n = m
  <2>1. /\ sends' \in Seq(how) /\ DOMAIN sends' = 1 .. m /\ sends'[m] = h
        /\ \A n \in 1 .. Len(sends) : sends'[n] = sends[n]
    BY <1>5, <1>6, AppendProperties, LenProperties
  <2> QED
    BY <1>5, <2>1
<1>7. m \notin DOMAIN sends /\ m # CloseWork /\ CloseWork \notin DOMAIN sends
  BY <1>5 DEF CloseWork
<1>8. ~WentOut(m) /\ ~Waits(m)
  <2>1. ~WentOut(m)
    <3>1. \A j \in DOMAIN outflow : outflow[j].by = "task" => \E n \in DOMAIN sends : outflow[j].data = <<n>>
      BY DEF WsInv, Transfers
    <3>2. \A n \in DOMAIN sends : <<n>> # <<m>>
      BY <1>7
    <3> HIDE DEF m
    <3> QED
      BY <3>1, <3>2 DEF WentOut
  <2>2. ~Waits(m)
    <3>1. \A j \in DOMAIN works : works[j] = CloseWork \/ works[j] \in DOMAIN sends
      BY DEF WsInv, Transfers
    <3> QED
      BY <1>7, <3>1 DEF Waits
  <2> QED
    BY <2>1, <2>2
<1>9. \A n : WentOut(n)' <=> WentOut(n)
  BY <1>1 DEF WentOut
<1> HIDE DEF how, m
<1>10. ASSUME NEW h \in how, sends' = Append(sends, h)
       PROVE  /\ h # "ok" => \A n \in DOMAIN sends' : sends'[n] = "ok" <=> WentOut(n)'
              /\ \A j \in DOMAIN outflow' : outflow'[j].by = "task" => \E n \in DOMAIN sends' : outflow'[j].data = <<n>>
  <2>1. \A n \in DOMAIN sends : sends[n] = "ok" <=> WentOut(n)
    BY DEF WsInv, Transfers
  <2>2. \A j \in DOMAIN outflow : outflow[j].by = "task" => \E n \in DOMAIN sends : outflow[j].data = <<n>>
    BY DEF WsInv, Transfers
  <2>3. h # "ok" => \A n \in DOMAIN sends' : sends'[n] = "ok" <=> WentOut(n)'
    BY <1>6, <1>8, <1>9, <1>10, <2>1
  <2>4. \A j \in DOMAIN outflow' : outflow'[j].by = "task" => \E n \in DOMAIN sends' : outflow'[j].data = <<n>>
    BY <1>1, <1>6, <1>10, <2>2
  <2> QED
    BY <2>3, <2>4
<1>11. CASE sends' = Append(sends, "queued") /\ works' = Append(works, Len(sends) + 1)
  <2>1. works' = Append(works, m) /\ "queued" \in how
    BY <1>11 DEF m, how
  <2>2. /\ works' \in Seq(Nat) /\ DOMAIN works = 1 .. Len(works) /\ DOMAIN works' = 1 .. Len(works) + 1 /\ Len(works) \in Nat
        /\ \A j \in DOMAIN works : works'[j] = works[j]
        /\ works'[Len(works) + 1] = m
        /\ \A n : Waits(n)' <=> Waits(n) \/ n = m
    BY <1>5, <2>1, WorkQueued
  <2>3. /\ sends' \in Seq(how) /\ DOMAIN sends' = 1 .. m /\ sends'[m] = "queued"
        /\ \A n \in DOMAIN sends : n \in DOMAIN sends' /\ sends'[n] = sends[n] /\ n # m
        /\ \A n \in DOMAIN sends' : n \in DOMAIN sends \/ n = m
    BY <1>6, <1>11, <2>1
  <2>4. \A j \in DOMAIN works' : j \in DOMAIN works \/ j = Len(works) + 1
    BY <2>2
  <2>5. \A j \in DOMAIN works : works[j] = CloseWork \/ works[j] \in DOMAIN sends
    BY DEF WsInv, Transfers
  <2>6. m \in DOMAIN sends'
    BY <1>5, <2>3 DEF m
  <2>7. \A j \in DOMAIN works' : works'[j] = CloseWork \/ works'[j] \in DOMAIN sends'
    BY <2>2, <2>3, <2>4, <2>5, <2>6
  <2>8. \A i, j \in DOMAIN works' : works'[i] = works'[j] /\ works'[i] # CloseWork => i = j
    <3>1. \A i, j \in DOMAIN works : works[i] = works[j] /\ works[i] # CloseWork => i = j
      BY DEF WsInv, Transfers
    <3>2. \A j \in DOMAIN works : works'[j] = works[j] /\ works[j] # m
      BY <1>7, <2>2, <2>5
    <3>3. works'[Len(works) + 1] = m
      BY <2>2
    <3> SUFFICES ASSUME NEW i \in DOMAIN works', NEW j \in DOMAIN works', works'[i] = works'[j], works'[i] # CloseWork
                 PROVE  i = j
      OBVIOUS
    <3>4. CASE i \in DOMAIN works /\ j \in DOMAIN works
      BY <3>1, <3>2, <3>4
    <3>5. CASE i \notin DOMAIN works
      BY <2>4, <3>2, <3>3, <3>5
    <3>6. CASE j \notin DOMAIN works
      BY <2>4, <3>2, <3>3, <3>6
    <3> QED
      BY <3>4, <3>5, <3>6
  <2>9. \A n \in DOMAIN sends' : sends'[n] = "queued" <=> Waits(n)'
    <3>1. \A n \in DOMAIN sends : sends[n] = "queued" <=> Waits(n)
      BY DEF WsInv, Transfers
    <3> QED
      BY <2>2, <2>3, <3>1
  <2>10. /\ \A n \in DOMAIN sends' : sends'[n] = "ok" <=> WentOut(n)'
         /\ \A j \in DOMAIN outflow' : outflow'[j].by = "task" => \E n \in DOMAIN sends' : outflow'[j].data = <<n>>
    BY <1>10, <1>11, <2>1
  <2>11. Transfers'
    BY <2>2, <2>3, <2>7, <2>8, <2>9, <2>10 DEF Transfers, how
  <2> QED
    BY <1>2, <1>4, <2>11 DEF WsInv
<1>12. CASE sends' = Append(sends, "refused") /\ works' = works
  <2>1. "refused" \in how
    BY DEF how
  <2>2. /\ sends' \in Seq(how) /\ DOMAIN sends' = 1 .. m /\ sends'[m] = "refused"
        /\ \A n \in DOMAIN sends : n \in DOMAIN sends' /\ sends'[n] = sends[n] /\ n # m
        /\ \A n \in DOMAIN sends' : n \in DOMAIN sends \/ n = m
    BY <1>6, <1>12, <2>1
  <2>3. \A n : Waits(n)' <=> Waits(n)
    BY <1>12 DEF Waits
  <2>4. \A n \in DOMAIN sends' : sends'[n] = "queued" <=> Waits(n)'
    <3>1. \A n \in DOMAIN sends : sends[n] = "queued" <=> Waits(n)
      BY DEF WsInv, Transfers
    <3> QED
      BY <1>8, <2>2, <2>3, <3>1
  <2>5. \A j \in DOMAIN works' : works'[j] = CloseWork \/ works'[j] \in DOMAIN sends'
    BY <1>12, <2>2 DEF WsInv, Transfers
  <2>6. /\ \A n \in DOMAIN sends' : sends'[n] = "ok" <=> WentOut(n)'
        /\ \A j \in DOMAIN outflow' : outflow'[j].by = "task" => \E n \in DOMAIN sends' : outflow'[j].data = <<n>>
    BY <1>10, <1>12, <2>1
  <2>7. \A i, j \in DOMAIN works' : works'[i] = works'[j] /\ works'[i] # CloseWork => i = j
    BY <1>12 DEF WsInv, Transfers
  <2>8. Transfers'
    BY <1>5, <1>12, <2>2, <2>4, <2>5, <2>6, <2>7 DEF Transfers, how
  <2> QED
    BY <1>2, <1>4, <2>8 DEF WsInv
<1> QED
  BY <1>11, <1>12 DEF SendData

(* What a task sends. *)
LEMMA OutOfTask ==
  ASSUME IsSeq(outflow), NEW m, NEW b \in BOOLEAN, outflow' = Append(outflow, OnWire(Tx("text", "task", <<m>>), b))
  PROVE  /\ \A n : WentOut(n)' <=> WentOut(n) \/ (b /\ n = m)
         /\ \A j \in DOMAIN outflow' : outflow'[j].by = "task" =>
              outflow'[j].data = <<m>> \/ \E i \in DOMAIN outflow : outflow[i].by = "task" /\ outflow[i].data = outflow'[j].data
<1> DEFINE type == "text"
           by == "task"
           d == <<m>>
           e == OnWire(Tx(type, by, d), b)
<1>1. \A n : <<n>> = d <=> n = m
  OBVIOUS
<1>0. by = "task" /\ outflow' = Append(outflow, e)
  OBVIOUS
<1> HIDE DEF type, by, d
<1>2. e.by = "task" /\ e.data = d /\ e.whole = b
  BY <1>0, ByTx
<1> HIDE DEF e
<1>3. /\ DOMAIN outflow = 1 .. Len(outflow) /\ DOMAIN outflow' = 1 .. Len(outflow) + 1 /\ Len(outflow) \in Nat
      /\ \A i \in 1 .. Len(outflow) : outflow'[i] = outflow[i]
      /\ outflow'[Len(outflow) + 1] = e
  BY <1>0, AppendAny
<1>4. \A j \in DOMAIN outflow' : j = Len(outflow) + 1 \/ (j \in DOMAIN outflow /\ outflow'[j] = outflow[j])
  BY <1>3
<1>5. \A j \in DOMAIN outflow : j \in DOMAIN outflow' /\ outflow'[j] = outflow[j]
  BY <1>3
<1>6. Len(outflow) + 1 \in DOMAIN outflow'
  BY <1>3
<1>7. ASSUME NEW n PROVE WentOut(n)' <=> WentOut(n) \/ (b /\ n = m)
  <2>1. ASSUME WentOut(n)' PROVE WentOut(n) \/ (b /\ n = m)
    BY <1>1, <1>2, <1>3, <1>4, <2>1 DEF WentOut
  <2>2. ASSUME WentOut(n) PROVE WentOut(n)'
    BY <1>5, <2>2 DEF WentOut
  <2>3. ASSUME b, n = m PROVE WentOut(n)'
    BY <1>1, <1>2, <1>3, <1>6, <2>3 DEF WentOut
  <2> QED
    BY <2>1, <2>2, <2>3
<1>8. \A j \in DOMAIN outflow' : outflow'[j].by = "task" =>
        outflow'[j].data = d \/ \E i \in DOMAIN outflow : outflow[i].by = "task" /\ outflow[i].data = outflow'[j].data
  BY <1>2, <1>3, <1>4
<1> QED
  BY <1>7, <1>8 DEF d

LEMMA RunWorkRight == ASSUME WsInv, RunWork PROVE WsInv'
<1>1. Kept'
  BY RunWorkKept DEF WsInv
<1> DEFINE m == Head(works)
           how == {"queued", "refused", "ok", "failed"}
<1>2. talk' = talk /\ handled' = handled /\ works # <<>> /\ works' = Tail(works) /\ where \in {"idle", "closed"}
  BY DEF RunWork
<1>3. /\ works' \in Seq(Nat) /\ 1 \in DOMAIN works /\ m = works[1]
      /\ \A j \in DOMAIN works' : j + 1 \in DOMAIN works /\ works'[j] = works[j + 1]
      /\ \A i, j \in DOMAIN works' : works'[i] = works'[j] /\ works'[i] # CloseWork => i = j
      /\ \A n : n # CloseWork => (Waits(n)' <=> Waits(n) /\ n # m)
  BY <1>2, WorkTaken DEF WsInv, Transfers
<1>4. /\ sends \in Seq(how) /\ DOMAIN sends = 1 .. Len(sends) /\ CloseWork \notin DOMAIN sends
      /\ \A n \in DOMAIN sends : n # CloseWork
  <2>1. sends \in Seq(how) /\ DOMAIN sends = 1 .. Len(sends)
    BY LenProperties DEF WsInv, Transfers
  <2> QED
    BY <2>1 DEF CloseWork
<1>5. ws' = ws \/ ws' = WsClosed
  BY DEF RunWork
<1>6. ws'.handshake_done = ws.handshake_done
  BY <1>5, WsGone DEF WsInv, Kept, WsShapes
<1>7. /\ where' # "request" /\ (where' \in {"idle", "answer", "handler", "done"} => ws.handshake_done)
  <2>1. where' = where \/ where' = "closed"
    BY DEF RunWork
  <2> QED
    BY <1>2, <2>1 DEF WsInv, FramesSent
<1>8. IsSeq(outflow)
  BY DEF WsInv, Kept, WsShapes
<1>9. \A j \in DOMAIN works' : works'[j] = CloseWork \/ works'[j] \in DOMAIN sends
  <2>1. \A j \in DOMAIN works : works[j] = CloseWork \/ works[j] \in DOMAIN sends
    BY DEF WsInv, Transfers
  <2> QED
    BY <1>3, <2>1
<1>10. /\ \A n \in DOMAIN sends : sends[n] = "queued" <=> Waits(n)
       /\ \A j \in DOMAIN outflow : outflow[j].by = "task" => \E n \in DOMAIN sends : outflow[j].data = <<n>>
       /\ \A n \in DOMAIN sends : sends[n] = "ok" <=> WentOut(n)
  BY DEF WsInv, Transfers
<1>11. Waits(m)
  BY <1>3 DEF Waits
<1> HIDE DEF m, how
<1>12. CASE m = CloseWork
  <2>1. outflow' = outflow /\ sends' = sends
    BY <1>12 DEF RunWork, m
  <2>2. FramesSent'
    BY <1>2, <1>6, <1>7, <1>8, <2>1, FramesSentKept DEF GrowsBy, WsInv
  <2>3. \A n : WentOut(n)' <=> WentOut(n)
    BY <2>1 DEF WentOut
  <2>4. \A n \in DOMAIN sends' : sends'[n] = "queued" <=> Waits(n)'
    BY <1>3, <1>4, <1>10, <1>12, <2>1
  <2>5. /\ \A j \in DOMAIN outflow' : outflow'[j].by = "task" => \E n \in DOMAIN sends' : outflow'[j].data = <<n>>
        /\ \A n \in DOMAIN sends' : sends'[n] = "ok" <=> WentOut(n)'
    BY <1>10, <2>1, <2>3
  <2>6. Transfers'
    BY <1>3, <1>4, <1>9, <2>1, <2>4, <2>5 DEF Transfers, how
  <2> QED
    BY <1>1, <2>2, <2>6 DEF WsInv
<1>13. CASE m # CloseWork
  <2>1. m \in DOMAIN sends /\ sends[m] = "queued" /\ ~WentOut(m)
    <3>1. m \in DOMAIN sends
      <4>1. \A j \in DOMAIN works : works[j] = CloseWork \/ works[j] \in DOMAIN sends
        BY DEF WsInv, Transfers
      <4> QED
        BY <1>3, <1>13, <4>1
    <3> QED
      BY <1>10, <1>11, <3>1
  <2>2. ws.handshake_done
    <3>1. sends # <<>>
      BY <2>1
    <3> QED
      BY <3>1 DEF WsInv, FramesSent, Kept, WsShapes, WsSet
  <2> DEFINE Outcome(o) ==
          /\ sends' = [sends EXCEPT ![m] = o]
          /\ GrowsBy(ByOthers)
          /\ \A n : WentOut(n)' <=> WentOut(n) \/ (o = "ok" /\ n = m)
          /\ \A j \in DOMAIN outflow' : outflow'[j].by = "task" =>
               outflow'[j].data = <<m>> \/ \E i \in DOMAIN outflow : outflow[i].by = "task" /\ outflow[i].data = outflow'[j].data
  <2>3. \E o \in {"ok", "failed"} : Outcome(o)
    <3>1. CASE ~ws.open
      <4>1. sends' = [sends EXCEPT ![m] = "failed"] /\ outflow' = outflow
        BY <1>13, <3>1 DEF RunWork, m
      <4>2. GrowsBy(ByOthers) /\ \A n : WentOut(n)' <=> WentOut(n)
        BY <4>1 DEF GrowsBy, WentOut
      <4> QED
        BY <4>1, <4>2
    <3>2. CASE ws.open
      <4>1. PICK w \in FrameWritten(Tx("text", "task", <<m>>)) :
              outflow' = w.out /\ sends' = [sends EXCEPT ![m] = IF w.ok THEN "ok" ELSE "failed"]
        BY <1>13, <3>2 DEF RunWork, m
      <4>2. GrowsBy(ByOthers)
        <5> DEFINE by == "task"
                   d == <<m>>
                   S == ByOthers
        <5>1. by \in S
          BY DEF ByOthers
        <5>2. w \in FrameWritten(Tx("text", by, d))
          BY <4>1
        <5> HIDE DEF by, d, S
        <5>3. GrowsBy(S)
          BY <2>2, <4>1, <5>1, <5>2, WrittenGrows
        <5> QED
          BY <5>3 DEF S
      <4>3. \/ w.out = outflow /\ w.ok = FALSE
            \/ w.out = Append(outflow, OnWire(Tx("text", "task", <<m>>), TRUE)) /\ w.ok = TRUE
            \/ w.out = Append(outflow, OnWire(Tx("text", "task", <<m>>), FALSE)) /\ w.ok = FALSE
        <5> DEFINE f == Tx("text", "task", <<m>>)
        <5>1. w \in FrameWritten(f)
          BY <4>1
        <5> HIDE DEF f
        <5>2. \/ w.out = outflow /\ w.ok = FALSE
              \/ w.out = Append(outflow, OnWire(f, TRUE)) /\ w.ok = TRUE
              \/ w.out = Append(outflow, OnWire(f, FALSE)) /\ w.ok = FALSE
          BY <5>1, WrittenFacts
        <5> QED
          BY <5>2 DEF f
      <4>4. CASE w.out = outflow /\ w.ok = FALSE
        <5>1. sends' = [sends EXCEPT ![m] = "failed"] /\ outflow' = outflow
          BY <4>1, <4>4
        <5>2. \A n : WentOut(n)' <=> WentOut(n)
          BY <5>1 DEF WentOut
        <5> QED
          BY <4>2, <5>1, <5>2
      <4>5. ASSUME NEW b \in BOOLEAN, w.out = Append(outflow, OnWire(Tx("text", "task", <<m>>), b)), w.ok = b
            PROVE  \E o \in {"ok", "failed"} : Outcome(o)
        <5>1. /\ \A n : WentOut(n)' <=> WentOut(n) \/ (b /\ n = m)
              /\ \A j \in DOMAIN outflow' : outflow'[j].by = "task" =>
                   outflow'[j].data = <<m>> \/ \E i \in DOMAIN outflow : outflow[i].by = "task" /\ outflow[i].data = outflow'[j].data
          BY <1>8, <4>1, <4>5, OutOfTask
        <5>2. CASE b
          <6>1. sends' = [sends EXCEPT ![m] = "ok"]
            BY <4>1, <4>5, <5>2
          <6>2. Outcome("ok")
            BY <4>2, <5>1, <5>2, <6>1
          <6> QED
            BY <6>2
        <5>3. CASE ~b
          <6>1. sends' = [sends EXCEPT ![m] = "failed"]
            BY <4>1, <4>5, <5>3
          <6>2. Outcome("failed")
            BY <4>2, <5>1, <5>3, <6>1
          <6> QED
            BY <6>2
        <5> QED
          BY <5>2, <5>3
      <4> QED
        BY <4>3, <4>4, <4>5
    <3> QED
      BY <3>1, <3>2
  <2>4. PICK o \in {"ok", "failed"} :
          /\ sends' = [sends EXCEPT ![m] = o]
          /\ GrowsBy(ByOthers)
          /\ \A n : WentOut(n)' <=> WentOut(n) \/ (o = "ok" /\ n = m)
          /\ \A j \in DOMAIN outflow' : outflow'[j].by = "task" =>
               outflow'[j].data = <<m>> \/ \E i \in DOMAIN outflow : outflow[i].by = "task" /\ outflow[i].data = outflow'[j].data
    BY <2>3
  <2>5. /\ sends' \in Seq(how) /\ DOMAIN sends' = DOMAIN sends /\ sends'[m] = o
        /\ \A n \in DOMAIN sends : n # m => sends'[n] = sends[n]
    <3>1. o \in how
      BY DEF how
    <3> QED
      BY <1>4, <2>1, <2>4, <3>1, ExceptSeq
  <2>6. FramesSent'
    BY <1>2, <1>6, <1>7, <1>8, <2>2, <2>4, FramesSentKept DEF WsInv
  <2>7. \A n \in DOMAIN sends' : sends'[n] = "queued" <=> Waits(n)'
    <3>1. o # "queued"
      OBVIOUS
    <3> QED
      BY <1>3, <1>4, <1>10, <2>5, <3>1
  <2>8. \A n \in DOMAIN sends' : sends'[n] = "ok" <=> WentOut(n)'
    <3> SUFFICES ASSUME NEW n \in DOMAIN sends PROVE sends'[n] = "ok" <=> WentOut(n)'
      BY <2>5
    <3>1. CASE n = m
      BY <2>1, <2>4, <2>5, <3>1
    <3>2. CASE n # m
      BY <1>10, <2>4, <2>5, <3>2
    <3> QED
      BY <3>1, <3>2
  <2>9. \A j \in DOMAIN outflow' : outflow'[j].by = "task" => \E n \in DOMAIN sends' : outflow'[j].data = <<n>>
    BY <1>10, <2>1, <2>4, <2>5
  <2>10. Transfers'
    BY <1>3, <1>9, <2>5, <2>7, <2>8, <2>9 DEF Transfers, how
  <2> QED
    BY <1>1, <2>6, <2>10 DEF WsInv
<1> QED
  BY <1>12, <1>13

LEMMA WsInitRight == ASSUME WsInit PROVE WsInv /\ mistaken = FALSE
<1>1. /\ talk \in Talks /\ inflow = SubSeq(AllBytes(Fs), 1, talk.cut) /\ pending_len = 0 /\ pkt = NoPkt
      /\ where = "request" /\ mistaken = FALSE /\ handled = <<>> /\ outflow = <<>> /\ works = <<>> /\ sends = <<>>
      /\ ws = [open |-> TRUE, handshake_done |-> FALSE, close |-> FALSE, control_frames |-> FALSE]
  BY DEF WsInit, Fs
<1>2. GoodFrames(Fs) /\ talk.cut \in 0 .. Len(AllBytes(Fs)) /\ talk.cut \in Nat
  <2>1. Len(AllBytes(Fs)) \in Nat
    BY <1>1, TalkFacts, AllBytesStretch, LenProperties DEF Stretch
  <2> QED
    BY <1>1, <2>1, TalkFacts
<1>3. Stretch(Fs, AllBytes(Fs)) /\ (AllBytes(Fs) # <<>> => AllBytes(Fs)[1] = <<1, 1>>)
  BY <1>2, AllBytesStretch
<1>4. /\ Stretch(Fs, inflow) /\ Len(inflow) = (IF 1 <= talk.cut THEN talk.cut ELSE 0)
      /\ \A i \in 1 .. talk.cut : inflow[i] = AllBytes(Fs)[i]
  <2> DEFINE c == talk.cut
  <2>1. c \in Nat /\ 1 \in Nat /\ 1 <= 1 /\ c <= Len(AllBytes(Fs)) /\ Len(AllBytes(Fs)) \in Nat
    BY <1>2, <1>3, LenProperties DEF Stretch
  <2> HIDE DEF c
  <2>2. /\ Stretch(Fs, SubSeq(AllBytes(Fs), 1, c))
        /\ Len(SubSeq(AllBytes(Fs), 1, c)) = (IF 1 <= c THEN c - 1 + 1 ELSE 0)
        /\ \A i \in 1 .. c - 1 + 1 : SubSeq(AllBytes(Fs), 1, c)[i] = AllBytes(Fs)[1 + i - 1]
    BY <1>3, <2>1, StretchPart
  <2>3. c - 1 + 1 = c /\ \A i \in 1 .. c : 1 + i - 1 = i
    BY <2>1
  <2>4. inflow = SubSeq(AllBytes(Fs), 1, c)
    BY <1>1 DEF c
  <2> QED
    BY <2>2, <2>3, <2>4 DEF c
<1>5. Begins(inflow, <<1, 1>>)
  <2> SUFFICES ASSUME inflow # <<>> PROVE inflow[1] = <<1, 1>>
    BY DEF Begins
  <2>1. Len(inflow) # 0
    BY <1>4, EmptySeq DEF Stretch
  <2>2. 1 <= talk.cut
    BY <1>4, <2>1
  <2>3. inflow[1] = AllBytes(Fs)[1]
    BY <1>2, <1>4, <2>2
  <2>4. AllBytes(Fs) # <<>>
    <3>1. Len(AllBytes(Fs)) # 0
      BY <1>2, <2>2
    <3> QED
      BY <3>1
  <2> QED
    BY <1>3, <2>3, <2>4
<1>6. WsShapes
  <2>1. ws \in WsSet
    BY <1>1 DEF WsSet
  <2>2. pending_len \in 0 .. Len(inflow)
    BY <1>1, <1>2, <1>4
  <2>3. IsSeq(outflow) /\ IsSeq(handled)
    BY <1>1, EmptySeq DEF IsSeq
  <2> QED
    BY <1>1, <1>4, <2>1, <2>2, <2>3 DEF WsShapes
<1>7. InStep
  <2>1. 1 \in 1 .. All
    <3>1. All \in Nat /\ All >= 1
      BY <1>1, AllFacts
    <3> QED
      BY <3>1
  <2>2. handled = Told(1) /\ Answers = Due(1)
    BY <1>1, ToldFirst, AnswersNone, AnswersIs
  <2>3. AnswersWhole
    BY <1>1 DEF AnswersWhole
  <2> QED
    BY <1>1, <1>5, <2>1, <2>2, <2>3 DEF InStep, Somewhere, Answered
<1>8. FramesSent
  BY <1>1 DEF FramesSent
<1>9. Transfers
  <2>1. sends \in Seq({"queued", "refused", "ok", "failed"}) /\ works \in Seq(Nat)
    BY <1>1
  <2>2. DOMAIN sends = {} /\ DOMAIN works = {} /\ DOMAIN outflow = {}
    BY <1>1
  <2> QED
    BY <2>1, <2>2 DEF Transfers
<1> QED
  BY <1>1, <1>6, <1>7, <1>8, <1>9 DEF WsInv, Kept

LEMMA WsStepRight == ASSUME WsInv, mistaken \in BOOLEAN, [WsNext]_wsVars PROVE WsInv' /\ (mistaken \in BOOLEAN)'
<1>1. CASE UNCHANGED wsVars
  <2>1. UNCHANGED <<talk, inflow, pending_len, ws, aux, pkt, where, mistaken, handled, outflow, works, sends>>
    BY <1>1 DEF wsVars
  <2>2. Kept'
    BY <2>1, UntouchedKept DEF WsInv
  <2>3. Transfers'
    BY <2>1, OutUnchanged, TransfersKept DEF WsInv
  <2>4. FramesSent'
    BY <2>1 DEF WsInv, FramesSent, Shaken, HandshakeFits, Subprotocol
  <2> QED
    BY <2>1, <2>2, <2>3, <2>4 DEF WsInv
<1>2. CASE WsNext
  <2>1. WsInv'
    BY <1>2, HandshakeRight, MarkedCloseRight, FirstByteRight, AnswerRight, HandlerReadsRight,
       WsHandlerReturnsRight, WsCleanupRight, SendDataRight, RunWorkRight DEF WsNext
  <2>2. mistaken' = mistaken \/ (\E p : mistaken' = Misread(p)) \/ mistaken' = (inflow[1][2] # 1)
    <3>1. ASSUME FirstByte PROVE mistaken' = mistaken \/ mistaken' = (inflow[1][2] # 1)
      <4>1. CASE inflow = <<>>
        BY <3>1, <4>1 DEF FirstByte
      <4>2. CASE inflow # <<>>
        BY <3>1, <4>2 DEF FirstByte
      <4> QED
        BY <4>1, <4>2
    <3>2. ASSUME Handshake \/ MarkedClose \/ WsHandlerReturns PROVE mistaken' = mistaken
      BY <3>2 DEF Handshake, MarkedClose, WsHandlerReturns
    <3>3. ASSUME WsCleanup \/ SendData \/ RunWork PROVE mistaken' = mistaken
      BY <3>3 DEF WsCleanup, SendData, RunWork
    <3>4. ASSUME Answer PROVE mistaken' = Misread(NoPkt)
      BY <3>4 DEF Answer
    <3>5. ASSUME HandlerReads PROVE mistaken' = Misread(pkt)
      BY <3>5 DEF HandlerReads
    <3> QED
      BY <1>2, <3>1, <3>2, <3>3, <3>4, <3>5 DEF WsNext
  <2>3. \A p : Misread(p) \in BOOLEAN
    BY DEF Misread
  <2>4. (inflow[1][2] # 1) \in BOOLEAN
    OBVIOUS
  <2>5. mistaken' \in BOOLEAN
    BY <2>2, <2>3, <2>4
  <2> QED
    BY <2>1, <2>5
<1> QED
  BY <1>1, <1>2

LEMMA WsInvMeans == ASSUME WsInv, mistaken \in BOOLEAN PROVE WebSocketRight
<1>1. /\ talk \in Talks /\ GoodFrames(Fs) /\ All = Len(talk.frames) + 1 /\ All \in Nat
      /\ talk.upgrade.protocols \in Seq(STRING)
  BY TalkFacts, AllFacts DEF WsInv, Kept, WsShapes
<1>2. WsTypeOK
  <2>1. \A n \in DOMAIN sends : sends[n] \in {"queued", "refused", "ok", "failed"}
    BY ElementOfSeq, LenProperties DEF WsInv, Transfers
  <2> QED
    BY <2>1 DEF WsTypeOK, WsInv, Kept, WsShapes
<1>3. FramesInStep
  <2>1. IsPrefix(handled, Told(All)) /\ IsPrefix(Answers, Due(All))
    <3>1. PICK k \in 1 .. All : handled = Told(k)
      BY DEF WsInv, Kept, InStep, Somewhere
    <3>2. PICK m \in 1 .. All : Answers = Due(m)
      BY DEF WsInv, Kept, InStep, Answered
    <3>3. k \in Nat /\ 1 <= k /\ k <= All /\ m \in Nat /\ 1 <= m /\ m <= All
      BY <1>1
    <3> QED
      BY <1>1, <3>1, <3>2, <3>3, ToldPrefix
  <2>2. ASSUME where = "idle", ~ws.close, inflow # <<>>
        PROVE  inflow[1][2] = 1 /\ handled = Told(inflow[1][1]) /\ Answers = Due(inflow[1][1])
    <3>1. PICK k \in 1 .. All : Boundary(k)
      BY <2>2 DEF WsInv, Kept, InStep
    <3>2. inflow[1] = <<k, 1>> /\ handled = Told(k) /\ Answers = Due(k)
      BY <2>2, <3>1 DEF Boundary, Begins
    <3>3. inflow[1][1] = k /\ inflow[1][2] = 1
      BY <3>2
    <3> QED
      BY <3>2, <3>3
  <2>3. where = "idle" => AnswersWhole
    BY DEF WsInv, Kept, InStep
  <2>4. ~mistaken
    BY DEF WsInv, Kept, InStep
  <2> QED
    BY <2>1, <2>2, <2>3, <2>4 DEF FramesInStep, All, AnswersWhole
<1>4. SendersKnow
  BY DEF SendersKnow, WsInv, Transfers, WentOut, Waits
<1>5. HandshakeTrue
  <2>1. outflow # <<>> => Shaken
    BY DEF WsInv, FramesSent
  <2>2. ASSUME NEW j \in DOMAIN outflow, outflow[j].by = "handshake", outflow[j].data # <<>>
        PROVE  /\ outflow[j].data = talk.uri.supported_subprotocol
               /\ Len(talk.upgrade.protocols) < ProtoBuf => Lists(talk.upgrade.protocols, outflow[j].data)
    <3>1. PICK S : outflow \in Seq(S)
      BY DEF WsInv, Kept, WsShapes, IsSeq
    <3>2. DOMAIN outflow = 1 .. Len(outflow) /\ Len(outflow) \in Nat /\ outflow # <<>>
      BY <3>1, LenProperties
    <3>3. j = 1
      <4>1. j \in 2 .. Len(outflow) => outflow[j].by \in ByOthers
        BY DEF WsInv, FramesSent
      <4>2. "handshake" \notin ByOthers
        BY DEF ByOthers
      <4> QED
        BY <2>2, <3>2, <4>1, <4>2
    <3> DEFINE ps == talk.upgrade.protocols
               list == SubSeq(ps, 1, LessOf(ProtoBuf, Len(ps)))
               name == talk.uri.supported_subprotocol
    <3>4. outflow[j].data = Subprotocol
      BY <2>1, <3>2, <3>3 DEF Shaken
    <3>5. Subprotocol = IF name # <<>> /\ Lists(list, name) THEN name ELSE <<>>
      BY DEF Subprotocol
    <3> HIDE DEF list, name
    <3>6. outflow[j].data = name /\ Lists(list, name)
      BY <2>2, <3>4, <3>5
    <3>7. Len(ps) < ProtoBuf => list = ps
      <4>1. ps \in Seq(STRING) /\ Len(ps) \in Nat /\ ProtoBuf \in Nat
        BY <1>1, WsConstants, LenProperties
      <4>2. Len(ps) < ProtoBuf => LessOf(ProtoBuf, Len(ps)) = Len(ps)
        BY <4>1 DEF LessOf
      <4> HIDE DEF ps
      <4> QED
        BY <4>1, <4>2, SubSeqFull DEF list
    <3> QED
      BY <3>6, <3>7 DEF name
  <2> QED
    BY <2>1, <2>2 DEF HandshakeTrue, Shaken
<1> QED
  BY <1>2, <1>3, <1>4, <1>5, LengthsDoTravel DEF WebSocketRight

THEOREM WebSocketIsRight == WsSpec => []WebSocketRight
<1> DEFINE Inv == WsInv /\ mistaken \in BOOLEAN
<1>1. WsInit => Inv
  BY WsInitRight
<1>2. Inv /\ [WsNext]_wsVars => Inv'
  BY WsStepRight
<1>3. Inv => WebSocketRight
  BY WsInvMeans
<1> QED
  BY <1>1, <1>2, <1>3, PTL DEF WsSpec
=============================================================================
