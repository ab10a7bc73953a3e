--------------------------- MODULE HttpLib_proofs ---------------------------
(***************************************************************************)
(* Proofs about the parts of the HTTP library beside its core: the table   *)
(* of URI handlers, the making and unmaking of a server, the contexts of a *)
(* session, and the response to a request.                                 *)
(***************************************************************************)
EXTENDS HttpdUri, HttpdStart, HttpdContexts, HttpResp, FiniteSetTheorems,
        SequenceTheorems, Induction, TLAPS

-----------------------------------------------------------------------------
(* The table of URI handlers.  Whatever is removed, the entries that remain *)
(* keep their order: the new table is found in the old one.                 *)

UriInv ==
  /\ UriTypeOK /\ NoShadowedHandler
  /\ \A i \in 1 .. Len(hd_calls) :
       IF hd_calls[i].dangling THEN hd_calls[i].handler = 0 ELSE hd_calls[i].handler \in 1 .. regs
  /\ \A i, j \in 1 .. Len(hd_calls) :
       i # j /\ ~hd_calls[i].dangling => hd_calls[i].handler # hd_calls[j].handler

(* t, in the order of the first n entries of the table. *)
FoundIn(t, n) ==
  /\ t \in Seq(Entry) /\ Len(t) <= n
  /\ \E h \in [1 .. Len(t) -> 1 .. n] :
       /\ \A k \in 1 .. Len(t) : t[k] = hd_calls[h[k]]
       /\ \A k, l \in 1 .. Len(t) : k < l => h[k] < h[l]

LEMMA FoundInKeeps ==
  ASSUME UriInv, FoundIn(hd_calls', Len(hd_calls)), UNCHANGED regs
  PROVE  UriInv'
<1>1. /\ hd_calls \in Seq(Entry) /\ Len(hd_calls) \in Nat /\ Len(hd_calls) <= MaxHandlers /\ regs \in 0 .. MaxRegs
      /\ hd_calls' \in Seq(Entry) /\ Len(hd_calls') <= Len(hd_calls) /\ Len(hd_calls') \in Nat
  BY DEF UriInv, UriTypeOK, FoundIn
<1>2. PICK h \in [1 .. Len(hd_calls') -> 1 .. Len(hd_calls)] :
        /\ \A k \in 1 .. Len(hd_calls') : hd_calls'[k] = hd_calls[h[k]]
        /\ \A k, l \in 1 .. Len(hd_calls') : k < l => h[k] < h[l]
  BY DEF FoundIn
<1>3. UriTypeOK'
  BY <1>1, UriConstants DEF UriTypeOK
<1>4. NoShadowedHandler'
  <2> SUFFICES ASSUME NEW i \in 1 .. Len(hd_calls'), NEW j \in 1 .. Len(hd_calls'), i < j
               PROVE  ~Serves(hd_calls'[i], hd_calls'[j].uri, hd_calls'[j].method)
    BY DEF NoShadowedHandler, Serves
  <2>1. h[i] \in 1 .. Len(hd_calls) /\ h[j] \in 1 .. Len(hd_calls) /\ h[i] < h[j]
    BY <1>2
  <2>2. ~Serves(hd_calls[h[i]], hd_calls[h[j]].uri, hd_calls[h[j]].method)
    BY <2>1 DEF UriInv, NoShadowedHandler
  <2> QED
    BY <1>2, <2>2
<1>5. \A i \in 1 .. Len(hd_calls') :
        IF hd_calls'[i].dangling THEN hd_calls'[i].handler = 0 ELSE hd_calls'[i].handler \in 1 .. regs'
  BY <1>1, <1>2 DEF UriInv
<1>6. \A i, j \in 1 .. Len(hd_calls') :
        i # j /\ ~hd_calls'[i].dangling => hd_calls'[i].handler # hd_calls'[j].handler
  <2> TAKE i, j \in 1 .. Len(hd_calls')
  <2>1. h[i] \in 1 .. Len(hd_calls) /\ h[j] \in 1 .. Len(hd_calls) /\ (i # j => h[i] # h[j])
    <3>1. i # j => i < j \/ j < i
      OBVIOUS
    <3> QED
      BY <1>2, <3>1
  <2> QED
    BY <1>2, <2>1 DEF UriInv
<1> QED
  BY <1>3, <1>4, <1>5, <1>6 DEF UriInv

(* The first entry that fits. *)
LEMMA ServingFacts ==
  ASSUME hd_calls \in Seq(Entry), NEW u, NEW m
  PROVE  \/ Found(u, m) = {} /\ Serving(u, m) = 0
         \/ \E i \in Found(u, m) : (\A j \in Found(u, m) : i <= j) /\ Serving(u, m) = hd_calls[i].handler
<1>1. Found(u, m) \subseteq Nat
  BY DEF Found
<1>2. CASE Found(u, m) # {}
  <2>1. \E i \in Found(u, m) : \A j \in Found(u, m) : i <= j
    BY <1>1, <1>2, LeastExists
  <2> DEFINE i == CHOOSE k \in Found(u, m) : \A j \in Found(u, m) : k <= j
  <2>2. i \in Found(u, m) /\ \A j \in Found(u, m) : i <= j
    BY <2>1
  <2>3. Serving(u, m) = hd_calls[i].handler
    BY <1>2 DEF Serving
  <2> QED
    BY <2>2, <2>3
<1> QED
  BY <1>2 DEF Serving

LEMMA FoundInServes ==
  ASSUME UriInv, Defined, FoundIn(hd_calls', Len(hd_calls)),
         NEW u \in Uris, NEW m \in Methods, Defined', Serving(u, m) \in Handlers'
  PROVE  Serving(u, m)' = Serving(u, m)
<1>1. /\ hd_calls \in Seq(Entry) /\ Len(hd_calls) \in Nat /\ regs \in Nat
      /\ hd_calls' \in Seq(Entry) /\ Len(hd_calls') <= Len(hd_calls) /\ Len(hd_calls') \in Nat
  BY DEF UriInv, UriTypeOK, FoundIn
<1>2. PICK h \in [1 .. Len(hd_calls') -> 1 .. Len(hd_calls)] :
        /\ \A k \in 1 .. Len(hd_calls') : hd_calls'[k] = hd_calls[h[k]]
        /\ \A k, l \in 1 .. Len(hd_calls') : k < l => h[k] < h[l]
  BY DEF FoundIn
<1>3. PICK k \in 1 .. Len(hd_calls') : hd_calls'[k].handler = Serving(u, m)
  BY DEF Handlers
<1>4. h[k] \in 1 .. Len(hd_calls) /\ hd_calls[h[k]].handler = Serving(u, m)
  BY <1>2, <1>3
<1>5. hd_calls[h[k]].handler # 0 /\ ~hd_calls[h[k]].dangling
  BY <1>1, <1>4 DEF Defined, UriInv
<1>6. PICK i \in Found(u, m) : (\A j \in Found(u, m) : i <= j) /\ Serving(u, m) = hd_calls[i].handler
  BY <1>1, <1>4, <1>5, ServingFacts
<1>7. h[k] = i
  BY <1>4, <1>5, <1>6 DEF UriInv, Found
<1>8. k \in Found(u, m)'
  BY <1>2, <1>6, <1>7 DEF Found, Serves
<1>9. ASSUME NEW l \in Found(u, m)' PROVE k <= l
  <2>1. l \in 1 .. Len(hd_calls') /\ h[l] \in Found(u, m) /\ h[k] <= h[l]
    <3>1. l \in 1 .. Len(hd_calls') /\ h[l] \in Found(u, m)
      BY <1>2, <1>9 DEF Found, Serves
    <3> QED
      BY <1>6, <1>7, <3>1
  <2>2. l < k => h[l] < h[k]
    BY <1>2, <2>1
  <2>3. h[l] \in Nat /\ h[k] \in Nat /\ k \in Nat /\ l \in Nat
    BY <1>2, <2>1
  <2> QED
    BY <2>1, <2>2, <2>3
<1>10. Serving(u, m)' = hd_calls'[k].handler
  <2>1. PICK l \in Found(u, m)' : (\A j \in Found(u, m)' : l <= j) /\ Serving(u, m)' = hd_calls'[l].handler
    <3>1. \/ Found(u, m)' = {} /\ Serving(u, m)' = 0
          \/ \E l \in Found(u, m)' : (\A j \in Found(u, m)' : l <= j) /\ Serving(u, m)' = hd_calls'[l].handler
      <4>1. Found(u, m)' \subseteq Nat
        BY DEF Found
      <4>2. \E l \in Found(u, m)' : \A j \in Found(u, m)' : l <= j
        BY <1>8, <1>9
      <4> DEFINE f == CHOOSE l \in Found(u, m)' : \A j \in Found(u, m)' : l <= j
      <4>3. f \in Found(u, m)' /\ \A j \in Found(u, m)' : f <= j
        BY <4>2
      <4>4. Serving(u, m)' = hd_calls'[f].handler
        BY <1>8 DEF Serving
      <4> QED
        BY <4>3, <4>4
    <3> QED
      BY <1>8, <3>1
  <2>2. k <= l /\ l <= k /\ k \in Nat /\ l \in Nat
    BY <1>8, <1>9, <2>1 DEF Found
  <2> QED
    BY <2>1, <2>2
<1> QED
  BY <1>3, <1>10

(* The removal of one entry. *)
LEMMA WithoutFacts ==
  ASSUME hd_calls \in Seq(Entry), NEW i \in 1 .. Len(hd_calls), hd_calls' = Without(i)
  PROVE  FoundIn(hd_calls', Len(hd_calls))
<1> DEFINE h == [j \in 1 .. (Len(hd_calls) - 1) |-> IF j < i THEN j ELSE j + 1]
<1>1. Len(hd_calls) \in Nat \ {0} /\ Len(hd_calls) - 1 \in Nat /\ \A j \in 1 .. Len(hd_calls) : hd_calls[j] \in Entry
  OBVIOUS
<1>2. h \in [1 .. (Len(hd_calls) - 1) -> 1 .. Len(hd_calls)]
  BY <1>1
<1>3. hd_calls' \in [1 .. (Len(hd_calls) - 1) -> Entry]
  <2>1. \A j \in 1 .. (Len(hd_calls) - 1) : (IF j < i THEN j ELSE j + 1) \in 1 .. Len(hd_calls)
    BY <1>1
  <2> QED
    BY <1>1, <2>1 DEF Without
<1>4. hd_calls' \in Seq(Entry) /\ Len(hd_calls') = Len(hd_calls) - 1
  BY <1>1, <1>3
<1>5. \A k \in 1 .. Len(hd_calls') : hd_calls'[k] = hd_calls[h[k]]
  BY <1>4 DEF Without
<1>6. \A k, l \in 1 .. Len(hd_calls') : k < l => h[k] < h[l]
  BY <1>1, <1>4
<1>7. h \in [1 .. Len(hd_calls') -> 1 .. Len(hd_calls)]
  BY <1>2, <1>4
<1> HIDE DEF h
<1>8. Len(hd_calls') <= Len(hd_calls)
  BY <1>1, <1>4
<1> QED
  BY <1>4, <1>5, <1>6, <1>7, <1>8 DEF FoundIn

(* The removal of every entry with a URI: the loop's table exists, and each *)
(* of its stages is found in what the loop has seen.                        *)
Moves(g, u, n) ==
  g = [i \in 0 .. n |->
         IF i = 0 THEN <<>>
         ELSE IF hd_calls[i].uri = u THEN g[i - 1] ELSE Append(g[i - 1], hd_calls[i])]

LEMMA MovesExist ==
  ASSUME NEW u, NEW len_ \in Nat
  PROVE  \E g : Moves(g, u, len_)
<1> DEFINE S == {n \in Nat : \E g : Moves(g, u, n)}
<1>1. 0 \in S
  <2> DEFINE g == [i \in 0 .. 0 |-> <<>>]
  <2>1. Moves(g, u, 0)
    BY DEF Moves
  <2> QED
    BY <2>1
<1>2. ASSUME NEW n \in Nat, n \in S PROVE n + 1 \in S
  <2>1. PICK g : Moves(g, u, n)
    BY <1>2
  <2> DEFINE last == IF hd_calls[n + 1].uri = u THEN g[n] ELSE Append(g[n], hd_calls[n + 1])
  <2> DEFINE k == [i \in 0 .. n + 1 |-> IF i = n + 1 THEN last ELSE g[i]]
  <2> HIDE DEF last
  <2>2. \A i \in 0 .. n :
          g[i] = IF i = 0 THEN <<>>
                 ELSE IF hd_calls[i].uri = u THEN g[i - 1] ELSE Append(g[i - 1], hd_calls[i])
    BY <2>1 DEF Moves
  <2>3. \A i \in 0 .. n : k[i] = g[i]
    OBVIOUS
  <2>4. k[n + 1] = last
    OBVIOUS
  <2>5. \A i \in 0 .. n + 1 :
          k[i] = IF i = 0 THEN <<>>
                 ELSE IF hd_calls[i].uri = u THEN k[i - 1] ELSE Append(k[i - 1], hd_calls[i])
    <3> TAKE i \in 0 .. n + 1
    <3>1. CASE i = n + 1
      <4>1. i # 0 /\ i - 1 = n /\ k[i - 1] = g[n]
        BY <2>3, <3>1
      <4> QED
        BY <2>4, <3>1, <4>1 DEF last
    <3>2. CASE i # n + 1
      <4>1. i \in 0 .. n /\ (i # 0 => i - 1 \in 0 .. n)
        BY <3>2
      <4> HIDE DEF k
      <4> QED
        BY <2>2, <2>3, <4>1
    <3> QED
      BY <3>1, <3>2
  <2>6. Moves(k, u, n + 1)
    BY <2>5 DEF Moves
  <2> HIDE DEF k
  <2> QED
    BY <2>6
<1> HIDE DEF S
<1>3. len_ \in S
  BY <1>1, <1>2, NatSetInduction
<1> QED
  BY <1>3 DEF S

LEMMA EmptyFoundIn == \A n \in Nat : FoundIn(<<>>, n)
<1> TAKE n \in Nat
<1> DEFINE t == <<>>
<1>1. t \in Seq(Entry) /\ Len(t) = 0 /\ 1 .. Len(t) = {}
  OBVIOUS
<1> HIDE DEF t
<1> DEFINE h == [k \in 1 .. Len(t) |-> k]
<1>2. h \in [1 .. Len(t) -> 1 .. n]
  BY <1>1
<1> HIDE DEF h
<1>3. Len(t) <= n
  BY <1>1
<1>4. FoundIn(t, n)
  BY <1>1, <1>2, <1>3 DEF FoundIn
<1> QED
  BY <1>4 DEF t

LEMMA OneMoreFoundIn ==
  ASSUME hd_calls \in Seq(Entry), NEW n \in Nat, n + 1 <= Len(hd_calls), NEW t, FoundIn(t, n)
  PROVE  FoundIn(t, n + 1) /\ FoundIn(Append(t, hd_calls[n + 1]), n + 1)
<1>1. PICK h \in [1 .. Len(t) -> 1 .. n] :
        /\ \A k \in 1 .. Len(t) : t[k] = hd_calls[h[k]]
        /\ \A k, l \in 1 .. Len(t) : k < l => h[k] < h[l]
  BY DEF FoundIn
<1>2. t \in Seq(Entry) /\ Len(t) \in Nat /\ Len(t) <= n /\ hd_calls[n + 1] \in Entry
  BY DEF FoundIn
<1>3. FoundIn(t, n + 1)
  <2>1. h \in [1 .. Len(t) -> 1 .. n + 1]
    BY <1>1
  <2>2. Len(t) <= n + 1
    BY <1>2
  <2>3. \E f \in [1 .. Len(t) -> 1 .. n + 1] :
          /\ \A k \in 1 .. Len(t) : t[k] = hd_calls[f[k]]
          /\ \A k, l \in 1 .. Len(t) : k < l => f[k] < f[l]
    BY <1>1, <2>1
  <2> QED
    BY <1>2, <2>2, <2>3 DEF FoundIn
<1>4. FoundIn(Append(t, hd_calls[n + 1]), n + 1)
  <2> DEFINE s == Append(t, hd_calls[n + 1])
  <2>1. /\ s \in Seq(Entry) /\ Len(s) = Len(t) + 1 /\ s[Len(t) + 1] = hd_calls[n + 1]
        /\ \A k \in 1 .. Len(t) : s[k] = t[k]
    BY <1>2
  <2> HIDE DEF s
  <2> DEFINE g == [k \in 1 .. Len(s) |-> IF k = Len(t) + 1 THEN n + 1 ELSE h[k]]
  <2>2. \A k \in 1 .. Len(s) : k # Len(t) + 1 => k \in 1 .. Len(t)
    BY <1>2, <2>1
  <2>3. g \in [1 .. Len(s) -> 1 .. n + 1]
    BY <1>1, <2>2
  <2>4. \A k \in 1 .. Len(s) : s[k] = hd_calls[g[k]]
    BY <1>1, <2>1, <2>2
  <2>5. \A k, l \in 1 .. Len(s) : k < l => g[k] < g[l]
    <3> SUFFICES ASSUME NEW k \in 1 .. Len(s), NEW l \in 1 .. Len(s), k < l PROVE g[k] < g[l]
      OBVIOUS
    <3>1. k \in 1 .. Len(t)
      BY <1>2, <2>1
    <3>2. h[k] \in 1 .. n /\ g[k] = h[k]
      <4>1. h[k] \in 1 .. n /\ k # Len(t) + 1
        BY <1>1, <1>2, <3>1, SMTT(30)
      <4> QED
        BY <4>1
    <3>3. CASE l = Len(t) + 1
      BY <3>2, <3>3
    <3>4. CASE l # Len(t) + 1
      BY <1>1, <2>2, <3>1, <3>2, <3>4
    <3> QED
      BY <3>3, <3>4
  <2> HIDE DEF g
  <2>6. Len(s) <= n + 1
    BY <1>2, <2>1
  <2> QED
    BY <2>1, <2>3, <2>4, <2>5, <2>6 DEF FoundIn, s
<1> QED
  BY <1>3, <1>4

LEMMA CompactedFacts ==
  ASSUME hd_calls \in Seq(Entry), NEW u
  PROVE  FoundIn(Compacted(u), Len(hd_calls))
<1> DEFINE g == CHOOSE f : Moves(f, u, Len(hd_calls))
<1>1. Len(hd_calls) \in Nat
  OBVIOUS
<1>2. Moves(g, u, Len(hd_calls))
  BY <1>1, MovesExist
<1>3. Compacted(u) = g[Len(hd_calls)]
  BY DEF Compacted, Moves
<1> HIDE DEF g
<1>4. \A i \in 0 .. Len(hd_calls) :
        g[i] = IF i = 0 THEN <<>>
               ELSE IF hd_calls[i].uri = u THEN g[i - 1] ELSE Append(g[i - 1], hd_calls[i])
  BY <1>2 DEF Moves
<1> DEFINE S == {n \in Nat : n <= Len(hd_calls) => FoundIn(g[n], n)}
<1>5. 0 \in S
  <2>1. g[0] = <<>>
    BY <1>1, <1>4
  <2> QED
    BY <2>1, EmptyFoundIn
<1>6. ASSUME NEW n \in Nat, n \in S PROVE n + 1 \in S
  <2> SUFFICES ASSUME n + 1 <= Len(hd_calls) PROVE FoundIn(g[n + 1], n + 1)
    OBVIOUS
  <2>1. FoundIn(g[n], n)
    BY <1>1, <1>6
  <2>2. g[n + 1] = IF hd_calls[n + 1].uri = u THEN g[n] ELSE Append(g[n], hd_calls[n + 1])
    <3>1. n + 1 \in 0 .. Len(hd_calls) /\ n + 1 # 0 /\ (n + 1) - 1 = n
      BY <1>1
    <3> QED
      BY <1>4, <3>1
  <2> QED
    BY <2>1, <2>2, OneMoreFoundIn
<1> HIDE DEF S
<1>7. Len(hd_calls) \in S
  BY <1>1, <1>5, <1>6, NatSetInduction
<1> QED
  BY <1>1, <1>3, <1>7 DEF S

(* A step adds an entry behind the others, or what it leaves is found in    *)
(* the table in its order.                                                  *)
LEMMA UriStepKeeps ==
  ASSUME UriInv, [UriNext]_uriVars
  PROVE  /\ UriInv'
         /\ ~UNCHANGED uriVars =>
              \A u \in Uris, m \in Methods : Defined' /\ Serving(u, m) \in Handlers' =>
                Serving(u, m)' = Serving(u, m)
<1>0. hd_calls \in Seq(Entry) /\ Len(hd_calls) \in Nat /\ Len(hd_calls) <= MaxHandlers /\ regs \in 0 .. MaxRegs
  BY DEF UriInv, UriTypeOK
<1>1. ASSUME Defined, FoundIn(hd_calls', Len(hd_calls)), UNCHANGED regs
      PROVE  /\ UriInv'
             /\ \A u \in Uris, m \in Methods : Defined' /\ Serving(u, m) \in Handlers' =>
                  Serving(u, m)' = Serving(u, m)
  BY <1>1, FoundInKeeps, FoundInServes
<1>2. ASSUME Defined, NEW u \in Uris, NEW m \in Methods \union {ANY}, Register(u, m) \/ StrdupFails(u, m)
      PROVE  UriInv'
  <2>1. /\ Found(u, m) = {} /\ Len(hd_calls) < MaxHandlers
        /\ \E d \in Entry : /\ hd_calls' = Append(hd_calls, d) /\ d.uri = u /\ d.method = m
                            /\ IF d.dangling THEN d.handler = 0 /\ regs' = regs
                               ELSE d.handler = regs + 1 /\ regs' = regs + 1 /\ regs < MaxRegs
    <3>1. CASE Register(u, m)
      <4> DEFINE d == [uri |-> u, method |-> m, handler |-> regs + 1, dangling |-> FALSE]
      <4>1. d \in Entry /\ d.uri = u /\ d.method = m /\ ~d.dangling /\ d.handler = regs + 1
        BY <1>0 DEF Entry
      <4>2. hd_calls' = Append(hd_calls, d) /\ regs' = regs + 1 /\ regs < MaxRegs
        BY <3>1 DEF Register
      <4> HIDE DEF d
      <4> QED
        BY <3>1, <4>1, <4>2 DEF Register, MayRegister, SlotFree
    <3>2. CASE StrdupFails(u, m)
      <4> DEFINE d == [uri |-> u, method |-> m, handler |-> 0, dangling |-> TRUE]
      <4>1. d \in Entry /\ d.uri = u /\ d.method = m /\ d.dangling /\ d.handler = 0
        BY DEF Entry
      <4>2. hd_calls' = Append(hd_calls, d) /\ regs' = regs
        BY <3>2 DEF StrdupFails
      <4> HIDE DEF d
      <4> QED
        BY <3>2, <4>1, <4>2 DEF StrdupFails, SlotFree
    <3> QED
      BY <1>2, <3>1, <3>2
  <2>2. PICK d \in Entry : /\ hd_calls' = Append(hd_calls, d) /\ d.uri = u /\ d.method = m
                           /\ IF d.dangling THEN d.handler = 0 /\ regs' = regs
                              ELSE d.handler = regs + 1 /\ regs' = regs + 1 /\ regs < MaxRegs
    BY <2>1
  <2>3. /\ hd_calls' \in Seq(Entry) /\ Len(hd_calls') = Len(hd_calls) + 1 /\ hd_calls'[Len(hd_calls) + 1] = d
        /\ \A i \in 1 .. Len(hd_calls) : hd_calls'[i] = hd_calls[i]
    BY <1>0, <2>2
  <2>4. \A i \in 1 .. Len(hd_calls') : i \in 1 .. Len(hd_calls) \/ i = Len(hd_calls) + 1
    BY <1>0, <2>3
  <2>5. UriTypeOK'
    <3>1. regs' \in 0 .. MaxRegs
      BY <1>0, <2>2, UriConstants
    <3> QED
      BY <1>0, <2>1, <2>3, <3>1, UriConstants DEF UriTypeOK
  <2>6. NoShadowedHandler'
    <3> SUFFICES ASSUME NEW i \in 1 .. Len(hd_calls'), NEW j \in 1 .. Len(hd_calls'), i < j
                 PROVE  ~Serves(hd_calls'[i], hd_calls'[j].uri, hd_calls'[j].method)
      BY DEF NoShadowedHandler, Serves
    <3>1. i \in 1 .. Len(hd_calls)
      BY <1>0, <2>3
    <3>2. CASE j \in 1 .. Len(hd_calls)
      BY <2>3, <3>1, <3>2 DEF UriInv, NoShadowedHandler
    <3>3. CASE j = Len(hd_calls) + 1
      BY <2>1, <2>2, <2>3, <3>1, <3>3 DEF Found
    <3> QED
      BY <2>4, <3>2, <3>3
  <2>7. ASSUME NEW i \in 1 .. Len(hd_calls')
        PROVE  IF hd_calls'[i].dangling THEN hd_calls'[i].handler = 0 ELSE hd_calls'[i].handler \in 1 .. regs'
    BY <1>0, <2>2, <2>3, <2>4, <2>7 DEF UriInv
  <2>8. ASSUME NEW i \in 1 .. Len(hd_calls'), NEW j \in 1 .. Len(hd_calls'), i # j, ~hd_calls'[i].dangling
        PROVE  hd_calls'[i].handler # hd_calls'[j].handler
    <3>1. CASE i \in 1 .. Len(hd_calls) /\ j \in 1 .. Len(hd_calls)
      BY <2>3, <2>8, <3>1 DEF UriInv
    <3>2. CASE i = Len(hd_calls) + 1 /\ j \in 1 .. Len(hd_calls)
      BY <1>0, <2>2, <2>3, <2>8, <3>2 DEF UriInv
    <3>3. CASE i \in 1 .. Len(hd_calls) /\ j = Len(hd_calls) + 1
      <4>1. hd_calls'[i].handler \in 1 .. regs
        BY <2>3, <2>8, <3>3 DEF UriInv
      <4> QED
        BY <1>0, <2>2, <2>3, <3>3, <4>1
    <3> QED
      BY <2>4, <2>8, <3>1, <3>2, <3>3
  <2> QED
    BY <2>5, <2>6, <2>7, <2>8 DEF UriInv
<1>3. ASSUME Defined, NEW v \in Uris, NEW n \in Methods \union {ANY}, Register(v, n),
             NEW u \in Uris, NEW m \in Methods, Serving(u, m) \in Handlers'
      PROVE  Serving(u, m)' = Serving(u, m)
  <2>1. PICK d : hd_calls' = Append(hd_calls, d) /\ d \in Entry /\ d.handler = regs + 1
    <3> DEFINE d == [uri |-> v, method |-> n, handler |-> regs + 1, dangling |-> FALSE]
    <3>1. d \in Entry /\ d.handler = regs + 1 /\ hd_calls' = Append(hd_calls, d)
      BY <1>0, <1>3 DEF Entry, Register
    <3> HIDE DEF d
    <3> QED
      BY <3>1
  <2>2. /\ hd_calls' \in Seq(Entry) /\ Len(hd_calls') = Len(hd_calls) + 1 /\ hd_calls'[Len(hd_calls) + 1] = d
        /\ \A i \in 1 .. Len(hd_calls) : hd_calls'[i] = hd_calls[i]
    BY <1>0, <2>1
  <2>3. PICK k \in 1 .. Len(hd_calls') : hd_calls'[k].handler = Serving(u, m)
    BY <1>3 DEF Handlers
  <2>4. Serving(u, m) # 0 /\ Found(u, m) # {}
    <3>1. hd_calls'[k].handler # 0
      <4>1. CASE k \in 1 .. Len(hd_calls)
        <5>1. hd_calls[k].handler \in 1 .. regs
          BY <1>3, <4>1 DEF UriInv, Defined
        <5> QED
          BY <1>0, <2>2, <4>1, <5>1
      <4>2. CASE k = Len(hd_calls) + 1
        BY <1>0, <2>1, <2>2, <4>2
      <4> QED
        BY <1>0, <2>2, <4>1, <4>2
    <3> QED
      BY <2>3, <3>1 DEF Serving
  <2>5. PICK i \in Found(u, m) : (\A j \in Found(u, m) : i <= j) /\ Serving(u, m) = hd_calls[i].handler
    BY <1>0, <2>4, ServingFacts
  <2>6. i \in Found(u, m)' /\ \A j \in Found(u, m)' : i <= j
    <3>1. i \in 1 .. Len(hd_calls) /\ i \in 1 .. Len(hd_calls')
      BY <1>0, <2>2, <2>5 DEF Found
    <3>2. i \in Found(u, m)'
      BY <2>2, <2>5, <3>1 DEF Found, Serves
    <3>3. ASSUME NEW j \in Found(u, m)' PROVE i <= j
      <4>1. j \in 1 .. Len(hd_calls')
        BY <3>3 DEF Found
      <4>2. CASE j \in 1 .. Len(hd_calls)
        <5>1. j \in Found(u, m)
          BY <2>2, <3>3, <4>2 DEF Found, Serves
        <5> QED
          BY <2>5, <5>1
      <4>3. CASE j = Len(hd_calls) + 1
        BY <1>0, <3>1, <4>3
      <4> QED
        BY <1>0, <2>2, <4>1, <4>2, <4>3
    <3> QED
      BY <3>2, <3>3
  <2>7. Serving(u, m)' = hd_calls'[i].handler
    <3> DEFINE f == CHOOSE l \in Found(u, m)' : \A j \in Found(u, m)' : l <= j
    <3>1. f \in Found(u, m)' /\ \A j \in Found(u, m)' : f <= j
      BY <2>6
    <3>2. Serving(u, m)' = hd_calls'[f].handler
      BY <2>6 DEF Serving
    <3>3. f <= i /\ i <= f /\ i \in Nat /\ f \in Nat
      <4>1. Found(u, m)' \subseteq Nat
        BY DEF Found
      <4> HIDE DEF f
      <4> QED
        BY <2>6, <3>1, <4>1
    <3> QED
      BY <3>2, <3>3
  <2>8. hd_calls'[i] = hd_calls[i]
    BY <2>2, <2>5 DEF Found
  <2> QED
    BY <2>5, <2>7, <2>8
<1>4. ASSUME NEW u \in Uris, NEW m \in Methods \union {ANY}, StrdupFails(u, m), Defined' PROVE FALSE
  <2> DEFINE d == [uri |-> u, method |-> m, handler |-> 0, dangling |-> TRUE]
  <2>1. hd_calls' = Append(hd_calls, d) /\ d \in Entry /\ d.dangling
    BY <1>4 DEF StrdupFails, Entry
  <2> HIDE DEF d
  <2>2. Len(hd_calls') = Len(hd_calls) + 1 /\ hd_calls'[Len(hd_calls) + 1] = d
    BY <1>0, <2>1
  <2> QED
    BY <1>0, <1>4, <2>1, <2>2 DEF Defined
<1>5. ASSUME NEW u \in Uris, NEW m \in Methods \union {ANY}, Unregister(u, m)
      PROVE  FoundIn(hd_calls', Len(hd_calls)) /\ UNCHANGED regs
  BY <1>0, <1>5, WithoutFacts DEF Unregister
<1>6. ASSUME NEW u \in Uris, UnregisterUri(u)
      PROVE  FoundIn(hd_calls', Len(hd_calls)) /\ UNCHANGED regs
  BY <1>0, <1>6, CompactedFacts DEF UnregisterUri
<1>7. ASSUME UnregisterAll
      PROVE  FoundIn(hd_calls', Len(hd_calls)) /\ UNCHANGED regs
  BY <1>0, <1>7, EmptyFoundIn DEF UnregisterAll
<1>8. CASE UNCHANGED uriVars
  BY <1>8 DEF uriVars, UriInv, UriTypeOK, NoShadowedHandler, Serves
<1>9. CASE UriNext
  <2>1. Defined
    BY <1>9 DEF UriNext
  <2>2. CASE FoundIn(hd_calls', Len(hd_calls)) /\ UNCHANGED regs
    BY <1>1, <2>1, <2>2
  <2>3. CASE \E u \in Uris, m \in Methods \union {ANY} : Register(u, m) \/ StrdupFails(u, m)
    BY <1>2, <1>3, <1>4, <2>1, <2>3
  <2> QED
    BY <1>5, <1>6, <1>7, <1>9, <2>2, <2>3 DEF UriNext
<1> QED
  BY <1>8, <1>9

(* Whatever is registered and unregistered, in whichever order and however  *)
(* many handlers there are: no handler is in front of another that answers  *)
(* to the same request.                                                     *)
THEOREM TableIsSound == UriSpec => []TableSound
<1>1. UriInit => UriInv
  BY UriConstants DEF UriInit, UriInv, UriTypeOK, NoShadowedHandler
<1>2. UriInv /\ [UriNext]_uriVars => UriInv'
  BY UriStepKeeps
<1>3. UriInv => TableSound
  BY DEF UriInv, TableSound
<1> QED
  BY <1>1, <1>2, <1>3, PTL DEF UriSpec

(* As long as a handler is registered, the requests it gets stay its own.   *)
THEOREM HandlersKeepTheirRequests == UriSpec => ServiceKept
<1>1. UriInit => UriInv
  BY UriConstants DEF UriInit, UriInv, UriTypeOK, NoShadowedHandler
<1>2. UriInv /\ [UriNext]_uriVars => UriInv'
  BY UriStepKeeps
<1>3. UriInv /\ [UriNext]_uriVars =>
        [\A u \in Uris, m \in Methods : Defined' /\ Serving(u, m) \in Handlers' =>
           Serving(u, m)' = Serving(u, m)]_uriVars
  BY UriStepKeeps
<1> QED
  BY <1>1, <1>2, <1>3, PTL DEF UriSpec, ServiceKept

-----------------------------------------------------------------------------
(* The making of a server.  At each step exactly what the steps before made *)
(* is held; the handlers and sessions come and go while it is up.           *)

Allocated == {"hd", "hd_calls", "hd_sd", "resp_hdrs", "err_handler_fns"}
Server == Allocated \cup {"ctrl_sock_semaphore", "listen_fd", "ctrl_fd", "msg_fd", "task"}

StartInv ==
  /\ step \in {"down", "memory", "semaphore", "socket", "bind", "ctrl", "msg", "task", "up", "stopping", "ended"}
  /\ freed_unheld \in BOOLEAN /\ ~freed_unheld
  /\ step \in {"down", "memory"} => held = {}
  /\ step = "semaphore" => held = Allocated
  /\ step = "socket" => held = Allocated \cup {"ctrl_sock_semaphore"}
  /\ step \in {"bind", "ctrl"} => held = Allocated \cup {"ctrl_sock_semaphore", "listen_fd"}
  /\ step = "msg" => held = Allocated \cup {"ctrl_sock_semaphore", "listen_fd", "ctrl_fd"}
  /\ step = "task" => held = Allocated \cup {"ctrl_sock_semaphore", "listen_fd", "ctrl_fd", "msg_fd"}
  /\ step \in {"up", "stopping"} => Server \subseteq held /\ held \subseteq Server \cup {"handlers", "sessions"}
  /\ step = "ended" => /\ Allocated \cup {"ctrl_sock_semaphore"} \subseteq held
                       /\ held \subseteq Allocated \cup {"ctrl_sock_semaphore", "handlers"}

LEMMA MemoryFacts ==
  /\ {Memory[i] : i \in 1 .. 5} = Allocated /\ WholeServer = Server
  /\ \A n \in 0 .. 4 : {Memory[i] : i \in 1 .. n} = CreateFrees(n)
<1>1. Memory[1] = "hd" /\ Memory[2] = "hd_calls" /\ Memory[3] = "hd_sd" /\ Memory[4] = "resp_hdrs"
      /\ Memory[5] = "err_handler_fns"
  BY DEF Memory
<1>2. {Memory[i] : i \in 1 .. 5} = Allocated
  <2>1. {Memory[i] : i \in 1 .. 5} = {Memory[1], Memory[2], Memory[3], Memory[4], Memory[5]}
    OBVIOUS
  <2> QED
    BY <1>1, <2>1 DEF Allocated
<1>3. ASSUME NEW n \in 0 .. 4 PROVE {Memory[i] : i \in 1 .. n} = CreateFrees(n)
  <2>1. CASE n = 0
    BY <2>1 DEF CreateFrees
  <2>2. CASE n = 1
    <3>1. {Memory[i] : i \in 1 .. 1} = {Memory[1]}
      OBVIOUS
    <3> QED
      BY <1>1, <2>2, <3>1 DEF CreateFrees
  <2>3. CASE n = 2
    <3>1. {Memory[i] : i \in 1 .. 2} = {Memory[1], Memory[2]}
      OBVIOUS
    <3> QED
      BY <1>1, <2>3, <3>1 DEF CreateFrees
  <2>4. CASE n = 3
    <3>1. {Memory[i] : i \in 1 .. 3} = {Memory[1], Memory[2], Memory[3]}
      OBVIOUS
    <3> QED
      BY <1>1, <2>4, <3>1 DEF CreateFrees
  <2>5. CASE n = 4
    <3>1. {Memory[i] : i \in 1 .. 4} = {Memory[1], Memory[2], Memory[3], Memory[4]}
      OBVIOUS
    <3> QED
      BY <1>1, <2>5, <3>1 DEF CreateFrees
  <2> QED
    BY <2>1, <2>2, <2>3, <2>4, <2>5
<1> QED
  BY <1>2, <1>3 DEF WholeServer, Server

(* Giving up is right where all that is freed is held, and nothing else is. *)
LEMMA GivenUp ==
  ASSUME StartInv, NEW these, GivesUp(these), these = held
  PROVE  StartInv'
<1>1. step' = "down" /\ held' = {}
  BY DEF GivesUp, FreeThese
<1>2. freed_unheld' \in BOOLEAN /\ ~freed_unheld'
  BY DEF GivesUp, FreeThese, StartInv
<1> QED
  BY <1>1, <1>2 DEF StartInv

LEMMA StartStepKeeps == StartInv /\ [StartNext]_startVars => StartInv'
<1> SUFFICES ASSUME StartInv, [StartNext]_startVars PROVE StartInv'
  OBVIOUS
<1>1. \A h : Delete(h) = Allocated \cup (h \cap {"ctrl_sock_semaphore", "handlers"})
  BY MemoryFacts DEF Delete
<1>2. CASE StartCall
  BY <1>2 DEF StartCall, StartInv
<1>3. CASE AllocateAll
  <2>1. CASE Gains({Memory[i] : i \in 1 .. 5}, "semaphore")
    BY <1>3, <2>1, MemoryFacts DEF AllocateAll, Gains, StartInv
  <2>2. CASE /\ \E n \in 0 .. 4 :
                  /\ held' = {Memory[i] : i \in 1 .. n} \ CreateFrees(n)
                  /\ freed_unheld' = (freed_unheld \/ ~CreateFrees(n) \subseteq {Memory[i] : i \in 1 .. n})
             /\ step' = "down" /\ UNCHANGED start_calls
    <3>1. PICK n \in 0 .. 4 :
            /\ held' = {Memory[i] : i \in 1 .. n} \ CreateFrees(n)
            /\ freed_unheld' = (freed_unheld \/ ~CreateFrees(n) \subseteq {Memory[i] : i \in 1 .. n})
      BY <2>2
    <3>2. held' = {} /\ freed_unheld' \in BOOLEAN /\ ~freed_unheld'
      BY <3>1, MemoryFacts DEF StartInv
    <3> QED
      BY <2>2, <3>2 DEF StartInv
  <2> QED
    BY <1>3, <2>1, <2>2 DEF AllocateAll
<1>4. CASE Semaphore
  <2>1. step = "semaphore" => Delete(held) = held
    BY <1>1 DEF StartInv, Allocated
  <2>2. CASE GivesUp(Delete(held)) /\ step = "semaphore"
    BY <2>1, <2>2, GivenUp
  <2>3. CASE Gains({"ctrl_sock_semaphore"}, "socket") /\ step = "semaphore"
    BY <2>3 DEF Gains, StartInv
  <2> QED
    BY <1>4, <2>2, <2>3 DEF Semaphore
<1>5. CASE ListenSocket
  <2>1. step = "socket" => Delete(held) = held
    BY <1>1 DEF StartInv, Allocated
  <2>2. CASE GivesUp(Delete(held)) /\ step = "socket"
    BY <2>1, <2>2, GivenUp
  <2>3. CASE Gains({"listen_fd"}, "bind") /\ step = "socket"
    BY <2>3 DEF Gains, StartInv
  <2> QED
    BY <1>5, <2>2, <2>3 DEF ListenSocket
<1>6. CASE BindListen
  <2>1. step = "bind" => {"listen_fd"} \union Delete(held) = held
    BY <1>1 DEF StartInv, Allocated
  <2>2. CASE GivesUp({"listen_fd"} \union Delete(held)) /\ step = "bind"
    BY <2>1, <2>2, GivenUp
  <2>3. CASE Gains({}, "ctrl") /\ step = "bind"
    BY <2>3 DEF Gains, StartInv
  <2> QED
    BY <1>6, <2>2, <2>3 DEF BindListen
<1>7. CASE CtrlSocket
  <2>1. step = "ctrl" => {"listen_fd"} \union Delete(held) = held
    BY <1>1 DEF StartInv, Allocated
  <2>2. CASE GivesUp({"listen_fd"} \union Delete(held)) /\ step = "ctrl"
    BY <2>1, <2>2, GivenUp
  <2>3. CASE Gains({"ctrl_fd"}, "msg") /\ step = "ctrl"
    BY <2>3 DEF Gains, StartInv
  <2> QED
    BY <1>7, <2>2, <2>3 DEF CtrlSocket
<1>8. CASE MsgSocket
  <2>1. step = "msg" => MsgFails = held
    BY <1>1 DEF StartInv, Allocated, MsgFails
  <2>2. CASE GivesUp(MsgFails) /\ step = "msg"
    BY <2>1, <2>2, GivenUp
  <2>3. CASE Gains({"msg_fd"}, "task") /\ step = "msg"
    BY <2>3 DEF Gains, StartInv
  <2> QED
    BY <1>8, <2>2, <2>3 DEF MsgSocket
<1>9. CASE Thread
  <2>1. step = "task" => {"listen_fd", "ctrl_fd", "msg_fd"} \union Delete(held) = held
    BY <1>1 DEF StartInv, Allocated
  <2>2. CASE GivesUp({"listen_fd", "ctrl_fd", "msg_fd"} \union Delete(held)) /\ step = "task"
    BY <2>1, <2>2, GivenUp
  <2>3. CASE Gains({"task"}, "up") /\ step = "task"
    BY <2>3 DEF Gains, StartInv, Server
  <2> QED
    BY <1>9, <2>2, <2>3 DEF Thread
<1>10. CASE Serve
  <2>1. PICK what \in SUBSET {"handlers", "sessions"} : held' = (held \ {"handlers", "sessions"}) \union what
    BY <1>10 DEF Serve
  <2>2. Server \cap {"handlers", "sessions"} = {}
    BY DEF Server, Allocated
  <2> QED
    BY <1>10, <2>1, <2>2 DEF Serve, StartInv
<1>11. CASE StopCall
  BY <1>11 DEF StopCall, Gains, StartInv
<1>12. CASE TaskEnds
  <2> DEFINE these == {"msg_fd", "ctrl_fd", "listen_fd", "task"} \union (held \intersect {"sessions"})
  <2>1. /\ step = "stopping" /\ step' = "ended" /\ held' = held \ these
        /\ freed_unheld' = (freed_unheld \/ ~these \subseteq held)
    BY <1>12 DEF TaskEnds, FreeThese
  <2>2. Server \subseteq held /\ held \subseteq Server \cup {"handlers", "sessions"}
    BY <2>1 DEF StartInv
  <2>3. these \subseteq held
    BY <2>2 DEF Server
  <2>4. /\ Allocated \cup {"ctrl_sock_semaphore"} \subseteq held'
        /\ held' \subseteq Allocated \cup {"ctrl_sock_semaphore", "handlers"}
    BY <2>1, <2>2 DEF Server, Allocated
  <2>5. freed_unheld' \in BOOLEAN /\ ~freed_unheld'
    BY <2>1, <2>3 DEF StartInv
  <2> HIDE DEF these
  <2> QED
    BY <2>1, <2>4, <2>5 DEF StartInv
<1>13. CASE StopReturns_
  <2>1. step = "ended" => Delete(held) = held
    BY <1>1 DEF StartInv, Allocated
  <2> QED
    BY <1>13, <2>1, GivenUp DEF StopReturns_
<1>14. CASE UNCHANGED startVars
  BY <1>14 DEF startVars, StartInv
<1> QED
  BY <1>2, <1>3, <1>4, <1>5, <1>6, <1>7, <1>8, <1>9, <1>10, <1>11, <1>12, <1>13, <1>14 DEF StartNext

(* Whichever step of httpd_start() fails, and however often the server is   *)
(* started and stopped: it is whole or nothing of it is left, and nothing   *)
(* is freed that is not held.                                               *)
THEOREM ServerIsWholeOrGone == StartSpec => []ServerWholeOrGone
<1>1. ASSUME StartInit PROVE StartInv
  <2>1. freed_unheld \in BOOLEAN /\ ~freed_unheld
    BY <1>1 DEF StartInit
  <2> QED
    BY <1>1, <2>1 DEF StartInit, StartInv
<1>2. StartInv => ServerWholeOrGone
  BY MemoryFacts DEF StartInv, ServerWholeOrGone
<1> QED
  BY <1>1, <1>2, StartStepKeeps, PTL DEF StartSpec

-----------------------------------------------------------------------------
(* The contexts.  The log of what was freed is right when it names each     *)
(* context that is no longer in use once, with its function, and no other.  *)

Right(log, gv, use) ==
  /\ \A i \in DOMAIN log : log[i][1] \in DOMAIN gv \ use /\ log[i][2] = gv[log[i][1]]
  /\ \A i, j \in DOMAIN log : log[i][1] = log[j][1] => i = j
  /\ \A n \in DOMAIN gv : n \in use \/ \E i \in DOMAIN log : log[i][1] = n

Fns == FreeFns \cup {"none"}

LEMMA FreeRight ==
  ASSUME NEW gv \in Seq(Fns), NEW log \in Seq(Nat \X Fns), NEW use, Right(log, gv, use),
         NEW c \in Nat, NEW fn \in Fns, c # NoCtx => c \in use /\ c \in DOMAIN gv /\ fn = gv[c]
  PROVE  FreeCtx(log, c, fn) \in Seq(Nat \X Fns) /\ Right(FreeCtx(log, c, fn), gv, use \ {c})
<1>0. DOMAIN gv = 1 .. Len(gv) /\ DOMAIN log = 1 .. Len(log) /\ Len(log) \in Nat /\ Len(gv) \in Nat
  OBVIOUS
<1>1. CASE c = NoCtx
  <2>1. FreeCtx(log, c, fn) = log
    BY <1>1 DEF FreeCtx
  <2>2. c \notin DOMAIN gv
    BY <1>0, <1>1 DEF NoCtx
  <2> QED
    BY <2>1, <2>2 DEF Right
<1>2. CASE c # NoCtx
  <2> DEFINE new == FreeCtx(log, c, fn)
  <2>1. /\ new \in Seq(Nat \X Fns) /\ DOMAIN new = 1 .. Len(log) + 1
        /\ new[Len(log) + 1] = <<c, fn>> /\ \A i \in 1 .. Len(log) : new[i] = log[i]
    <3>1. new = Append(log, <<c, fn>>) /\ <<c, fn>> \in Nat \X Fns
      BY <1>2 DEF FreeCtx
    <3> QED
      BY <3>1
  <2> HIDE DEF new
  <2>2. \A i \in DOMAIN new : i \in 1 .. Len(log) \/ i = Len(log) + 1
    BY <1>0, <2>1
  <2>3. new[Len(log) + 1][1] = c /\ new[Len(log) + 1][2] = fn
    BY <2>1
  <2>4. \A i \in 1 .. Len(log) : log[i][1] # c
    BY <1>0, <1>2 DEF Right
  <2>5. ASSUME NEW i \in DOMAIN new PROVE new[i][1] \in DOMAIN gv \ (use \ {c}) /\ new[i][2] = gv[new[i][1]]
    <3>1. CASE i \in 1 .. Len(log)
      <4>1. i \in DOMAIN log /\ new[i] = log[i]
        BY <1>0, <2>1, <3>1
      <4>2. log[i][1] \in DOMAIN gv \ use /\ log[i][2] = gv[log[i][1]]
        BY <4>1 DEF Right
      <4> QED
        BY <4>1, <4>2
    <3>2. CASE i = Len(log) + 1
      BY <1>2, <2>3, <3>2
    <3> QED
      BY <2>2, <3>1, <3>2
  <2>6. ASSUME NEW i \in DOMAIN new, NEW j \in DOMAIN new, new[i][1] = new[j][1] PROVE i = j
    <3>1. CASE i \in 1 .. Len(log) /\ j \in 1 .. Len(log)
      <4>1. i \in DOMAIN log /\ j \in DOMAIN log /\ log[i][1] = log[j][1]
        BY <1>0, <2>1, <2>6, <3>1
      <4> QED
        BY <4>1 DEF Right
    <3>2. CASE i = Len(log) + 1 /\ j \in 1 .. Len(log)
      BY <2>1, <2>3, <2>4, <2>6, <3>2
    <3>3. CASE i \in 1 .. Len(log) /\ j = Len(log) + 1
      BY <2>1, <2>3, <2>4, <2>6, <3>3
    <3> QED
      BY <2>2, <2>6, <3>1, <3>2, <3>3
  <2>7. ASSUME NEW n \in DOMAIN gv PROVE n \in use \ {c} \/ \E i \in DOMAIN new : new[i][1] = n
    <3>1. CASE n = c
      <4>1. Len(log) + 1 \in DOMAIN new
        BY <1>0, <2>1
      <4> QED
        BY <2>3, <3>1, <4>1
    <3>2. CASE n # c /\ \E i \in DOMAIN log : log[i][1] = n
      <4>1. PICK i \in 1 .. Len(log) : log[i][1] = n
        BY <1>0, <3>2
      <4>2. i \in DOMAIN new /\ new[i][1] = n
        BY <1>0, <2>1, <4>1
      <4> QED
        BY <4>2
    <3> QED
      BY <3>1, <3>2 DEF Right
  <2>8. Right(new, gv, use \ {c})
    BY <2>5, <2>6, <2>7 DEF Right
  <2> QED
    BY <2>1, <2>8 DEF new
<1> QED
  BY <1>1, <1>2

LEMMA MadeRight ==
  ASSUME NEW gv \in Seq(Fns), NEW log \in Seq(Nat \X Fns), NEW use, Right(log, gv, use), NEW fn \in Fns
  PROVE  Right(log, Append(gv, fn), use \cup {Len(gv) + 1})
<1> DEFINE new == Append(gv, fn)
<1>1. /\ DOMAIN gv = 1 .. Len(gv) /\ Len(gv) \in Nat
      /\ DOMAIN new = DOMAIN gv \cup {Len(gv) + 1} /\ \A n \in DOMAIN gv : new[n] = gv[n] /\ n # Len(gv) + 1
  OBVIOUS
<1> HIDE DEF new
<1>2. Right(log, new, use \cup {Len(gv) + 1})
  BY <1>1 DEF Right
<1> QED
  BY <1>2 DEF new

(* Which of them is not there makes no difference, and neither does none.   *)
LEMMA SameUse ==
  ASSUME NEW gv \in Seq(Fns), NEW log, NEW use, Right(log, gv, use), NEW now,
         \A n \in Nat \ {NoCtx} : n \in use <=> n \in now
  PROVE  Right(log, gv, now)
<1>1. DOMAIN gv \subseteq Nat \ {NoCtx}
  BY DEF NoCtx
<1>2. \A n \in DOMAIN gv : n \in use <=> n \in now
  BY <1>1
<1> QED
  BY <1>2 DEF Right

SessionT == [open : BOOLEAN, ctx : Nat, free_ctx : Fns, ignore : BOOLEAN,
             transport_ctx : Nat, free_transport_ctx : Fns]
RequestT == [active : BOOLEAN, sess_ctx : Nat, free_ctx : Fns, ignore : BOOLEAN]

(* A context in use is one that was made, with the function it came with.   *)
Known(c, fn, gv) == c # NoCtx => c \in DOMAIN gv /\ fn = gv[c]

CtxInv ==
  /\ session \in SessionT /\ hd_req \in RequestT /\ given \in Seq(Fns) /\ freed \in Seq(Nat \X Fns)
  /\ hd_req.active => session.open
  /\ ~session.open => session.ctx = NoCtx /\ session.transport_ctx = NoCtx
  /\ ~hd_req.active => hd_req.sess_ctx = NoCtx
  /\ Known(session.ctx, session.free_ctx, given)
  /\ Known(session.transport_ctx, session.free_transport_ctx, given)
  /\ Known(hd_req.sess_ctx, hd_req.free_ctx, given)
  /\ session.transport_ctx # NoCtx => session.transport_ctx \notin {session.ctx, hd_req.sess_ctx}
  /\ Right(freed, given, {session.ctx, session.transport_ctx, hd_req.sess_ctx})

(* The parts of the invariant that only look at what is made.               *)
LEMMA KnownAppended ==
  ASSUME NEW gv \in Seq(Fns), NEW c, NEW fn, Known(c, fn, gv), NEW new
  PROVE  Known(c, fn, Append(gv, new))
<1>1. DOMAIN gv = 1 .. Len(gv) /\ DOMAIN Append(gv, new) = 1 .. Len(gv) + 1 /\ \A n \in DOMAIN gv : Append(gv, new)[n] = gv[n]
  OBVIOUS
<1>2. DOMAIN gv \subseteq DOMAIN Append(gv, new)
  BY <1>1
<1> QED
  BY <1>1, <1>2 DEF Known

(* What Made() does: the context is new, and nobody had it, or there is none. *)
LEMMA MadeFacts ==
  ASSUME CtxInv, NEW c \in Nat, NEW fn \in Fns, Made(c, fn)
  PROVE  /\ given' \in Seq(Fns)
         /\ Known(c, fn, given')
         /\ \A d, f : Known(d, f, given) => Known(d, f, given')
         /\ c # NoCtx => c \notin DOMAIN given
         /\ \A use : \A log \in Seq(Nat \X Fns) : Right(log, given, use) => Right(log, given', use \cup {c})
<1>1. CASE c = NoCtx /\ UNCHANGED given
  <2>1. ASSUME NEW log \in Seq(Nat \X Fns), NEW use, Right(log, given, use) PROVE Right(log, given', use \cup {c})
    <3>1. Right(log, given, use \cup {c})
      BY <1>1, <2>1, SameUse DEF CtxInv
    <3> QED
      BY <1>1, <3>1
  <2> QED
    BY <1>1, <2>1 DEF CtxInv, Known
<1>2. CASE c = Len(given) + 1 /\ given' = Append(given, fn)
  <2>1. given \in Seq(Fns)
    BY DEF CtxInv
  <2>2. given' \in Seq(Fns) /\ DOMAIN given = 1 .. Len(given) /\ DOMAIN given' = 1 .. Len(given) + 1
        /\ given'[Len(given) + 1] = fn /\ Len(given) \in Nat
    BY <1>2, <2>1
  <2>3. Known(c, fn, given')
    BY <1>2, <2>2 DEF Known
  <2>4. \A d, f : Known(d, f, given) => Known(d, f, given')
    BY <1>2, <2>1, KnownAppended
  <2>5. \A use : \A log \in Seq(Nat \X Fns) : Right(log, given, use) => Right(log, given', use \cup {c})
    BY <1>2, <2>1, MadeRight
  <2>6. c \notin DOMAIN given
    BY <1>2, <2>2
  <2> QED
    BY <2>2, <2>3, <2>4, <2>5, <2>6
<1> QED
  BY <1>1, <1>2 DEF Made

LEMMA SetsFacts == \A set \in Sets : set[1] \in Nat /\ set[2] \in Fns
  BY ContextConstants DEF Sets, Fns

(* The three contexts in use. *)
Three == {session.ctx, session.transport_ctx, hd_req.sess_ctx}

(* The contexts of the session are freed when it goes. *)
LEMMA GoneRight ==
  ASSUME NEW gv \in Seq(Fns), NEW c \in Nat, NEW f \in Fns, NEW t \in Nat, NEW tf \in Fns,
         Known(c, f, gv), Known(t, tf, gv), t # NoCtx => t # c,
         NEW log \in Seq(Nat \X Fns), Right(log, gv, {c, t})
  PROVE  /\ FreeCtx(FreeCtx(log, c, f), t, tf) \in Seq(Nat \X Fns)
         /\ Right(FreeCtx(FreeCtx(log, c, f), t, tf), gv, {NoCtx})
<1> DEFINE one == FreeCtx(log, c, f)
<1>1. one \in Seq(Nat \X Fns) /\ Right(one, gv, {c, t} \ {c})
  BY FreeRight DEF Known
<1> HIDE DEF one
<1>2. Right(one, gv, {t})
  <2>1. \A n \in Nat \ {NoCtx} : n \in {c, t} \ {c} <=> n \in {t}
    <3>1. CASE t = NoCtx
      BY <3>1
    <3>2. CASE t # NoCtx
      BY <3>2
    <3> QED
      BY <3>1, <3>2
  <2> QED
    BY <1>1, <2>1, SameUse
<1>3. FreeCtx(one, t, tf) \in Seq(Nat \X Fns) /\ Right(FreeCtx(one, t, tf), gv, {t} \ {t})
  BY <1>1, <1>2, FreeRight DEF Known
<1>4. Right(FreeCtx(one, t, tf), gv, {NoCtx})
  BY <1>3, SameUse
<1> QED
  BY <1>3, <1>4 DEF one

(* The request gets a context c that is new, none or the session's; what it *)
(* had and the session has not is freed.                                    *)
LEMMA ReplacedRight ==
  ASSUME CtxInv, NEW c, c \in DOMAIN given => c = session.ctx
  PROVE  /\ ReplacedInRequest(c) \in Seq(Nat \X Fns)
         /\ \E use : session.ctx \in use /\ Right(ReplacedInRequest(c), given, use)
                     /\ \A n \in Nat \ {NoCtx} :
                          n \in use \cup {c} <=> n \in {session.ctx, session.transport_ctx, c}
<1> DEFINE r == hd_req.sess_ctx
<1>1. /\ r \in Nat /\ hd_req.free_ctx \in Fns /\ given \in Seq(Fns) /\ freed \in Seq(Nat \X Fns)
      /\ Right(freed, given, Three) /\ Known(r, hd_req.free_ctx, given)
  BY DEF CtxInv, SessionT, RequestT, Three
<1>2. session.transport_ctx # NoCtx => session.transport_ctx # r
  BY DEF CtxInv
<1>3. CASE r # c /\ session.ctx # r
  <2>1. ReplacedInRequest(c) = FreeCtx(freed, r, hd_req.free_ctx)
    BY <1>3 DEF ReplacedInRequest
  <2>2. /\ FreeCtx(freed, r, hd_req.free_ctx) \in Seq(Nat \X Fns)
        /\ Right(FreeCtx(freed, r, hd_req.free_ctx), given, Three \ {r})
    <3>1. r # NoCtx => r \in Three /\ r \in DOMAIN given /\ hd_req.free_ctx = given[r]
      BY <1>1 DEF Three, Known
    <3> QED
      BY <1>1, <3>1, FreeRight
  <2>3. \A n \in Nat \ {NoCtx} : n \in (Three \ {r}) \cup {c} <=> n \in {session.ctx, session.transport_ctx, c}
    BY <1>2, <1>3 DEF Three
  <2>4. session.ctx \in Three \ {r}
    BY <1>3 DEF Three
  <2> QED
    BY <2>1, <2>2, <2>3, <2>4
<1>4. CASE ~(r # c /\ session.ctx # r)
  <2>1. ReplacedInRequest(c) = freed
    BY <1>4 DEF ReplacedInRequest
  <2>2. \A n \in Nat \ {NoCtx} : n \in Three \cup {c} <=> n \in {session.ctx, session.transport_ctx, c}
    BY <1>4 DEF Three
  <2>3. session.ctx \in Three
    BY DEF Three
  <2> QED
    BY <1>1, <2>1, <2>2, <2>3
<1> QED
  BY <1>3, <1>4

(* One element more, and two. *)
LEMMA OneMore ==
  ASSUME NEW S, NEW s \in Seq(S), NEW e \in S
  PROVE  /\ s \o [n \in 1 .. 1 |-> e] = Append(s, e)
         /\ s \o [n \in 1 .. 2 |-> e] = Append(Append(s, e), e)
<1>1. [n \in 1 .. 1 |-> e] = <<e>>
  OBVIOUS
<1>2. <<e>> \in Seq(S) /\ Append(s, e) \in Seq(S)
  OBVIOUS
<1>3. [n \in 1 .. 2 |-> e] = <<e>> \o <<e>>
  <2> DEFINE two == [n \in 1 .. 2 |-> e] pair == <<e>> \o <<e>>
  <2>1. two \in Seq(S) /\ Len(two) = 2 /\ two[1] = e /\ two[2] = e
    OBVIOUS
  <2>2. pair \in Seq(S) /\ Len(pair) = 2 /\ pair[1] = e /\ pair[2] = e
    BY <1>2
  <2> HIDE DEF two, pair
  <2>3. \A i \in 1 .. Len(two) : two[i] = pair[i]
    BY <2>1, <2>2
  <2>4. two = pair
    BY <2>1, <2>2, <2>3, SeqEqual
  <2> QED
    BY <2>4 DEF two, pair
<1>4. s \o <<e>> = Append(s, e) /\ Append(s, e) \o <<e>> = Append(Append(s, e), e)
  BY <1>2, AppendIsConcat
<1>5. (s \o <<e>>) \o <<e>> = s \o (<<e>> \o <<e>>)
  BY <1>2, ConcatAssociative
<1> QED
  BY <1>1, <1>3, <1>4, <1>5

(* httpd_sess_new() makes no context, one or two. *)
LEMMA MadeTwo ==
  ASSUME CtxInv, NEW fn \in Fns, NEW c \in {NoCtx, Len(given) + 1},
         NEW t \in {NoCtx, IF c = NoCtx THEN Len(given) + 1 ELSE c + 1},
         given' = given \o [n \in 1 .. Cardinality({c, t} \ {NoCtx}) |-> fn],
         Right(freed, given, {NoCtx})
  PROVE  /\ given' \in Seq(Fns) /\ c \in Nat /\ t \in Nat /\ (t # NoCtx => t # c)
         /\ Known(c, fn, given') /\ Known(t, fn, given')
         /\ Right(freed, given', {c, t})
<1>1. given \in Seq(Fns) /\ freed \in Seq(Nat \X Fns) /\ Len(given) \in Nat
  BY DEF CtxInv
<1>2. c \in Nat /\ t \in Nat /\ (t # NoCtx => t # c) /\ NoCtx = 0 /\ Len(given) + 1 # NoCtx
  BY <1>1 DEF NoCtx
<1>3. CASE c = NoCtx /\ t = NoCtx
  <2>1. {c, t} \ {NoCtx} = {} /\ Cardinality({c, t} \ {NoCtx}) = 0
    BY <1>3, FS_EmptySet
  <2>2. [n \in 1 .. 0 |-> fn] = <<>>
    OBVIOUS
  <2>3. given' = given
    <3>1. given' = given \o [n \in 1 .. 0 |-> fn]
      BY <2>1
    <3>2. given' = given \o <<>>
      BY <2>2, <3>1
    <3> QED
      BY <1>1, <3>2, ConcatEmptySeq
  <2> QED
    BY <1>1, <1>2, <1>3, <2>3, SameUse DEF Known
<1>4. ASSUME {c, t} \ {NoCtx} = {Len(given) + 1} PROVE given' = Append(given, fn)
  <2>1. Cardinality({c, t} \ {NoCtx}) = 1
    BY <1>4, FS_Singleton
  <2>2. given' = given \o [n \in 1 .. 1 |-> fn]
    BY <2>1
  <2> QED
    BY <1>1, <2>2, OneMore
<1>5. ASSUME NEW k \in Nat, k = Len(given) + 1, given' = Append(given, fn)
      PROVE  given' \in Seq(Fns) /\ Known(k, fn, given') /\ Right(freed, given', {NoCtx, k})
  <2>1. given' \in Seq(Fns) /\ DOMAIN given' = 1 .. Len(given) + 1 /\ given'[Len(given) + 1] = fn
    <3> DEFINE new == Append(given, fn)
    <3>1. new \in Seq(Fns) /\ Len(new) = Len(given) + 1 /\ DOMAIN new = 1 .. Len(new) /\ new[Len(given) + 1] = fn
      BY <1>1
    <3> HIDE DEF new
    <3> QED
      BY <1>5, <3>1 DEF new
  <2>2. Right(freed, given', {NoCtx} \cup {k})
    BY <1>1, <1>5, MadeRight
  <2>3. {NoCtx} \cup {k} = {NoCtx, k}
    OBVIOUS
  <2>4. k \in DOMAIN given' /\ given'[k] = fn
    <3>1. k \in 1 .. Len(given) + 1 /\ k = Len(given) + 1
      BY <1>1, <1>5
    <3> QED
      BY <2>1, <3>1
  <2> QED
    BY <2>1, <2>2, <2>3, <2>4 DEF Known
<1>6. CASE c = NoCtx /\ t # NoCtx
  <2>1. t = Len(given) + 1 /\ {c, t} \ {NoCtx} = {Len(given) + 1}
    BY <1>2, <1>6
  <2>2. given' = Append(given, fn)
    BY <1>4, <2>1
  <2> QED
    BY <1>2, <1>5, <1>6, <2>1, <2>2 DEF Known
<1>7. CASE c # NoCtx /\ t = NoCtx
  <2>1. c = Len(given) + 1 /\ {c, t} \ {NoCtx} = {Len(given) + 1} /\ {NoCtx, c} = {c, t}
    BY <1>2, <1>7
  <2>2. given' = Append(given, fn)
    BY <1>4, <2>1
  <2> QED
    BY <1>2, <1>5, <1>7, <2>1, <2>2 DEF Known
<1>8. CASE c # NoCtx /\ t # NoCtx
  <2>1. c = Len(given) + 1 /\ t = Len(given) + 2 /\ {c, t} \ {NoCtx} = {c, t}
    <3>1. c = Len(given) + 1 /\ t = c + 1
      BY <1>8
    <3> QED
      BY <1>1, <1>8, <3>1
  <2>2. Cardinality({c, t}) = 2
    <3>1. {c, t} = {c} \cup {t} /\ t \notin {c}
      BY <1>2, <1>8
    <3>2. IsFiniteSet({c}) /\ Cardinality({c}) = 1
      BY FS_Singleton
    <3>3. Cardinality({c} \cup {t}) = Cardinality({c}) + 1
      BY <3>1, <3>2, FS_AddElement
    <3> QED
      BY <3>1, <3>2, <3>3
  <2> DEFINE first == Append(given, fn)
  <2>3. given' = Append(first, fn)
    <3>1. given' = given \o [n \in 1 .. 2 |-> fn]
      BY <2>1, <2>2
    <3> QED
      BY <1>1, <3>1, OneMore
  <2>4. first \in Seq(Fns) /\ Len(first) = Len(given) + 1 /\ first[Len(given) + 1] = fn
    BY <1>1
  <2> HIDE DEF first
  <2> DEFINE second == Append(first, fn)
  <2>5. /\ second \in Seq(Fns) /\ Len(second) = Len(given) + 2 /\ DOMAIN second = 1 .. Len(second)
        /\ second[Len(given) + 1] = fn /\ second[Len(given) + 2] = fn
    <3>1. Len(first) + 1 = Len(given) + 2 /\ Len(given) + 1 \in 1 .. Len(first)
      BY <1>1, <2>4
    <3> QED
      BY <2>4, <3>1
  <2> HIDE DEF second
  <2>6. given' = second
    BY <2>3 DEF second
  <2>7. Right(freed, first, {NoCtx} \cup {c})
    BY <1>1, <2>1, MadeRight DEF first
  <2>8. Right(freed, given', ({NoCtx} \cup {c}) \cup {t})
    <3>1. Len(first) + 1 = t
      BY <1>1, <2>1, <2>4
    <3>2. Right(freed, second, ({NoCtx} \cup {c}) \cup {Len(first) + 1})
      BY <1>1, <2>4, <2>7, MadeRight DEF second
    <3> QED
      BY <2>6, <3>1, <3>2
  <2>9. given' \in Seq(Fns) /\ Known(c, fn, given') /\ Known(t, fn, given')
    <3>1. c \in 1 .. Len(given) + 2 /\ t \in 1 .. Len(given) + 2
      BY <1>1, <2>1
    <3>2. c \in DOMAIN second /\ t \in DOMAIN second /\ second[c] = fn /\ second[t] = fn
      BY <2>1, <2>5, <3>1
    <3> QED
      BY <2>5, <2>6, <3>2 DEF Known
  <2>11. Right(freed, given', {c, t})
    BY <2>8, <2>9, SameUse
  <2> QED
    BY <1>2, <2>9, <2>11
<1> QED
  BY <1>3, <1>6, <1>7, <1>8

LEMMA CtxStepKeeps == CtxInv /\ [CtxNext]_ctxVars => CtxInv'
<1> SUFFICES ASSUME CtxInv, [CtxNext]_ctxVars PROVE CtxInv'
  OBVIOUS
<1>0. /\ session \in SessionT /\ hd_req \in RequestT /\ given \in Seq(Fns) /\ freed \in Seq(Nat \X Fns)
      /\ session.ctx \in Nat /\ session.transport_ctx \in Nat /\ hd_req.sess_ctx \in Nat
      /\ session.free_ctx \in Fns /\ session.free_transport_ctx \in Fns /\ hd_req.free_ctx \in Fns
      /\ NoCtx \in Nat /\ Right(freed, given, Three)
  BY DEF CtxInv, SessionT, RequestT, NoCtx, Three
<1>2. CASE SessDelete
  <2>1. /\ session' = NoSession /\ UNCHANGED <<hd_req, given>> /\ hd_req.sess_ctx = NoCtx /\ ~hd_req.active
        /\ freed' = FreeCtx(FreeCtx(freed, session.ctx, session.free_ctx), session.transport_ctx, session.free_transport_ctx)
    BY <1>2 DEF SessDelete, SessGone, CtxInv
  <2>2. Right(freed, given, {session.ctx, session.transport_ctx})
    BY <1>0, <2>1, SameUse DEF Three
  <2>3. freed' \in Seq(Nat \X Fns) /\ Right(freed', given, {NoCtx})
    BY <1>0, <2>1, <2>2, GoneRight DEF CtxInv
  <2>4. /\ session' \in SessionT /\ session'.ctx = NoCtx /\ session'.transport_ctx = NoCtx
    BY <2>1 DEF NoSession, SessionT, Fns, NoCtx
  <2> QED
    BY <2>1, <2>3, <2>4, SameUse DEF CtxInv, Known
<1>3. CASE ReqNew
  <2>1. /\ session.open /\ ~hd_req.active /\ UNCHANGED <<session, given, freed>> /\ hd_req.sess_ctx = NoCtx
        /\ hd_req' = [active |-> TRUE, sess_ctx |-> session.ctx, free_ctx |-> session.free_ctx, ignore |-> session.ignore]
    BY <1>3 DEF ReqNew, CtxInv
  <2>2. hd_req' \in RequestT /\ hd_req'.sess_ctx = session.ctx /\ hd_req'.free_ctx = session.free_ctx
    BY <1>0, <2>1 DEF SessionT, RequestT
  <2>3. Right(freed, given, {session.ctx, session.transport_ctx, session.ctx})
    BY <1>0, <2>1, SameUse DEF Three
  <2>4. hd_req'.active
    BY <2>1
  <2> QED
    BY <1>0, <2>1, <2>2, <2>3, <2>4 DEF CtxInv
<1>4. CASE SetCtxInHandler
  <2>1. PICK set \in Sets : /\ Made(set[1], set[2])
                            /\ hd_req' = [hd_req EXCEPT !.sess_ctx = set[1], !.free_ctx = set[2]]
                            /\ freed' = ReplacedInRequest(set[1])
    BY <1>4 DEF SetCtxInHandler
  <2> DEFINE c == set[1] fn == set[2]
  <2>2. c \in Nat /\ fn \in Fns
    BY SetsFacts
  <2>3. /\ hd_req.active /\ UNCHANGED session
        /\ hd_req' \in RequestT /\ hd_req'.active = hd_req.active /\ hd_req'.sess_ctx = c /\ hd_req'.free_ctx = fn
    BY <1>0, <1>4, <2>1, <2>2 DEF SetCtxInHandler, RequestT
  <2> HIDE DEF c, fn
  <2>4. /\ given' \in Seq(Fns) /\ Known(c, fn, given')
        /\ \A d, f : Known(d, f, given) => Known(d, f, given')
        /\ c # NoCtx => c \notin DOMAIN given
        /\ \A use : \A log \in Seq(Nat \X Fns) : Right(log, given, use) => Right(log, given', use \cup {c})
    BY <2>1, <2>2, MadeFacts DEF c, fn
  <2>5. c \notin DOMAIN given
    BY <1>0, <2>4 DEF NoCtx
  <2>6. /\ freed' \in Seq(Nat \X Fns)
        /\ \E use : session.ctx \in use /\ Right(freed', given, use)
                    /\ \A n \in Nat \ {NoCtx} :
                         n \in use \cup {c} <=> n \in {session.ctx, session.transport_ctx, c}
    BY <2>1, <2>5, ReplacedRight DEF c
  <2>7. Right(freed', given', {session.ctx, session.transport_ctx, c})
    BY <2>4, <2>6, SameUse
  <2>8. session.transport_ctx # NoCtx => session.transport_ctx # c
    BY <2>5 DEF CtxInv, Known
  <2> QED
    BY <1>0, <2>3, <2>4, <2>6, <2>7, <2>8 DEF CtxInv
<1>5. CASE SetOwnAgain
  <2> DEFINE c == session.ctx
  <2>1. /\ hd_req.active /\ UNCHANGED <<session, given>> /\ freed' = ReplacedInRequest(c)
        /\ hd_req' \in RequestT /\ hd_req'.active = hd_req.active
        /\ hd_req'.sess_ctx = c /\ hd_req'.free_ctx = session.free_ctx
    BY <1>0, <1>5 DEF SetOwnAgain, RequestT
  <2>2. /\ freed' \in Seq(Nat \X Fns)
        /\ \E use : session.ctx \in use /\ Right(freed', given, use)
                    /\ \A n \in Nat \ {NoCtx} :
                         n \in use \cup {c} <=> n \in {session.ctx, session.transport_ctx, c}
    BY <2>1, ReplacedRight
  <2>3. Right(freed', given, {session.ctx, session.transport_ctx, c})
    <3>1. PICK use : c \in use /\ Right(freed', given, use) /\ \A n \in Nat \ {NoCtx} :
                       n \in use \cup {c} <=> n \in {session.ctx, session.transport_ctx, c}
      BY <2>2
    <3>2. use \cup {c} = use
      BY <3>1
    <3> QED
      BY <1>0, <3>1, <3>2, SameUse
  <2> QED
    BY <1>0, <2>1, <2>2, <2>3 DEF CtxInv
<1>6. CASE AssignInHandler
  <2>1. PICK set \in Sets : /\ Made(set[1], set[2])
                            /\ hd_req' = [hd_req EXCEPT !.sess_ctx = set[1], !.free_ctx = set[2]]
    BY <1>6 DEF AssignInHandler
  <2> DEFINE c == set[1] fn == set[2]
  <2>2. c \in Nat /\ fn \in Fns
    BY SetsFacts
  <2>3. /\ hd_req.active /\ UNCHANGED <<session, freed>> /\ hd_req.sess_ctx = session.ctx
        /\ hd_req' \in RequestT /\ hd_req'.active = hd_req.active /\ hd_req'.sess_ctx = c /\ hd_req'.free_ctx = fn
    BY <1>0, <1>6, <2>1, <2>2 DEF AssignInHandler, RequestT
  <2> HIDE DEF c, fn
  <2>4. /\ given' \in Seq(Fns) /\ Known(c, fn, given')
        /\ \A d, f : Known(d, f, given) => Known(d, f, given')
        /\ c # NoCtx => c \notin DOMAIN given
        /\ \A use : \A log \in Seq(Nat \X Fns) : Right(log, given, use) => Right(log, given', use \cup {c})
    BY <2>1, <2>2, MadeFacts DEF c, fn
  <2>5. Right(freed, given', Three \cup {c})
    BY <1>0, <2>4
  <2>6. Right(freed, given', {session.ctx, session.transport_ctx, c})
    <3>1. \A n \in Nat \ {NoCtx} : n \in Three \cup {c} <=> n \in {session.ctx, session.transport_ctx, c}
      BY <2>3 DEF Three
    <3> QED
      BY <2>4, <2>5, <3>1, SameUse
  <2>7. session.transport_ctx # NoCtx => session.transport_ctx # c
    BY <2>4 DEF CtxInv, Known
  <2> QED
    BY <1>0, <2>3, <2>4, <2>6, <2>7 DEF CtxInv
<1>7. CASE SetIgnore
  <2>1. /\ hd_req' \in RequestT /\ hd_req'.active = hd_req.active /\ hd_req'.sess_ctx = hd_req.sess_ctx
        /\ hd_req'.free_ctx = hd_req.free_ctx /\ UNCHANGED <<session, given, freed>>
    BY <1>0, <1>7 DEF SetIgnore, RequestT
  <2> QED
    BY <1>0, <2>1 DEF CtxInv
<1>8. CASE SetCtxOutside
  <2>1. PICK set \in Sets :
          /\ Made(set[1], set[2])
          /\ session' = [session EXCEPT !.ctx = set[1], !.free_ctx = set[2]]
          /\ freed' = IF session.ctx # set[1] THEN FreeCtx(freed, session.ctx, session.free_ctx) ELSE freed
    BY <1>8 DEF SetCtxOutside
  <2> DEFINE c == set[1] fn == set[2]
  <2>2. c \in Nat /\ fn \in Fns
    BY SetsFacts
  <2>3. /\ session.open /\ ~hd_req.active /\ UNCHANGED hd_req /\ hd_req.sess_ctx = NoCtx
        /\ session' \in SessionT /\ session'.open = session.open /\ session'.ctx = c /\ session'.free_ctx = fn
        /\ session'.transport_ctx = session.transport_ctx /\ session'.free_transport_ctx = session.free_transport_ctx
    BY <1>0, <1>8, <2>1, <2>2 DEF SetCtxOutside, SessionT, CtxInv
  <2> HIDE DEF c, fn
  <2>4. /\ given' \in Seq(Fns) /\ Known(c, fn, given')
        /\ \A d, f : Known(d, f, given) => Known(d, f, given')
        /\ c # NoCtx => c \notin DOMAIN given
        /\ \A use : \A log \in Seq(Nat \X Fns) : Right(log, given, use) => Right(log, given', use \cup {c})
    BY <2>1, <2>2, MadeFacts DEF c, fn
  <2>5. freed' \in Seq(Nat \X Fns) /\ Right(freed', given, Three \ {session.ctx})
    <3>1. CASE session.ctx # c
      BY <1>0, <2>1, <3>1, FreeRight DEF CtxInv, Known, Three, c
    <3>2. CASE session.ctx = c
      <4>1. session.ctx = NoCtx
        BY <2>4, <3>2 DEF CtxInv, Known
      <4>2. Right(freed, given, Three \ {session.ctx})
        BY <1>0, <4>1, SameUse
      <4> QED
        BY <1>0, <2>1, <3>2, <4>2 DEF c
    <3> QED
      BY <3>1, <3>2
  <2>6. Right(freed', given', (Three \ {session.ctx}) \cup {c})
    BY <2>4, <2>5
  <2>7. Right(freed', given', {c, session.transport_ctx, hd_req.sess_ctx})
    <3>1. \A n \in Nat \ {NoCtx} :
            n \in (Three \ {session.ctx}) \cup {c} <=> n \in {c, session.transport_ctx, hd_req.sess_ctx}
      BY <2>3 DEF Three, CtxInv
    <3> QED
      BY <2>4, <2>6, <3>1, SameUse
  <2>8. session.transport_ctx # NoCtx => session.transport_ctx # c
    BY <2>4 DEF CtxInv, Known
  <2> QED
    BY <1>0, <2>3, <2>4, <2>5, <2>7, <2>8 DEF CtxInv
<1>9. CASE SetTransportCtx
  <2>1. PICK set \in Sets :
          /\ Made(set[1], set[2])
          /\ session' = [session EXCEPT !.transport_ctx = set[1], !.free_transport_ctx = set[2]]
          /\ freed' = IF session.transport_ctx # set[1]
                      THEN FreeCtx(freed, session.transport_ctx, session.free_transport_ctx) ELSE freed
    BY <1>9 DEF SetTransportCtx
  <2> DEFINE c == set[1] fn == set[2]
  <2>2. c \in Nat /\ fn \in Fns
    BY SetsFacts
  <2>3. /\ session.open /\ UNCHANGED hd_req
        /\ session' \in SessionT /\ session'.open = session.open /\ session'.ctx = session.ctx
        /\ session'.free_ctx = session.free_ctx /\ session'.transport_ctx = c /\ session'.free_transport_ctx = fn
    BY <1>0, <1>9, <2>1, <2>2 DEF SetTransportCtx, SessionT
  <2> HIDE DEF c, fn
  <2>4. /\ given' \in Seq(Fns) /\ Known(c, fn, given')
        /\ \A d, f : Known(d, f, given) => Known(d, f, given')
        /\ c # NoCtx => c \notin DOMAIN given
        /\ \A use : \A log \in Seq(Nat \X Fns) : Right(log, given, use) => Right(log, given', use \cup {c})
    BY <2>1, <2>2, MadeFacts DEF c, fn
  <2>5. freed' \in Seq(Nat \X Fns) /\ Right(freed', given, Three \ {session.transport_ctx})
    <3>1. CASE session.transport_ctx # c
      BY <1>0, <2>1, <3>1, FreeRight DEF CtxInv, Known, Three, c
    <3>2. CASE session.transport_ctx = c
      <4>1. session.transport_ctx = NoCtx
        BY <2>4, <3>2 DEF CtxInv, Known
      <4>2. Right(freed, given, Three \ {session.transport_ctx})
        BY <1>0, <4>1, SameUse
      <4> QED
        BY <1>0, <2>1, <3>2, <4>2 DEF c
    <3> QED
      BY <3>1, <3>2
  <2>6. Right(freed', given', (Three \ {session.transport_ctx}) \cup {c})
    BY <2>4, <2>5
  <2>7. Right(freed', given', {session.ctx, c, hd_req.sess_ctx})
    <3>1. \A n \in Nat \ {NoCtx} :
            n \in (Three \ {session.transport_ctx}) \cup {c} <=> n \in {session.ctx, c, hd_req.sess_ctx}
      BY DEF Three, CtxInv
    <3> QED
      BY <2>4, <2>6, <3>1, SameUse
  <2>8. c # NoCtx => c \notin {session.ctx, hd_req.sess_ctx}
    BY <2>4 DEF CtxInv, Known
  <2> QED
    BY <1>0, <2>3, <2>4, <2>5, <2>7, <2>8 DEF CtxInv
<1>10. CASE ReqCleanup
  <2> DEFINE r == hd_req.sess_ctx
  <2>1. PICK failed \in BOOLEAN :
          /\ session' = IF failed THEN NoSession ELSE AfterCleanup
          /\ freed' = IF failed THEN FreeCtx(FreeCtx(OldFreed, r, hd_req.free_ctx),
                                         session.transport_ctx, session.free_transport_ctx)
                      ELSE OldFreed
    BY <1>10 DEF ReqCleanup
  <2>2. hd_req.active /\ hd_req' = NoReq /\ UNCHANGED given
    BY <1>10 DEF ReqCleanup
  <2>3. OldFreed = IF session.ctx # r THEN FreeCtx(freed, session.ctx, session.free_ctx) ELSE freed
    BY DEF OldFreed
  <2>4. OldFreed \in Seq(Nat \X Fns) /\ Right(OldFreed, given, {r, session.transport_ctx})
    <3>1. CASE session.ctx # r
      <4>1. OldFreed \in Seq(Nat \X Fns) /\ Right(OldFreed, given, Three \ {session.ctx})
        BY <1>0, <2>3, <3>1, FreeRight DEF CtxInv, Known, Three
      <4>2. \A n \in Nat \ {NoCtx} : n \in Three \ {session.ctx} <=> n \in {r, session.transport_ctx}
        BY <3>1 DEF Three, CtxInv
      <4> QED
        BY <1>0, <4>1, <4>2, SameUse
    <3>2. CASE session.ctx = r
      <4>1. \A n \in Nat \ {NoCtx} : n \in Three <=> n \in {r, session.transport_ctx}
        BY <3>2 DEF Three
      <4> QED
        BY <1>0, <2>3, <3>2, <4>1, SameUse
    <3> QED
      BY <3>1, <3>2
  <2>5. hd_req' \in RequestT /\ ~hd_req'.active /\ hd_req'.sess_ctx = NoCtx
    BY <2>2 DEF NoReq, RequestT, Fns, NoCtx
  <2>6. CASE failed
    <3>1. session' \in SessionT /\ session'.ctx = NoCtx /\ session'.transport_ctx = NoCtx
      BY <2>1, <2>6 DEF NoSession, SessionT, Fns, NoCtx
    <3>2. freed' \in Seq(Nat \X Fns) /\ Right(freed', given, {NoCtx})
      BY <1>0, <2>1, <2>4, <2>6, GoneRight DEF CtxInv
    <3>3. Right(freed', given', {session'.ctx, session'.transport_ctx, hd_req'.sess_ctx})
      BY <1>0, <2>2, <2>5, <3>1, <3>2, SameUse
    <3> QED
      BY <1>0, <2>2, <2>5, <3>1, <3>2, <3>3 DEF CtxInv, Known
  <2>7. CASE ~failed
    <3>1. /\ session' \in SessionT /\ session'.open = session.open /\ session'.ctx = r
          /\ session'.free_ctx = hd_req.free_ctx /\ session'.transport_ctx = session.transport_ctx
          /\ session'.free_transport_ctx = session.free_transport_ctx
      BY <1>0, <2>1, <2>7 DEF AfterCleanup, SessionT, RequestT
    <3>2. freed' = OldFreed /\ session.open
      BY <2>1, <2>2, <2>7 DEF CtxInv
    <3>3. Right(freed', given', {session'.ctx, session'.transport_ctx, hd_req'.sess_ctx})
      <4>1. Right(freed', given', {r, session.transport_ctx})
        BY <2>2, <2>4, <3>2
      <4>2. \A n \in Nat \ {NoCtx} :
              n \in {r, session.transport_ctx} <=> n \in {session'.ctx, session'.transport_ctx, hd_req'.sess_ctx}
        BY <2>5, <3>1
      <4> QED
        BY <1>0, <2>2, <4>1, <4>2, SameUse
    <3> QED
      BY <1>0, <2>2, <2>4, <2>5, <3>1, <3>2, <3>3 DEF CtxInv, Known
  <2> QED
    BY <2>6, <2>7
<1>11. CASE NewSession
  <2>1. PICK fn \in FreeFns, c \in {NoCtx, Len(given) + 1} :
          \E t \in {NoCtx, IF c = NoCtx THEN Len(given) + 1 ELSE c + 1} :
            /\ given' = given \o [n \in 1 .. Cardinality({c, t} \ {NoCtx}) |-> fn]
            /\ \/ session' = SessOpened(c, t, fn) /\ UNCHANGED freed
               \/ SessGone(SessOpened(c, t, fn))
    BY <1>11 DEF NewSession
  <2>2. PICK t \in {NoCtx, IF c = NoCtx THEN Len(given) + 1 ELSE c + 1} :
          /\ given' = given \o [n \in 1 .. Cardinality({c, t} \ {NoCtx}) |-> fn]
          /\ \/ session' = SessOpened(c, t, fn) /\ UNCHANGED freed
             \/ SessGone(SessOpened(c, t, fn))
    BY <2>1
  <2>3. ~session.open /\ ~hd_req.active /\ hd_req.sess_ctx = NoCtx /\ UNCHANGED hd_req
    BY <1>11 DEF NewSession, CtxInv
  <2>4. fn \in Fns /\ Right(freed, given, {NoCtx})
    BY <1>0, <2>3, SameUse DEF CtxInv, Fns, Three
  <2>5. /\ given' \in Seq(Fns) /\ c \in Nat /\ t \in Nat /\ (t # NoCtx => t # c)
        /\ Known(c, fn, given') /\ Known(t, fn, given')
        /\ Right(freed, given', {c, t})
    BY <2>2, <2>4, MadeTwo
  <2> DEFINE s == SessOpened(c, t, fn)
  <2>6. /\ s \in SessionT /\ s.open /\ s.ctx = c /\ s.transport_ctx = t
        /\ s.free_ctx \in Fns /\ s.free_transport_ctx \in Fns
        /\ (c # NoCtx => s.free_ctx = fn) /\ (t # NoCtx => s.free_transport_ctx = fn)
    BY <2>4, <2>5 DEF SessOpened, NoSession, SessionT, Fns
  <2> HIDE DEF s
  <2>7. Known(c, s.free_ctx, given') /\ Known(t, s.free_transport_ctx, given')
    BY <2>5, <2>6 DEF Known
  <2>8. CASE session' = s /\ UNCHANGED freed
    <3>1. Right(freed', given', {session'.ctx, session'.transport_ctx, hd_req'.sess_ctx})
      BY <2>3, <2>5, <2>6, <2>8, SameUse
    <3> QED
      BY <1>0, <2>3, <2>5, <2>6, <2>7, <2>8, <3>1 DEF CtxInv, Known
  <2>9. CASE SessGone(s)
    <3>1. /\ session' = NoSession
          /\ freed' = FreeCtx(FreeCtx(freed, c, s.free_ctx), t, s.free_transport_ctx)
      BY <2>6, <2>9 DEF SessGone
    <3>2. freed' \in Seq(Nat \X Fns) /\ Right(freed', given', {NoCtx})
      <4>1. given' \in Seq(Fns) /\ c \in Nat /\ t \in Nat /\ s.free_ctx \in Fns /\ s.free_transport_ctx \in Fns
        BY <2>5, <2>6
      <4>2. freed \in Seq(Nat \X Fns) /\ Right(freed, given', {c, t}) /\ (t # NoCtx => t # c)
        BY <1>0, <2>5
      <4> QED
        BY <2>7, <3>1, <4>1, <4>2, GoneRight
    <3>3. session' \in SessionT /\ session'.ctx = NoCtx /\ session'.transport_ctx = NoCtx
      BY <3>1 DEF NoSession, SessionT, Fns, NoCtx
    <3>4. Right(freed', given', {session'.ctx, session'.transport_ctx, hd_req'.sess_ctx})
      BY <2>3, <2>5, <3>2, <3>3, SameUse
    <3> QED
      BY <1>0, <2>3, <2>5, <3>2, <3>3, <3>4 DEF CtxInv, Known
  <2> QED
    BY <2>2, <2>8, <2>9 DEF s
<1>12. CASE UNCHANGED ctxVars
  BY <1>0, <1>12 DEF ctxVars, CtxInv
<1> QED
  BY <1>2, <1>3, <1>4, <1>5, <1>6, <1>7, <1>8, <1>9, <1>10, <1>11, <1>12 DEF CtxNext

(* However contexts are set, replaced, assigned and ignored: each is freed  *)
(* once at most, with its own function, and never while it is in use.       *)
THEOREM ContextsAreFreedOnce == CtxSpec => []ContextsFreedOnce
<1>1. ASSUME CtxInit PROVE CtxInv
  <2>1. /\ session \in SessionT /\ hd_req \in RequestT /\ session.ctx = NoCtx /\ session.transport_ctx = NoCtx
        /\ hd_req.sess_ctx = NoCtx /\ ~hd_req.active
    BY <1>1 DEF CtxInit, NoSession, NoReq, SessionT, RequestT, Fns, NoCtx
  <2>2. /\ given \in Seq(Fns) /\ freed \in Seq(Nat \X Fns) /\ DOMAIN given = {} /\ DOMAIN freed = {}
    BY <1>1 DEF CtxInit
  <2> QED
    BY <2>1, <2>2 DEF CtxInv, Known, Right
<1>2. ASSUME CtxInv PROVE ContextsFreedOnce
  <2>0. /\ freed \in Seq(Nat \X Fns) /\ given \in Seq(Fns)
        /\ Right(freed, given, {session.ctx, session.transport_ctx, hd_req.sess_ctx})
    BY <1>2 DEF CtxInv
  <2>1. Right(freed, given, InUse)
    <3>1. \A n \in Nat \ {NoCtx} :
            n \in {session.ctx, session.transport_ctx, hd_req.sess_ctx} <=> n \in InUse
      BY <1>2 DEF CtxInv, InUse
    <3> QED
      BY <2>0, <3>1, SameUse
  <2> DEFINE At(n) == {i \in DOMAIN freed : freed[i][1] = n}
  <2>2. ASSUME NEW n \in DOMAIN given PROVE Cardinality(At(n)) = IF n \in InUse THEN 0 ELSE 1
    <3>1. CASE n \in InUse
      <4>1. At(n) = {}
        BY <2>1, <3>1 DEF Right
      <4> QED
        BY <3>1, <4>1, FS_EmptySet
    <3>2. CASE n \notin InUse
      <4>1. PICK i \in DOMAIN freed : freed[i][1] = n
        BY <2>1, <3>2 DEF Right
      <4>2. At(n) = {i}
        BY <2>1, <4>1 DEF Right
      <4> QED
        BY <3>2, <4>2, FS_Singleton
    <3> QED
      BY <3>1, <3>2
  <2>3. \A i \in DOMAIN freed : freed[i][2] = given[freed[i][1]]
    BY <2>1 DEF Right
  <2> QED
    BY <2>2, <2>3 DEF ContextsFreedOnce
<1> QED
  BY <1>1, <1>2, CtxStepKeeps, PTL DEF CtxSpec

-----------------------------------------------------------------------------
(* The response to a request.  First, sequences joined to one.              *)

(* FlattenSeq one sequence after the other: f[i] is the first i joined. *)
Joins(f, ss, n) == f = [i \in 1 .. n |-> IF i = 1 THEN ss[i] ELSE f[i - 1] \o ss[i]]

(* Such a function exists, and FlattenSeq is its last value. *)
LEMMA JoinExists ==
  ASSUME NEW S, NEW ss \in Seq(Seq(S))
  PROVE  \E f \in [1 .. Len(ss) -> Seq(S)] : Joins(f, ss, Len(ss))
<1> DEFINE Ns == {n \in Nat : n <= Len(ss) => \E f \in [1 .. n -> Seq(S)] : Joins(f, ss, n)}
<1>0. Len(ss) \in Nat /\ \A i \in 1 .. Len(ss) : ss[i] \in Seq(S)
  OBVIOUS
<1>1. 0 \in Ns
  <2> DEFINE f == [i \in 1 .. 0 |-> <<>>]
  <2>1. f \in [1 .. 0 -> Seq(S)] /\ Joins(f, ss, 0)
    BY DEF Joins
  <2> QED
    BY <2>1
<1>2. ASSUME NEW n \in Nat, n \in Ns PROVE n + 1 \in Ns
  <2> SUFFICES ASSUME n + 1 <= Len(ss) PROVE \E f \in [1 .. n + 1 -> Seq(S)] : Joins(f, ss, n + 1)
    OBVIOUS
  <2>1. PICK f \in [1 .. n -> Seq(S)] : Joins(f, ss, n)
    BY <1>0, <1>2
  <2>2. \A i \in 1 .. n : f[i] = IF i = 1 THEN ss[i] ELSE f[i - 1] \o ss[i]
    BY <2>1 DEF Joins
  <2> DEFINE last == IF n + 1 = 1 THEN ss[n + 1] ELSE f[n] \o ss[n + 1]
             g == [i \in 1 .. n + 1 |-> IF i = n + 1 THEN last ELSE f[i]]
  <2>3. last \in Seq(S)
    <3>1. ss[n + 1] \in Seq(S)
      BY <1>0
    <3>2. CASE n # 0
      <4>1. f[n] \in Seq(S)
        BY <3>2
      <4> QED
        BY <3>1, <3>2, <4>1, ConcatProperties
    <3> QED
      BY <3>1, <3>2
  <2>4. g \in [1 .. n + 1 -> Seq(S)]
    <3> HIDE DEF last
    <3> QED
      BY <2>3
  <2>5. \A i \in 1 .. n + 1 : g[i] = IF i = 1 THEN ss[i] ELSE g[i - 1] \o ss[i]
    <3>1. ASSUME NEW i \in 1 .. n + 1 PROVE g[i] = IF i = 1 THEN ss[i] ELSE g[i - 1] \o ss[i]
      <4>1. CASE i = n + 1
        <5>1. i # 1 => g[i - 1] = f[n]
          BY <4>1
        <5> QED
          BY <4>1, <5>1
      <4>2. CASE i # n + 1
        <5>1. i \in 1 .. n /\ g[i] = f[i] /\ (i # 1 => g[i - 1] = f[i - 1])
          BY <4>2
        <5> QED
          BY <2>2, <5>1
      <4> QED
        BY <4>1, <4>2
    <3> QED
      BY <3>1
  <2>6. Joins(g, ss, n + 1)
    BY <2>4, <2>5 DEF Joins
  <2> QED
    BY <2>4, <2>6
<1> HIDE DEF Ns
<1>3. Nat \subseteq Ns
  BY <1>1, <1>2, NatSetInduction
<1> QED
  BY <1>0, <1>3 DEF Ns

LEMMA FlattenIs ==
  ASSUME NEW S, NEW ss \in Seq(Seq(S)), Len(ss) # 0
  PROVE  \E f \in [1 .. Len(ss) -> Seq(S)] : Joins(f, ss, Len(ss)) /\ FlattenSeq(ss) = f[Len(ss)]
<1> DEFINE f == CHOOSE f : Joins(f, ss, Len(ss))
<1>1. FlattenSeq(ss) = f[Len(ss)]
  BY DEF FlattenSeq, Joins
<1>2. Joins(f, ss, Len(ss))
  BY JoinExists
<1> HIDE DEF f
<1>3. PICK g \in [1 .. Len(ss) -> Seq(S)] : Joins(g, ss, Len(ss))
  BY JoinExists
<1> DEFINE Ns == {n \in Nat : n \in 1 .. Len(ss) => f[n] \in Seq(S)}
<1>0. Len(ss) \in Nat /\ \A i \in 1 .. Len(ss) : ss[i] \in Seq(S)
  OBVIOUS
<1>4. \A i \in 1 .. Len(ss) : f[i] = IF i = 1 THEN ss[i] ELSE f[i - 1] \o ss[i]
  BY <1>2 DEF Joins
<1>5. ASSUME NEW n \in Nat, n \in Ns PROVE n + 1 \in Ns
  <2> SUFFICES ASSUME n + 1 \in 1 .. Len(ss) PROVE f[n + 1] \in Seq(S)
    OBVIOUS
  <2>1. ss[n + 1] \in Seq(S) /\ f[n + 1] = IF n + 1 = 1 THEN ss[n + 1] ELSE f[n] \o ss[n + 1]
    BY <1>0, <1>4
  <2>2. CASE n = 0
    BY <2>1, <2>2
  <2>3. CASE n # 0
    <3>1. f[n] \in Seq(S)
      BY <1>0, <1>5, <2>3
    <3> QED
      BY <2>1, <2>3, <3>1, ConcatProperties
  <2> QED
    BY <2>2, <2>3
<1>6. 0 \in Ns
  OBVIOUS
<1> HIDE DEF Ns
<1>7. Nat \subseteq Ns
  BY <1>5, <1>6, NatSetInduction
<1>8. \A i \in 1 .. Len(ss) : f[i] \in Seq(S)
  BY <1>0, <1>7 DEF Ns
<1>9. f \in [1 .. Len(ss) -> Seq(S)]
  BY <1>2, <1>8 DEF Joins
<1> QED
  BY <1>1, <1>2, <1>9

(* One more sequence is joined at the end. *)
LEMMA FlattenAppended ==
  ASSUME NEW S, NEW ss \in Seq(Seq(S)), NEW s \in Seq(S)
  PROVE  FlattenSeq(ss) \in Seq(S) /\ FlattenSeq(Append(ss, s)) = FlattenSeq(ss) \o s
<1> DEFINE tt == Append(ss, s)
<1>0. /\ Len(ss) \in Nat /\ tt \in Seq(Seq(S)) /\ Len(tt) = Len(ss) + 1 /\ tt[Len(ss) + 1] = s
      /\ \A i \in 1 .. Len(ss) : tt[i] = ss[i]
  OBVIOUS
<1> HIDE DEF tt
<1>1. PICK g \in [1 .. Len(tt) -> Seq(S)] : Joins(g, tt, Len(tt)) /\ FlattenSeq(tt) = g[Len(tt)]
  <2>1. Len(tt) # 0
    BY <1>0
  <2> QED
    BY <1>0, <2>1, FlattenIs
<1>2. \A i \in 1 .. Len(tt) : g[i] = IF i = 1 THEN tt[i] ELSE g[i - 1] \o tt[i]
  BY <1>1 DEF Joins
<1>3. CASE Len(ss) = 0
  <2>1. FlattenSeq(ss) = ss /\ ss = <<>>
    BY <1>3 DEF FlattenSeq
  <2>2. g[1] = s
    BY <1>0, <1>2, <1>3
  <2> QED
    BY <1>0, <1>1, <1>3, <2>1, <2>2, ConcatEmptySeq, EmptySeq DEF tt
<1>4. CASE Len(ss) # 0
  <2>1. PICK f \in [1 .. Len(ss) -> Seq(S)] : Joins(f, ss, Len(ss)) /\ FlattenSeq(ss) = f[Len(ss)]
    BY <1>4, FlattenIs
  <2>2. \A i \in 1 .. Len(ss) : f[i] = IF i = 1 THEN ss[i] ELSE f[i - 1] \o ss[i]
    BY <2>1 DEF Joins
  <2> DEFINE Ns == {n \in Nat : n \in 1 .. Len(ss) => g[n] = f[n]}
  <2>3. 0 \in Ns
    OBVIOUS
  <2>4. ASSUME NEW n \in Nat, n \in Ns PROVE n + 1 \in Ns
    <3> SUFFICES ASSUME n + 1 \in 1 .. Len(ss) PROVE g[n + 1] = f[n + 1]
      OBVIOUS
    <3>1. /\ g[n + 1] = IF n + 1 = 1 THEN ss[n + 1] ELSE g[n] \o ss[n + 1]
          /\ f[n + 1] = IF n + 1 = 1 THEN ss[n + 1] ELSE f[n] \o ss[n + 1]
      <4>1. n + 1 \in 1 .. Len(tt) /\ (n + 1) - 1 = n
        <5>1. Len(ss) \in Nat /\ Len(tt) = Len(ss) + 1
          BY <1>0
        <5> QED
          BY <5>1
      <4>2. tt[n + 1] = ss[n + 1]
        BY <1>0
      <4> QED
        BY <1>2, <2>2, <4>1, <4>2
    <3>2. n # 0 => g[n] = f[n]
      BY <1>0, <2>4
    <3> QED
      BY <3>1, <3>2
  <2> HIDE DEF Ns
  <2>5. Nat \subseteq Ns
    BY <2>3, <2>4, NatSetInduction
  <2>6. g[Len(ss)] = f[Len(ss)] /\ f[Len(ss)] \in Seq(S)
    <3>1. Len(ss) \in Ns /\ Len(ss) \in 1 .. Len(ss)
      BY <1>0, <1>4, <2>5
    <3> QED
      BY <3>1 DEF Ns
  <2>7. g[Len(ss) + 1] = g[Len(ss)] \o s
    <3>1. Len(ss) + 1 \in 1 .. Len(tt) /\ Len(ss) + 1 # 1 /\ (Len(ss) + 1) - 1 = Len(ss)
      BY <1>0, <1>4
    <3> QED
      BY <1>0, <1>2, <3>1
  <2> QED
    BY <1>0, <1>1, <2>1, <2>6, <2>7 DEF tt
<1> QED
  BY <1>3, <1>4

(* Sequences of the same length, joined. *)
LEMMA FlattenEven ==
  ASSUME NEW S, NEW ss \in Seq(Seq(S)), NEW q \in {3, 4}, \A i \in 1 .. Len(ss) : Len(ss[i]) = q
  PROVE  /\ FlattenSeq(ss) \in Seq(S) /\ Len(FlattenSeq(ss)) = q * Len(ss)
         /\ \A i \in 1 .. Len(ss), j \in 1 .. q : FlattenSeq(ss)[q * (i - 1) + j] = ss[i][j]
<1> DEFINE t(n) == FlattenSeq(SubSeq(ss, 1, n))
           Even(n) == /\ t(n) \in Seq(S) /\ Len(t(n)) = q * n
                       /\ \A i \in 1 .. n, j \in 1 .. q : t(n)[q * (i - 1) + j] = ss[i][j]
           Ns == {n \in Nat : n <= Len(ss) => Even(n)}
<1>0. Len(ss) \in Nat /\ \A i \in 1 .. Len(ss) : ss[i] \in Seq(S)
  OBVIOUS
<1>1. 0 \in Ns
  <2>1. SubSeq(ss, 1, 0) = <<>>
    BY SubSeqEmpty
  <2>2. t(0) = <<>>
    BY <2>1 DEF FlattenSeq
  <2>3. q * 0 = 0
    BY <1>0
  <2> HIDE DEF t
  <2>4. Even(0)
    <3>1. \A i \in 1 .. 0 : FALSE
      OBVIOUS
    <3> QED
      BY <2>2, <2>3, <3>1, EmptySeq
  <2> HIDE DEF Even
  <2> QED
    BY <2>4
<1>2. ASSUME NEW n \in Nat, n \in Ns PROVE n + 1 \in Ns
  <2> HIDE DEF Even
  <2> SUFFICES ASSUME n + 1 <= Len(ss) PROVE Even(n + 1)
    OBVIOUS
  <2>1. Even(n)
    BY <1>0, <1>2
  <2> USE DEF Even
  <2> DEFINE pp == SubSeq(ss, 1, n)
  <2>2. pp \in Seq(Seq(S)) /\ SubSeq(ss, 1, n + 1) = Append(pp, ss[n + 1])
    <3>1. \A m \in Nat : m <= Len(ss) => /\ SubSeq(ss, 1, m) \in Seq(Seq(S)) /\ Len(SubSeq(ss, 1, m)) = m
                                          /\ \A i \in 1 .. m : SubSeq(ss, 1, m)[i] = ss[i]
      OBVIOUS
    <3>2. Append(pp, ss[n + 1]) \in Seq(Seq(S)) /\ Len(Append(pp, ss[n + 1])) = n + 1
      BY <1>0, <3>1
    <3>3. \A i \in 1 .. n + 1 : Append(pp, ss[n + 1])[i] = ss[i]
      BY <1>0, <3>1
    <3> HIDE DEF pp
    <3>4. /\ SubSeq(ss, 1, n + 1) \in Seq(Seq(S)) /\ Len(SubSeq(ss, 1, n + 1)) = n + 1
          /\ \A i \in 1 .. n + 1 : SubSeq(ss, 1, n + 1)[i] = ss[i]
      BY <1>0, <3>1
    <3>5. pp \in Seq(Seq(S))
      BY <1>0, <3>1 DEF pp
    <3> DEFINE x == SubSeq(ss, 1, n + 1)
               y == Append(pp, ss[n + 1])
    <3>6. /\ x \in Seq(Seq(S)) /\ y \in Seq(Seq(S)) /\ Len(x) = Len(y)
          /\ \A i \in 1 .. Len(x) : x[i] = y[i]
      BY <3>2, <3>3, <3>4
    <3> HIDE DEF x, y
    <3>7. x = y
      BY <3>6, SeqEqual
    <3> QED
      BY <3>5, <3>7 DEF x, y
  <2>3. t(n + 1) = t(n) \o ss[n + 1] /\ ss[n + 1] \in Seq(S) /\ Len(ss[n + 1]) = q
    <3>1. ss[n + 1] \in Seq(S) /\ Len(ss[n + 1]) = q
      BY <1>0
    <3> HIDE DEF pp
    <3> QED
      BY <2>2, <3>1, FlattenAppended DEF pp
  <2> DEFINE a == t(n)
             b == ss[n + 1]
             c == t(n + 1)
  <2>4. /\ a \in Seq(S) /\ b \in Seq(S) /\ c = a \o b /\ Len(a) = q * n /\ Len(b) = q
        /\ \A i \in 1 .. n, j \in 1 .. q : a[q * (i - 1) + j] = ss[i][j]
    BY <2>1, <2>3
  <2> SUFFICES /\ c \in Seq(S) /\ Len(c) = q * (n + 1)
               /\ \A i \in 1 .. n + 1, j \in 1 .. q : c[q * (i - 1) + j] = ss[i][j]
    OBVIOUS
  <2>b. b = ss[n + 1]
    OBVIOUS
  <2> HIDE DEF a, b, c, t
  <2>5. /\ c \in Seq(S) /\ Len(c) = q * n + q
        /\ \A k \in 1 .. q * n + q : c[k] = IF k <= q * n THEN a[k] ELSE b[k - q * n]
    <3> DEFINE la == q * n
    <3>1. Len(a) = la /\ Len(b) = q /\ c = a \o b /\ a \in Seq(S) /\ b \in Seq(S)
      BY <2>4
    <3> HIDE DEF la
    <3>2. /\ c \in Seq(S) /\ Len(c) = Len(a) + Len(b)
          /\ \A k \in 1 .. Len(a) + Len(b) : c[k] = IF k <= Len(a) THEN a[k] ELSE b[k - Len(a)]
      BY <3>1, ConcatProperties
    <3>3. /\ c \in Seq(S) /\ Len(c) = la + q
          /\ \A k \in 1 .. la + q : c[k] = IF k <= la THEN a[k] ELSE b[k - la]
      BY <3>1, <3>2
    <3> QED
      BY <3>3 DEF la
  <2>6. q * (n + 1) = q * n + q
    BY <1>0
  <2>7. ASSUME NEW i \in 1 .. n + 1, NEW j \in 1 .. q PROVE c[q * (i - 1) + j] = ss[i][j]
    <3>1. CASE i = n + 1
      <4>1. q * (i - 1) + j = q * n + j /\ q * n + j \in 1 .. q * n + q /\ ~(q * n + j <= q * n) /\ (q * n + j) - q * n = j
        <5>1. q * n \in Nat /\ j \in Nat /\ j >= 1 /\ j <= q
          BY <1>0
        <5>2. i - 1 = n
          BY <3>1
        <5> QED
          BY <5>1, <5>2
      <4> QED
        BY <2>5, <2>b, <3>1, <4>1
    <3>2. CASE i # n + 1
      <4>1. q * (i - 1) + j \in 1 .. q * n + q /\ q * (i - 1) + j <= q * n /\ i \in 1 .. n
        <5>1. CASE q = 3
          BY <3>2, <5>1
        <5>2. CASE q = 4
          BY <3>2, <5>2
        <5> QED
          BY <5>1, <5>2
      <4> QED
        BY <2>4, <2>5, <4>1
    <3> QED
      BY <3>1, <3>2
  <2> QED
    BY <2>5, <2>6, <2>7
<1> HIDE DEF Ns
<1>3. Nat \subseteq Ns
  BY <1>1, <1>2, NatSetInduction
<1>4. Even(Len(ss))
  <2>1. Len(ss) \in Ns
    BY <1>0, <1>3
  <2> HIDE DEF Even
  <2> QED
    BY <1>0, <2>1 DEF Ns
<1>5. SubSeq(ss, 1, Len(ss)) = ss
  BY SubSeqFull
<1> QED
  BY <1>4, <1>5

-----------------------------------------------------------------------------
(* The tokens of a response. *)

Texts == Values \cup Codes \cup {"200 OK", "text/html"}

Kinds == {"head", "field", "colon", "value", "crlf", "size", "data", "cut"}

Tokens == Kinds \X (Texts \cup Int \cup {""} \cup (Texts \X Texts \X Int))

Chunks(b) == FlattenSeq([i \in 1..Len(b) |-> ChunkTokens(b[i])])

(* Joining three in either order. *)
LEMMA Regrouped ==
  ASSUME NEW s \in Seq(Tokens), NEW u \in Seq(Tokens), NEW v \in Seq(Tokens)
  PROVE  s \o (u \o v) = (s \o u) \o v
BY ConcatAssociative

LEMMA Shifted ==
  ASSUME NEW t, NEW p \in Nat, NEW k \in Nat
  PROVE  t[p + 3 * k + 1] = t[p + (3 * k + 1)] /\ t[p + 3 * k + 2] = t[p + (3 * k + 2)]
<1>1. p + 3 * k + 1 = p + (3 * k + 1) /\ p + 3 * k + 2 = p + (3 * k + 2)
  OBVIOUS
<1> QED
  BY <1>1

(* A token is its kind and its value. *)
LEMMA TokenParts ==
  ASSUME NEW k, NEW v PROVE Token(k, v)[1] = k /\ Token(k, v)[2] = v
BY DEF Token

(* Short sequences, written out. *)
LEMMA TupleFacts ==
  ASSUME NEW S, NEW a \in S, NEW b \in S, NEW c \in S, NEW d \in S
  PROVE  /\ <<a>> \in Seq(S) /\ Len(<<a>>) = 1 /\ <<a>>[1] = a
         /\ <<a, b>> \in Seq(S) /\ Len(<<a, b>>) = 2
         /\ <<a, b, c>> \in Seq(S) /\ Len(<<a, b, c>>) = 3
         /\ <<a, b, c, d>> \in Seq(S) /\ Len(<<a, b, c, d>>) = 4
<1>1. <<a>> \in Seq(S) /\ Len(<<a>>) = 1 /\ <<a>>[1] = a
  OBVIOUS
<1>2. <<a, b>> \in Seq(S) /\ Len(<<a, b>>) = 2
  OBVIOUS
<1>3. <<a, b, c>> \in Seq(S) /\ Len(<<a, b, c>>) = 3
  OBVIOUS
<1>4. <<a, b, c, d>> \in Seq(S) /\ Len(<<a, b, c, d>>) = 4
  OBVIOUS
<1> QED
  BY <1>1, <1>2, <1>3, <1>4

LEMMA TupleJoined ==
  ASSUME NEW S, NEW a \in S, NEW b \in S, NEW c \in S, NEW p, NEW q, NEW s, p = <<a>>, q = <<b>>, s = <<c>>
  PROVE  p \o q = <<a, b>> /\ (p \o q) \o s = <<a, b, c>>
<1>1. /\ p \in Seq(S) /\ q \in Seq(S) /\ s \in Seq(S) /\ Len(p) = 1 /\ Len(q) = 1 /\ Len(s) = 1
      /\ p[1] = a /\ q[1] = b /\ s[1] = c
  OBVIOUS
<1>2. <<a, b>> \in Seq(S) /\ Len(<<a, b>>) = 2 /\ <<a, b>>[1] = a /\ <<a, b>>[2] = b
  OBVIOUS
<1>3. <<a, b, c>> \in Seq(S) /\ Len(<<a, b, c>>) = 3 /\ <<a, b, c>>[1] = a /\ <<a, b, c>>[2] = b /\ <<a, b, c>>[3] = c
  OBVIOUS
<1> DEFINE x == p \o q
           y == x \o s
<1>4. /\ x \in Seq(S) /\ Len(x) = Len(p) + Len(q)
      /\ \A i \in 1 .. Len(p) + Len(q) : x[i] = IF i <= Len(p) THEN p[i] ELSE q[i - Len(p)]
  BY <1>1, ConcatProperties
<1> HIDE DEF x
<1>5. x \in Seq(S) /\ Len(x) = 2 /\ x[1] = a /\ x[2] = b
  BY <1>1, <1>4
<1>6. /\ y \in Seq(S) /\ Len(y) = Len(x) + Len(s)
      /\ \A i \in 1 .. Len(x) + Len(s) : y[i] = IF i <= Len(x) THEN x[i] ELSE s[i - Len(x)]
  <2>1. x \in Seq(S) /\ s \in Seq(S)
    BY <1>1, <1>5
  <2> QED
    BY <2>1, ConcatProperties
<1> HIDE DEF y
<1>7. y \in Seq(S) /\ Len(y) = 3 /\ y[1] = a /\ y[2] = b /\ y[3] = c
  BY <1>1, <1>5, <1>6
<1>8. x = <<a, b>>
  BY <1>2, <1>5, SeqEqual
<1>9. y = <<a, b, c>>
  BY <1>3, <1>7, SeqEqual
<1> QED
  BY <1>8, <1>9 DEF x, y

LEMMA TwoJoined ==
  ASSUME NEW S, NEW a \in S, NEW c \in S, NEW p, NEW s, p = <<a>>, s = <<c>>
  PROVE  p \o s = <<a, c>>
BY TupleJoined

(* The tokens of a response are in Tokens. *)
LEMMA TokenFacts ==
  /\ \A v \in Texts : /\ Token("field", v) \in Tokens /\ Token("value", v) \in Tokens
                      /\ HeaderTokens(v) \in Seq(Tokens) /\ Len(HeaderTokens(v)) = 4
  /\ \A n \in Int : Token("size", n) \in Tokens /\ Token("data", n) \in Tokens
  /\ \A k \in Kinds : Token(k, "") \in Tokens
  /\ \A s \in Texts, t \in Texts, n \in Int : Token("head", <<s, t, n>>) \in Tokens
<1>1. \A k \in Kinds : Token(k, "") \in Tokens /\ \A v \in Texts : Token(k, v) \in Tokens
  BY DEF Tokens, Token
<1>2. \A k \in Kinds, n \in Int : Token(k, n) \in Tokens
  BY DEF Tokens, Token
<1>3. \A s \in Texts, t \in Texts, n \in Int : Token("head", <<s, t, n>>) \in Tokens
  BY DEF Tokens, Token, Kinds
<1>4. {"field", "value", "colon", "crlf", "size", "data"} \subseteq Kinds
  BY DEF Kinds
<1> HIDE DEF Tokens, Texts, Kinds
<1>5. \A v \in Texts : HeaderTokens(v) \in Seq(Tokens) /\ Len(HeaderTokens(v)) = 4
  <2> USE DEF HeaderTokens
  <2>1. ASSUME NEW v \in Texts PROVE HeaderTokens(v) \in Seq(Tokens) /\ Len(HeaderTokens(v)) = 4
    <3>1. {Token("field", v), Token("colon", ""), Token("value", v), Token("crlf", "")} \subseteq Tokens
      BY <1>1, <1>4
    <3> QED
      BY <3>1, TupleFacts
  <2> QED
    BY <2>1
<1> QED
  BY <1>1, <1>2, <1>3, <1>4, <1>5

(* The tokens of a chunk, and of a body. *)
LEMMA ChunkFacts ==
  /\ \A n \in Sizes \ {0} : ChunkTokens(n) = <<Token("size", n), Token("data", n), Token("crlf", "")>>
  /\ ChunkTokens(0) = <<Token("size", 0), Token("crlf", "")>>
  /\ \A n \in Sizes : ChunkTokens(n) \in Seq(Tokens) /\ BodyTokens(n) \in Seq(Tokens)
  /\ ChunkTokens(0) \in Seq(Tokens)
<1>3. "crlf" \in Kinds /\ Sizes \subseteq Int /\ 0 \in Int
  BY RespConstants DEF Kinds
<1>4. ASSUME NEW n \in Sizes \cup {0} PROVE Token("size", n) \in Tokens /\ Token("data", n) \in Tokens /\ Token("crlf", "") \in Tokens
  <2>1. n \in Int
    BY <1>3
  <2> QED
    BY <1>3, <2>1, TokenFacts
<1> DEFINE a(n) == Token("size", n)
           b(n) == Token("data", n)
           c == Token("crlf", "")
<1>5. ASSUME NEW n \in Sizes \cup {0}
      PROVE  /\ ChunkTokens(n) = IF n = 0 THEN <<a(n), c>> ELSE <<a(n), b(n), c>>
             /\ BodyTokens(n) = IF n = 0 THEN <<>> ELSE <<b(n)>>
  <2> DEFINE p == <<a(n)>>
             q == <<b(n)>>
             s == <<c>>
  <2>1. ChunkTokens(n) = p \o BodyTokens(n) \o s /\ BodyTokens(n) = IF n = 0 THEN <<>> ELSE q
    BY DEF ChunkTokens, BodyTokens
  <2>2. a(n) \in Tokens /\ b(n) \in Tokens /\ c \in Tokens
    BY <1>4
  <2>3. p = <<a(n)>> /\ q = <<b(n)>> /\ s = <<c>>
    OBVIOUS
  <2> HIDE DEF a, b, c
  <2>4. p \in Seq(Tokens)
    BY <2>2, TupleFacts
  <2> HIDE DEF p, q, s
  <2>5. p \o <<>> = p
    BY <2>4, ConcatEmptySeq
  <2>6. p \o s = <<a(n), c>> /\ (p \o q) \o s = <<a(n), b(n), c>>
    <3>1. p \o s = <<a(n), c>>
      BY <2>2, <2>3, TwoJoined
    <3>2. (p \o q) \o s = <<a(n), b(n), c>>
      BY <2>2, <2>3, TupleJoined
    <3> QED
      BY <3>1, <3>2
  <2>7. CASE n = 0
    BY <2>1, <2>5, <2>6, <2>7
  <2>8. CASE n # 0
    BY <2>1, <2>3, <2>6, <2>8
  <2> QED
    BY <2>7, <2>8
<1>6. ASSUME NEW n \in Sizes \cup {0} PROVE ChunkTokens(n) \in Seq(Tokens) /\ BodyTokens(n) \in Seq(Tokens)
  <2>1. a(n) \in Tokens /\ b(n) \in Tokens /\ c \in Tokens
    BY <1>4
  <2>2. /\ ChunkTokens(n) = IF n = 0 THEN <<a(n), c>> ELSE <<a(n), b(n), c>>
        /\ BodyTokens(n) = IF n = 0 THEN <<>> ELSE <<b(n)>>
    BY <1>5
  <2> HIDE DEF a, b, c
  <2>3. /\ <<a(n), c>> \in Seq(Tokens) /\ <<a(n), b(n), c>> \in Seq(Tokens) /\ <<b(n)>> \in Seq(Tokens)
        /\ <<>> \in Seq(Tokens)
    BY <2>1, TupleFacts, EmptySeq
  <2> QED
    BY <2>2, <2>3
<1> QED
  BY <1>5, <1>6

(* The tokens of the chunks of a body: three each, in their order. *)
LEMMA ChunksFacts ==
  ASSUME NEW b \in Seq(Sizes \ {0})
  PROVE  /\ Chunks(b) \in Seq(Tokens) /\ Len(Chunks(b)) = 3 * Len(b)
         /\ \A i \in 1 .. Len(b) : /\ Chunks(b)[3 * i - 2] = Token("size", b[i])
                                   /\ Chunks(b)[3 * i - 1] = Token("data", b[i])
                                   /\ Chunks(b)[3 * i] = Token("crlf", "")
         /\ \A n \in Sizes \ {0} : Chunks(Append(b, n)) = Chunks(b) \o ChunkTokens(n)
<1> DEFINE ss == [i \in 1 .. Len(b) |-> ChunkTokens(b[i])]
<1>0. Len(b) \in Nat /\ \A i \in 1 .. Len(b) : b[i] \in Sizes \ {0}
  OBVIOUS
<1>1. /\ ss \in Seq(Seq(Tokens)) /\ Len(ss) = Len(b)
      /\ \A i \in 1 .. Len(ss) : ss[i] = <<Token("size", b[i]), Token("data", b[i]), Token("crlf", "")>>
  <2>1. \A i \in 1 .. Len(b) : ChunkTokens(b[i]) \in Seq(Tokens)
    BY <1>0, ChunkFacts
  <2>2. ss \in Seq(Seq(Tokens)) /\ Len(ss) = Len(b)
    BY <1>0, <2>1
  <2> QED
    BY <1>0, <2>2, ChunkFacts
<1>2. \A i \in 1 .. Len(ss) : Len(ss[i]) = 3
  <2>1. ASSUME NEW n \in Sizes \ {0} PROVE Len(<<Token("size", n), Token("data", n), Token("crlf", "")>>) = 3
    OBVIOUS
  <2> QED
    BY <1>0, <1>1, <2>1
<1>3. Chunks(b) = FlattenSeq(ss)
  BY DEF Chunks
<1>4. ASSUME NEW n \in Sizes \ {0} PROVE Chunks(Append(b, n)) = Chunks(b) \o ChunkTokens(n)
  <2> DEFINE tt == [i \in 1 .. Len(Append(b, n)) |-> ChunkTokens(Append(b, n)[i])]
  <2>1. Len(Append(b, n)) = Len(b) + 1 /\ \A i \in 1 .. Len(b) + 1 : Append(b, n)[i] = IF i = Len(b) + 1 THEN n ELSE b[i]
    BY <1>0
  <2>2. ChunkTokens(n) \in Seq(Tokens)
    BY ChunkFacts
  <2>3. tt = Append(ss, ChunkTokens(n))
    <3>1. /\ \A i \in 1 .. Len(b) + 1 : tt[i] = IF i = Len(b) + 1 THEN ChunkTokens(n) ELSE ss[i]
          /\ tt \in [1 .. Len(b) + 1 -> Seq(Tokens)]
      <4>1. \A i \in 1 .. Len(b) + 1 : i # Len(b) + 1 => i \in 1 .. Len(b)
        BY <1>0
      <4>2. \A i \in 1 .. Len(b) + 1 : tt[i] = IF i = Len(b) + 1 THEN ChunkTokens(n) ELSE ss[i]
        BY <2>1, <4>1
      <4>3. \A i \in 1 .. Len(b) : ss[i] \in Seq(Tokens)
        BY <1>0, ChunkFacts
      <4>4. tt \in [1 .. Len(b) + 1 -> Seq(Tokens)]
        <5>1. \A i \in 1 .. Len(b) + 1 : tt[i] \in Seq(Tokens)
          BY <2>2, <4>1, <4>2, <4>3
        <5> QED
          BY <2>1, <5>1
      <4> QED
        BY <4>2, <4>4
    <3> HIDE DEF ss, tt
    <3>2. tt \in Seq(Seq(Tokens)) /\ Len(tt) = Len(b) + 1
      BY <1>0, <3>1
    <3>3. /\ Append(ss, ChunkTokens(n)) \in Seq(Seq(Tokens)) /\ Len(Append(ss, ChunkTokens(n))) = Len(b) + 1
          /\ \A i \in 1 .. Len(b) + 1 : Append(ss, ChunkTokens(n))[i] = IF i = Len(b) + 1 THEN ChunkTokens(n) ELSE ss[i]
      <4>1. ss \in Seq(Seq(Tokens)) /\ Len(ss) = Len(b)
        BY <1>1
      <4> QED
        BY <1>0, <2>2, <4>1
    <3> QED
      BY <3>1, <3>2, <3>3, SeqEqual
  <2>4. Chunks(Append(b, n)) = FlattenSeq(tt)
    BY DEF Chunks
  <2> HIDE DEF ss, tt
  <2> QED
    BY <1>1, <1>3, <2>2, <2>3, <2>4, FlattenAppended
<1> HIDE DEF ss
<1>5. /\ FlattenSeq(ss) \in Seq(Tokens) /\ Len(FlattenSeq(ss)) = 3 * Len(ss)
      /\ \A i \in 1 .. Len(ss), j \in 1 .. 3 : FlattenSeq(ss)[3 * (i - 1) + j] = ss[i][j]
  <2>1. 3 \in {3, 4} /\ ss \in Seq(Seq(Tokens))
    BY <1>1
  <2> QED
    BY <1>2, <2>1, FlattenEven
<1>6. ASSUME NEW i \in 1 .. Len(b)
      PROVE  /\ Chunks(b)[3 * i - 2] = Token("size", b[i])
             /\ Chunks(b)[3 * i - 1] = Token("data", b[i])
             /\ Chunks(b)[3 * i] = Token("crlf", "")
  <2>1. i \in Int /\ 3 * (i - 1) + 1 = 3 * i - 2 /\ 3 * (i - 1) + 2 = 3 * i - 1 /\ 3 * (i - 1) + 3 = 3 * i
    BY <1>0
  <2>2. ss[i][1] = Token("size", b[i]) /\ ss[i][2] = Token("data", b[i]) /\ ss[i][3] = Token("crlf", "")
    <3>1. ss[i] = <<Token("size", b[i]), Token("data", b[i]), Token("crlf", "")>>
      BY <1>0, <1>1
    <3> DEFINE x == Token("size", b[i])
               y == Token("data", b[i])
               z == Token("crlf", "")
    <3>2. ss[i] = <<x, y, z>>
      BY <3>1
    <3> HIDE DEF x, y, z
    <3>3. ss[i][1] = x /\ ss[i][2] = y /\ ss[i][3] = z
      BY <3>2
    <3> QED
      BY <3>3 DEF x, y, z
  <2>3. /\ FlattenSeq(ss)[3 * (i - 1) + 1] = ss[i][1] /\ FlattenSeq(ss)[3 * (i - 1) + 2] = ss[i][2]
        /\ FlattenSeq(ss)[3 * (i - 1) + 3] = ss[i][3]
    <3>1. i \in 1 .. Len(ss)
      BY <1>1
    <3> QED
      BY <1>5, <3>1
  <2> QED
    BY <1>3, <2>1, <2>2, <2>3
<1> QED
  BY <1>1, <1>3, <1>4, <1>5, <1>6

HeadLength(m) == 4 * m + 2

(* s begins with the head of w, which has m headers. *)
Begins(s, w, length, m) ==
  /\ s \in Seq(Tokens) /\ Len(s) >= HeadLength(m)
  /\ s[1] = Token("head", <<w.status, w.type, length>>) /\ s[HeadLength(m)] = Token("crlf", "")
  /\ \A i \in 0 .. m - 1, j \in 1 .. 4 : s[4 * i + 1 + j] = HeaderTokens(w.hdrs[i + 1])[j]

(* The tokens of a head, each at its place. *)
LEMMA HeadFacts ==
  ASSUME NEW r, r.hdrs \in Seq(Values), r.status \in Texts, r.type \in Texts, NEW length \in Int
  PROVE  /\ Begins(HeadTokens(r, length), r, length, Len(r.hdrs))
         /\ Len(HeadTokens(r, length)) = HeadLength(Len(r.hdrs))
<1> SUFFICES ASSUME NEW hs \in Seq(Values), hs = r.hdrs
             PROVE  /\ Begins(HeadTokens(r, length), r, length, Len(hs))
                    /\ Len(HeadTokens(r, length)) = HeadLength(Len(hs))
  OBVIOUS
<1> DEFINE m == Len(hs)
<1> DEFINE ss == [i \in 1 .. Len(hs) |-> HeaderTokens(hs[i])]
           first == <<Token("head", <<r.status, r.type, length>>)>>
           last == <<Token("crlf", "")>>
<1>0. m \in Nat /\ \A i \in 1 .. m : hs[i] \in Texts
  <2>1. Values \subseteq Texts
    BY DEF Texts
  <2>2. m \in Nat /\ \A i \in 1 .. m : hs[i] \in Values
    OBVIOUS
  <2> QED
    BY <2>1, <2>2
<1>1. /\ ss \in Seq(Seq(Tokens)) /\ Len(ss) = m
      /\ \A i \in 1 .. m : ss[i] = HeaderTokens(hs[i]) /\ Len(ss[i]) = 4
  <2>1. \A i \in 1 .. m : HeaderTokens(hs[i]) \in Seq(Tokens) /\ Len(HeaderTokens(hs[i])) = 4
    BY <1>0, TokenFacts
  <2> QED
    BY <1>0, <2>1
<1>2. first \in Seq(Tokens) /\ last \in Seq(Tokens) /\ Len(first) = 1 /\ Len(last) = 1
  <2>1. Token("head", <<r.status, r.type, length>>) \in Tokens /\ Token("crlf", "") \in Tokens
    BY TokenFacts DEF Kinds
  <2> QED
    BY <2>1, TupleFacts
<1>3. HeadTokens(r, length) = first \o FlattenSeq(ss) \o last
  BY DEF HeadTokens
<1>4. first[1] = Token("head", <<r.status, r.type, length>>) /\ last[1] = Token("crlf", "")
  OBVIOUS
<1> HIDE DEF ss, first, last
<1> DEFINE f == FlattenSeq(ss)
           g == first \o f
<1>5. /\ f \in Seq(Tokens) /\ Len(f) = 4 * m
      /\ \A i \in 1 .. m, j \in 1 .. 4 : f[4 * (i - 1) + j] = ss[i][j]
  <2>1. \A i \in 1 .. Len(ss) : Len(ss[i]) = 4
    BY <1>1
  <2>2. ss \in Seq(Seq(Tokens)) /\ 4 \in {3, 4}
    BY <1>1
  <2>3. /\ f \in Seq(Tokens) /\ Len(f) = 4 * Len(ss)
        /\ \A i \in 1 .. Len(ss), j \in 1 .. 4 : f[4 * (i - 1) + j] = ss[i][j]
    BY <2>1, <2>2, FlattenEven
  <2> QED
    BY <1>1, <2>3
<1> HIDE DEF f
<1>6. /\ g \in Seq(Tokens) /\ Len(g) = 1 + 4 * m
      /\ \A i \in 1 .. 1 + 4 * m : g[i] = IF i <= 1 THEN first[i] ELSE f[i - 1]
  <2>1. /\ g \in Seq(Tokens) /\ Len(g) = Len(first) + Len(f)
        /\ \A i \in 1 .. Len(first) + Len(f) : g[i] = IF i <= Len(first) THEN first[i] ELSE f[i - Len(first)]
    BY <1>2, <1>5, ConcatProperties
  <2> HIDE DEF g
  <2>2. Len(first) = 1 /\ Len(f) = 4 * m
    BY <1>2, <1>5
  <2> QED
    BY <2>1, <2>2
<1>7. HeadTokens(r, length) = g \o last
  BY <1>3 DEF f
<1> DEFINE h == g \o last
<1> HIDE DEF g
<1>8. /\ h \in Seq(Tokens) /\ Len(h) = 1 + 4 * m + 1
      /\ \A i \in 1 .. 1 + 4 * m + 1 : h[i] = IF i <= 1 + 4 * m THEN g[i] ELSE last[i - (1 + 4 * m)]
  <2>1. /\ h \in Seq(Tokens) /\ Len(h) = Len(g) + Len(last)
        /\ \A i \in 1 .. Len(g) + Len(last) : h[i] = IF i <= Len(g) THEN g[i] ELSE last[i - Len(g)]
    BY <1>2, <1>6, ConcatProperties
  <2> HIDE DEF h
  <2>2. Len(last) = 1 /\ Len(g) = 1 + 4 * m
    BY <1>2, <1>6
  <2> QED
    BY <2>1, <2>2
<1> HIDE DEF h
<1>9. h[1] = first[1] /\ h[4 * m + 2] = last[1] /\ Len(h) = 4 * m + 2
  <2>1. 1 \in 1 .. 1 + 4 * m /\ 1 \in 1 .. 1 + 4 * m + 1 /\ 4 * m + 2 \in 1 .. 1 + 4 * m + 1
        /\ ~(4 * m + 2 <= 1 + 4 * m) /\ (4 * m + 2) - (1 + 4 * m) = 1 /\ 1 + 4 * m + 1 = 4 * m + 2
    BY <1>0
  <2>2. h[1] = g[1] /\ g[1] = first[1]
    <3>1. h[1] = g[1]
      <4>1. h[1] = IF 1 <= 1 + 4 * m THEN g[1] ELSE last[1 - (1 + 4 * m)]
        BY <1>8, <2>1
      <4>2. 1 <= 1 + 4 * m
        BY <1>0
      <4> QED
        BY <4>1, <4>2
    <3>2. g[1] = first[1]
      BY <1>6, <2>1
    <3> QED
      BY <3>1, <3>2
  <2>3. h[4 * m + 2] = last[1]
    BY <1>8, <2>1
  <2> QED
    BY <1>8, <2>1, <2>2, <2>3
<1>10. ASSUME NEW i \in 0 .. m - 1, NEW j \in 1 .. 4 PROVE h[4 * i + 1 + j] = HeaderTokens(hs[i + 1])[j]
  <2>1. /\ 4 * i + 1 + j \in 2 .. 1 + 4 * m /\ (4 * i + 1 + j) - 1 = 4 * ((i + 1) - 1) + j
        /\ i + 1 \in 1 .. m
    BY <1>0
  <2>2. h[4 * i + 1 + j] = f[4 * ((i + 1) - 1) + j]
    <3> DEFINE p == 4 * i + 1 + j
    <3>1. p \in 1 .. 1 + 4 * m /\ p \in 1 .. 1 + 4 * m + 1 /\ p <= 1 + 4 * m /\ ~(p <= 1)
      BY <1>0, <2>1
    <3>2. p - 1 = 4 * ((i + 1) - 1) + j
      BY <2>1
    <3> HIDE DEF p
    <3>3. h[p] = g[p] /\ g[p] = f[p - 1]
      BY <1>6, <1>8, <3>1
    <3> QED
      BY <3>2, <3>3 DEF p
  <2> QED
    BY <1>1, <1>5, <2>1, <2>2
<1> QED
  <2>1. HeadTokens(r, length) = h
    BY <1>7 DEF h
  <2>2. HeadLength(m) = 4 * m + 2
    BY DEF HeadLength
  <2>3. \A i \in 0 .. m - 1, j \in 1 .. 4 : h[4 * i + 1 + j] = HeaderTokens(r.hdrs[i + 1])[j]
    BY <1>10
  <2>4. h \in Seq(Tokens) /\ Len(h) >= 4 * m + 2
    BY <1>0, <1>8, <1>9
  <2>5. Begins(h, r, length, m)
    BY <1>4, <1>9, <2>2, <2>3, <2>4 DEF Begins
  <2> QED
    BY <1>9, <2>1, <2>2, <2>5

-----------------------------------------------------------------------------
(* What a client reads of what was sent. *)

Cut == Token("cut", "")

WishSet == [status : Texts, type : Texts, hdrs : Seq(Values), body : Seq(Sizes \ {0}), ended : BOOLEAN]

(* All that the handler wants to be sent, the head with this length. *)
Intent(w, length) ==
  IF length = -1
    THEN HeadTokens(w, -1) \o Chunks(w.body) \o (IF w.ended THEN ChunkTokens(0) ELSE <<>>)
    ELSE HeadTokens(w, length) \o BodyTokens(length)

(* s is t up to some point, where it may be cut. *)
PartOf(s, t) ==
  Len(s) <= Len(t) /\ \A i \in 1 .. Len(s) : s[i] = t[i] \/ (i = Len(s) /\ s[i] = Cut)

LEMMA TokenIs ==
  /\ \A k, v : Token(k, v)[1] = k /\ Token(k, v)[2] = v
  /\ \A v : /\ HeaderTokens(v)[1] = Token("field", v) /\ HeaderTokens(v)[2] = Token("colon", "")
            /\ HeaderTokens(v)[3] = Token("value", v) /\ HeaderTokens(v)[4] = Token("crlf", "")
  /\ Cut[1] = "cut"
<1>1. \A k, v : Token(k, v)[1] = k /\ Token(k, v)[2] = v
  BY DEF Token
<1>2. \A a, b, c, d : /\ <<a, b, c, d>>[1] = a /\ <<a, b, c, d>>[2] = b
                      /\ <<a, b, c, d>>[3] = c /\ <<a, b, c, d>>[4] = d
  OBVIOUS
<1>3. \A v : HeaderTokens(v) = <<Token("field", v), Token("colon", ""), Token("value", v), Token("crlf", "")>>
  BY DEF HeaderTokens
<1> QED
  BY <1>1, <1>2, <1>3 DEF Cut

(* A part of a sequence. *)
LEMMA SubAt ==
  ASSUME NEW S, NEW s \in Seq(S), NEW a \in Nat \ {0}, NEW b \in Nat, a <= b + 1, b <= Len(s)
  PROVE  /\ SubSeq(s, a, b) \in Seq(S) /\ Len(SubSeq(s, a, b)) = b - a + 1
         /\ \A j \in 1 .. b - a + 1 : SubSeq(s, a, b)[j] = s[a + j - 1]
<1>1. \A i \in a .. b : s[i] \in S
  OBVIOUS
<1> QED
  BY <1>1, SubSeqProperties

LEMMA WishFacts ==
  ASSUME NEW w \in WishSet, NEW length \in Int
  PROVE  /\ Begins(HeadTokens(w, length), w, length, Len(w.hdrs))
         /\ Len(HeadTokens(w, length)) = HeadLength(Len(w.hdrs))
<1>1. w.hdrs \in Seq(Values) /\ w.status \in Texts /\ w.type \in Texts
  BY DEF WishSet
<1> QED
  BY <1>1, HeadFacts

(* After p tokens, t has the k chunks that w asked for, and the last one. *)
Chunked(t, w, p, k) ==
  /\ Len(t) = p + 3 * k + IF w.ended THEN 2 ELSE 0
  /\ \A i \in 1 .. k : /\ t[p + 3 * i - 2] = Token("size", w.body[i])
                       /\ t[p + 3 * i - 1] = Token("data", w.body[i])
                       /\ t[p + 3 * i] = Token("crlf", "")
  /\ w.ended => t[p + 3 * k + 1] = Token("size", 0) /\ t[p + 3 * k + 2] = Token("crlf", "")

(* All that the handler wants to be sent, token by token. *)
LEMMA IntentFacts ==
  ASSUME NEW w \in WishSet, NEW length \in Sizes \cup {-1}, NEW t, t = Intent(w, length),
         NEW m, m = Len(w.hdrs), NEW k, k = Len(w.body), NEW p, p = HeadLength(m)
  PROVE  /\ m \in Nat /\ k \in Nat /\ p \in Nat /\ Begins(t, w, length, m)
         /\ length = -1 => Chunked(t, w, p, k)
         /\ length # -1 =>
              /\ Len(t) = p + Len(BodyTokens(length))
              /\ \A i \in 1 .. Len(BodyTokens(length)) : t[p + i] = BodyTokens(length)[i]
<1> DEFINE h == HeadTokens(w, length)
           b == w.body
<1>1. w.hdrs \in Seq(Values) /\ b \in Seq(Sizes \ {0}) /\ w.ended \in BOOLEAN
  BY DEF WishSet
<1>2. m \in Nat /\ k \in Nat /\ length \in Int
  BY <1>1, RespConstants
<1>p. p \in Nat /\ p >= 2 /\ p = 4 * m + 2
  BY <1>2 DEF HeadLength
<1>h. h = HeadTokens(w, length) /\ b = w.body /\ k = Len(b)
  OBVIOUS
<1>3. Begins(h, w, length, m) /\ Len(h) = p
  BY <1>2, WishFacts
<1>a. h \in Seq(Tokens)
  BY <1>3 DEF Begins
<1> HIDE DEF h, b
<1>4. ASSUME NEW u \in Seq(Tokens), t = h \o u
      PROVE  /\ t \in Seq(Tokens) /\ Len(t) = p + Len(u) /\ Len(u) \in Nat
             /\ \A i \in 1 .. p : t[i] = h[i]
             /\ \A i \in 1 .. Len(u) : t[p + i] = u[i]
  <2>1. /\ t \in Seq(Tokens) /\ Len(t) = Len(h) + Len(u)
        /\ \A i \in 1 .. Len(h) + Len(u) : t[i] = IF i <= Len(h) THEN h[i] ELSE u[i - Len(h)]
    BY <1>a, <1>4, ConcatProperties
  <2>2. Len(u) \in Nat /\ Len(h) = p
    BY <1>3, <1>4
  <2>3. \A i \in 1 .. p : t[i] = h[i]
    BY <1>p, <2>1, <2>2
  <2>4. ASSUME NEW i \in 1 .. Len(u) PROVE t[p + i] = u[i]
    <3>1. p + i \in 1 .. p + Len(u) /\ ~(p + i <= p) /\ (p + i) - p = i
      BY <1>p, <2>2
    <3> QED
      BY <2>1, <2>2, <3>1
  <2> QED
    BY <2>1, <2>2, <2>3, <2>4
<1>5. ASSUME NEW u \in Seq(Tokens), t = h \o u PROVE Begins(t, w, length, m)
  <2>1. 1 \in 1 .. p /\ p \in 1 .. p
    BY <1>p
  <2>2. \A i \in 0 .. m - 1, j \in 1 .. 4 : 4 * i + 1 + j \in 1 .. p
    BY <1>2, <1>p
  <2>3. t \in Seq(Tokens) /\ Len(t) = p + Len(u) /\ Len(u) \in Nat /\ \A i \in 1 .. p : t[i] = h[i]
    BY <1>4, <1>5
  <2>4. Len(t) >= p
    BY <1>p, <2>3
  <2>5. t[1] = h[1] /\ t[p] = h[p] /\ \A i \in 0 .. m - 1, j \in 1 .. 4 : t[4 * i + 1 + j] = h[4 * i + 1 + j]
    BY <2>1, <2>2, <2>3
  <2> QED
    BY <1>3, <2>3, <2>4, <2>5 DEF Begins
<1>6. CASE length # -1
  <2>1. t = h \o BodyTokens(length)
    BY <1>6, <1>h DEF Intent
  <2>2. BodyTokens(length) \in Seq(Tokens)
    BY <1>6, ChunkFacts
  <2> QED
    BY <1>2, <1>4, <1>5, <1>6, <1>p, <2>1, <2>2
<1>7. CASE length = -1
  <2> DEFINE c == Chunks(b)
             e == IF w.ended THEN ChunkTokens(0) ELSE <<>>
             u == c \o e
  <2>1. /\ c \in Seq(Tokens) /\ Len(c) = 3 * k
        /\ \A i \in 1 .. k : /\ c[3 * i - 2] = Token("size", b[i]) /\ c[3 * i - 1] = Token("data", b[i])
                             /\ c[3 * i] = Token("crlf", "")
    <3>1. b \in Seq(Sizes \ {0}) /\ k = Len(b)
      BY <1>1, <1>h
    <3> QED
      BY <3>1, ChunksFacts
  <2>2. /\ e \in Seq(Tokens) /\ Len(e) = IF w.ended THEN 2 ELSE 0
        /\ w.ended => e[1] = Token("size", 0) /\ e[2] = Token("crlf", "")
    <3>1. CASE w.ended
      <4>1. e = <<Token("size", 0), Token("crlf", "")>> /\ e \in Seq(Tokens)
        BY <3>1, ChunkFacts
      <4> HIDE DEF e
      <4>2. Len(e) = 2 /\ e[1] = Token("size", 0) /\ e[2] = Token("crlf", "")
        BY <4>1
      <4> QED
        BY <3>1, <4>1, <4>2
    <3>2. CASE ~w.ended
      BY <3>2, EmptySeq
    <3> QED
      BY <3>1, <3>2
  <2>3. t = (h \o c) \o e
    BY <1>7, <1>h DEF Intent
  <2> HIDE DEF c, e
  <2>4. t = h \o u /\ u \in Seq(Tokens)
    <3>1. (h \o c) \o e = h \o (c \o e)
      BY <1>a, <2>1, <2>2, Regrouped
    <3>2. c \o e \in Seq(Tokens)
      BY <2>1, <2>2, ConcatProperties
    <3> QED
      BY <2>3, <3>1, <3>2
  <2>5. /\ Len(u) = Len(c) + Len(e)
        /\ \A i \in 1 .. Len(c) + Len(e) : u[i] = IF i <= Len(c) THEN c[i] ELSE e[i - Len(c)]
    BY <2>1, <2>2, ConcatProperties
  <2> HIDE DEF u
  <2>6. /\ Len(t) = p + Len(u) /\ \A i \in 1 .. Len(u) : t[p + i] = u[i]
    BY <1>4, <2>4
  <2>7. Len(u) = 3 * k + (IF w.ended THEN 2 ELSE 0) /\ \A i \in 1 .. 3 * k : i \in 1 .. Len(u) /\ u[i] = c[i]
    <3>0. 3 * k \in Nat
      BY <1>2
    <3>1. 3 * k \in Nat /\ Len(c) = 3 * k /\ Len(e) = IF w.ended THEN 2 ELSE 0
      BY <3>0, <2>1, <2>2
    <3>2. Len(u) = 3 * k + (IF w.ended THEN 2 ELSE 0)
      BY <2>5, <3>1
    <3> DEFINE n == 3 * k
    <3>3. n \in Nat /\ Len(c) = n /\ Len(e) \in Nat /\ Len(u) = n + Len(e)
      BY <3>1, <3>2
    <3> HIDE DEF n
    <3>4. \A i \in 1 .. n : i \in 1 .. Len(u) /\ u[i] = c[i]
      BY <2>5, <3>3
    <3> QED
      BY <3>2, <3>4 DEF n
  <2>8. ASSUME NEW i \in 1 .. k
        PROVE  /\ t[p + 3 * i - 2] = Token("size", w.body[i])
               /\ t[p + 3 * i - 1] = Token("data", w.body[i])
               /\ t[p + 3 * i] = Token("crlf", "")
    <3>1. /\ 3 * i - 2 \in 1 .. 3 * k /\ 3 * i - 1 \in 1 .. 3 * k /\ 3 * i \in 1 .. 3 * k
          /\ p + (3 * i - 2) = p + 3 * i - 2 /\ p + (3 * i - 1) = p + 3 * i - 1
      BY <1>2
    <3>2. /\ t[p + (3 * i - 2)] = c[3 * i - 2] /\ t[p + (3 * i - 1)] = c[3 * i - 1]
          /\ t[p + 3 * i] = c[3 * i]
      BY <2>6, <2>7, <3>1
    <3> QED
      BY <1>h, <2>1, <3>1, <3>2
  <2>9. w.ended => /\ t[p + 3 * k + 1] = Token("size", 0) /\ t[p + 3 * k + 2] = Token("crlf", "")
    <3> SUFFICES ASSUME w.ended
                 PROVE  t[p + 3 * k + 1] = Token("size", 0) /\ t[p + 3 * k + 2] = Token("crlf", "")
      OBVIOUS
    <3>1. /\ 3 * k + 1 \in 1 .. Len(u) /\ 3 * k + 2 \in 1 .. Len(u) /\ p + (3 * k + 1) = p + 3 * k + 1
          /\ p + (3 * k + 2) = p + 3 * k + 2 /\ ~(3 * k + 1 <= 3 * k) /\ ~(3 * k + 2 <= 3 * k)
          /\ (3 * k + 1) - 3 * k = 1 /\ (3 * k + 2) - 3 * k = 2
      <4> DEFINE n == 3 * k
      <4>1. n \in Nat
        BY <1>2
      <4>2. Len(u) = n + 2
        BY <2>7
      <4> HIDE DEF n
      <4>3. /\ n + 1 \in 1 .. Len(u) /\ n + 2 \in 1 .. Len(u) /\ p + (n + 1) = p + n + 1 /\ p + (n + 2) = p + n + 2
            /\ ~(n + 1 <= n) /\ ~(n + 2 <= n) /\ (n + 1) - n = 1 /\ (n + 2) - n = 2
        <5>1. p \in Nat
          BY <1>p
        <5> QED
          BY <4>1, <4>2, <5>1
      <4> QED
        BY <4>3 DEF n
    <3>2. u[3 * k + 1] = e[1] /\ u[3 * k + 2] = e[2]
      <4> DEFINE n == 3 * k
      <4>1. Len(c) = n /\ Len(u) = Len(c) + Len(e)
        BY <2>1, <2>5
      <4>2. n + 1 \in 1 .. Len(u) /\ n + 2 \in 1 .. Len(u) /\ ~(n + 1 <= n) /\ ~(n + 2 <= n) /\ (n + 1) - n = 1 /\ (n + 2) - n = 2
        BY <3>1
      <4> HIDE DEF n
      <4>3. u[n + 1] = e[1] /\ u[n + 2] = e[2]
        BY <2>5, <4>1, <4>2
      <4> QED
        BY <4>3 DEF n
    <3>3. t[p + (3 * k + 1)] = u[3 * k + 1] /\ t[p + (3 * k + 2)] = u[3 * k + 2]
      BY <2>6, <3>1
    <3>4. e[1] = Token("size", 0) /\ e[2] = Token("crlf", "")
      BY <2>2
    <3>5. t[p + 3 * k + 1] = t[p + (3 * k + 1)] /\ t[p + 3 * k + 2] = t[p + (3 * k + 2)]
      <4>1. p \in Nat /\ k \in Nat
        BY <1>2, <1>p
      <4> QED
        BY <4>1, Shifted
    <3> QED
      BY <3>2, <3>3, <3>4, <3>5
  <2>10. Len(t) = p + 3 * k + IF w.ended THEN 2 ELSE 0
    <3> DEFINE d == IF w.ended THEN 2 ELSE 0
    <3>1. Len(u) = 3 * k + d /\ Len(t) = p + Len(u) /\ d \in Nat
      BY <2>6, <2>7
    <3>2. p \in Nat /\ 3 * k \in Nat
      BY <1>2, <1>p
    <3> HIDE DEF d
    <3>3. Len(t) = p + 3 * k + d
      BY <3>1, <3>2
    <3> QED
      BY <3>3 DEF d
  <2>11. Begins(t, w, length, m)
    BY <1>5, <2>4
  <2> QED
    BY <1>2, <1>p, <1>7, <2>8, <2>9, <2>10, <2>11 DEF Chunked
<1> QED
  BY <1>6, <1>7

(* A chunk, token by token. *)
LEMMA ChunkIs ==
  /\ \A n \in Sizes \ {0} : ChunkTokens(n)[1] = Token("size", n) /\ ChunkTokens(n)[2] = Token("data", n)
                            /\ ChunkTokens(n)[3] = Token("crlf", "") /\ Len(ChunkTokens(n)) = 3
  /\ ChunkTokens(0)[1] = Token("size", 0) /\ ChunkTokens(0)[2] = Token("crlf", "") /\ Len(ChunkTokens(0)) = 2
<1>1. ASSUME NEW n \in Sizes \ {0}
      PROVE  /\ ChunkTokens(n)[1] = Token("size", n) /\ ChunkTokens(n)[2] = Token("data", n)
             /\ ChunkTokens(n)[3] = Token("crlf", "") /\ Len(ChunkTokens(n)) = 3
  <2> DEFINE x == Token("size", n)
             y == Token("data", n)
             z == Token("crlf", "")
  <2>1. ChunkTokens(n) = <<x, y, z>>
    BY ChunkFacts
  <2> HIDE DEF x, y, z
  <2>2. /\ ChunkTokens(n)[1] = x /\ ChunkTokens(n)[2] = y
        /\ ChunkTokens(n)[3] = z /\ Len(ChunkTokens(n)) = 3
    BY <2>1
  <2> QED
    BY <2>2 DEF x, y, z
<1>2. ChunkTokens(0)[1] = Token("size", 0) /\ ChunkTokens(0)[2] = Token("crlf", "") /\ Len(ChunkTokens(0)) = 2
  <2> DEFINE x == Token("size", 0)
             y == Token("crlf", "")
  <2>1. ChunkTokens(0) = <<x, y>>
    BY ChunkFacts
  <2> HIDE DEF x, y
  <2>2. ChunkTokens(0)[1] = x /\ ChunkTokens(0)[2] = y /\ Len(ChunkTokens(0)) = 2
    BY <2>1
  <2> QED
    BY <2>2 DEF x, y
<1> QED
  BY <1>1, <1>2

(* What a client knows of a head it understands. *)
LEMMA HeadRead ==
  ASSUME NEW w \in Seq(Tokens), NEW n \in Nat, HeadOf(w, n)
  PROVE  /\ Len(w) \in Nat /\ Len(w) >= HeadLength(n)
         /\ w[1][1] = "head" /\ w[HeadLength(n)] = Token("crlf", "")
         /\ \A i \in 0 .. n - 1 : w[4 * i + 2][1] = "field"
<1>1. Len(w) \in Nat /\ Len(w) >= 4 * n + 2 /\ w[1][1] = "head" /\ w[4 * n + 2] = Token("crlf", "")
  <2>1. Len(w) >= 4 * n + 2
    BY DEF HeadOf
  <2>2. w[1][1] = "head"
    BY DEF HeadOf
  <2>3. w[4 * n + 2] = Token("crlf", "")
    BY DEF HeadOf
  <2>4. Len(w) \in Nat
    OBVIOUS
  <2> QED
    BY <2>1, <2>2, <2>3, <2>4
<1>2. ASSUME NEW i \in 0 .. n - 1 PROVE w[4 * i + 2][1] = "field"
  <2>1. PICK v \in Values : SubSeq(w, 4 * i + 2, 4 * i + 5) = HeaderTokens(v)
    BY DEF HeadOf
  <2> DEFINE a == 4 * i + 2
             b == 4 * i + 5
  <2>2. a \in Nat \ {0} /\ b \in Nat /\ a <= b + 1 /\ b <= Len(w) /\ 1 \in 1 .. b - a + 1 /\ a + 1 - 1 = a
    <3>1. i \in Nat /\ i + 1 <= n
      OBVIOUS
    <3>2. Len(w) \in Nat /\ Len(w) >= 4 * n + 2
      BY <1>1
    <3> QED
      BY <3>1, <3>2
  <2>3. SubSeq(w, a, b)[1] = Token("field", v)
    BY <2>1, TokenIs
  <2> HIDE DEF a, b
  <2>4. SubSeq(w, a, b)[1] = w[a + 1 - 1]
    BY <2>2, SubAt
  <2>5. w[a] = Token("field", v)
    BY <2>2, <2>3, <2>4
  <2> QED
    BY <2>5, TokenIs DEF a
<1> QED
  BY <1>1, <1>2 DEF HeadLength

(* What it knows of chunks it understands. *)
LEMMA ChunksRead ==
  ASSUME NEW w \in Seq(Tokens), NEW length \in Int, length < 0, WholeBody(length, w), NEW k, k = ChunksIn(w)
  PROVE  /\ k \in Nat /\ Len(w) = 3 * k + 2 /\ w[3 * k + 1] = Token("size", 0)
         /\ \A i \in 1 .. k : \E s \in Sizes \ {0} :
               w[3 * i - 2] = Token("size", s) /\ w[3 * i - 1] = Token("data", s)
<1>1. /\ Len(w) = 3 * k + 2 /\ SubSeq(w, 3 * k + 1, 3 * k + 2) = ChunkTokens(0)
      /\ \A i \in 1 .. k : \E s \in Sizes \ {0} : SubSeq(w, 3 * i - 2, 3 * i) = ChunkTokens(s)
  BY DEF WholeBody
<1>2. Len(w) \in Nat
  OBVIOUS
<1>3. k \in Int
  BY <1>2 DEF ChunksIn
<1>4. k \in Nat
  BY <1>1, <1>2, <1>3
<1>5. ASSUME NEW a \in Nat \ {0}, NEW b \in Nat, a < b, b <= Len(w)
      PROVE  SubSeq(w, a, b)[1] = w[a] /\ SubSeq(w, a, b)[2] = w[a + 1]
  <2>1. a <= b + 1 /\ 1 \in 1 .. b - a + 1 /\ 2 \in 1 .. b - a + 1 /\ a + 1 - 1 = a /\ a + 2 - 1 = a + 1
    BY <1>5
  <2>2. SubSeq(w, a, b)[1] = w[a + 1 - 1] /\ SubSeq(w, a, b)[2] = w[a + 2 - 1]
    BY <1>5, <2>1, SubAt
  <2> QED
    BY <2>1, <2>2
<1>6. w[3 * k + 1] = Token("size", 0)
  <2> DEFINE a == 3 * k + 1
             b == 3 * k + 2
  <2>1. a \in Nat \ {0} /\ b \in Nat /\ a < b /\ b <= Len(w)
    <3>1. Len(w) = b
      BY <1>1
    <3>2. a \in Nat \ {0} /\ b \in Nat /\ a < b
      BY <1>4
    <3> QED
      BY <1>2, <3>1, <3>2
  <2>2. SubSeq(w, a, b) = ChunkTokens(0)
    BY <1>1
  <2> HIDE DEF a, b
  <2>3. SubSeq(w, a, b)[1] = Token("size", 0)
    BY <2>2, ChunkIs
  <2>4. w[a] = Token("size", 0)
    BY <1>5, <2>1, <2>3
  <2> QED
    BY <2>4 DEF a
<1>7. ASSUME NEW i \in 1 .. k
      PROVE  \E s \in Sizes \ {0} : w[3 * i - 2] = Token("size", s) /\ w[3 * i - 1] = Token("data", s)
  <2> DEFINE a == 3 * i - 2
             b == 3 * i
  <2>1. a \in Nat \ {0} /\ b \in Nat /\ a < b /\ b <= Len(w) /\ a + 1 = 3 * i - 1
    BY <1>1, <1>4
  <2>2. PICK s \in Sizes \ {0} : SubSeq(w, a, b) = ChunkTokens(s)
    BY <1>1
  <2>e. a = 3 * i - 2
    OBVIOUS
  <2> HIDE DEF a, b
  <2>3. SubSeq(w, a, b)[1] = Token("size", s) /\ SubSeq(w, a, b)[2] = Token("data", s)
    BY <2>2, ChunkIs
  <2>4. w[a] = Token("size", s) /\ w[a + 1] = Token("data", s)
    BY <1>5, <2>1, <2>3
  <2> QED
    BY <2>1, <2>4, <2>e
<1> QED
  BY <1>1, <1>4, <1>6, <1>7

(* What follows the head. *)
LEMMA AfterFacts ==
  ASSUME NEW w \in Seq(Tokens), NEW n \in Nat, NEW p, p = HeadLength(n), p <= Len(w)
  PROVE  /\ p \in Nat /\ AfterHead(w, n) \in Seq(Tokens) /\ Len(AfterHead(w, n)) = Len(w) - p
         /\ \A i \in 1 .. Len(w) - p : AfterHead(w, n)[i] = w[p + i]
<1>1. p \in Nat /\ 4 * n + 3 = p + 1
  BY DEF HeadLength
<1>2. Len(w) \in Nat
  OBVIOUS
<1>3. AfterHead(w, n) = SubSeq(w, p + 1, Len(w))
  BY <1>1 DEF AfterHead
<1>4. p + 1 \in Nat \ {0} /\ p + 1 <= Len(w) + 1 /\ Len(w) - (p + 1) + 1 = Len(w) - p
  BY <1>1, <1>2
<1>5. /\ SubSeq(w, p + 1, Len(w)) \in Seq(Tokens) /\ Len(SubSeq(w, p + 1, Len(w))) = Len(w) - (p + 1) + 1
      /\ \A i \in 1 .. Len(w) - (p + 1) + 1 : SubSeq(w, p + 1, Len(w))[i] = w[p + 1 + i - 1]
  BY <1>2, <1>4, SubAt
<1>6. \A i \in 1 .. Len(w) - p : p + 1 + i - 1 = p + i
  BY <1>1, <1>2
<1> DEFINE a == SubSeq(w, p + 1, Len(w))
<1>7. a \in Seq(Tokens) /\ Len(a) = Len(w) - p
  BY <1>4, <1>5
<1>8. \A i \in 1 .. Len(w) - p : a[i] = w[p + i]
  BY <1>4, <1>5, <1>6
<1> HIDE DEF a
<1>9. AfterHead(w, n) = a
  BY <1>3 DEF a
<1> QED
  BY <1>1, <1>7, <1>8, <1>9

(* A client that understands the line reads what the handler said. *)
LEMMA ReadRight ==
  ASSUME wish \in WishSet, NEW length \in Sizes \cup {-1},
         length # -1 => wish.ended /\ wish.body = Piece(length),
         line \in Seq(Tokens), PartOf(line, Intent(wish, length)), NEW n \in Nat, Understood(line, n)
  PROVE  wish.ended /\ Says(line, n)
<1> DEFINE t == Intent(wish, length)
           m == Len(wish.hdrs)
           k == Len(wish.body)
           p == HeadLength(m)
           rest == AfterHead(line, n)
<1>i. t = Intent(wish, length) /\ m = Len(wish.hdrs) /\ k = Len(wish.body) /\ p = HeadLength(m)
  OBVIOUS
<1> HIDE DEF t, m, k, p
<1>e. wish \in WishSet /\ length \in Sizes \cup {-1}
  OBVIOUS
<1>b. m \in Nat /\ k \in Nat /\ p \in Nat /\ Begins(t, wish, length, m)
  BY <1>e, <1>i, IntentFacts
<1>c. length = -1 =>
        /\ Len(t) = p + 3 * k + IF wish.ended THEN 2 ELSE 0
        /\ \A i \in 1 .. k : /\ t[p + 3 * i - 2] = Token("size", wish.body[i])
                             /\ t[p + 3 * i - 1] = Token("data", wish.body[i])
                             /\ t[p + 3 * i] = Token("crlf", "")
        /\ wish.ended => t[p + 3 * k + 1] = Token("size", 0) /\ t[p + 3 * k + 2] = Token("crlf", "")
  <2>1. length = -1 => Chunked(t, wish, p, k)
    BY <1>e, <1>i, IntentFacts
  <2> QED
    BY <2>1 DEF Chunked
<1>h. wish.hdrs \in Seq(Values) /\ m = Len(wish.hdrs) /\ wish.body \in Seq(Sizes \ {0}) /\ k = Len(wish.body)
  BY <1>i DEF WishSet
<1>l. length \in Int /\ (length # -1 => length >= 0 /\ length \in Sizes)
  BY RespConstants
<1>t. PartOf(line, t)
  BY <1>i
<1>p. p = 4 * m + 2
  BY <1>i DEF HeadLength
<1>n. m \in Nat /\ k \in Nat /\ p \in Nat
  BY <1>b
<1>2. HeadOf(line, n) /\ WholeBody(line[1][2][3], rest)
  BY DEF Understood
<1>3. /\ Len(line) \in Nat /\ Len(line) >= HeadLength(n)
      /\ line[1][1] = "head" /\ line[HeadLength(n)] = Token("crlf", "")
      /\ \A i \in 0 .. n - 1 : line[4 * i + 2][1] = "field"
  BY <1>2, HeadRead
<1>g. Len(line) \in Nat /\ Len(line) >= 4 * n + 2
  BY <1>3 DEF HeadLength
<1>4. \A i \in 1 .. Len(line) : line[i][1] # "cut" => line[i] = t[i]
  BY <1>t, TokenIs DEF PartOf
<1>5. \A i \in 0 .. m - 1 : t[4 * i + 2] = Token("field", wish.hdrs[i + 1])
  <2>1. ASSUME NEW i \in 0 .. m - 1 PROVE t[4 * i + 2] = Token("field", wish.hdrs[i + 1])
    <3>1. t[4 * i + 1 + 1] = HeaderTokens(wish.hdrs[i + 1])[1]
      <4>1. 1 \in 1 .. 4 /\ i \in 0 .. m - 1
        OBVIOUS
      <4>2. \A ii \in 0 .. m - 1, j \in 1 .. 4 : t[4 * ii + 1 + j] = HeaderTokens(wish.hdrs[ii + 1])[j]
        BY <1>b DEF Begins
      <4> QED
        BY <4>1, <4>2
    <3>2. 4 * i + 1 + 1 = 4 * i + 2
      BY <1>n
    <3> QED
      BY <3>1, <3>2, TokenIs
  <2> QED
    BY <2>1
<1>6. n = m
  <2>1. CASE n < m
    <3> DEFINE q == 4 * n + 2
    <3>1. n \in 0 .. m - 1 /\ q \in 1 .. Len(line) /\ line[q] = Token("crlf", "")
      <4>1. n \in 0 .. m - 1 /\ q \in 1 .. Len(line)
        BY <1>n, <1>g, <2>1
      <4>2. line[q] = Token("crlf", "")
        BY <1>3 DEF HeadLength
      <4> QED
        BY <4>1, <4>2
    <3>2. t[q] = Token("field", wish.hdrs[n + 1])
      BY <1>5, <3>1
    <3> HIDE DEF q
    <3>3. line[q][1] = "crlf"
      <4>1. Token("crlf", "")[1] = "crlf"
        BY TokenParts
      <4> QED
        BY <3>1, <4>1
    <3>4. line[q] = t[q]
      BY <1>4, <3>1, <3>3
    <3> DEFINE v == wish.hdrs[n + 1]
    <3>5. Token("field", v)[1] = "field"
      BY TokenParts
    <3> QED
      BY <3>2, <3>3, <3>4, <3>5
  <2>2. CASE n > m
    <3>1. m \in 0 .. n - 1 /\ p \in 1 .. Len(line)
      BY <1>n, <1>g, <1>p, <2>2
    <3>2. line[p][1] = "field" /\ t[p] = Token("crlf", "")
      <4>1. line[4 * m + 2][1] = "field"
        BY <1>3, <3>1
      <4>2. t[HeadLength(m)] = Token("crlf", "")
        BY <1>b DEF Begins
      <4> QED
        BY <1>i, <1>p, <4>1, <4>2
    <3>3. line[p] = t[p]
      BY <1>4, <3>1, <3>2
    <3>4. Token("crlf", "")[1] = "crlf"
      BY TokenParts
    <3> QED
      BY <3>2, <3>3, <3>4
  <2> QED
    BY <1>n, <2>1, <2>2
<1>7. line[1][2] = <<wish.status, wish.type, length>>
  <2>1. 1 \in 1 .. Len(line)
    BY <1>g
  <2>2. line[1] = t[1]
    BY <1>3, <1>4, <2>1
  <2>3. t[1] = Token("head", <<wish.status, wish.type, length>>)
    BY <1>b DEF Begins
  <2> QED
    BY <2>2, <2>3 DEF Token
<1>8. line[1][2][1] = wish.status /\ line[1][2][2] = wish.type /\ line[1][2][3] = length
  BY <1>7
<1>9. HdrsOf(line, n) = wish.hdrs
  <2>1. ASSUME NEW i \in 1 .. m PROVE line[4 * i - 2][2] = wish.hdrs[i]
    <3> DEFINE j == i - 1
               q == 4 * i - 2
    <3>1. j \in 0 .. n - 1 /\ j \in 0 .. m - 1 /\ 4 * j + 2 = q /\ j + 1 = i /\ q \in 1 .. Len(line)
      <4>1. Len(line) >= 4 * m + 2
        BY <1>3, <1>6 DEF HeadLength
      <4> QED
        BY <1>n, <1>g, <1>6, <4>1
    <3>2. line[q][1] = "field" /\ t[q] = Token("field", wish.hdrs[i])
      BY <1>3, <1>5, <3>1
    <3> HIDE DEF q
    <3>3. line[q] = t[q]
      BY <1>4, <3>1, <3>2
    <3>4. line[q][2] = wish.hdrs[i]
      BY <3>2, <3>3 DEF Token
    <3> QED
      BY <3>4 DEF q
  <2>2. wish.hdrs = [i \in 1 .. m |-> wish.hdrs[i]]
    BY <1>h
  <2> QED
    BY <1>6, <2>1, <2>2 DEF HdrsOf
<1>10. rest \in Seq(Tokens) /\ Len(rest) = Len(line) - p /\ \A i \in 1 .. Len(rest) : rest[i] = line[p + i]
  <2>1. p = HeadLength(n) /\ p <= Len(line)
    BY <1>3, <1>6, <1>i
  <2> QED
    BY <2>1, AfterFacts
<1>11. WholeBody(length, rest)
  BY <1>2, <1>8
<1> HIDE DEF rest
<1>12. CASE length # -1
  <2>1. rest = BodyTokens(length) /\ length >= 0 /\ length \in Int
    BY <1>11, <1>12, <1>l DEF WholeBody
  <2>2. BodyOf(length, rest) = [i \in 1 .. Len(rest) |-> rest[i][2]]
    BY <2>1 DEF BodyOf
  <2>3. CASE length = 0
    <3>1. rest = <<>>
      BY <2>1, <2>3 DEF BodyTokens
    <3> QED
      BY <1>12, <2>2, <2>3, <3>1, <1>6, <1>8, <1>9 DEF Piece, Says, rest
  <2>4. CASE length # 0
    <3>1. rest = <<Token("data", length)>>
      BY <2>1, <2>4 DEF BodyTokens
    <3>2. Len(rest) = 1 /\ rest[1][2] = length
      <4> DEFINE x == Token("data", length)
      <4>1. x[2] = length
        BY TokenIs
      <4>2. rest = <<x>>
        BY <3>1
      <4> HIDE DEF x
      <4> QED
        BY <4>1, <4>2
    <3>3. BodyOf(length, rest) = <<length>>
      BY <2>2, <3>2
    <3> QED
      BY <1>12, <2>4, <3>3, <1>6, <1>8, <1>9 DEF Piece, Says, rest
  <2> QED
    BY <2>3, <2>4
<1>13. CASE length = -1
  <2> DEFINE l == ChunksIn(rest)
  <2>0. rest \in Seq(Tokens) /\ length \in Int /\ length < 0 /\ WholeBody(length, rest)
    BY <1>10, <1>11, <1>13
  <2>1. /\ l \in Nat /\ Len(rest) = 3 * l + 2 /\ rest[3 * l + 1] = Token("size", 0)
        /\ \A i \in 1 .. l : \E s \in Sizes \ {0} :
              rest[3 * i - 2] = Token("size", s) /\ rest[3 * i - 1] = Token("data", s)
    BY <2>0, ChunksRead
  <2>r. Len(rest) = Len(line) - p /\ Len(rest) \in Nat
    BY <1>10
  <2>b. \A i \in 1 .. k : wish.body[i] \in Sizes \ {0}
    BY <1>h
  <2>2. \A i \in 1 .. Len(rest) : rest[i][1] # "cut" => rest[i] = t[p + i]
    <3>1. ASSUME NEW i \in 1 .. Len(rest), rest[i][1] # "cut" PROVE rest[i] = t[p + i]
      <4>1. p + i \in 1 .. Len(line)
        BY <1>n, <1>g, <2>r
      <4> QED
        BY <1>4, <1>10, <3>1, <4>1
    <3> QED
      BY <3>1
  <2>3. Len(rest) <= 3 * k + IF wish.ended THEN 2 ELSE 0
    <3> DEFINE d == IF wish.ended THEN 2 ELSE 0
    <3>1. Len(line) <= Len(t) /\ Len(t) = p + 3 * k + d /\ d \in Nat
      BY <1>c, <1>13, <1>t DEF PartOf
    <3> HIDE DEF d
    <3>2. Len(rest) <= 3 * k + d
      BY <1>n, <1>g, <2>r, <3>1
    <3> QED
      BY <3>2 DEF d
  <2> HIDE DEF l
  <2>i. l \in Nat /\ Len(rest) = 3 * l + 2
    BY <2>1
  <2>4. ~(l < k)
    <3> SUFFICES ASSUME l < k PROVE FALSE
      OBVIOUS
    <3> DEFINE i == l + 1
               q == 3 * l + 1
    <3>1. i \in 1 .. k /\ q \in 1 .. Len(rest) /\ p + 3 * i - 2 = p + q
      BY <1>n, <2>i
    <3>2. t[p + q] = Token("size", wish.body[i]) /\ rest[q] = Token("size", 0) /\ wish.body[i] # 0
      BY <1>c, <1>13, <2>1, <2>b, <3>1
    <3> HIDE DEF i, q
    <3>3. rest[q] = t[p + q]
      BY <2>2, <3>1, <3>2 DEF Token
    <3> QED
      BY <3>2, <3>3 DEF Token
  <2>5. ~(k < l)
    <3> SUFFICES ASSUME k < l PROVE FALSE
      OBVIOUS
    <3> DEFINE q == 3 * k + 1
    <3>1. k + 1 \in 1 .. l /\ 3 * (k + 1) - 2 = q /\ q \in 1 .. Len(rest)
      BY <1>n, <2>i
    <3>2. PICK s \in Sizes \ {0} : rest[q] = Token("size", s)
      BY <2>1, <3>1
    <3>3. CASE ~wish.ended
      <4>1. Len(rest) <= 3 * k
        BY <1>n, <2>3, <3>3
      <4> QED
        BY <1>n, <2>i, <3>1, <4>1
    <3>4. CASE wish.ended
      <4>1. t[p + 3 * k + 1] = Token("size", 0) /\ p + 3 * k + 1 = p + q
        <5>1. p + 3 * k + 1 = p + q
          BY <1>n
        <5> QED
          BY <1>c, <1>13, <3>4, <5>1
      <4> HIDE DEF q
      <4>2. rest[q] = t[p + q]
        BY <2>2, <3>1, <3>2 DEF Token
      <4> QED
        BY <3>2, <4>1, <4>2 DEF Token
    <3> QED
      BY <3>3, <3>4
  <2>6. l = k
    BY <1>n, <2>i, <2>4, <2>5
  <2>7. wish.ended
    <3> SUFFICES ASSUME ~wish.ended PROVE FALSE
      OBVIOUS
    <3>1. Len(rest) <= 3 * k /\ Len(rest) = 3 * k + 2
      BY <1>n, <2>i, <2>3, <2>6
    <3> QED
      BY <1>n, <3>1
  <2>8. ASSUME NEW i \in 1 .. k PROVE rest[3 * i - 1][2] = wish.body[i]
    <3> DEFINE q == 3 * i - 1
    <3>1. q \in 1 .. Len(rest) /\ p + 3 * i - 1 = p + q
      BY <1>n, <2>i, <2>6
    <3>2. PICK s \in Sizes \ {0} : rest[q] = Token("data", s)
      BY <2>1, <2>6
    <3>3. t[p + q] = Token("data", wish.body[i])
      BY <1>c, <1>13, <3>1
    <3> HIDE DEF q
    <3>4. rest[q] = t[p + q]
      BY <2>2, <3>1, <3>2 DEF Token
    <3>5. rest[q][2] = wish.body[i]
      BY <3>3, <3>4 DEF Token
    <3> QED
      BY <3>5 DEF q
  <2>9. BodyOf(length, rest) = wish.body
    <3>1. BodyOf(length, rest) = [i \in 1 .. k |-> rest[3 * i - 1][2]]
      BY <1>13, <2>6 DEF BodyOf, l
    <3>2. wish.body = [i \in 1 .. k |-> wish.body[i]]
      BY <1>h
    <3> QED
      BY <2>8, <3>1, <3>2
  <2> QED
    BY <1>6, <1>8, <1>9, <2>7, <2>9 DEF Says, rest
<1> QED
  BY <1>12, <1>13

(* A sequence found in another one. *)
LEMMA SameAt ==
  ASSUME NEW S, NEW s \in Seq(S), NEW a \in Nat \ {0}, NEW b \in Nat, a <= b + 1, b <= Len(s),
         NEW u \in Seq(S), Len(u) = b - a + 1, \A j \in 1 .. Len(u) : s[a + j - 1] = u[j]
  PROVE  SubSeq(s, a, b) = u
<1>1. /\ SubSeq(s, a, b) \in Seq(S) /\ Len(SubSeq(s, a, b)) = b - a + 1
      /\ \A j \in 1 .. b - a + 1 : SubSeq(s, a, b)[j] = s[a + j - 1]
  BY SubAt
<1> DEFINE x == SubSeq(s, a, b)
<1>2. x \in Seq(S) /\ Len(x) = Len(u) /\ \A j \in 1 .. Len(u) : x[j] = u[j]
  BY <1>1
<1> HIDE DEF x
<1>3. x = u
  BY <1>2, SeqEqual
<1> QED
  BY <1>3 DEF x

(* A client understands all that the handler wanted to be sent, once that is the end of it. *)
LEMMA WholeRead ==
  ASSUME NEW w \in WishSet, NEW length \in Sizes \cup {-1}, length = -1 => w.ended
  PROVE  Understood(Intent(w, length), Len(w.hdrs))
<1> DEFINE t == Intent(w, length)
           m == Len(w.hdrs)
           k == Len(w.body)
           p == HeadLength(m)
           rest == AfterHead(t, m)
<1>i. t = Intent(w, length) /\ m = Len(w.hdrs) /\ k = Len(w.body) /\ p = HeadLength(m)
  OBVIOUS
<1> HIDE DEF t, m, k, p
<1>b. m \in Nat /\ k \in Nat /\ p \in Nat /\ Begins(t, w, length, m)
  BY <1>i, IntentFacts
<1>h. w.hdrs \in Seq(Values) /\ w.body \in Seq(Sizes \ {0})
  BY DEF WishSet
<1>v. /\ \A i \in 0 .. m - 1 : w.hdrs[i + 1] \in Values /\ w.hdrs[i + 1] \in Texts
      /\ \A i \in 1 .. k : w.body[i] \in Sizes \ {0}
  <2>1. \A i \in 1 .. m : w.hdrs[i] \in Values
    BY <1>h, <1>i
  <2>2. \A i \in 0 .. m - 1 : i + 1 \in 1 .. m
    BY <1>b
  <2>3. \A i \in 1 .. k : w.body[i] \in Sizes \ {0}
    BY <1>h, <1>i
  <2> QED
    BY <2>1, <2>2, <2>3 DEF Texts
<1>l. length \in Int /\ (length # -1 => length >= 0 /\ length \in Sizes)
  BY RespConstants
<1>1. t \in Seq(Tokens) /\ Len(t) \in Nat /\ Len(t) >= p /\ t[p] = Token("crlf", "")
  <2>1. t \in Seq(Tokens) /\ Len(t) >= p /\ t[p] = Token("crlf", "")
    BY <1>b, <1>i DEF Begins
  <2>2. t \in Seq(Tokens)
    BY <2>1
  <2>3. Len(t) \in Nat
    BY <2>2, LenProperties
  <2> QED
    BY <2>1, <2>3
<1>f. t[1] = Token("head", <<w.status, w.type, length>>)
  BY <1>b DEF Begins
<1>a. \A i \in 0 .. m - 1, j \in 1 .. 4 : t[4 * i + 1 + j] = HeaderTokens(w.hdrs[i + 1])[j]
  BY <1>b DEF Begins
<1>p. p = 4 * m + 2
  BY <1>i DEF HeadLength
<1>2. HeadOf(t, m)
  <2>1. ASSUME NEW i \in 0 .. m - 1 PROVE \E v \in Values : SubSeq(t, 4 * i + 2, 4 * i + 5) = HeaderTokens(v)
    <3> DEFINE a == 4 * i + 2
               b == 4 * i + 5
               v == w.hdrs[i + 1]
    <3>1. a \in Nat \ {0} /\ b \in Nat /\ a <= b + 1 /\ b <= Len(t) /\ b - a + 1 = 4
      <4>1. i \in Nat /\ i + 1 <= m
        BY <1>b
      <4>2. Len(t) \in Nat /\ Len(t) >= 4 * m + 2
        BY <1>1, <1>p
      <4> QED
        BY <1>b, <4>1, <4>2
    <3>2. HeaderTokens(v) \in Seq(Tokens) /\ Len(HeaderTokens(v)) = 4
      BY <1>v, TokenFacts
    <3>3. \A j \in 1 .. 4 : a + j - 1 = 4 * i + 1 + j
      BY <1>b
    <3> HIDE DEF a, b
    <3> DEFINE u == HeaderTokens(v)
    <3>4. u \in Seq(Tokens) /\ Len(u) = b - a + 1 /\ \A j \in 1 .. Len(u) : t[a + j - 1] = u[j]
      <4>1. \A j \in 1 .. 4 : t[4 * i + 1 + j] = u[j]
        BY <1>a
      <4>2. u \in Seq(Tokens) /\ Len(u) = 4
        BY <3>2
      <4> HIDE DEF u
      <4> QED
        BY <3>1, <3>3, <4>1, <4>2
    <3> HIDE DEF u
    <3>t. t \in Seq(Tokens)
      BY <1>1
    <3>5. SubSeq(t, a, b) = u
      BY <3>t, <3>1, <3>4, SameAt
    <3> QED
      BY <1>v, <3>5 DEF a, b, u
  <2>2. t[1][1] = "head"
    <3> DEFINE v == <<w.status, w.type, length>>
    <3>1. Token("head", v)[1] = "head"
      BY TokenParts
    <3> QED
      BY <1>f, <3>1
  <2>3. Len(t) >= 4 * m + 2 /\ t[4 * m + 2] = Token("crlf", "")
    BY <1>1, <1>p
  <2> QED
    BY <2>1, <2>2, <2>3 DEF HeadOf
<1>3. t[1][2][3] = length
  <2>1. t[1][2] = <<w.status, w.type, length>>
    <3> DEFINE x == <<w.status, w.type, length>>
    <3>1. t[1] = Token("head", x)
      BY <1>f
    <3> HIDE DEF x
    <3>2. t[1][2] = x
      <4>1. Token("head", x)[2] = x
        BY TokenParts
      <4> QED
        BY <3>1, <4>1
    <3> QED
      BY <3>2 DEF x
  <2> QED
    BY <2>1
<1>4. rest \in Seq(Tokens) /\ Len(rest) = Len(t) - p /\ \A i \in 1 .. Len(rest) : rest[i] = t[p + i]
  <2>1. p = HeadLength(m) /\ p <= Len(t) /\ m \in Nat /\ t \in Seq(Tokens)
    BY <1>1, <1>b, <1>i
  <2> QED
    BY <2>1, AfterFacts
<1>r. Len(rest) = Len(t) - p
  BY <1>4
<1> HIDE DEF rest
<1>5. CASE length # -1
  <2>1. Len(t) = p + Len(BodyTokens(length)) /\ \A i \in 1 .. Len(BodyTokens(length)) : t[p + i] = BodyTokens(length)[i]
    BY <1>5, <1>i, IntentFacts
  <2>2. BodyTokens(length) \in Seq(Tokens)
    BY <1>5, <1>l, ChunkFacts
  <2>3. Len(rest) = Len(BodyTokens(length))
    <3>1. Len(BodyTokens(length)) \in Nat
      BY <2>2
    <3> QED
      BY <1>4, <1>b, <2>1, <3>1
  <2>4. rest = BodyTokens(length)
    BY <1>4, <2>1, <2>2, <2>3, SeqEqual
  <2>5. WholeBody(length, rest)
    BY <1>5, <1>l, <2>4 DEF WholeBody
  <2> QED
    BY <1>2, <1>3, <2>5, <1>i DEF Understood, rest
<1>6. CASE length = -1
  <2>0. Chunked(t, w, p, k)
    BY <1>6, <1>i, IntentFacts
  <2>1. /\ Len(t) = p + 3 * k + 2
        /\ \A i \in 1 .. k : /\ t[p + 3 * i - 2] = Token("size", w.body[i])
                             /\ t[p + 3 * i - 1] = Token("data", w.body[i])
                             /\ t[p + 3 * i] = Token("crlf", "")
        /\ t[p + 3 * k + 1] = Token("size", 0) /\ t[p + 3 * k + 2] = Token("crlf", "")
    BY <1>6, <2>0 DEF Chunked
  <2>2. Len(rest) = 3 * k + 2
    <3>1. Len(t) = p + 3 * k + 2
      BY <2>1
    <3> QED
      BY <1>r, <1>b, <3>1
  <2>3. ChunksIn(rest) = k
    <3>1. ((3 * k + 2) - 2) \div 3 = k
      BY <1>b
    <3> QED
      BY <2>2, <3>1 DEF ChunksIn
  <2>4. SubSeq(rest, 3 * k + 1, 3 * k + 2) = ChunkTokens(0)
    <3> DEFINE a == 3 * k + 1
               b == 3 * k + 2
    <3>1. /\ a \in Nat \ {0} /\ b \in Nat /\ a <= b + 1 /\ b <= Len(rest) /\ b - a + 1 = 2
          /\ a + 1 - 1 = a /\ a + 2 - 1 = b /\ p + a = p + 3 * k + 1 /\ p + b = p + 3 * k + 2
          /\ a \in 1 .. Len(rest) /\ b \in 1 .. Len(rest)
      BY <1>b, <2>2
    <3>2. rest[a] = Token("size", 0) /\ rest[b] = Token("crlf", "")
      BY <1>4, <2>1, <3>1
    <3> HIDE DEF a, b
    <3>3. \A j \in 1 .. 2 : rest[a + j - 1] = ChunkTokens(0)[j]
      <4>1. \A j \in 1 .. 2 : j = 1 \/ j = 2
        OBVIOUS
      <4> QED
        BY <3>1, <3>2, <4>1, ChunkIs
    <3>4. ChunkTokens(0) \in Seq(Tokens) /\ Len(ChunkTokens(0)) = 2
      BY ChunkFacts, ChunkIs
    <3> DEFINE u == ChunkTokens(0)
    <3>5. u \in Seq(Tokens) /\ Len(u) = b - a + 1 /\ \A j \in 1 .. Len(u) : rest[a + j - 1] = u[j]
      BY <3>1, <3>3, <3>4
    <3> HIDE DEF u
    <3>6. SubSeq(rest, a, b) = u
      BY <1>4, <3>1, <3>5, SameAt
    <3> QED
      BY <3>6 DEF a, b, u
  <2>5. ASSUME NEW i \in 1 .. k PROVE \E s \in Sizes \ {0} : SubSeq(rest, 3 * i - 2, 3 * i) = ChunkTokens(s)
    <3> DEFINE a == 3 * i - 2
               b == 3 * i
               s == w.body[i]
    <3>1. /\ a \in Nat \ {0} /\ b \in Nat /\ a <= b + 1 /\ b <= Len(rest) /\ b - a + 1 = 3
          /\ a + 1 - 1 = a /\ a + 2 - 1 = a + 1 /\ a + 3 - 1 = b
          /\ p + a = p + 3 * i - 2 /\ p + (a + 1) = p + 3 * i - 1 /\ p + b = p + 3 * i
          /\ a \in 1 .. Len(rest) /\ a + 1 \in 1 .. Len(rest) /\ b \in 1 .. Len(rest)
      BY <1>b, <2>2
    <3>2. rest[a] = Token("size", s) /\ rest[a + 1] = Token("data", s) /\ rest[b] = Token("crlf", "")
      <4>1. /\ t[p + 3 * i - 2] = Token("size", s) /\ t[p + 3 * i - 1] = Token("data", s)
            /\ t[p + 3 * i] = Token("crlf", "")
        BY <2>1
      <4> HIDE DEF s
      <4> QED
        BY <1>4, <3>1, <4>1
    <3>s. s \in Sizes \ {0}
      BY <1>v
    <3> HIDE DEF a, b, s
    <3>3. \A j \in 1 .. 3 : rest[a + j - 1] = ChunkTokens(s)[j]
      <4>1. \A j \in 1 .. 3 : j = 1 \/ j = 2 \/ j = 3
        OBVIOUS
      <4> QED
        BY <3>1, <3>2, <3>s, <4>1, ChunkIs
    <3>4. ChunkTokens(s) \in Seq(Tokens) /\ Len(ChunkTokens(s)) = 3
      BY <3>s, ChunkFacts, ChunkIs
    <3> DEFINE u == ChunkTokens(s)
    <3>5. u \in Seq(Tokens) /\ Len(u) = b - a + 1 /\ \A j \in 1 .. Len(u) : rest[a + j - 1] = u[j]
      BY <3>1, <3>3, <3>4
    <3> HIDE DEF u
    <3>6. SubSeq(rest, a, b) = u
      BY <1>4, <3>1, <3>5, SameAt
    <3> QED
      BY <3>s, <3>6 DEF a, b, u
  <2>6. WholeBody(length, rest)
    BY <1>6, <2>2, <2>3, <2>4, <2>5 DEF WholeBody
  <2> QED
    BY <1>2, <1>3, <2>6, <1>i DEF Understood, rest
<1> QED
  BY <1>5, <1>6

-----------------------------------------------------------------------------
(* What is sent in answer to a call. *)

LEMMA PartAfter ==
  ASSUME NEW s \in Seq(Tokens), NEW u \in Seq(Tokens), NEW v \in Seq(Tokens), PartOf(u, v)
  PROVE  PartOf(s \o u, s \o v)
<1>1. /\ Len(s) \in Nat /\ Len(u) \in Nat /\ Len(v) \in Nat /\ Len(u) <= Len(v)
      /\ \A i \in 1 .. Len(u) : u[i] = v[i] \/ (i = Len(u) /\ u[i] = Cut)
  BY LenProperties DEF PartOf
<1> DEFINE a == s \o u
           b == s \o v
<1>2. /\ Len(a) = Len(s) + Len(u)
      /\ \A i \in 1 .. Len(s) + Len(u) : a[i] = IF i <= Len(s) THEN s[i] ELSE u[i - Len(s)]
  BY ConcatProperties
<1>3. /\ Len(b) = Len(s) + Len(v)
      /\ \A i \in 1 .. Len(s) + Len(v) : b[i] = IF i <= Len(s) THEN s[i] ELSE v[i - Len(s)]
  BY ConcatProperties
<1> HIDE DEF a, b
<1>4. ASSUME NEW i \in 1 .. Len(a) PROVE a[i] = b[i] \/ (i = Len(a) /\ a[i] = Cut)
  <2>1. i \in 1 .. Len(s) + Len(u) /\ i \in 1 .. Len(s) + Len(v)
    BY <1>1, <1>2
  <2>2. CASE i <= Len(s)
    BY <1>2, <1>3, <2>1, <2>2
  <2>3. CASE ~(i <= Len(s))
    <3>1. i - Len(s) \in 1 .. Len(u) /\ (i - Len(s) = Len(u) => i = Len(a))
      BY <1>1, <1>2, <2>1, <2>3
    <3>2. a[i] = u[i - Len(s)] /\ b[i] = v[i - Len(s)]
      BY <1>2, <1>3, <2>1, <2>3
    <3> QED
      BY <1>1, <3>1, <3>2
  <2> QED
    BY <2>2, <2>3
<1>5. Len(a) <= Len(b)
  BY <1>1, <1>2, <1>3
<1>6. PartOf(a, b)
  BY <1>4, <1>5 DEF PartOf
<1> QED
  BY <1>6 DEF a, b

LEMMA PartIs ==
  /\ \A t \in Seq(Tokens) : PartOf(<<>>, t) /\ PartOf(t, t)
<1>1. ASSUME NEW t \in Seq(Tokens) PROVE PartOf(<<>>, t) /\ PartOf(t, t)
  <2>1. Len(t) \in Nat /\ Len(<<>>) = 0
    BY LenProperties, EmptySeq
  <2>2. \A i \in 1 .. 0 : FALSE
    OBVIOUS
  <2> QED
    BY <2>1, <2>2 DEF PartOf
<1> QED
  BY <1>1

(* A beginning with a cut, or none, is a part. *)
LEMMA CutPart ==
  ASSUME NEW t \in Seq(Tokens), NEW k \in Nat, k < Len(t), NEW e \in Seq(Tokens), NEW x,
         e = <<>> \/ (Len(e) = 1 /\ e[1] = Cut), x = SubSeq(t, 1, k) \o e
  PROVE  x \in Seq(Tokens) /\ PartOf(x, t)
<1> DEFINE p == SubSeq(t, 1, k)
<1>0. Len(t) \in Nat
  BY LenProperties
<1>1. p \in Seq(Tokens) /\ Len(p) = k /\ \A j \in 1 .. k : p[j] = t[j]
  <2>1. 1 \in Nat \ {0} /\ 1 <= k + 1 /\ k <= Len(t) /\ k - 1 + 1 = k
    BY <1>0
  <2>2. /\ p \in Seq(Tokens) /\ Len(p) = k - 1 + 1
        /\ \A j \in 1 .. k - 1 + 1 : p[j] = t[1 + j - 1]
    BY <2>1, SubAt
  <2>3. \A j \in 1 .. k : 1 + j - 1 = j
    OBVIOUS
  <2> QED
    BY <2>1, <2>2, <2>3
<1>x. x = p \o e
  OBVIOUS
<1> HIDE DEF p
<1>2. Len(e) \in 0 .. 1 /\ (Len(e) = 1 => e[1] = Cut)
  BY EmptySeq
<1>3. /\ x \in Seq(Tokens) /\ Len(x) = k + Len(e)
      /\ \A i \in 1 .. k + Len(e) : x[i] = IF i <= k THEN p[i] ELSE e[i - k]
  <2>1. /\ x \in Seq(Tokens) /\ Len(x) = Len(p) + Len(e)
        /\ \A i \in 1 .. Len(p) + Len(e) : x[i] = IF i <= Len(p) THEN p[i] ELSE e[i - Len(p)]
    BY <1>1, <1>x, ConcatProperties
  <2> QED
    BY <1>1, <2>1
<1>4. ASSUME NEW i \in 1 .. Len(x) PROVE x[i] = t[i] \/ (i = Len(x) /\ x[i] = Cut)
  <2>0. i \in 1 .. k + Len(e)
    BY <1>3
  <2>1. CASE i <= k
    <3>1. i \in 1 .. k
      BY <1>2, <2>0, <2>1
    <3> QED
      BY <1>1, <1>3, <2>0, <2>1, <3>1
  <2>2. CASE ~(i <= k)
    <3>1. Len(e) = 1 /\ i = k + 1 /\ i - k = 1
      BY <1>2, <2>0, <2>2
    <3>2. x[i] = e[i - k]
      BY <1>3, <2>0, <2>2
    <3>3. i = Len(x)
      BY <1>3, <3>1
    <3> QED
      BY <1>2, <3>1, <3>2, <3>3
  <2> QED
    BY <2>1, <2>2
<1>5. Len(x) <= Len(t)
  <2>1. Len(x) = k + Len(e)
    BY <1>3
  <2> QED
    BY <1>0, <1>2, <2>1
<1> QED
  BY <1>3, <1>4, <1>5 DEF PartOf

(* Whatever comes of a call that sends t, a part of t goes out, all of it on success. *)
LEMMA OutcomeFacts ==
  ASSUME NEW t \in Seq(Tokens), NEW o \in Outcomes(t)
  PROVE  /\ o.ok \in BOOLEAN /\ o.out \in Seq(Tokens) /\ PartOf(o.out, t)
         /\ o.ok => o.out = t
<1>0. Len(t) \in Nat
  BY LenProperties
<1>1. CASE o = [ok |-> TRUE, out |-> t]
  <2>1. o.ok = TRUE /\ o.out = t
    BY <1>1
  <2> QED
    BY <2>1, PartIs
<1>2. ASSUME NEW k \in 0 .. (Len(t) - 1), NEW e \in {<<>>, <<Cut>>}, o.ok = FALSE, o.out = SubSeq(t, 1, k) \o e
      PROVE  o.ok = FALSE /\ o.out \in Seq(Tokens) /\ PartOf(o.out, t)
  <2> DEFINE x == SubSeq(t, 1, k) \o e
  <2>2. o.ok = FALSE /\ o.out = x
    BY <1>2
  <2>3. k \in Nat /\ k < Len(t)
    BY <1>0
  <2>4. e \in Seq(Tokens) /\ (e = <<>> \/ (Len(e) = 1 /\ e[1] = Cut))
    <3>1. Cut \in Tokens
      BY TokenFacts DEF Cut, Kinds
    <3>2. <<Cut>> \in Seq(Tokens) /\ Len(<<Cut>>) = 1 /\ <<Cut>>[1] = Cut
      BY <3>1, TupleFacts
    <3>3. <<>> \in Seq(Tokens)
      BY EmptySeq
    <3>4. e = <<>> \/ e = <<Cut>>
      OBVIOUS
    <3> QED
      BY <3>2, <3>3, <3>4
  <2>5. x \in Seq(Tokens) /\ PartOf(x, t)
    BY <2>3, <2>4, CutPart
  <2> QED
    BY <2>2, <2>5
<1>3. CASE \E k \in 0 .. (Len(t) - 1) : o = [ok |-> FALSE, out |-> SubSeq(t, 1, k)]
  <2>1. PICK k \in 0 .. (Len(t) - 1) : o = [ok |-> FALSE, out |-> SubSeq(t, 1, k)]
    BY <1>3
  <2>2. o.ok = FALSE /\ o.out = SubSeq(t, 1, k)
    BY <2>1
  <2>3. SubSeq(t, 1, k) = SubSeq(t, 1, k) \o <<>>
    <3>1. k \in Nat /\ k <= Len(t)
      BY <1>0
    <3>2. SubSeq(t, 1, k) \in Seq(Tokens)
      BY <1>0, <3>1, SubAt
    <3> QED
      BY <3>2, ConcatEmptySeq
  <2> QED
    BY <1>2, <2>2, <2>3
<1>4. CASE \E k \in 0 .. (Len(t) - 1) : o = [ok |-> FALSE, out |-> SubSeq(t, 1, k) \o <<Token("cut", "")>>]
  <2>1. PICK k \in 0 .. (Len(t) - 1) : o = [ok |-> FALSE, out |-> SubSeq(t, 1, k) \o <<Cut>>]
    BY <1>4 DEF Cut
  <2>2. o.ok = FALSE /\ o.out = SubSeq(t, 1, k) \o <<Cut>>
    BY <2>1
  <2> QED
    BY <1>2, <2>2
<1> QED
  BY <1>1, <1>3, <1>4 DEF Outcomes

(* A head has nothing but these. *)
LEMMA HeadSame ==
  ASSUME NEW r, NEW q, r.status = q.status, r.type = q.type, r.hdrs = q.hdrs, NEW length
  PROVE  HeadTokens(r, length) = HeadTokens(q, length)
<1> DEFINE F(hs) == [i \in 1 .. Len(hs) |-> HeaderTokens(hs[i])]
           G(s, t, f) == <<Token("head", <<s, t, length>>)>> \o FlattenSeq(f) \o <<Token("crlf", "")>>
<1>1. HeadTokens(r, length) = G(r.status, r.type, F(r.hdrs)) /\ HeadTokens(q, length) = G(q.status, q.type, F(q.hdrs))
  BY DEF HeadTokens
<1> HIDE DEF F, G
<1> QED
  BY <1>1

(* What a chunk adds to what the handler wants to be sent. *)
LEMMA IntentGrows ==
  ASSUME NEW w \in WishSet, ~w.ended, NEW n \in Sizes, NEW w2,
         w2.status = w.status, w2.type = w.type, w2.hdrs = w.hdrs,
         w2.body = w.body \o Piece(n), w2.ended <=> n = 0
  PROVE  /\ w2.body \in Seq(Sizes \ {0})
         /\ Intent(w, -1) \in Seq(Tokens) /\ Intent(w2, -1) = Intent(w, -1) \o ChunkTokens(n)
<1> DEFINE h == HeadTokens(w, -1)
           c == Chunks(w.body)
           z == ChunkTokens(n)
<1>1. w.body \in Seq(Sizes \ {0})
  BY DEF WishSet
<1>2. h \in Seq(Tokens) /\ c \in Seq(Tokens) /\ z \in Seq(Tokens)
  <2>1. h \in Seq(Tokens)
    <3>1. -1 \in Int
      OBVIOUS
    <3>2. Begins(h, w, -1, Len(w.hdrs))
      BY <3>1, WishFacts
    <3> QED
      BY <3>2 DEF Begins
  <2> QED
    BY <1>1, <2>1, ChunksFacts, ChunkFacts
<1>3. w2.body = w.body \o Piece(n) /\ (w2.ended <=> n = 0)
  OBVIOUS
<1>4. HeadTokens(w2, -1) = h
  BY HeadSame
<1>5. h \o c \in Seq(Tokens) /\ Intent(w, -1) = h \o c
  <2>1. h \o c \in Seq(Tokens)
    BY <1>2, ConcatProperties
  <2>2. (h \o c) \o <<>> = h \o c
    BY <2>1, ConcatEmptySeq
  <2>3. Intent(w, -1) = (h \o c) \o <<>>
    BY DEF Intent
  <2> QED
    BY <2>1, <2>2, <2>3
<1>6. CASE n = 0
  <2>1. w2.body = w.body /\ w2.ended
    BY <1>1, <1>3, <1>6, ConcatEmptySeq DEF Piece
  <2>2. Intent(w2, -1) = (h \o c) \o z
    BY <1>4, <1>6, <2>1 DEF Intent
  <2> QED
    BY <1>1, <1>5, <2>1, <2>2
<1>7. CASE n # 0
  <2>1. w2.body = Append(w.body, n) /\ ~w2.ended
    <3>1. w2.body = w.body \o <<n>> /\ ~w2.ended
      BY <1>3, <1>7 DEF Piece
    <3>2. \A b \in Seq(Sizes \ {0}) : \A x \in Sizes \ {0} : b \o <<x>> = Append(b, x)
      OBVIOUS
    <3> QED
      BY <1>1, <1>7, <3>1, <3>2
  <2>2. Chunks(w2.body) = c \o z
    BY <1>1, <1>7, <2>1, ChunksFacts
  <2>3. Intent(w2, -1) = (h \o (c \o z)) \o <<>>
    BY <1>4, <2>1, <2>2 DEF Intent
  <2> HIDE DEF h, c, z
  <2>4. h \o (c \o z) \in Seq(Tokens) /\ h \o (c \o z) = (h \o c) \o z
    <3>1. h \o (c \o z) = (h \o c) \o z
      BY <1>2, Regrouped
    <3>2. c \o z \in Seq(Tokens)
      BY <1>2, ConcatProperties
    <3>3. h \o (c \o z) \in Seq(Tokens)
      BY <1>2, <3>2, ConcatProperties
    <3> QED
      BY <3>1, <3>3
  <2>5. (h \o (c \o z)) \o <<>> = h \o (c \o z)
    BY <2>4, ConcatEmptySeq
  <2>6. w2.body \in Seq(Sizes \ {0})
    <3> DEFINE S == Sizes \ {0}
    <3>1. n \in S /\ w.body \in Seq(S)
      BY <1>1, <1>7
    <3> HIDE DEF S
    <3>2. Append(w.body, n) \in Seq(S)
      BY <3>1
    <3> QED
      BY <2>1, <3>2 DEF S
  <2> QED
    BY <1>5, <2>3, <2>4, <2>5, <2>6 DEF z
<1> QED
  BY <1>6, <1>7

-----------------------------------------------------------------------------
(* What was sent is, up to a point, what the handler wanted to be sent, and *)
(* all of it when the handler goes on or the connection is kept.            *)

Said(length) ==
  /\ PartOf(line, Intent(wish, length))
  /\ length # -1 => wish.ended /\ wish.body = Piece(length)
  /\ (rpc = "handler" /\ (wish.ended \/ line # <<>>)) \/ (rpc = "idle" /\ exchanges > 0) =>
       line = Intent(wish, length)

(* Before anything is sent, the request's data is what the handler set. *)
Unsaid ==
  /\ rpc \in {"handler", "err"} /\ line = <<>> =>
       /\ ~wish.ended /\ wish.body = <<>>
       /\ resp.status = wish.status /\ resp.type = wish.type /\ resp.hdrs = wish.hdrs
  /\ rpc = "handler" /\ ~wish.ended => (resp.first_chunk_sent <=> line # <<>>)
  /\ rpc = "err" => line = <<>>

(* Which errors leave the connection open. *)
ErrorsKnown ==
  /\ rpc = "idle" /\ exchanges > 0 => wish.ended
  /\ rpc \in {"handler", "idle"} /\ error # "none" => error \in HandledCodes
  /\ rpc = "err" => error \in Codes
  /\ rpc = "idle" => error # "500"

RespTypes ==
  /\ resp \in [status : Texts, type : Texts, hdrs : Seq(Values), first_chunk_sent : BOOLEAN]
  /\ wish \in WishSet /\ line \in Seq(Tokens) /\ Len(wish.hdrs) <= MaxRespHeaders

RespInv == RespTypeOK /\ RespTypes /\ (\E l \in Sizes \cup {-1} : Said(l)) /\ Unsaid /\ ErrorsKnown

(* What a response says follows from the invariant. *)
LEMMA RespInvSays ==
  ASSUME RespInv PROVE ResponseRight
<1>1. PICK l \in Sizes \cup {-1} : Said(l)
  BY DEF RespInv
<1>2. wish \in WishSet /\ line \in Seq(Tokens) /\ Len(wish.hdrs) <= MaxRespHeaders
  BY DEF RespInv, RespTypes
<1>3. ASSUME NEW n \in 0 .. MaxRespHeaders, Understood(line, n) PROVE wish.ended /\ Says(line, n)
  <2>1. n \in Nat
    BY RespConstants
  <2>2. PartOf(line, Intent(wish, l)) /\ (l # -1 => wish.ended /\ wish.body = Piece(l))
    BY <1>1 DEF Said
  <2> QED
    BY <1>2, <1>3, <2>1, <2>2, ReadRight
<1>4. ASSUME rpc = "idle", exchanges > 0 PROVE \E n \in 0 .. MaxRespHeaders : Understood(line, n)
  <2>1. line = Intent(wish, l)
    BY <1>1, <1>4 DEF Said
  <2>2. wish.ended
    BY <1>4 DEF RespInv, ErrorsKnown
  <2>3. Understood(line, Len(wish.hdrs))
    BY <1>2, <2>1, <2>2, WholeRead
  <2>4. Len(wish.hdrs) \in 0 .. MaxRespHeaders
    <3>1. Len(wish.hdrs) \in Nat
      <4>1. wish.hdrs \in Seq(Values)
        BY <1>2 DEF WishSet
      <4> QED
        BY <4>1, LenProperties
    <3> QED
      BY <1>2, <3>1, RespConstants
  <2> QED
    BY <2>3, <2>4
<1>5. WholeOrClosed
  BY <1>3, <1>4 DEF WholeOrClosed
<1>6. ErrorsClose
  BY DEF RespInv, ErrorsKnown, ErrorsClose
<1> QED
  BY <1>5, <1>6 DEF RespInv, ResponseRight

(* Nothing is a part of whatever the handler wants. *)
LEMMA IntentTokens ==
  ASSUME NEW w \in WishSet, NEW length \in Sizes \cup {-1}
  PROVE  Intent(w, length) \in Seq(Tokens) /\ PartOf(<<>>, Intent(w, length))
<1>1. Begins(Intent(w, length), w, length, Len(w.hdrs))
  BY IntentFacts
<1> QED
  BY <1>1, PartIs DEF Begins

(* What joining does to what is empty. *)
LEMMA Longer ==
  ASSUME NEW s \in Seq(Tokens), NEW u \in Seq(Tokens)
  PROVE  /\ s \o u \in Seq(Tokens)
         /\ (s # <<>> \/ u # <<>>) => s \o u # <<>>
         /\ <<>> \o s = s /\ s \o <<>> = s
         /\ IsPrefix(s, s \o u)
         /\ s # <<>> /\ IsPrefix(s, u) => u # <<>>
<1> DEFINE x == s \o u
<1>0. Len(s) \in Nat /\ Len(u) \in Nat
  BY LenProperties
<1>1. /\ x \in Seq(Tokens) /\ Len(x) = Len(s) + Len(u)
      /\ \A i \in 1 .. Len(s) + Len(u) : x[i] = IF i <= Len(s) THEN s[i] ELSE u[i - Len(s)]
  BY ConcatProperties
<1>2. <<>> \o s = s /\ s \o <<>> = s
  BY ConcatEmptySeq
<1>3. \A v \in Seq(Tokens) : v = <<>> <=> Len(v) = 0
  BY EmptySeq
<1> HIDE DEF x
<1>4. (s # <<>> \/ u # <<>>) => x # <<>>
  <2>1. (Len(s) # 0 \/ Len(u) # 0) => Len(x) # 0
    BY <1>0, <1>1
  <2>2. x \in Seq(Tokens)
    BY <1>1
  <2> QED
    BY <1>3, <2>1, <2>2
<1>5. IsPrefix(s, x)
  <2>1. 1 \in Nat \ {0} /\ 1 <= Len(s) + 1 /\ Len(s) <= Len(x) /\ Len(s) - 1 + 1 = Len(s)
    BY <1>0, <1>1
  <2>2. \A i \in 1 .. Len(s) : 1 + i - 1 = i /\ x[i] = s[i]
    BY <1>0, <1>1
  <2>3. SubSeq(x, 1, Len(s)) = s
    <3>1. Len(s) = Len(s) - 1 + 1 /\ \A i \in 1 .. Len(s) : x[1 + i - 1] = s[i]
      BY <2>1, <2>2
    <3>2. x \in Seq(Tokens)
      BY <1>1
    <3> QED
      BY <1>0, <2>1, <3>1, <3>2, SameAt
  <2>4. SubSeq(s, 1, Len(s)) = s
    BY SubSeqFull
  <2> QED
    BY <2>1, <2>3, <2>4 DEF IsPrefix
<1>6. s # <<>> /\ IsPrefix(s, u) => u # <<>>
  <2>1. IsPrefix(s, u) => Len(s) <= Len(u)
    BY DEF IsPrefix
  <2>2. s # <<>> => Len(s) # 0
    BY <1>3
  <2>3. u = <<>> => Len(u) = 0
    BY <1>3
  <2> QED
    BY <1>0, <2>1, <2>2, <2>3
<1> QED
  BY <1>1, <1>2, <1>4, <1>5, <1>6 DEF x

(* A call that sets something. *)
LEMMA SettingKeeps ==
  ASSUME RespInv, MaySet, CallMade,
         resp' \in [status : Texts, type : Texts, hdrs : Seq(Values), first_chunk_sent : BOOLEAN],
         Len(resp'.hdrs) <= MaxRespHeaders, resp'.first_chunk_sent = resp.first_chunk_sent,
         line # <<>> => wish' = wish,
         line = <<>> => /\ wish' \in WishSet /\ wish'.ended = wish.ended /\ wish'.body = wish.body
                        /\ resp'.status = wish'.status /\ resp'.type = wish'.type /\ resp'.hdrs = wish'.hdrs
  PROVE  RespInv'
<1>1. rpc = "handler" /\ rpc' = rpc /\ line' = line /\ error' = error /\ exchanges' = exchanges /\ rcalls' = rcalls + 1
  BY DEF MaySet, CallMade
<1>2. wish \in WishSet /\ line \in Seq(Tokens) /\ Len(wish.hdrs) <= MaxRespHeaders
  BY DEF RespInv, RespTypes
<1>3. wish' \in WishSet /\ Len(wish'.hdrs) <= MaxRespHeaders /\ wish'.ended = wish.ended
  BY <1>2
<1>4. RespTypeOK'
  <2>1. rcalls \in 0 .. MaxRespCalls /\ rcalls < MaxRespCalls /\ MaxRespCalls \in Nat
    BY RespConstants DEF RespInv, RespTypeOK, MaySet
  <2>2. rcalls' \in 0 .. MaxRespCalls
    BY <1>1, <2>1
  <2> QED
    BY <1>1, <2>2 DEF RespInv, RespTypeOK
<1>5. RespTypes'
  BY <1>1, <1>2, <1>3 DEF RespTypes
<1>6. (\E l \in Sizes \cup {-1} : Said(l))'
  <2>1. CASE line # <<>>
    <3>1. PICK l \in Sizes \cup {-1} : Said(l)
      BY DEF RespInv
    <3>2. Said(l)'
      BY <1>1, <2>1, <3>1 DEF Said
    <3> QED
      BY <3>2
  <2>2. CASE line = <<>>
    <3>1. ~wish'.ended
      BY <1>1, <1>3, <2>2 DEF RespInv, Unsaid
    <3>2. -1 \in Sizes \cup {-1}
      OBVIOUS
    <3>3. PartOf(line', Intent(wish', -1))
      BY <1>1, <1>3, <2>2, <3>2, IntentTokens
    <3>4. Said(-1)'
      BY <1>1, <2>2, <3>1, <3>3 DEF Said
    <3> QED
      BY <3>2, <3>4
  <2> QED
    BY <2>1, <2>2
<1>7. Unsaid'
  BY <1>1, <1>3 DEF RespInv, Unsaid
<1>8. ErrorsKnown'
  BY <1>1 DEF RespInv, ErrorsKnown
<1> QED
  BY <1>4, <1>5, <1>6, <1>7, <1>8 DEF RespInv

(* A call that sends t, or fails on the way. *)
LEMMA SendingKeeps ==
  ASSUME RespInv, NEW length \in Sizes \cup {-1}, NEW t \in Seq(Tokens), t # <<>>,
         NEW o \in Outcomes(t) \cup {NotSent},
         wish' \in WishSet, Len(wish'.hdrs) <= MaxRespHeaders, Intent(wish', length) = line \o t,
         length # -1 => wish'.ended /\ wish'.body = Piece(length),
         rpc' = "fail" \/ (rpc = "handler" /\ rpc' = rpc /\ o.ok),
         line' = line \o o.out, rcalls' \in 0 .. MaxRespCalls, UNCHANGED <<error, exchanges>>,
         resp' \in [status : Texts, type : Texts, hdrs : Seq(Values), first_chunk_sent : BOOLEAN],
         Len(resp'.hdrs) <= MaxRespHeaders, resp'.first_chunk_sent => line' # <<>>,
         o.ok => wish'.ended \/ resp'.first_chunk_sent
  PROVE  RespInv'
<1>0. line \in Seq(Tokens)
  BY DEF RespInv, RespTypes
<1>1. o.out \in Seq(Tokens) /\ PartOf(o.out, t) /\ (o.ok => o.out = t)
  <2>1. CASE o \in Outcomes(t)
    BY <2>1, OutcomeFacts
  <2>2. CASE o = NotSent
    BY <2>2, PartIs, EmptySeq DEF NotSent
  <2> QED
    BY <2>1, <2>2
<1>2. line' \in Seq(Tokens) /\ PartOf(line', Intent(wish', length))
  BY <1>0, <1>1, Longer, PartAfter
<1>3. o.ok => line' = Intent(wish', length) /\ line' # <<>>
  BY <1>0, <1>1, Longer
<1>4. RespTypeOK'
  BY DEF RespInv, RespTypeOK
<1>5. RespTypes'
  BY <1>2 DEF RespTypes
<1>6. Said(length)'
  BY <1>2, <1>3 DEF Said
<1>7. Unsaid'
  BY <1>3 DEF Unsaid
<1>8. ErrorsKnown'
  BY DEF RespInv, ErrorsKnown
<1> QED
  BY <1>4, <1>5, <1>6, <1>7, <1>8 DEF RespInv

(* Setting the status, the type or a header keeps the invariant. *)
LEMMA RespSets ==
  ASSUME RespInv, NEW v \in Values, RespSetStatus(v) \/ RespSetType(v) \/ RespSetHdr(v)
  PROVE  RespInv'
<1> DEFINE Datas == [status : Texts, type : Texts, hdrs : Seq(Values), first_chunk_sent : BOOLEAN]
<1>1. MaySet /\ CallMade /\ v \in Texts
  BY DEF RespSetStatus, RespSetType, RespSetHdr, Texts
<1>2. /\ resp \in Datas /\ Len(resp.hdrs) <= MaxRespHeaders /\ wish \in WishSet
      /\ rpc = "handler"
  BY <1>1 DEF RespInv, RespTypes, RespTypeOK, MaySet
<1>3. line = <<>> => resp.status = wish.status /\ resp.type = wish.type /\ resp.hdrs = wish.hdrs
  BY <1>2 DEF RespInv, Unsaid
<1>4. CASE UNCHANGED <<resp, wish>>
  BY <1>1, <1>2, <1>3, <1>4, SettingKeeps
<1>5. CASE resp' = [resp EXCEPT !.status = v] /\ wish' = IF line = <<>> THEN [wish EXCEPT !.status = v] ELSE wish
  <2>1. /\ resp' \in Datas /\ resp'.status = v /\ resp'.type = resp.type /\ resp'.hdrs = resp.hdrs
        /\ resp'.first_chunk_sent = resp.first_chunk_sent
    BY <1>1, <1>2, <1>5
  <2>2. line = <<>> => /\ wish' \in WishSet /\ wish'.ended = wish.ended /\ wish'.body = wish.body
                       /\ wish'.status = v /\ wish'.type = wish.type /\ wish'.hdrs = wish.hdrs
    BY <1>1, <1>2, <1>5 DEF WishSet
  <2>3. line # <<>> => wish' = wish
    BY <1>5
  <2> QED
    BY <1>1, <1>2, <1>3, <2>1, <2>2, <2>3, SettingKeeps
<1>6. CASE resp' = [resp EXCEPT !.type = v] /\ wish' = IF line = <<>> THEN [wish EXCEPT !.type = v] ELSE wish
  <2>1. /\ resp' \in Datas /\ resp'.status = resp.status /\ resp'.type = v /\ resp'.hdrs = resp.hdrs
        /\ resp'.first_chunk_sent = resp.first_chunk_sent
    BY <1>1, <1>2, <1>6
  <2>2. line = <<>> => /\ wish' \in WishSet /\ wish'.ended = wish.ended /\ wish'.body = wish.body
                       /\ wish'.status = wish.status /\ wish'.type = v /\ wish'.hdrs = wish.hdrs
    BY <1>1, <1>2, <1>6 DEF WishSet
  <2>3. line # <<>> => wish' = wish
    BY <1>6
  <2> QED
    BY <1>1, <1>2, <1>3, <2>1, <2>2, <2>3, SettingKeeps
<1>7. CASE /\ Len(resp.hdrs) < MaxRespHeaders
           /\ resp' = [resp EXCEPT !.hdrs = Append(@, v)]
           /\ wish' = IF line = <<>> THEN [wish EXCEPT !.hdrs = Append(@, v)] ELSE wish
  <2>0. /\ resp.hdrs \in Seq(Values) /\ wish.hdrs \in Seq(Values) /\ Append(resp.hdrs, v) \in Seq(Values)
        /\ Append(wish.hdrs, v) \in Seq(Values) /\ Len(Append(resp.hdrs, v)) = Len(resp.hdrs) + 1
        /\ Len(resp.hdrs) \in Nat /\ MaxRespHeaders \in Nat
    <3>1. resp.hdrs \in Seq(Values) /\ wish.hdrs \in Seq(Values)
      BY <1>2 DEF WishSet
    <3>2. \A s \in Seq(Values) : Append(s, v) \in Seq(Values) /\ Len(Append(s, v)) = Len(s) + 1 /\ Len(s) \in Nat
      OBVIOUS
    <3> QED
      BY <3>1, <3>2, RespConstants
  <2>1. /\ resp' \in Datas /\ resp'.status = resp.status /\ resp'.type = resp.type
        /\ resp'.hdrs = Append(resp.hdrs, v) /\ resp'.first_chunk_sent = resp.first_chunk_sent
    BY <1>2, <1>7, <2>0
  <2>2. line = <<>> => /\ wish' \in WishSet /\ wish'.ended = wish.ended /\ wish'.body = wish.body
                       /\ wish'.status = wish.status /\ wish'.type = wish.type
                       /\ wish'.hdrs = Append(wish.hdrs, v)
    BY <1>2, <1>7, <2>0 DEF WishSet
  <2>3. line # <<>> => wish' = wish
    BY <1>7
  <2>4. Len(resp'.hdrs) <= MaxRespHeaders
    BY <1>7, <2>0, <2>1
  <2> QED
    BY <1>1, <1>3, <2>1, <2>2, <2>3, <2>4, SettingKeeps
<1>8. Len(resp.hdrs) >= MaxRespHeaders \/ Len(resp.hdrs) < MaxRespHeaders
  <2>1. resp.hdrs \in Seq(Values) /\ MaxRespHeaders \in Nat
    BY <1>2, RespConstants
  <2>2. Len(resp.hdrs) \in Nat
    BY <2>1, LenProperties
  <2> QED
    BY <2>1, <2>2
<1>9. CASE RespSetStatus(v)
  <2>1. UNCHANGED <<resp, wish>>
        \/ (resp' = [resp EXCEPT !.status = v] /\ wish' = IF line = <<>> THEN [wish EXCEPT !.status = v] ELSE wish)
    BY <1>9 DEF RespSetStatus
  <2> QED
    BY <1>4, <1>5, <2>1
<1>10. CASE RespSetType(v)
  <2>1. UNCHANGED <<resp, wish>>
        \/ (resp' = [resp EXCEPT !.type = v] /\ wish' = IF line = <<>> THEN [wish EXCEPT !.type = v] ELSE wish)
    BY <1>10 DEF RespSetType
  <2> QED
    BY <1>4, <1>6, <2>1
<1>11. CASE RespSetHdr(v)
  <2>1. UNCHANGED <<resp, wish>>
        \/ /\ Len(resp.hdrs) < MaxRespHeaders
           /\ resp' = [resp EXCEPT !.hdrs = Append(@, v)]
           /\ wish' = IF line = <<>> THEN [wish EXCEPT !.hdrs = Append(@, v)] ELSE wish
    BY <1>8, <1>11 DEF RespSetHdr
  <2> QED
    BY <1>4, <1>7, <2>1
<1> QED
  BY <1>9, <1>10, <1>11

(* A whole answer: what the handler asked for is what is sent. *)
LEMMA AnswerKeeps ==
  ASSUME RespInv, line = <<>>, NEW n \in Sizes, NEW r,
         r \in [status : Texts, type : Texts, hdrs : Seq(Values), first_chunk_sent : BOOLEAN],
         r.hdrs = wish.hdrs, r.hdrs = resp.hdrs, resp' = r, ~r.first_chunk_sent,
         wish' = [wish EXCEPT !.status = r.status, !.type = r.type, !.body = Piece(n), !.ended = TRUE],
         NEW o \in SendOutcomes(r, n), line' = o.out,
         rpc' = "fail" \/ (rpc = "handler" /\ rpc' = rpc /\ o.ok),
         UNCHANGED <<error, rcalls, exchanges>>
  PROVE  RespInv'
<1> DEFINE h == HeadTokens(r, n)
           t == h \o BodyTokens(n)
<1>1. r.status \in Texts /\ r.type \in Texts /\ r.hdrs \in Seq(Values) /\ n \in Int
  BY RespConstants
<1>2. h \in Seq(Tokens) /\ h # <<>>
  <2>1. /\ Begins(h, r, n, Len(r.hdrs)) /\ Len(h) = HeadLength(Len(r.hdrs))
    BY <1>1, HeadFacts
  <2>2. Len(r.hdrs) \in Nat
    BY <1>1, LenProperties
  <2>3. Len(h) # 0
    BY <2>1, <2>2 DEF HeadLength
  <2> HIDE DEF h
  <2> QED
    BY <2>1, <2>3, EmptySeq DEF Begins
<1>3. BodyTokens(n) \in Seq(Tokens)
  BY ChunkFacts
<1>4. t \in Seq(Tokens) /\ t # <<>>
  <2> HIDE DEF h
  <2> QED
    BY <1>2, <1>3, Longer
<1>5. o \in Outcomes(t) \cup {NotSent}
  BY DEF SendOutcomes
<1>6. /\ wish' \in WishSet /\ wish'.status = r.status /\ wish'.type = r.type /\ wish'.hdrs = r.hdrs
      /\ wish'.body = Piece(n) /\ wish'.ended
  <2>1. Piece(n) \in Seq(Sizes \ {0})
    <3>1. CASE n = 0
      BY <3>1, EmptySeq DEF Piece
    <3>2. CASE n # 0
      <4>1. n \in Sizes \ {0}
        BY <3>2
      <4>2. \A S : \A x \in S : <<x>> \in Seq(S)
        OBVIOUS
      <4> QED
        BY <3>2, <4>1, <4>2 DEF Piece
    <3> QED
      BY <3>1, <3>2
  <2>2. wish \in WishSet
    BY DEF RespInv, RespTypes
  <2> HIDE DEF t, h
  <2> QED
    BY <1>1, <2>1, <2>2 DEF WishSet
<1>7. HeadTokens(wish', n) = h
  <2> DEFINE q == wish'
  <2>1. q.status = r.status /\ q.type = r.type /\ q.hdrs = r.hdrs
    BY <1>6
  <2> HIDE DEF q, t
  <2>2. HeadTokens(q, n) = HeadTokens(r, n)
    BY <2>1, HeadSame
  <2> QED
    BY <2>2 DEF q
<1>8. Intent(wish', n) = t
  <2>1. n # -1
    BY RespConstants
  <2> QED
    BY <1>7, <2>1 DEF Intent
<1> HIDE DEF t, h
<1>9. o.out \in Seq(Tokens)
  <2>1. CASE o \in Outcomes(t)
    BY <1>4, <2>1, OutcomeFacts
  <2>2. CASE o = NotSent
    BY <2>2, EmptySeq DEF NotSent
  <2> QED
    BY <1>5, <2>1, <2>2
<1>10. Intent(wish', n) = line \o t /\ line' = line \o o.out
  BY <1>4, <1>8, <1>9, Longer
<1>11. Len(resp'.hdrs) <= MaxRespHeaders /\ Len(wish'.hdrs) <= MaxRespHeaders /\ rcalls' \in 0 .. MaxRespCalls
  BY <1>6 DEF RespInv, RespTypes, RespTypeOK
<1>12. n \in Sizes \cup {-1} /\ wish' \in WishSet /\ wish'.ended /\ wish'.body = Piece(n)
  BY <1>6
<1>13. /\ resp' \in [status : Texts, type : Texts, hdrs : Seq(Values), first_chunk_sent : BOOLEAN]
       /\ ~resp'.first_chunk_sent
  OBVIOUS
<1> QED
  BY <1>4, <1>5, <1>10, <1>11, <1>12, <1>13, SendingKeeps

(* So do the calls that answer at once ... *)
LEMMA RespAnswers ==
  ASSUME RespInv,
         \/ \E n \in Sizes : RespSendAll(n)
         \/ \E s \in Codes, n \in Sizes : RespSendErr(s, n)
         \/ NoErrHandler
  PROVE  RespInv'
<1> DEFINE Datas == [status : Texts, type : Texts, hdrs : Seq(Values), first_chunk_sent : BOOLEAN]
<1>1. resp \in Datas /\ wish \in WishSet
  BY DEF RespInv, RespTypes
<1>2. CASE \E n \in Sizes : RespSendAll(n)
  <2>1. PICK n \in Sizes : RespSendAll(n)
    BY <1>2
  <2>2. rpc = "handler" /\ line = <<>> /\ ~resp.first_chunk_sent
    BY <2>1 DEF RespSendAll, MaySend
  <2>3. resp.status = wish.status /\ resp.type = wish.type /\ resp.hdrs = wish.hdrs
    BY <2>2 DEF RespInv, Unsaid
  <2>4. PICK o \in SendOutcomes(resp, n) : Sent(o)
    BY <2>1 DEF RespSendAll
  <2>5. line' = o.out /\ (rpc' = "fail" \/ (rpc = "handler" /\ rpc' = rpc /\ o.ok))
    <3>1. o.out \in Seq(Tokens)
      <4>1. CASE o = NotSent
        BY <4>1, EmptySeq DEF NotSent
      <4>2. CASE o # NotSent
        <5> DEFINE h == HeadTokens(resp, n)
                   t == h \o BodyTokens(n)
        <5>1. o \in Outcomes(t)
          BY <4>2 DEF SendOutcomes
        <5>2. h \in Seq(Tokens)
          <6>1. resp.hdrs \in Seq(Values) /\ resp.status \in Texts /\ resp.type \in Texts /\ n \in Int
            BY <1>1, RespConstants
          <6>2. Begins(h, resp, n, Len(resp.hdrs))
            BY <6>1, HeadFacts
          <6> QED
            BY <6>2 DEF Begins
        <5>3. BodyTokens(n) \in Seq(Tokens)
          BY ChunkFacts
        <5> HIDE DEF h
        <5>4. t \in Seq(Tokens)
          BY <5>2, <5>3, Longer
        <5> HIDE DEF t
        <5> QED
          BY <5>1, <5>4, OutcomeFacts
      <4> QED
        BY <4>1, <4>2
    <3>2. <<>> \o o.out = o.out
      BY <3>1, Longer
    <3> QED
      BY <2>2, <2>4, <3>2 DEF Sent
  <2>6. wish' = [wish EXCEPT !.status = resp.status, !.type = resp.type, !.body = Piece(n), !.ended = TRUE]
    <3>1. wish' = [wish EXCEPT !.body = Piece(n), !.ended = TRUE]
      BY <2>1 DEF RespSendAll
    <3>2. [wish EXCEPT !.status = wish.status, !.type = wish.type, !.body = Piece(n), !.ended = TRUE]
          = [wish EXCEPT !.body = Piece(n), !.ended = TRUE]
      BY <1>1 DEF WishSet
    <3> QED
      BY <2>3, <3>1, <3>2
  <2>7. resp' = resp /\ UNCHANGED <<error, rcalls, exchanges>>
    BY <2>1 DEF RespSendAll
  <2> QED
    BY <1>1, <2>2, <2>3, <2>5, <2>6, <2>7, AnswerKeeps
<1>3. ASSUME NEW s \in Codes, NEW n \in Sizes, NEW then, ErrorMessage(s, n, then), ~resp.first_chunk_sent,
             resp.hdrs = wish.hdrs, (rpc = "handler" /\ then = rpc) \/ then = "fail"
      PROVE  RespInv'
  <2> DEFINE r == [resp EXCEPT !.status = s, !.type = "text/html"]
  <2>1. r \in Datas /\ r.status = s /\ r.type = "text/html" /\ r.hdrs = resp.hdrs /\ ~r.first_chunk_sent
    BY <1>1, <1>3 DEF Texts
  <2>2. /\ line = <<>> /\ resp' = r
        /\ wish' = [wish EXCEPT !.status = r.status, !.type = r.type, !.body = Piece(n), !.ended = TRUE]
        /\ UNCHANGED <<error, rcalls, exchanges>>
    <3>1. /\ line = <<>> /\ resp' = r
          /\ wish' = [wish EXCEPT !.status = s, !.type = "text/html", !.body = Piece(n), !.ended = TRUE]
          /\ UNCHANGED <<error, rcalls, exchanges>>
      BY <1>3 DEF ErrorMessage
    <3> HIDE DEF r
    <3> QED
      BY <2>1, <3>1
  <2>3. PICK o \in SendOutcomes(r, n) : line' = o.out /\ rpc' \in {"fail"} \union (IF o.ok THEN {then} ELSE {})
    BY <1>3 DEF ErrorMessage
  <2> HIDE DEF r
  <2>4. rpc' = "fail" \/ (rpc = "handler" /\ rpc' = rpc /\ o.ok)
    BY <1>3, <2>3
  <2> QED
    BY <1>3, <2>1, <2>2, <2>3, <2>4, AnswerKeeps
<1>4. CASE \E s \in Codes, n \in Sizes : RespSendErr(s, n)
  <2>1. PICK s \in Codes, n \in Sizes : RespSendErr(s, n)
    BY <1>4
  <2>2. rpc = "handler" /\ line = <<>> /\ ~resp.first_chunk_sent /\ ErrorMessage(s, n, rpc)
    BY <2>1 DEF RespSendErr, MaySend, ErrorMessage
  <2>3. resp.hdrs = wish.hdrs
    BY <2>2 DEF RespInv, Unsaid
  <2> QED
    BY <1>3, <2>2, <2>3
<1>5. CASE NoErrHandler
  <2>1. PICK n \in Sizes \ {0} : ErrorMessage(error, n, "fail")
    BY <1>5 DEF NoErrHandler
  <2>2. rpc = "err" /\ line = <<>> /\ error \in Codes
    BY <1>5 DEF NoErrHandler, RespInv, Unsaid, ErrorsKnown
  <2>3. resp.hdrs = wish.hdrs
    BY <2>2 DEF RespInv, Unsaid
  <2>4. ~resp.first_chunk_sent
    BY <2>2 DEF RespInv, RespTypeOK
  <2> QED
    BY <1>3, <2>1, <2>2, <2>3, <2>4
<1> QED
  BY <1>2, <1>4, <1>5

(* ... and those that send a chunk ... *)
LEMMA RespChunks ==
  ASSUME RespInv, NEW n \in Sizes, RespChunk(n)
  PROVE  RespInv'
<1> DEFINE Datas == [status : Texts, type : Texts, hdrs : Seq(Values), first_chunk_sent : BOOLEAN]
           h == HeadTokens(resp, -1)
           z == ChunkTokens(n)
           t == IF resp.first_chunk_sent THEN z ELSE h \o z
<1>1. /\ resp \in Datas /\ wish \in WishSet /\ line \in Seq(Tokens) /\ Len(wish.hdrs) <= MaxRespHeaders
      /\ Len(resp.hdrs) <= MaxRespHeaders
  BY DEF RespInv, RespTypes, RespTypeOK
<1>2. rpc = "handler" /\ ~wish.ended /\ rcalls < MaxRespCalls /\ rcalls \in 0 .. MaxRespCalls /\ rcalls' = rcalls + 1
      /\ UNCHANGED <<error, exchanges>>
  BY DEF RespChunk, MaySend, RespInv, RespTypeOK
<1>3. PICK o \in ChunkOutcomes(resp, n) :
        Sent(o) /\ resp' = [resp EXCEPT !.first_chunk_sent = @ \/ IsPrefix(h, o.out)]
  BY DEF RespChunk
<1>4. o \in Outcomes(t) \cup {NotSent}
  BY DEF ChunkOutcomes
<1>h. h \in Seq(Tokens) /\ h # <<>>
  <2>1. resp.hdrs \in Seq(Values) /\ resp.status \in Texts /\ resp.type \in Texts /\ -1 \in Int
    BY <1>1
  <2>2. Begins(h, resp, -1, Len(resp.hdrs)) /\ Len(h) = HeadLength(Len(resp.hdrs))
    BY <2>1, HeadFacts
  <2>3. Len(resp.hdrs) \in Nat
    BY <2>1, LenProperties
  <2>4. Len(h) # 0
    BY <2>2, <2>3 DEF HeadLength
  <2> HIDE DEF h
  <2> QED
    BY <2>2, <2>4, EmptySeq DEF Begins
<1>z. z \in Seq(Tokens) /\ z # <<>>
  <2>1. z \in Seq(Tokens)
    BY ChunkFacts
  <2>2. Len(z) # 0
    <3>1. n = 0 \/ n \in Sizes \ {0}
      OBVIOUS
    <3> HIDE DEF z
    <3>2. (n = 0 => Len(z) = 2) /\ (n \in Sizes \ {0} => Len(z) = 3)
      BY ChunkIs DEF z
    <3> QED
      BY <3>1, <3>2
  <2> HIDE DEF z
  <2> QED
    BY <2>1, <2>2, EmptySeq
<1>w. /\ wish'.status = wish.status /\ wish'.type = wish.type /\ wish'.hdrs = wish.hdrs
      /\ wish'.body = wish.body \o Piece(n) /\ (wish'.ended <=> n = 0)
      /\ wish' = [wish EXCEPT !.body = wish'.body, !.ended = wish'.ended] /\ wish'.ended \in BOOLEAN
  <2> DEFINE b == wish.body \o Piece(n)
             e == n = 0
  <2>1. wish' = [wish EXCEPT !.body = b, !.ended = e] /\ e \in BOOLEAN
    BY DEF RespChunk
  <2>2. b = wish.body \o Piece(n) /\ (e <=> n = 0)
    OBVIOUS
  <2> HIDE DEF b, e, h, z, t
  <2>3. /\ wish'.status = wish.status /\ wish'.type = wish.type /\ wish'.hdrs = wish.hdrs
        /\ wish'.body = b /\ wish'.ended = e
    BY <1>1, <2>1 DEF WishSet
  <2> QED
    BY <2>1, <2>2, <2>3
<1>g. /\ wish'.body \in Seq(Sizes \ {0}) /\ Intent(wish, -1) \in Seq(Tokens)
      /\ Intent(wish', -1) = Intent(wish, -1) \o z
  <2> HIDE DEF h, t
  <2> QED
    BY <1>1, <1>2, <1>w, IntentGrows
<1>5. wish' \in WishSet
  BY <1>1, <1>w, <1>g DEF WishSet
<1>6. resp.first_chunk_sent <=> line # <<>>
  BY <1>2 DEF RespInv, Unsaid
<1> HIDE DEF z
<1>7. Intent(wish', -1) = line \o t
  <2>1. CASE resp.first_chunk_sent
    <3>1. PICK l \in Sizes \cup {-1} : Said(l)
      BY DEF RespInv
    <3>2. l = -1 /\ line = Intent(wish, l)
      BY <1>2, <1>6, <2>1, <3>1 DEF Said
    <3> QED
      BY <1>g, <2>1, <3>2
  <2>2. CASE ~resp.first_chunk_sent
    <3>1. line = <<>>
      BY <1>6, <2>2
    <3>2. resp.status = wish.status /\ resp.type = wish.type /\ resp.hdrs = wish.hdrs /\ wish.body = <<>>
      BY <1>2, <3>1 DEF RespInv, Unsaid
    <3>3. HeadTokens(wish, -1) = h
      BY <3>2, HeadSame
    <3>4. Chunks(wish.body) = <<>>
      <4>1. wish.body \in Seq(Sizes \ {0}) /\ Len(wish.body) = 0
        BY <1>1, <3>2, EmptySeq DEF WishSet
      <4>2. Chunks(wish.body) \in Seq(Tokens) /\ Len(Chunks(wish.body)) = 3 * Len(wish.body)
        BY <4>1, ChunksFacts
      <4> QED
        BY <4>1, <4>2, EmptySeq
    <3> HIDE DEF h
    <3>5. Intent(wish, -1) = (h \o <<>>) \o <<>>
      BY <1>2, <3>3, <3>4 DEF Intent
    <3>6. Intent(wish, -1) = h
      BY <1>h, <3>5, Longer
    <3>7. h \o z \in Seq(Tokens)
      BY <1>h, <1>z, Longer
    <3>8. <<>> \o (h \o z) = h \o z
      BY <3>7, Longer
    <3> QED
      BY <1>g, <2>2, <3>1, <3>6, <3>8
  <2> QED
    BY <2>1, <2>2
<1> HIDE DEF h
<1>8. t \in Seq(Tokens) /\ t # <<>>
  BY <1>h, <1>z, Longer
<1>i. ~resp.first_chunk_sent => IsPrefix(h, t)
  BY <1>h, <1>z, Longer
<1>p. wish.ended = FALSE /\ resp.first_chunk_sent \in BOOLEAN
  BY <1>1, <1>2 DEF WishSet
<1> HIDE DEF t
<1>9. o.out \in Seq(Tokens) /\ (o.ok => o.out = t)
  <2>1. CASE o \in Outcomes(t)
    BY <1>8, <2>1, OutcomeFacts
  <2>2. CASE o = NotSent
    BY <2>2, EmptySeq DEF NotSent
  <2> QED
    BY <1>4, <2>1, <2>2
<1>10. /\ line' = line \o o.out /\ (rpc' = "fail" \/ (rpc = "handler" /\ rpc' = rpc /\ o.ok))
  BY <1>2, <1>3 DEF Sent
<1>11. /\ resp' \in Datas /\ resp'.hdrs = resp.hdrs
       /\ (resp'.first_chunk_sent <=> resp.first_chunk_sent \/ IsPrefix(h, o.out))
  <2> DEFINE d == resp.first_chunk_sent \/ IsPrefix(h, o.out)
  <2>1. resp' = [resp EXCEPT !.first_chunk_sent = d] /\ d \in BOOLEAN
    BY <1>3
  <2>2. d <=> resp.first_chunk_sent \/ IsPrefix(h, o.out)
    OBVIOUS
  <2> HIDE DEF d
  <2>3. resp' \in Datas /\ resp'.hdrs = resp.hdrs /\ resp'.first_chunk_sent = d
    BY <1>1, <2>1
  <2> QED
    BY <2>2, <2>3
<1>12. resp'.first_chunk_sent => line' # <<>>
  <2>1. resp.first_chunk_sent => line' # <<>>
    BY <1>1, <1>6, <1>9, <1>10, Longer
  <2>2. IsPrefix(h, o.out) => line' # <<>>
    <3>1. IsPrefix(h, o.out) => o.out # <<>>
      BY <1>h, <1>9, Longer
    <3> QED
      BY <1>1, <1>9, <1>10, <3>1, Longer
  <2> QED
    BY <1>11, <2>1, <2>2
<1>13. o.ok => resp'.first_chunk_sent
  BY <1>9, <1>11, <1>i
<1>14. rcalls' \in 0 .. MaxRespCalls
  <2>1. MaxRespCalls \in Nat
    BY RespConstants
  <2> QED
    BY <1>2, <2>1
<1>15. -1 \in Sizes \cup {-1} /\ ~(-1 # -1) /\ Len(wish'.hdrs) <= MaxRespHeaders /\ Len(resp'.hdrs) <= MaxRespHeaders
  BY <1>1, <1>w, <1>11
<1> HIDE DEF Datas
<1>16. resp' \in [status : Texts, type : Texts, hdrs : Seq(Values), first_chunk_sent : BOOLEAN]
  BY <1>11 DEF Datas
<1> QED
  BY <1>2, <1>4, <1>5, <1>7, <1>8, <1>10, <1>12, <1>13, <1>14, <1>15, <1>16, SendingKeeps

(* ... and the steps between. *)
LEMMA RespRest ==
  ASSUME RespInv, Arrives \/ RespReturns \/ RespClose \/ UNCHANGED respVars
  PROVE  RespInv'
<1>1. CASE UNCHANGED respVars
  <2>1. /\ resp' = resp /\ line' = line /\ rpc' = rpc /\ error' = error /\ wish' = wish /\ rcalls' = rcalls
        /\ exchanges' = exchanges
    BY <1>1 DEF respVars
  <2>2. PICK l \in Sizes \cup {-1} : Said(l)
    BY DEF RespInv
  <2>3. Said(l)'
    BY <2>1, <2>2 DEF Said
  <2>4. RespTypeOK' /\ RespTypes' /\ Unsaid' /\ ErrorsKnown'
    BY <2>1 DEF RespInv, RespTypeOK, RespTypes, Unsaid, ErrorsKnown
  <2> QED
    BY <2>3, <2>4 DEF RespInv
<1>2. CASE Arrives
  <2>1. /\ rpc = "idle" /\ exchanges < MaxExchanges /\ exchanges' = exchanges + 1 /\ rcalls' = 0
        /\ resp' = FreshResp /\ line' = <<>> /\ wish' = NoWish
        /\ rpc' \in {"handler", "err"}
    BY <1>2 DEF Arrives
  <2>2. /\ error' \in Codes \cup {"none"} /\ (rpc' = "err" => error' \in Codes)
        /\ (rpc' = "handler" /\ error' # "none" => error' \in HandledCodes)
    BY <1>2 DEF Arrives
  <2>3. exchanges' \in 0 .. MaxExchanges /\ 0 \in 0 .. MaxRespCalls /\ MaxRespHeaders >= 0
    <3>1. exchanges \in 0 .. MaxExchanges /\ {MaxRespHeaders, MaxRespCalls, MaxExchanges} \subseteq Nat
      BY RespConstants DEF RespInv, RespTypeOK
    <3> QED
      BY <2>1, <3>1
  <2>4. /\ FreshResp \in [status : Texts, type : Texts, hdrs : Seq(Values), first_chunk_sent : BOOLEAN]
        /\ FreshResp.hdrs = <<>> /\ FreshResp.first_chunk_sent = FALSE
        /\ FreshResp.status = "200 OK" /\ FreshResp.type = "text/html"
    BY EmptySeq DEF FreshResp, Texts
  <2>5. /\ NoWish \in WishSet /\ NoWish.hdrs = <<>> /\ NoWish.body = <<>> /\ NoWish.ended = FALSE
        /\ NoWish.status = "200 OK" /\ NoWish.type = "text/html"
    BY EmptySeq DEF NoWish, Texts, WishSet
  <2>6. RespTypeOK'
    BY <2>1, <2>2, <2>3, <2>4, EmptySeq DEF RespTypeOK
  <2>7. RespTypes'
    BY <2>1, <2>3, <2>4, <2>5, EmptySeq DEF RespTypes
  <2>8. Said(-1)'
    <3>1. -1 \in Sizes \cup {-1}
      OBVIOUS
    <3>2. PartOf(line', Intent(wish', -1))
      BY <2>1, <2>5, <3>1, IntentTokens
    <3> QED
      BY <2>1, <2>5, <3>2 DEF Said
  <2>9. Unsaid' /\ ErrorsKnown'
    BY <2>1, <2>2, <2>4, <2>5 DEF Unsaid, ErrorsKnown
  <2> QED
    BY <2>6, <2>7, <2>8, <2>9 DEF RespInv
<1>3. CASE RespReturns \/ RespClose
  <2>1. /\ resp' = resp /\ line' = line /\ error' = error /\ wish' = wish /\ rcalls' = rcalls
        /\ exchanges' = exchanges
        /\ (rpc = "handler" /\ wish.ended /\ rpc' = "idle" /\ error # "500") \/ rpc' \in {"fail", "closed"}
    BY <1>3 DEF RespReturns, RespClose, Kept
  <2>2. PICK l \in Sizes \cup {-1} : Said(l)
    BY DEF RespInv
  <2>3. Said(l)'
    BY <2>1, <2>2 DEF Said
  <2>4. RespTypeOK' /\ RespTypes' /\ Unsaid'
    BY <2>1 DEF RespInv, RespTypeOK, RespTypes, Unsaid
  <2>5. ErrorsKnown'
    BY <2>1 DEF RespInv, ErrorsKnown
  <2> QED
    BY <2>3, <2>4, <2>5 DEF RespInv
<1> QED
  BY <1>1, <1>2, <1>3

(* A client that finds a response whole got what the handler wanted to say, *)
(* and a connection is kept only with a whole response on it, whatever was  *)
(* set, sent, cut short or refused before (httpd_txrx.c:68-84, 254-441,     *)
(* 597-617).                                                                *)
THEOREM ResponsesRight == RespSpec => []ResponseRight
<1>1. RespInit => RespInv
  <2> SUFFICES ASSUME RespInit PROVE RespInv
    OBVIOUS
  <2>1. /\ resp = FreshResp /\ line = <<>> /\ wish = NoWish /\ rpc = "idle" /\ error = "none"
        /\ rcalls = 0 /\ exchanges = 0
    BY DEF RespInit
  <2>2. {MaxRespHeaders, MaxRespCalls, MaxExchanges} \subseteq Nat
    BY RespConstants
  <2>3. /\ FreshResp \in [status : Texts, type : Texts, hdrs : Seq(Values), first_chunk_sent : BOOLEAN]
        /\ FreshResp.hdrs = <<>> /\ FreshResp.first_chunk_sent = FALSE
    BY EmptySeq DEF FreshResp, Texts
  <2>4. NoWish \in WishSet /\ NoWish.hdrs = <<>> /\ NoWish.body = <<>> /\ NoWish.ended = FALSE
    BY EmptySeq DEF NoWish, Texts, WishSet
  <2>5. RespTypeOK
    BY <2>1, <2>2, <2>3, EmptySeq DEF RespTypeOK
  <2>6. RespTypes
    BY <2>1, <2>2, <2>3, <2>4, EmptySeq DEF RespTypes
  <2>7. Said(-1)
    <3>1. -1 \in Sizes \cup {-1}
      OBVIOUS
    <3>2. PartOf(line, Intent(wish, -1))
      BY <2>1, <2>4, <3>1, IntentTokens
    <3> QED
      BY <2>1, <2>4, <3>2 DEF Said
  <2>8. Unsaid /\ ErrorsKnown
    BY <2>1 DEF Unsaid, ErrorsKnown
  <2> QED
    BY <2>5, <2>6, <2>7, <2>8 DEF RespInv
<1>2. RespInv /\ [RespNext]_respVars => RespInv'
  <2> SUFFICES ASSUME RespInv, [RespNext]_respVars PROVE RespInv'
    OBVIOUS
  <2>1. CASE \E v \in Values : RespSetStatus(v) \/ RespSetType(v) \/ RespSetHdr(v)
    BY <2>1, RespSets
  <2>2. CASE \E n \in Sizes : RespChunk(n)
    BY <2>2, RespChunks
  <2>3. CASE (\E n \in Sizes : RespSendAll(n)) \/ (\E s \in Codes, n \in Sizes : RespSendErr(s, n)) \/ NoErrHandler
    BY <2>3, RespAnswers
  <2>4. CASE Arrives \/ RespReturns \/ RespClose \/ UNCHANGED respVars
    BY <2>4, RespRest
  <2> QED
    BY <2>1, <2>2, <2>3, <2>4 DEF RespNext
<1>3. RespInv => ResponseRight
  BY RespInvSays
<1> QED
  BY <1>1, <1>2, <1>3, PTL DEF RespSpec
=============================================================================
