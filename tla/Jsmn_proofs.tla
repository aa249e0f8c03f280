---------------------------- MODULE Jsmn_proofs ----------------------------
(***************************************************************************)
(* Proofs about Jsmn, for any texts, any buffers they are in and any       *)
(* number of tokens: its tokens form a tree at every return                *)
(* (JsmnTokensNest), every call returns (JsmnReturns), many calls are as   *)
(* one (JsmnResumedAsOnce), what is behind the text hardly matters         *)
(* (JsmnIgnoresRest), and a call without tokens counts those that are      *)
(* needed (JsmnCountSuffices).                                             *)
(*                                                                         *)
(* A call is a sequence of rounds.  The first half says what a round may   *)
(* do: end, skip, find a token, open one or close one (Steps), which needs *)
(* that toksuper is the last open token (Sound), and that each of these    *)
(* keeps the tree (Good).  The other half compares rounds: of two parsers  *)
(* that differ in their counts (Same), of one parser with more tokens and  *)
(* more text in the buffer (RunLonger), or with something else behind the  *)
(* text (RunOfBoth), and of a call with tokens and one without             *)
(* (Counting).  The invariant Reached says that the parser the caller      *)
(* keeps is that of some round of the one call it is compared with.        *)
(***************************************************************************)
EXTENDS Jsmn, Recursion, FiniteSetTheorems, SequenceTheorems

-----------------------------------------------------------------------------
(* The text *)

\* A buffer,
TextSet == Seq(STRING \union {"nul"})

\* how much of it may have arrived,
Parts(js) == {t \in 0..Len(js) : \A i \in 1..t : js[i] # "nul"}

\* and another one that begins with the same t characters, and has u by now
Continues(js, t, ks, u) ==
  Len(ks) = Len(js) /\ t <= u /\ \A i \in 1..t : ks[i] = js[i]

\* A part is within the buffer.
LEMMA PartIs ==
  ASSUME NEW js \in TextSet, NEW t \in Parts(js)
  PROVE  /\ Len(js) \in Nat /\ t \in Nat /\ t <= Len(js) /\ t \in 0..Len(js)
         /\ \A i \in 1..t : js[i] # "nul"
BY DEF TextSet, Parts

\* What is read within the text is a character of it, behind it the end.
LEMMA CharIs ==
  ASSUME NEW js \in TextSet, NEW t \in Parts(js), NEW i \in Nat
  PROVE  Char(js, t, i) = "nul" <=> i >= t
<1>0. t \in Nat /\ \A j \in 1..t : js[j] # "nul"
  BY PartIs
<1>1. CASE i < t
  <2>1. i + 1 \in 1..t
    BY <1>0, <1>1
  <2> QED
    BY <1>0, <1>1, <2>1 DEF Char
<1>2. CASE i >= t
  BY <1>0, <1>2 DEF Char
<1> QED
  BY <1>0, <1>1, <1>2

\* More of the text does not change what has been read,
LEMMA CharLonger ==
  ASSUME NEW js \in TextSet, NEW t \in Parts(js), NEW ks \in TextSet,
         NEW u \in Parts(ks), Continues(js, t, ks, u), NEW i \in Nat, i < t
  PROVE  Char(ks, u, i) = Char(js, t, i)
<1>1. t \in Nat /\ u \in Nat /\ i < u /\ i + 1 \in 1..t
  BY PartIs DEF Continues
<1> QED
  BY <1>1 DEF Char, Continues

\* whether or not it was looked at len.
LEMMA ByteLonger ==
  ASSUME NEW js \in TextSet, NEW t \in Parts(js), NEW ks \in TextSet,
         NEW u \in Parts(ks), Continues(js, t, ks, u), NEW i \in Nat, i < t
  PROVE  Byte(ks, i) = Byte(js, i) /\ Byte(js, i) # "nul"
<1>1. /\ t \in Nat /\ t <= Len(js) /\ Len(js) \in Nat /\ Len(ks) = Len(js)
      /\ i + 1 \in 1..t /\ i < Len(js)
  BY PartIs DEF Continues
<1>2. ks[i + 1] = js[i + 1] /\ js[i + 1] # "nul"
  BY <1>1, PartIs DEF Continues
<1> QED
  BY <1>1, <1>2 DEF Byte

\* What Digits is the number of
DigitsAre(js, i, k) ==
  /\ \A j \in 0..(k - 1) : Byte(js, i + j) \in Hex
  /\ k = 4 \/ Byte(js, i + k) \notin Hex

\* There is one such number,
LEMMA DigitsIs ==
  ASSUME NEW js, NEW i \in Nat
  PROVE  Digits(js, i) \in 0..4 /\ DigitsAre(js, i, Digits(js, i))
<1> DEFINE h(j) == Byte(js, i + j) \in Hex
<1>1. \E k \in 0..4 : (\A j \in 0..(k - 1) : h(j)) /\ (k = 4 \/ ~h(k))
  <2> HIDE DEF h
  <2>1. CASE ~h(0)
    BY <2>1
  <2>2. CASE h(0) /\ ~h(1)
    <3>1. \A j \in 0..(1 - 1) : h(j)
      BY <2>2
    <3> QED
      BY <2>2, <3>1
  <2>3. CASE h(0) /\ h(1) /\ ~h(2)
    <3>1. \A j \in 0..(2 - 1) : h(j)
      BY <2>3
    <3> QED
      BY <2>3, <3>1
  <2>4. CASE h(0) /\ h(1) /\ h(2) /\ ~h(3)
    <3>1. \A j \in 0..(3 - 1) : h(j)
      BY <2>4
    <3> QED
      BY <2>4, <3>1
  <2>5. CASE h(0) /\ h(1) /\ h(2) /\ h(3)
    <3>1. \A j \in 0..(4 - 1) : h(j)
      BY <2>5
    <3> QED
      BY <2>5, <3>1
  <2> QED
    BY <2>1, <2>2, <2>3, <2>4, <2>5
<1> QED
  BY <1>1 DEF Digits, DigitsAre

\* and no other.
LEMMA DigitsUnique ==
  ASSUME NEW js, NEW i \in Nat, NEW k \in 0..4, NEW l \in 0..4,
         DigitsAre(js, i, k), DigitsAre(js, i, l)
  PROVE  k = l
<1>1. ASSUME NEW a \in 0..4, NEW b \in 0..4, a < b,
             DigitsAre(js, i, a), DigitsAre(js, i, b)
      PROVE  FALSE
  <2>1. a \in 0..(b - 1) /\ a # 4
    BY <1>1
  <2> QED
    BY <1>1, <2>1 DEF DigitsAre
<1> QED
  BY <1>1

\* A round of jsmn_parse_string's loop does not go back.
LEMMA PastIs ==
  ASSUME NEW js, NEW t, NEW i \in Nat
  PROVE  Past(js, t, i) \in Nat /\ Past(js, t, i) >= i
BY DigitsIs, i + 2 \in Nat DEF Past

\* What it passes it passes when more of the text is there as well.
LEMMA PastLonger ==
  ASSUME NEW js \in TextSet, NEW t \in Parts(js), NEW ks \in TextSet,
         NEW u \in Parts(ks), Continues(js, t, ks, u),
         NEW i \in Nat, Past(js, t, i) < t,
         Past(js, t, i) # i \/ Char(js, t, i) = "quote"
  PROVE  Past(ks, u, i) = Past(js, t, i)
<1> DEFINE c == Char(js, t, i)
           e == Byte(js, i + 1)
           d == Digits(js, i + 2)
           b == Digits(ks, i + 2)
<1>0. t \in Nat /\ u \in Nat
  BY PartIs
<1>1. i < t /\ Char(ks, u, i) = c /\ c # "nul"
  BY <1>0, PastIs, CharLonger, CharIs
<1>2. CASE c # "backslash"
  BY <1>1, <1>2 DEF Past
<1>3. CASE c = "backslash"
  <2>1. i + 1 \in Nat /\ i + 2 \in Nat /\ d \in 0..4
    BY DigitsIs
  <2>2. e \in Escapes \/ e = "u"
    BY <1>3 DEF Past
  <2>3. i + 1 < t
    <3>1. CASE e \in Escapes
      <4>1. Past(js, t, i) = i + 2
        BY <1>3, <3>1 DEF Past
      <4> QED
        BY <1>0, <4>1
    <3>2. CASE e \notin Escapes
      <4>1. Past(js, t, i) = i + 2 + d
        BY <1>3, <3>2 DEF Past
      <4> QED
        BY <1>0, <2>1, <4>1
    <3> QED
      BY <3>1, <3>2
  <2>4. Byte(ks, i + 1) = e
    BY <2>1, <2>3, ByteLonger
  <2>5. CASE e \in Escapes
    BY <1>1, <1>3, <2>4, <2>5 DEF Past
  <2>6. CASE e \notin Escapes
    <3>1. e = "u" /\ (d = 4 \/ Byte(js, i + 2 + d) = "nul")
      BY <1>3, <2>6 DEF Past
    <3>2. Past(js, t, i) = i + 2 + d
      BY <1>3, <2>6, <3>1 DEF Past
    <3>3. i + 2 + d \in Nat /\ i + 2 + d < t
      BY <2>1, <3>2
    <3>4. d = 4
      BY <3>1, <3>3, ByteLonger
    <3>5. DigitsAre(js, i + 2, d)
      BY <2>1, DigitsIs
    <3>6. ASSUME NEW j \in 0..(d - 1)
          PROVE  Byte(ks, (i + 2) + j) \in Hex
      <4>1. (i + 2) + j \in Nat /\ (i + 2) + j < t
        BY <1>0, <2>1, <3>3
      <4>2. Byte(js, (i + 2) + j) \in Hex
        BY <3>5 DEF DigitsAre
      <4> QED
        BY <4>1, <4>2, ByteLonger
    <3>7. DigitsAre(ks, i + 2, d)
      BY <3>4, <3>6 DEF DigitsAre
    <3>8. b = d
      BY <2>1, <3>7, DigitsIs, DigitsUnique
    <3> QED
      BY <1>1, <1>3, <2>4, <2>6, <3>1, <3>2, <3>4, <3>8 DEF Past
  <2> QED
    BY <2>5, <2>6
<1> QED
  BY <1>2, <1>3

-----------------------------------------------------------------------------
(* Loops *)

\* The rounds of jsmn_parse_string's loop
LEMMA PlacesAre ==
  ASSUME NEW js \in TextSet, NEW t, NEW i \in Nat
  PROVE  /\ Places(js, t, i) \in [0..Len(js) -> Nat]
         /\ Places(js, t, i)[0] = i
         /\ \A k \in 1..Len(js) :
              Places(js, t, i)[k] = Past(js, t, Places(js, t, i)[k - 1])
<1> DEFINE N == Len(js)
           h == [x \in Nat |-> Past(js, t, x)]
           Made(p) == p = [k \in 0..N |-> IF k = 0 THEN i
                                          ELSE Past(js, t, p[k - 1])]
<1>1. N \in Nat
  BY DEF TextSet
<1>2. h \in [Nat -> Nat] /\ \A x \in Nat : h[x] = Past(js, t, x)
  BY PastIs
<1> HIDE DEF N, h
<1>3. PICK g : Repeated(g, N, Nat, i, h)
  <2> DEFINE z == i
  <2> HIDE DEF z
  <2>1. \E g : Repeated(g, N, Nat, z, h)
    BY <1>1, <1>2, RepetitionExists DEF z
  <2> QED
    BY <2>1 DEF z
<1>4. \A k \in 1..N : k - 1 \in 0..N /\ g[k - 1] \in Nat
  BY <1>1, <1>3 DEF Repeated
<1>5. \A k \in 1..N : g[k] = Past(js, t, g[k - 1])
  BY <1>2, <1>3, <1>4 DEF Repeated
<1>6. Made(g)
  BY <1>3, <1>5 DEF Repeated
<1>7. Made(Places(js, t, i))
  <2>1. Places(js, t, i) = CHOOSE p : Made(p)
    BY DEF Places, N
  <2> HIDE DEF Made
  <2> QED
    BY <1>6, <2>1
<1> DEFINE P == Places(js, t, i)
<1>8. /\ P = [k \in 0..N |-> P[k]] /\ P[0] = i
      /\ \A k \in 1..N : P[k] = Past(js, t, P[k - 1])
  <2> HIDE DEF P
  <2>1. P = [k \in 0..N |-> IF k = 0 THEN i ELSE Past(js, t, P[k - 1])]
    BY <1>7 DEF P
  <2> QED
    BY <1>1, <2>1
<1>9. \A k \in 0..N : P[k] \in Nat
  <2> DEFINE T == {k \in Nat : k <= N => P[k] \in Nat}
  <2>1. 0 \in T
    BY <1>8
  <2>2. ASSUME NEW k \in T, k < N PROVE k + 1 \in T
    <3>1. k + 1 \in 1..N /\ (k + 1) - 1 = k /\ P[k] \in Nat
      BY <1>1, <2>2
    <3>2. P[k + 1] = Past(js, t, P[k])
      BY <1>8, <3>1
    <3> QED
      BY <3>1, <3>2, PastIs
  <2>3. T \in SUBSET Nat
    OBVIOUS
  <2> HIDE DEF T
  <2>4. \A k \in 0..N : k \in T
    BY <1>1, <2>1, <2>2, <2>3, InductUpTo
  <2> QED
    BY <1>1, <2>4 DEF T
<1>10. P \in [0..N -> Nat]
  BY <1>8, <1>9
<1> QED
  BY <1>8, <1>10 DEF N

\* The rounds of jsmn_parse_string's loop are enough: it has ended.
LEMMA QuoteEnds ==
  ASSUME NEW js \in TextSet, NEW t \in Parts(js), NEW i \in Nat
  PROVE  Past(js, t, Places(js, t, i)[Len(js)]) = Places(js, t, i)[Len(js)]
<1> DEFINE N == Len(js)
           P == Places(js, t, i)
           T == {k \in Nat : k <= N => P[k] >= k \/ Past(js, t, P[k]) = P[k]}
<1>1. N \in Nat /\ t \in 0..N
  BY PartIs
<1>2. /\ P \in [0..N -> Nat] /\ P[0] = i
      /\ \A k \in 1..N : P[k] = Past(js, t, P[k - 1])
  BY PlacesAre
<1> HIDE DEF P
<1>3. 0 \in T
  BY <1>2
<1>4. ASSUME NEW k \in T, k < N PROVE k + 1 \in T
  <2>1. k + 1 \in 1..N /\ (k + 1) - 1 = k /\ P[k] \in Nat /\ k <= N
    BY <1>1, <1>2, <1>4
  <2>2. P[k + 1] = Past(js, t, P[k])
    BY <1>2, <2>1
  <2>3. P[k + 1] \in Nat /\ P[k + 1] >= P[k]
    BY <2>1, <2>2, PastIs
  <2> QED
    BY <1>4, <2>1, <2>2, <2>3
<1>5. T \in SUBSET Nat
  OBVIOUS
<1> HIDE DEF T
<1>6. \A k \in 0..N : k \in T
  BY <1>1, <1>3, <1>4, <1>5, InductUpTo
<1>7. P[N] >= N \/ Past(js, t, P[N]) = P[N]
  BY <1>1, <1>6 DEF T
<1>8. CASE P[N] >= N
  <2>1. P[N] \in Nat /\ P[N] >= t
    BY <1>1, <1>2, <1>8
  <2>2. Char(js, t, P[N]) = "nul"
    BY <1>1, <2>1, CharIs
  <2> QED
    BY <2>2 DEF Past, P
<1> QED
  BY <1>7, <1>8 DEF P

\* The closing quote is in the text and not in front of where it is sought.
LEMMA QuoteIs ==
  ASSUME NEW js \in TextSet, NEW t \in Parts(js), NEW i \in Nat
  PROVE  \/ Quote(js, t, i) \in {PART, INVAL}
         \/ /\ Quote(js, t, i) \in Nat
            /\ i <= Quote(js, t, i) /\ Quote(js, t, i) < t
<1> DEFINE N == Len(js)
           P == Places(js, t, i)
<1>1. N \in Nat
  BY DEF TextSet
<1>2. /\ P \in [0..N -> Nat] /\ P[0] = i
      /\ \A k \in 1..N : P[k] = Past(js, t, P[k - 1])
  BY PlacesAre
<1> HIDE DEF P
<1>3. \A k \in 0..N : P[k] >= i
  <2> DEFINE T == {k \in Nat : k <= N => P[k] >= i}
  <2>1. 0 \in T
    BY <1>2
  <2>2. ASSUME NEW k \in T, k < N PROVE k + 1 \in T
    <3>1. k + 1 \in 1..N /\ (k + 1) - 1 = k /\ P[k] \in Nat /\ P[k] >= i
      BY <1>1, <1>2, <2>2
    <3>2. P[k + 1] = Past(js, t, P[k])
      BY <1>2, <3>1
    <3>3. P[k + 1] \in Nat /\ P[k + 1] >= P[k]
      BY <3>1, <3>2, PastIs
    <3> QED
      BY <3>1, <3>3
  <2>3. T \in SUBSET Nat
    OBVIOUS
  <2> HIDE DEF T
  <2>4. \A k \in 0..N : k \in T
    BY <1>1, <2>1, <2>2, <2>3, InductUpTo
  <2> QED
    BY <1>1, <2>4 DEF T
<1>4. P[N] \in Nat /\ P[N] >= i
  BY <1>1, <1>2, <1>3
<1>5. CASE Char(js, t, P[N]) = "quote"
  <2>1. Quote(js, t, i) = P[N]
    BY <1>5 DEF Quote, P
  <2> DEFINE x == P[N]
  <2>2. x \in Nat /\ Char(js, t, x) # "nul"
    BY <1>4, <1>5
  <2> HIDE DEF x
  <2>3. t \in Nat /\ ~(x >= t)
    BY <2>2, CharIs, PartIs
  <2>4. P[N] < t
    BY <2>2, <2>3 DEF x
  <2> QED
    BY <1>4, <2>1, <2>4
<1>6. CASE Char(js, t, P[N]) # "quote"
  BY <1>6 DEF Quote, P
<1> QED
  BY <1>5, <1>6

\* More of the text does not change where the string ends.
LEMMA QuoteLonger ==
  ASSUME NEW js \in TextSet, NEW t \in Parts(js), NEW ks \in TextSet,
         NEW u \in Parts(ks), Continues(js, t, ks, u), NEW i \in Nat,
         Quote(js, t, i) >= 0
  PROVE  Quote(ks, u, i) = Quote(js, t, i)
<1> DEFINE N == Len(js)
           P == Places(js, t, i)
           R == Places(ks, u, i)
<1>1. N \in Nat /\ t \in 0..N /\ Len(ks) = N
  BY PartIs DEF Continues
<1>2. /\ P \in [0..N -> Nat] /\ P[0] = i
      /\ \A k \in 1..N : P[k] = Past(js, t, P[k - 1])
  BY PlacesAre
<1>3. /\ R \in [0..N -> Nat] /\ R[0] = i
      /\ \A k \in 1..N : R[k] = Past(ks, u, R[k - 1])
  BY <1>1, PlacesAre
<1>4. Char(js, t, P[N]) = "quote" /\ Quote(js, t, i) = P[N]
  <2>1. CASE Char(js, t, P[N]) = "quote"
    BY <2>1 DEF Quote
  <2>2. CASE Char(js, t, P[N]) # "quote"
    BY <2>2 DEF Quote, PART, INVAL
  <2> QED
    BY <2>1, <2>2
<1> HIDE DEF P, R
<1>5. P[N] \in Nat /\ P[N] < t
  BY <1>1, <1>2, <1>4, CharIs
<1>6. \A k \in 0..N : \A j \in 0..k : P[j] <= P[k]
  <2> DEFINE T == {k \in Nat : k <= N => \A j \in 0..k : P[j] <= P[k]}
  <2>1. 0 \in T
    BY <1>2
  <2>2. ASSUME NEW k \in T, k < N PROVE k + 1 \in T
    <3>0. k \in Nat /\ k \in 0..N /\ k + 1 \in 1..N /\ (k + 1) - 1 = k
      <4>1. k \in Nat
        BY DEF T
      <4> QED
        BY ONLY <1>1, <2>2, <4>1
    <3>1. k + 1 \in 1..N /\ (k + 1) - 1 = k /\ P[k] \in Nat
      BY ONLY <1>2, <3>0
    <3>2. P[k + 1] = Past(js, t, P[k])
      BY ONLY <1>2, <3>1
    <3>3. P[k + 1] \in Nat /\ P[k + 1] >= P[k]
      BY <3>1, <3>2, PastIs
    <3>4. ASSUME NEW j \in 0..(k + 1) PROVE P[j] <= P[k + 1]
      <4>1. CASE j = k + 1
        BY <3>3, <4>1
      <4>2. CASE j \in 0..k
        <5>1. j \in 0..N /\ P[j] \in Nat
          BY <1>1, <1>2, <2>2, <4>2
        <5>2. P[j] <= P[k]
          BY <2>2, <3>1, <4>2
        <5> QED
          BY <3>1, <3>3, <5>1, <5>2
      <4> QED
        BY <4>1, <4>2
    <3> QED
      BY <3>4
  <2>3. T \in SUBSET Nat
    OBVIOUS
  <2> HIDE DEF T
  <2>4. \A k \in 0..N : k \in T
    BY <1>1, <2>1, <2>2, <2>3, InductUpTo
  <2> QED
    BY <1>1, <2>4 DEF T
\* a round that does not move on was the last to do so
<1>7. ASSUME NEW k \in 0..N, Past(js, t, P[k]) = P[k]
      PROVE  P[N] = P[k]
  <2> DEFINE T == {j \in Nat : k + j <= N => P[k + j] = P[k]}
  <2>1. 0 \in T
    BY <1>1
  <2>2. ASSUME NEW j \in T, j < N PROVE j + 1 \in T
    <3>1. CASE k + (j + 1) <= N
      <4>1. k + (j + 1) \in 1..N /\ (k + (j + 1)) - 1 = k + j /\ k + j <= N
        BY <1>1, <2>2, <3>1
      <4>2. P[k + (j + 1)] = Past(js, t, P[k + j])
        BY <1>2, <4>1
      <4> QED
        BY <1>7, <2>2, <4>1, <4>2
    <3> QED
      BY <3>1
  <2>3. T \in SUBSET Nat
    OBVIOUS
  <2> HIDE DEF T
  <2>4. N - k \in 0..N /\ k + (N - k) = N
    BY <1>1
  <2>5. \A j \in 0..N : j \in T
    BY <1>1, <2>1, <2>2, <2>3, InductUpTo
  <2>6. N - k \in T
    BY <2>4, <2>5
  <2> QED
    BY <2>4, <2>6, N \in Nat DEF T
<1>8. \A k \in 0..N : R[k] = P[k]
  <2> DEFINE T == {k \in Nat : k <= N => R[k] = P[k]}
  <2>1. 0 \in T
    BY <1>2, <1>3
  <2>2. ASSUME NEW k \in T, k < N PROVE k + 1 \in T
    <3>1. /\ k + 1 \in 1..N /\ (k + 1) - 1 = k /\ k \in 0..N /\ N \in 0..N
          /\ P[k] \in Nat /\ R[k] = P[k] /\ k + 1 \in 0..N
      BY <1>1, <1>2, <2>2
    <3>2. P[k + 1] = Past(js, t, P[k]) /\ R[k + 1] = Past(ks, u, P[k])
      BY <1>2, <1>3, <3>1
    <3>3. P[k + 1] \in Nat /\ P[k + 1] <= P[N]
      BY <1>1, <1>2, <1>6, <3>1
    <3>4. Past(js, t, P[k]) < t
      BY <1>1, <1>5, <3>2, <3>3
    <3>5. Past(js, t, P[k]) # P[k] \/ Char(js, t, P[k]) = "quote"
      BY <1>4, <1>7, <3>1
    <3> QED
      BY <3>1, <3>2, <3>4, <3>5, PastLonger
  <2>3. T \in SUBSET Nat
    OBVIOUS
  <2> HIDE DEF T
  <2>4. \A k \in 0..N : k \in T
    BY <1>1, <2>1, <2>2, <2>3, InductUpTo
  <2> QED
    BY <1>1, <2>4 DEF T
<1>9. R[N] = P[N] /\ Char(ks, u, P[N]) = "quote"
  BY <1>1, <1>4, <1>5, <1>8, CharLonger
<1>10. Quote(ks, u, i) = R[N]
  BY <1>1, <1>9 DEF Quote, R
<1> QED
  BY <1>4, <1>9, <1>10

-----------------------------------------------------------------------------
(* Primitives *)

\* The characters behind which jsmn_parse_primitive does not read
Stops == Ends \union {NotASCII}

\* Where it stops reading
StopsAt(js, t, start, i) ==
  /\ i \in start..t
  /\ i = t \/ Char(js, t, i) \in Stops
  /\ \A j \in start..(i - 1) : Char(js, t, j) \notin Stops

\* There is one such place,
LEMMA PrimitiveEndIs ==
  ASSUME NEW js, NEW t \in Nat, NEW start \in 0..t
  PROVE  StopsAt(js, t, start, PrimitiveEnd(js, t, start))
<1> DEFINE T == {i \in start..t : i = t \/ Char(js, t, i) \in Stops}
<1>1. T \subseteq Nat /\ T # {}
  <2>1. t \in T
    OBVIOUS
  <2> QED
    BY <2>1
<1>2. PICK n \in T : \A m \in T : n <= m
  BY <1>1, Least
<1>3. ASSUME NEW j \in start..(n - 1) PROVE Char(js, t, j) \notin Stops
  <2>1. n \in start..t
    BY <1>2
  <2>2. j \in start..t /\ ~(n <= j)
    BY <2>1
  <2>3. j \notin T
    BY <1>2, <2>2
  <2> QED
    BY <2>2, <2>3
<1>4. n \in start..t /\ StopsAt(js, t, start, n)
  BY <1>2, <1>3 DEF StopsAt
<1>5. PrimitiveEnd(js, t, start) =
        CHOOSE i \in start..t : StopsAt(js, t, start, i)
  <2>1. \A i : i \in start..t /\ StopsAt(js, t, start, i) <=>
               /\ i \in start..t
               /\ i = t \/ Char(js, t, i) \in Ends \union {NotASCII}
               /\ \A j \in start..(i - 1) :
                    Char(js, t, j) \notin Ends \union {NotASCII}
    BY Zenon DEF StopsAt, Stops
  <2> QED
    BY <2>1, Zenon DEF PrimitiveEnd, StopsAt, Stops
<1> QED
  BY <1>4, <1>5

\* and no other.
LEMMA StopsOnce ==
  ASSUME NEW js, NEW t \in Nat, NEW start \in 0..t, NEW i, NEW j,
         StopsAt(js, t, start, i), StopsAt(js, t, start, j)
  PROVE  i = j
<1>1. ASSUME NEW a, NEW b, StopsAt(js, t, start, a), StopsAt(js, t, start, b),
             a < b
      PROVE  FALSE
  <2>1. a \in start..(b - 1) /\ a # t
    BY <1>1 DEF StopsAt
  <2> QED
    BY <1>1, <2>1 DEF StopsAt
<1>2. i \in Nat /\ j \in Nat
  BY DEF StopsAt
<1> QED
  BY <1>1, <1>2

\* A primitive that does not end where the text that has arrived does, or that
\* ends there anyway, is the same when more has arrived.
LEMMA PrimitiveLonger ==
  ASSUME NEW js \in TextSet, NEW t \in Parts(js), NEW ks \in TextSet,
         NEW u \in Parts(ks), Continues(js, t, ks, u), NEW start \in 0..t,
         \/ PrimitiveEnd(js, t, start) < t
         \/ u = t
         \/ Char(ks, u, t) \in Ends
  PROVE  /\ PrimitiveEnd(ks, u, start) = PrimitiveEnd(js, t, start)
         /\ Char(ks, u, PrimitiveEnd(js, t, start)) = NotASCII
              <=> Char(js, t, PrimitiveEnd(js, t, start)) = NotASCII
<1> DEFINE e == PrimitiveEnd(js, t, start)
<1>0. /\ t \in Nat /\ u \in Nat /\ t <= u /\ start \in 0..t /\ start \in 0..u
  BY PartIs DEF Continues
<1>1. StopsAt(js, t, start, e)
  BY <1>0, PrimitiveEndIs
<1>2. e \in start..t /\ e \in Nat
  BY <1>0, <1>1 DEF StopsAt
<1>3. Char(ks, u, e) = NotASCII <=> Char(js, t, e) = NotASCII
  <2>1. CASE e < t
    <3>1. Char(ks, u, e) = Char(js, t, e)
      BY <1>2, <2>1, CharLonger
    <3> QED
      BY <3>1
  <2>2. CASE u = t /\ e = t
    <3>1. Char(js, t, e) = "nul" /\ Char(ks, u, e) = "nul"
      BY <1>0, <2>2, CharIs
    <3> QED
      BY <3>1 DEF NotASCII
  <2>3. CASE e = t /\ Char(ks, u, t) \in Ends
    <3>1. Char(js, t, e) = "nul"
      BY <1>0, <1>2, <2>3, CharIs
    <3> QED
      BY <2>3, <3>1 DEF NotASCII, Ends, Separators
  <2>4. e < t \/ e = t
    BY <1>0, <1>2
  <2>5. PrimitiveEnd(js, t, start) < t \/ u = t \/ Char(ks, u, t) \in Ends
    OBVIOUS
  <2> HIDE DEF e
  <2> QED
    BY <1>0, <2>1, <2>2, <2>3, <2>4, <2>5 DEF e
<1>4. e = u \/ Char(ks, u, e) \in Stops
  <2>1. CASE e < t
    <3>1. Char(js, t, e) \in Stops
      BY <1>0, <1>1, <1>2, <2>1 DEF StopsAt
    <3>2. Char(ks, u, e) = Char(js, t, e)
      BY <1>2, <2>1, CharLonger
    <3> QED
      BY <3>1, <3>2
  <2>2. CASE e = t /\ Char(ks, u, t) \in Ends
    BY <2>2 DEF Stops
  <2>3. e < t \/ e = t
    BY <1>0, <1>2
  <2>4. e < t \/ u = t \/ Char(ks, u, t) \in Ends
    OBVIOUS
  <2> HIDE DEF e
  <2> QED
    BY <2>1, <2>2, <2>3, <2>4
<1>5. ASSUME NEW j \in start..(e - 1) PROVE Char(ks, u, j) \notin Stops
  <2>1. j \in Nat /\ j < t
    BY <1>0, <1>2
  <2>2. Char(js, t, j) \notin Stops
    BY <1>1 DEF StopsAt
  <2> QED
    BY <2>1, <2>2, CharLonger
<1>6. StopsAt(ks, u, start, e)
  BY <1>0, <1>2, <1>4, <1>5 DEF StopsAt
<1>7. StopsAt(ks, u, start, PrimitiveEnd(ks, u, start))
  BY <1>0, PrimitiveEndIs
<1>8. e = PrimitiveEnd(ks, u, start)
  <2> DEFINE f == PrimitiveEnd(ks, u, start)
  <2> HIDE DEF e, f
  <2> QED
    BY <1>0, <1>6, <1>7, StopsOnce DEF f
<1> QED
  BY <1>3, <1>8

-----------------------------------------------------------------------------
(* The tokens *)

\* The last of a set of indices
LEMMA LastIs ==
  ASSUME NEW m \in Nat, NEW S, S \subseteq 1..m
  PROVE  \/ S = {} /\ Last(S) = 0
         \/ /\ S # {} /\ Last(S) \in S /\ Last(S) \in 1..m
            /\ \A j \in S : j <= Last(S)
<1>1. CASE S = {}
  BY <1>1 DEF Last
<1>2. CASE S # {}
  <2> DEFINE T == {m - i : i \in S}
  <2>0. \A i \in S : i \in 1..m /\ m - i \in Nat
    OBVIOUS
  <2>1. T \subseteq Nat /\ T # {}
    BY <1>2, <2>0
  <2>2. PICK n \in T : \A k \in T : n <= k
    BY <2>1, Least
  <2>3. PICK i \in S : n = m - i
    BY <2>2
  <2>4. ASSUME NEW j \in S PROVE j <= i
    <3>1. m - i <= m - j /\ i \in 1..m /\ j \in 1..m
      BY <2>2, <2>3
    <3> QED
      BY <3>1
  <2>5. \E x \in S : \A j \in S : j <= x
    BY <2>4
  <2>6. Last(S) = CHOOSE x \in S : \A j \in S : j <= x
    BY <1>2 DEF Last
  <2>7. Last(S) \in S /\ \A j \in S : j <= Last(S)
    BY <2>5, <2>6
  <2> QED
    BY <1>2, <2>7
<1> QED
  BY <1>1, <1>2

\* What a call works on
Types == {"{", "[", "string", "primitive"}

\* What jsmntok_t holds
Token == [type : Types, start : Nat, end : Nat \union {-1}, size : Nat]

\* What a call works on
ParserSet ==
  [pos : Nat, toknext : Nat, toksuper : Nat, tokens : Seq(Token),
   count : Nat, result : Int]

\* A parser and its tokens, as far as a round relies on them
Sound(p) ==
  /\ p \in ParserSet
  /\ p.toknext = Len(p.tokens)
  /\ p.toksuper = Last(OpenTokens(p))

\* The parser is what it was, but for the count and the result.
SameCore(p, q) ==
  /\ q.pos = p.pos /\ q.toknext = p.toknext /\ q.toksuper = p.toksuper
  /\ q.tokens = p.tokens

\* What a round may do: end,
Ended(p, q) == q.result # NotCalled /\ SameCore(p, q)

\* pass over something,
Skips(p, q) ==
  /\ q.result = NotCalled
  /\ q.toknext = p.toknext /\ q.toksuper = p.toksuper /\ q.tokens = p.tokens

\* find a string or a primitive,
Finds(p, q, tok) ==
  /\ tok \in Token /\ tok.size = 0 /\ tok.end # -1
  /\ p.pos <= tok.start /\ tok.start <= tok.end /\ p.pos < tok.end
  /\ tok.start < q.pos /\ tok.end <= q.pos
  /\ q.result = NotCalled /\ q.toksuper = p.toksuper
  /\ q.toknext = p.toknext + 1 /\ q.tokens = Append(Grown(p), tok)

\* open a container,
Opens(p, q, tok) ==
  /\ tok \in Token /\ tok.size = 0 /\ tok.end = -1 /\ tok.start = p.pos
  /\ q.result = NotCalled /\ q.toksuper = q.toknext
  /\ q.toknext = p.toknext + 1 /\ q.tokens = Append(Grown(p), tok)

\* or close one.
Closes(p, q) ==
  LET i == Last(OpenTokens(p)) IN
  /\ i \in OpenTokens(p)
  /\ q.result = NotCalled /\ q.toknext = p.toknext
  /\ q.pos = p.pos + 1
  /\ q.toksuper = Last(OpenTokens(p) \ {i})
  /\ q.tokens = [p.tokens EXCEPT ![i].end = p.pos + 1]

\* It does not go beyond what has arrived, and moves on unless it ends.
Steps(p, t, q) ==
  /\ q \in ParserSet /\ q.pos <= t
  /\ \/ Ended(p, q)
     \/ /\ p.pos < q.pos
        /\ \/ Skips(p, q)
           \/ \E tok : Finds(p, q, tok)
           \/ \E tok : Opens(p, q, tok)
           \/ Closes(p, q)

\* The types of its parts
LEMMA SoundFacts ==
  ASSUME NEW p, Sound(p)
  PROVE  /\ p.pos \in Nat /\ p.toknext \in Nat /\ p.toksuper \in Nat
         /\ p.tokens \in Seq(Token) /\ p.count \in Nat /\ p.result \in Int
         /\ p.toknext = Len(p.tokens)
         /\ OpenTokens(p) \subseteq 1..p.toknext
         /\ p.toksuper \in 0..p.toknext
<1>1. OpenTokens(p) \subseteq 1..p.toknext
  BY DEF OpenTokens
<1>2. p.toksuper \in 0..p.toknext
  BY <1>1, LastIs, p.toknext \in Nat DEF Sound, ParserSet
<1> QED
  BY <1>1, <1>2 DEF Sound, ParserSet

\* Grown changes one size.
LEMMA GrownIs ==
  ASSUME NEW p, Sound(p)
  PROVE  /\ Grown(p) \in Seq(Token) /\ Len(Grown(p)) = p.toknext
         /\ \A i \in 1..p.toknext :
              /\ Grown(p)[i].type = p.tokens[i].type
              /\ Grown(p)[i].start = p.tokens[i].start
              /\ Grown(p)[i].end = p.tokens[i].end
              /\ Grown(p)[i].size = IF i = p.toksuper THEN p.tokens[i].size + 1
                                    ELSE p.tokens[i].size
<1> DEFINE s == p.tokens
           k == p.toksuper
<1>1. s \in Seq(Token) /\ Len(s) = p.toknext /\ k \in 0..Len(s)
  BY SoundFacts
<1>2. CASE k = 0
  BY <1>1, <1>2 DEF Grown
<1>3. CASE k # 0
  <2> DEFINE g == [s EXCEPT ![k].size = @ + 1]
  <2>1. k \in 1..Len(s) /\ s[k] \in Token
    BY <1>1, <1>3
  <2>2. [s[k] EXCEPT !.size = @ + 1] \in Token
    BY <2>1 DEF Token
  <2>3. g \in Seq(Token) /\ Len(g) = Len(s)
    BY <1>1, <2>1, <2>2
  <2>4. \A i \in 1..Len(s) : s[i] \in Token
    BY <1>1
  <2>5. \A i \in 1..Len(s) : /\ g[i].type = s[i].type
                             /\ g[i].start = s[i].start
                             /\ g[i].end = s[i].end
                             /\ g[i].size = IF i = k THEN s[i].size + 1
                                            ELSE s[i].size
    <3> DEFINE kt == [s[k] EXCEPT !.size = @ + 1]
    <3>1. /\ kt.type = s[k].type /\ kt.start = s[k].start
          /\ kt.end = s[k].end /\ kt.size = s[k].size + 1
      BY <2>1 DEF Token
    <3>2. \A i \in 1..Len(s) : g[i] = IF i = k THEN kt ELSE s[i]
      BY <1>1, <2>1
    <3> HIDE DEF kt, g, s, k
    <3> QED
      BY <3>1, <3>2
  <2>6. Grown(p) = g
    BY <1>3 DEF Grown
  <2> QED
    BY <1>1, <2>3, <2>5, <2>6
<1> QED
  BY <1>2, <1>3

-----------------------------------------------------------------------------
(* What a round does *)

\* The number of tokens a call has, or none are there
Given == Nat \union {-1}

\* The token allocated is the last one, and has no children yet.
LEMMA AllocatedIs ==
  ASSUME NEW p, Sound(p), NEW type \in Types, NEW start \in Nat,
         NEW end \in Nat \union {-1}, NEW q, NEW tok,
         q = Allocated(p, type, start, end),
         tok = [type |-> type, start |-> start, end |-> end, size |-> 0]
  PROVE  /\ q \in ParserSet /\ tok \in Token
         /\ q.tokens = Append(Grown(p), tok)
         /\ q.toknext = p.toknext + 1 /\ q.toksuper = p.toksuper
         /\ q.pos = p.pos /\ q.count = p.count + 1 /\ q.result = p.result
<1> DEFINE g == Append(Grown(p), tok)
           x == p.toknext + 1
           y == p.count + 1
<1>1. tok \in Token
  BY DEF Token
<1>2. g \in Seq(Token) /\ x \in Nat /\ y \in Nat
  BY <1>1, GrownIs, SoundFacts
<1>3. q = [p EXCEPT !.tokens = g, !.toknext = x, !.count = y]
  BY DEF Allocated
<1>4. p \in ParserSet
  BY DEF Sound
<1> HIDE DEF x, y, g
<1>5. /\ q \in ParserSet /\ q.tokens = g
      /\ q.toknext = x /\ q.toksuper = p.toksuper
      /\ q.pos = p.pos /\ q.count = y /\ q.result = p.result
  BY <1>2, <1>3, <1>4 DEF ParserSet
<1> QED
  BY <1>1, <1>5 DEF g, x, y

\* The results are apart.
LEMMA Results ==
  /\ NOMEM \in Int /\ INVAL \in Int /\ PART \in Int /\ NotCalled \in Int
  /\ NOMEM # NotCalled /\ INVAL # NotCalled /\ PART # NotCalled
  /\ \A k \in Nat : k # NotCalled /\ k # NOMEM /\ k # INVAL /\ k # PART
<1>1. NOMEM \in Int /\ INVAL \in Int /\ PART \in Int /\ NotCalled \in Int
  BY DEF NOMEM, INVAL, PART, NotCalled
<1>2. NOMEM # NotCalled /\ INVAL # NotCalled /\ PART # NotCalled
  BY DEF NOMEM, INVAL, PART, NotCalled
<1>3. \A k \in Nat : k # NotCalled /\ k # NOMEM /\ k # INVAL /\ k # PART
  BY DEF NOMEM, INVAL, PART, NotCalled
<1> QED
  BY <1>1, <1>2, <1>3

\* An error is a step that leaves the parser as it was.
LEMMA FailedIs ==
  ASSUME NEW p, NEW t \in Nat, Sound(p), p.pos <= t,
         NEW e \in Int, e # NotCalled
  PROVE  Steps(p, t, Failed(p, e))
BY DEF Steps, Ended, SameCore, Failed, Sound, ParserSet

\* What a round makes of a parser: found and counted only,
Counts(p, q, pos) ==
  /\ q.pos = pos /\ q.count = p.count + 1 /\ q.result = p.result
  /\ q.toknext = p.toknext /\ q.toksuper = p.toksuper /\ q.tokens = p.tokens

\* passed over,
Passes(p, q) ==
  /\ q.pos = p.pos + 1 /\ q.count = p.count /\ q.result = p.result
  /\ q.toknext = p.toknext /\ q.toksuper = p.toksuper /\ q.tokens = p.tokens

\* a token more,
Adds(p, q, tok, toksuper, pos) ==
  /\ q.pos = pos /\ q.count = p.count + 1 /\ q.result = p.result
  /\ q.toknext = p.toknext + 1 /\ q.toksuper = toksuper
  /\ q.tokens = Append(Grown(p), tok)

\* or a container closed.
Shuts(p, q) ==
  LET i == Last(OpenTokens(p)) IN
  /\ q.pos = p.pos + 1 /\ q.count = p.count /\ q.result = p.result
  /\ q.toknext = p.toknext
  /\ q.toksuper = Last(OpenTokens(p) \ {i})
  /\ q.tokens = [p.tokens EXCEPT ![i].end = p.pos + 1]

\* A token as it is allocated
Tok(type, start, end) ==
  [type |-> type, start |-> start, end |-> end, size |-> 0]

\* The two that allocate nothing
LEMMA CountsIs ==
  ASSUME NEW p, Sound(p), NEW pos \in Nat, NEW q,
         q = [Counted(p) EXCEPT !.pos = pos]
  PROVE  q \in ParserSet /\ Counts(p, q, pos)
<1> DEFINE x == p.count + 1
<1>1. x \in Nat /\ p \in ParserSet
  BY SoundFacts DEF Sound
<1>2. q = [p EXCEPT !.count = x, !.pos = pos]
  BY DEF Counted
<1> HIDE DEF x
<1>3. /\ q \in ParserSet
      /\ q.pos = pos /\ q.count = x /\ q.result = p.result
      /\ q.toknext = p.toknext /\ q.toksuper = p.toksuper
      /\ q.tokens = p.tokens
  BY <1>1, <1>2 DEF ParserSet
<1> QED
  BY <1>3 DEF Counts, x

\* are these.
LEMMA PassesIs ==
  ASSUME NEW p, Sound(p), NEW q, q = [p EXCEPT !.pos = @ + 1]
  PROVE  q \in ParserSet /\ Passes(p, q)
<1> DEFINE y == p.pos + 1
<1>1. y \in Nat /\ p \in ParserSet
  BY SoundFacts DEF Sound
<1>2. q = [p EXCEPT !.pos = y]
  OBVIOUS
<1> HIDE DEF y
<1>3. /\ q \in ParserSet
      /\ q.pos = y /\ q.count = p.count /\ q.result = p.result
      /\ q.toknext = p.toknext /\ q.toksuper = p.toksuper
      /\ q.tokens = p.tokens
  BY <1>1, <1>2 DEF ParserSet
<1> QED
  BY <1>3 DEF Passes, y

\* A container's token
LEMMA OpenIs ==
  ASSUME NEW p, Sound(p), NEW n \in Given, NEW c \in Types
  PROVE  LET q == Open(p, n, c) IN
         /\ Without(n) => q \in ParserSet /\ Counts(p, q, p.pos + 1)
         /\ ~Without(n) /\ p.toknext >= n => q = Failed(p, NOMEM)
         /\ ~Without(n) /\ ~(p.toknext >= n) =>
              /\ q \in ParserSet
              /\ Tok(c, p.pos, -1) \in Token
              /\ Adds(p, q, Tok(c, p.pos, -1), p.toknext + 1, p.pos + 1)
<1> DEFINE q == Open(p, n, c)
<1>0. p.pos \in Nat /\ p.toknext \in Nat
  BY SoundFacts
<1>1. ASSUME Without(n) PROVE q \in ParserSet /\ Counts(p, q, p.pos + 1)
  <2> DEFINE y == p.pos + 1
  <2>1. y \in Nat /\ q = [Counted(p) EXCEPT !.pos = y]
    BY <1>0, <1>1 DEF Open, Counted
  <2> HIDE DEF q, y
  <2>2. q \in ParserSet /\ Counts(p, q, y)
    BY <2>1, CountsIs
  <2> QED
    BY <2>2 DEF y
<1>2. ASSUME ~Without(n), p.toknext >= n PROVE q = Failed(p, NOMEM)
  BY <1>2 DEF Open
<1>3. ASSUME ~Without(n), ~(p.toknext >= n)
      PROVE  /\ q \in ParserSet
             /\ Tok(c, p.pos, -1) \in Token
             /\ Adds(p, q, Tok(c, p.pos, -1), p.toknext + 1, p.pos + 1)
  <2> DEFINE a == Allocated(p, c, p.pos, -1)
             tok == Tok(c, p.pos, -1)
  <2>1. q = [a EXCEPT !.toksuper = p.toknext + 1, !.pos = @ + 1]
    BY <1>3 DEF Open
  <2> HIDE DEF q
  <2>2. /\ a \in ParserSet /\ tok \in Token
        /\ a.tokens = Append(Grown(p), tok)
        /\ a.toknext = p.toknext + 1 /\ a.toksuper = p.toksuper
        /\ a.pos = p.pos /\ a.count = p.count + 1 /\ a.result = p.result
    <3> DEFINE start == p.pos
               end == -1
    <3>1. start \in Nat /\ end \in Nat \union {-1}
      BY <1>0
    <3>2. /\ a = Allocated(p, c, start, end)
          /\ tok = [type |-> c, start |-> start, end |-> end, size |-> 0]
      BY DEF Tok
    <3> HIDE DEF start, end, a, tok
    <3> QED
      BY <3>1, <3>2, AllocatedIs
  <2> HIDE DEF a, tok
  <2>3. /\ q \in ParserSet
        /\ Adds(p, q, tok, p.toknext + 1, p.pos + 1)
    <3> DEFINE x == p.toknext + 1
               y == a.pos + 1
    <3>1. x \in Nat /\ y \in Nat /\ q = [a EXCEPT !.toksuper = x, !.pos = y]
      BY <1>0, <2>1, <2>2
    <3> HIDE DEF x, y
    <3>2. q \in ParserSet /\ q.pos = y /\ q.toksuper = x
          /\ q.tokens = a.tokens /\ q.toknext = a.toknext
          /\ q.result = a.result /\ q.count = a.count
      BY <2>2, <3>1 DEF ParserSet
    <3> QED
      BY <1>0, <2>2, <3>2 DEF x, y, Adds
  <2> QED
    BY <2>2, <2>3 DEF tok
<1> QED
  BY <1>1, <1>2, <1>3

\* The last open token is closed, if it matches.
LEMMA CloseIs ==
  ASSUME NEW p, Sound(p), NEW n \in Given, NEW c
  PROVE  LET q == Close(p, n, c)
             i == Last(OpenTokens(p))
             fails == i = 0 \/ ~Matches(p.tokens[i].type, c)
         IN  /\ Without(n) => q \in ParserSet /\ Passes(p, q)
             /\ ~Without(n) /\ fails => q = Failed(p, INVAL)
             /\ ~Without(n) /\ ~fails =>
                  /\ q \in ParserSet /\ i \in OpenTokens(p)
                  /\ Shuts(p, q)
<1>0. /\ p \in ParserSet /\ p.pos \in Nat /\ p.tokens \in Seq(Token)
      /\ p.toknext \in Nat /\ p.toknext = Len(p.tokens)
      /\ OpenTokens(p) \subseteq 1..p.toknext
  BY SoundFacts DEF Sound
<1> DEFINE i == Last(OpenTokens(p))
           q == Close(p, n, c)
<1>1. ASSUME Without(n) PROVE q \in ParserSet /\ Passes(p, q)
  <2>1. q = [p EXCEPT !.pos = @ + 1]
    BY <1>1 DEF Close
  <2> HIDE DEF q
  <2> QED
    BY <2>1, PassesIs
<1>2. ASSUME ~Without(n), i = 0 \/ ~Matches(p.tokens[i].type, c)
      PROVE  q = Failed(p, INVAL)
  BY <1>2 DEF Close
<1>3. ASSUME ~Without(n), ~(i = 0 \/ ~Matches(p.tokens[i].type, c))
      PROVE  q \in ParserSet /\ i \in OpenTokens(p) /\ Shuts(p, q)
  <2> DEFINE s == Last(OpenTokens(p) \ {i})
             g == [p.tokens EXCEPT ![i].end = p.pos + 1]
  <2>1. i \in OpenTokens(p) /\ i \in 1..Len(p.tokens)
    BY <1>0, <1>3, LastIs
  <2>2. s \in Nat
    <3> DEFINE S == OpenTokens(p) \ {i}
    <3>1. S \subseteq 1..p.toknext
      BY <1>0
    <3> HIDE DEF S
    <3>2. (S = {} /\ Last(S) = 0) \/ Last(S) \in 1..p.toknext
      BY <1>0, <3>1, LastIs
    <3> QED
      BY <1>0, <3>2 DEF S
  <2>3. g \in Seq(Token)
    <3>1. p.tokens[i] \in Token
      BY <1>0, <2>1
    <3> DEFINE y == p.pos + 1
    <3>2. y \in Nat
      BY <1>0
    <3> HIDE DEF i, y
    <3>3. [p.tokens[i] EXCEPT !.end = y] \in Token
      BY <3>1, <3>2 DEF Token
    <3> QED
      BY <1>0, <2>1, <3>3 DEF y
  <2>4. q = [p EXCEPT !.tokens = g, !.toksuper = s, !.pos = @ + 1]
    BY <1>3 DEF Close
  <2> HIDE DEF s, g, q
  <2>5. /\ q \in ParserSet /\ q.pos = p.pos + 1 /\ q.tokens = g
        /\ q.toksuper = s /\ q.toknext = p.toknext /\ q.result = p.result
        /\ q.count = p.count
    <3> DEFINE y == p.pos + 1
    <3>1. y \in Nat /\ q = [p EXCEPT !.tokens = g, !.toksuper = s, !.pos = y]
      BY <1>0, <2>4
    <3> HIDE DEF y
    <3>2. /\ q \in ParserSet /\ q.pos = y /\ q.tokens = g /\ q.toksuper = s
          /\ q.toknext = p.toknext /\ q.result = p.result
          /\ q.count = p.count
      BY <1>0, <2>2, <2>3, <3>1 DEF ParserSet
    <3> QED
      BY <3>2 DEF y
  <2> QED
    BY <2>1, <2>5 DEF Shuts, s, g
<1> QED
  BY <1>1, <1>2, <1>3

\* A token that ends where it is found
LEMMA FoundIs ==
  ASSUME NEW p, Sound(p), NEW type \in Types, NEW start \in Nat,
         NEW end \in Nat, NEW pos \in Nat, NEW q,
         q = [Allocated(p, type, start, end) EXCEPT !.pos = pos]
  PROVE  /\ q \in ParserSet /\ Tok(type, start, end) \in Token
         /\ Adds(p, q, Tok(type, start, end), p.toksuper, pos)
<1> DEFINE a == Allocated(p, type, start, end)
           tok == Tok(type, start, end)
<1>1. tok = [type |-> type, start |-> start, end |-> end, size |-> 0]
  BY DEF Tok
<1>2. end \in Nat \union {-1} /\ a = Allocated(p, type, start, end)
      /\ q = [a EXCEPT !.pos = pos]
  OBVIOUS
<1> HIDE DEF a, tok
<1>3. /\ a \in ParserSet /\ tok \in Token
      /\ a.tokens = Append(Grown(p), tok)
      /\ a.toknext = p.toknext + 1 /\ a.toksuper = p.toksuper
      /\ a.pos = p.pos /\ a.count = p.count + 1 /\ a.result = p.result
  BY <1>1, <1>2, AllocatedIs
<1>4. q \in ParserSet /\ q.pos = pos /\ q.toksuper = a.toksuper
      /\ q.tokens = a.tokens /\ q.toknext = a.toknext
      /\ q.result = a.result /\ q.count = a.count
  BY <1>2, <1>3 DEF ParserSet
<1> QED
  BY <1>3, <1>4 DEF Adds, tok

\* A string: an error, counted, out of tokens, or a token
LEMMA StringIs ==
  ASSUME NEW js \in TextSet, NEW t \in Parts(js), NEW n \in Given,
         NEW p, Sound(p)
  PROVE  LET q   == jsmn_parse_string(p, t, n, js)
             end == Quote(js, t, p.pos + 1)
             tok == Tok("string", p.pos + 1, end)
         IN  /\ end < 0 => q = Failed(p, end) /\ end \in {PART, INVAL}
             /\ ~(end < 0) => end \in Nat /\ p.pos + 1 <= end /\ end < t
             /\ ~(end < 0) /\ Without(n) =>
                  q \in ParserSet /\ Counts(p, q, end + 1)
             /\ ~(end < 0) /\ ~Without(n) /\ p.toknext >= n =>
                  q = Failed(p, NOMEM)
             /\ ~(end < 0) /\ ~Without(n) /\ ~(p.toknext >= n) =>
                  /\ q \in ParserSet /\ tok \in Token
                  /\ Adds(p, q, tok, p.toksuper, end + 1)
<1> DEFINE end == Quote(js, t, p.pos + 1)
           q == jsmn_parse_string(p, t, n, js)
           tok == Tok("string", p.pos + 1, end)
<1>0. p.pos + 1 \in Nat
  BY SoundFacts
<1>1. \/ end \in {PART, INVAL}
      \/ end \in Nat /\ p.pos + 1 <= end /\ end < t
  BY <1>0, QuoteIs
<1>2. ~(end < 0) => end \in Nat /\ p.pos + 1 <= end /\ end < t
  BY <1>1 DEF PART, INVAL
<1>3. end < 0 => q = Failed(p, end) /\ end \in {PART, INVAL}
  BY <1>1 DEF jsmn_parse_string
<1>4. ASSUME ~(end < 0), Without(n)
      PROVE  q \in ParserSet /\ Counts(p, q, end + 1)
  <2>1. end + 1 \in Nat /\ q = [Counted(p) EXCEPT !.pos = end + 1]
    BY <1>2, <1>4 DEF jsmn_parse_string
  <2> HIDE DEF q, end
  <2> QED
    BY <2>1, CountsIs
<1>5. ASSUME ~(end < 0), ~Without(n), p.toknext >= n
      PROVE  q = Failed(p, NOMEM)
  BY <1>5 DEF jsmn_parse_string
<1>6. ASSUME ~(end < 0), ~Without(n), ~(p.toknext >= n)
      PROVE  /\ q \in ParserSet /\ tok \in Token
             /\ Adds(p, q, tok, p.toksuper, end + 1)
  <2> DEFINE type == "string"
             start == p.pos + 1
             pos == end + 1
  <2>1. q = [Allocated(p, type, start, end) EXCEPT !.pos = pos]
    BY <1>6 DEF jsmn_parse_string
  <2>2. type \in Types
    BY DEF Types
  <2>3. start \in Nat /\ end \in Nat /\ pos \in Nat
    BY <1>0, <1>2, <1>6
  <2> HIDE DEF q, end, start, type, pos
  <2>4. /\ q \in ParserSet /\ Tok(type, start, end) \in Token
        /\ Adds(p, q, Tok(type, start, end), p.toksuper, pos)
    BY <2>1, <2>2, <2>3, FoundIs
  <2> QED
    BY <2>4 DEF type, start, pos
<1> HIDE DEF end, q, tok
<1>7. /\ end < 0 => q = Failed(p, end) /\ end \in {PART, INVAL}
      /\ ~(end < 0) => end \in Nat /\ p.pos + 1 <= end /\ end < t
      /\ ~(end < 0) /\ Without(n) =>
           q \in ParserSet /\ Counts(p, q, end + 1)
      /\ ~(end < 0) /\ ~Without(n) /\ p.toknext >= n =>
           q = Failed(p, NOMEM)
      /\ ~(end < 0) /\ ~Without(n) /\ ~(p.toknext >= n) =>
           /\ q \in ParserSet /\ tok \in Token
           /\ Adds(p, q, tok, p.toksuper, end + 1)
  BY <1>2, <1>3, <1>4, <1>5, <1>6
<1> QED
  BY <1>7 DEF end, q, tok

\* A primitive likewise; it is not empty.
LEMMA PrimitiveIs ==
  ASSUME NEW js \in TextSet, NEW t \in Parts(js), NEW n \in Given,
         NEW p, Sound(p), p.pos < t, Char(js, t, p.pos) \notin Ends
  PROVE  LET q   == jsmn_parse_primitive(p, t, n, js)
             end == PrimitiveEnd(js, t, p.pos)
             bad == Char(js, t, end) = NotASCII
             tok == Tok("primitive", p.pos, end)
         IN  /\ end \in Nat /\ p.pos <= end /\ end <= t
             /\ ~bad => p.pos < end
             /\ bad => q = Failed(p, INVAL)
             /\ ~bad /\ Without(n) => q \in ParserSet /\ Counts(p, q, end)
             /\ ~bad /\ ~Without(n) /\ p.toknext >= n =>
                  q = Failed(p, NOMEM)
             /\ ~bad /\ ~Without(n) /\ ~(p.toknext >= n) =>
                  /\ q \in ParserSet /\ tok \in Token
                  /\ Adds(p, q, tok, p.toksuper, end)
<1> DEFINE end == PrimitiveEnd(js, t, p.pos)
           q == jsmn_parse_primitive(p, t, n, js)
           bad == Char(js, t, end) = NotASCII
           tok == Tok("primitive", p.pos, end)
<1>0. p.pos \in Nat /\ t \in Nat /\ p.pos \in 0..t
  BY PartIs, SoundFacts
<1>1. end \in Nat /\ p.pos <= end /\ end <= t
  BY <1>0, PrimitiveEndIs DEF StopsAt
<1>2. bad => q = Failed(p, INVAL)
  BY DEF jsmn_parse_primitive
<1>3. ASSUME ~bad PROVE p.pos < end
  <2>1. StopsAt(js, t, p.pos, end)
    BY <1>0, PrimitiveEndIs
  <2>2. end # p.pos
    <3> SUFFICES ASSUME end = p.pos PROVE FALSE
      OBVIOUS
    <3>1. Char(js, t, p.pos) \in Stops
      BY <1>0, <2>1 DEF StopsAt
    <3> QED
      BY <1>3, <3>1 DEF Stops
  <2> QED
    BY <1>0, <1>1, <2>2
<1>4. ASSUME ~bad, Without(n) PROVE q \in ParserSet /\ Counts(p, q, end)
  <2>1. q = [Counted(p) EXCEPT !.pos = end]
    BY <1>4 DEF jsmn_parse_primitive
  <2> HIDE DEF q, end
  <2> QED
    BY <1>1, <2>1, CountsIs
<1>5. ASSUME ~bad, ~Without(n), p.toknext >= n PROVE q = Failed(p, NOMEM)
  BY <1>5 DEF jsmn_parse_primitive
<1>6. ASSUME ~bad, ~Without(n), ~(p.toknext >= n)
      PROVE  /\ q \in ParserSet /\ tok \in Token
             /\ Adds(p, q, tok, p.toksuper, end)
  <2> DEFINE type == "primitive"
             start == p.pos
  <2>1. q = [Allocated(p, type, start, end) EXCEPT !.pos = end]
    BY <1>6 DEF jsmn_parse_primitive
  <2>2. type \in Types
    BY DEF Types
  <2>3. start \in Nat /\ end \in Nat
    BY <1>0, <1>1
  <2> HIDE DEF q, end, start, type
  <2>4. /\ q \in ParserSet /\ Tok(type, start, end) \in Token
        /\ Adds(p, q, Tok(type, start, end), p.toksuper, end)
    BY <2>1, <2>2, <2>3, FoundIs
  <2> QED
    BY <2>4 DEF type, start
<1> HIDE DEF end, q, tok, bad
<1>7. /\ end \in Nat /\ p.pos <= end /\ end <= t
      /\ ~bad => p.pos < end
      /\ bad => q = Failed(p, INVAL)
      /\ ~bad /\ Without(n) => q \in ParserSet /\ Counts(p, q, end)
      /\ ~bad /\ ~Without(n) /\ p.toknext >= n => q = Failed(p, NOMEM)
      /\ ~bad /\ ~Without(n) /\ ~(p.toknext >= n) =>
           /\ q \in ParserSet /\ tok \in Token
           /\ Adds(p, q, tok, p.toksuper, end)
  BY <1>1, <1>2, <1>3, <1>4, <1>5, <1>6
<1> QED
  BY <1>7 DEF end, q, tok, bad

\* What the next character begins
Kind(c) ==
  IF c = "nul" THEN "nul"
  ELSE IF c \in {"{", "["} THEN "open"
  ELSE IF c \in {"}", "]"} THEN "close"
  ELSE IF c = "quote" THEN "string"
  ELSE IF c \in Separators THEN "skip"
  ELSE "primitive"

\* The kinds there are
Kinds == {"nul", "open", "close", "string", "skip", "primitive"}

\* What a call without a result yet returns behind the text
AtEnd(p) == IF OpenTokens(p) # {} THEN PART ELSE p.count

\* A round by the kind of the next character
LEMMA RoundIs ==
  ASSUME NEW js, NEW t, NEW n, NEW p, p.result = NotCalled,
         NEW c, c = Char(js, t, p.pos), NEW r, r = Round(p, t, n, js)
  PROVE  /\ Kind(c) \in Kinds
         /\ Kind(c) = "nul" <=> c = "nul"
         /\ Kind(c) = "nul" => r = Failed(p, AtEnd(p))
         /\ Kind(c) = "open" => c \in Types /\ r = Open(p, n, c)
         /\ Kind(c) = "close" => r = Close(p, n, c)
         /\ Kind(c) = "string" => r = jsmn_parse_string(p, t, n, js)
         /\ Kind(c) = "skip" => r = [p EXCEPT !.pos = @ + 1]
         /\ Kind(c) = "primitive" =>
              r = jsmn_parse_primitive(p, t, n, js) /\ c \notin Ends
<1>1. CASE c = "nul"
  <2>1. /\ c \notin {"{", "["} /\ c \notin {"}", "]"} /\ c # "quote"
        /\ c \notin Separators
    BY <1>1, Zenon DEF Separators, Ends, Types
  <2>2. r = Failed(p, AtEnd(p))
    BY <1>1, <2>1, Zenon DEF Round, Failed, AtEnd
  <2>3. Kind(c) = "nul"
    BY <1>1, <2>1, Zenon DEF Kind
  <2> QED
    BY <1>1, <2>1, <2>2, <2>3, Zenon DEF Kinds
<1>2. CASE c \in {"{", "["}
  <2>1. /\ c # "nul" /\ c \notin {"}", "]"} /\ c # "quote"
        /\ c \notin Separators /\ c \in Types
    BY <1>2, Zenon DEF Separators, Ends, Types
  <2>2. r = Open(p, n, c)
    BY <1>2, <2>1, Zenon DEF Round
  <2>3. Kind(c) = "open"
    BY <1>2, <2>1, Zenon DEF Kind
  <2> QED
    BY <1>2, <2>1, <2>2, <2>3, Zenon DEF Kinds
<1>3. CASE c \in {"}", "]"}
  <2>1. /\ c # "nul" /\ c \notin {"{", "["} /\ c # "quote"
        /\ c \notin Separators
    BY <1>3, Zenon DEF Separators, Ends, Types
  <2>2. r = Close(p, n, c)
    BY <1>3, <2>1, Zenon DEF Round
  <2>3. Kind(c) = "close"
    BY <1>3, <2>1, Zenon DEF Kind
  <2> QED
    BY <1>3, <2>1, <2>2, <2>3, Zenon DEF Kinds
<1>4. CASE c = "quote"
  <2>1. /\ c # "nul" /\ c \notin {"{", "["} /\ c \notin {"}", "]"}
        /\ c \notin Separators
    BY <1>4, Zenon DEF Separators, Ends, Types
  <2>2. r = jsmn_parse_string(p, t, n, js)
    BY <1>4, <2>1, Zenon DEF Round
  <2>3. Kind(c) = "string"
    BY <1>4, <2>1, Zenon DEF Kind
  <2> QED
    BY <1>4, <2>1, <2>2, <2>3, Zenon DEF Kinds
<1>5. CASE c \in Separators
  <2>1. /\ c # "nul" /\ c \notin {"{", "["} /\ c \notin {"}", "]"}
        /\ c # "quote"
    BY <1>5, Zenon DEF Separators, Ends, Types
  <2>2. r = [p EXCEPT !.pos = @ + 1]
    BY <1>5, <2>1, Zenon DEF Round
  <2>3. Kind(c) = "skip"
    BY <1>5, <2>1, Zenon DEF Kind
  <2> QED
    BY <1>5, <2>1, <2>2, <2>3, Zenon DEF Kinds
<1>6. CASE c \notin {"nul", "{", "[", "}", "]", "quote"} \union Separators
  <2>1. /\ c # "nul" /\ c \notin {"{", "["} /\ c \notin {"}", "]"}
        /\ c # "quote" /\ c \notin Separators /\ c \notin Ends
    BY <1>6, Zenon DEF Separators, Ends, Types
  <2>2. r = jsmn_parse_primitive(p, t, n, js)
    BY <1>6, <2>1, Zenon DEF Round
  <2>3. Kind(c) = "primitive"
    BY <1>6, <2>1, Zenon DEF Kind
  <2> QED
    BY <1>6, <2>1, <2>2, <2>3, Zenon DEF Kinds
<1> QED
  BY <1>1, <1>2, <1>3, <1>4, <1>5, <1>6, Zenon

\* A round moves on within what has arrived, and keeps the parser's types.
LEMMA RoundSteps ==
  ASSUME NEW js \in TextSet, NEW t \in Parts(js), NEW n \in Given,
         NEW p, Sound(p), p.pos <= t, p.result = NotCalled
  PROVE  Steps(p, t, Round(p, t, n, js))
<1> DEFINE c == Char(js, t, p.pos)
           q == Round(p, t, n, js)
<1>0. /\ p.pos \in Nat /\ p.count \in Nat /\ t \in Nat /\ p.toknext \in Nat
  BY PartIs, SoundFacts
<1>1. c # "nul" => p.pos < t
  BY <1>0, CharIs
<1> HIDE DEF c, q
<1>2. /\ Kind(c) \in Kinds
      /\ Kind(c) = "nul" <=> c = "nul"
      /\ Kind(c) = "nul" => q = Failed(p, AtEnd(p))
      /\ Kind(c) = "open" => c \in Types /\ q = Open(p, n, c)
      /\ Kind(c) = "close" => q = Close(p, n, c)
      /\ Kind(c) = "string" => q = jsmn_parse_string(p, t, n, js)
      /\ Kind(c) = "skip" => q = [p EXCEPT !.pos = @ + 1]
      /\ Kind(c) = "primitive" =>
           q = jsmn_parse_primitive(p, t, n, js) /\ c \notin Ends
  <2>1. c = Char(js, t, p.pos) /\ q = Round(p, t, n, js)
    BY DEF c, q
  <2> QED
    BY <2>1, RoundIs
<1>3. ASSUME NEW e \in Int, e # NotCalled, q = Failed(p, e)
      PROVE  Steps(p, t, q)
  BY <1>0, <1>3, FailedIs
<1>4. ASSUME NEW pos \in Nat, p.pos < pos, pos <= t, q \in ParserSet,
             Counts(p, q, pos)
      PROVE  Steps(p, t, q)
  BY <1>0, <1>4 DEF Steps, Counts, Skips
<1>5. ASSUME c # "nul", q \in ParserSet, Passes(p, q)
      PROVE  Steps(p, t, q)
  BY <1>0, <1>1, <1>5 DEF Steps, Passes, Skips
<1>6. CASE Kind(c) = "nul"
  <2>1. AtEnd(p) \in Int /\ AtEnd(p) # NotCalled
    BY <1>0, Results DEF AtEnd
  <2>2. q = Failed(p, AtEnd(p))
    BY <1>2, <1>6
  <2> QED
    BY <1>3, <2>1, <2>2 DEF q
<1>7. CASE Kind(c) = "open"
  <2>1. c # "nul" /\ c \in Types /\ q = Open(p, n, c)
    BY <1>2, <1>7
  <2>2. /\ Without(n) => q \in ParserSet /\ Counts(p, q, p.pos + 1)
        /\ ~Without(n) /\ p.toknext >= n => q = Failed(p, NOMEM)
        /\ ~Without(n) /\ ~(p.toknext >= n) =>
             /\ q \in ParserSet
             /\ Tok(c, p.pos, -1) \in Token
             /\ Adds(p, q, Tok(c, p.pos, -1), p.toknext + 1, p.pos + 1)
    BY <2>1, OpenIs
  <2>3. p.pos + 1 \in Nat /\ p.pos < p.pos + 1 /\ p.pos + 1 <= t
    BY <1>0, <1>1, <2>1
  <2>4. ASSUME q \in ParserSet, Tok(c, p.pos, -1) \in Token,
               Adds(p, q, Tok(c, p.pos, -1), p.toknext + 1, p.pos + 1)
        PROVE  Steps(p, t, q)
    <3> DEFINE tok == Tok(c, p.pos, -1)
    <3>1. tok.start = p.pos /\ tok.end = -1 /\ tok.size = 0
      BY DEF Tok
    <3> HIDE DEF tok
    <3>2. Opens(p, q, tok)
      BY <2>4, <3>1 DEF Opens, Adds, tok
    <3> QED
      BY <2>3, <2>4, <3>2 DEF Steps, Adds
  <2> QED
    BY <1>3, <1>4, <2>2, <2>3, <2>4, Results DEF q
<1>8. CASE Kind(c) = "close"
  <2>1. c # "nul" /\ q = Close(p, n, c)
    BY <1>2, <1>8
  <2> DEFINE i == Last(OpenTokens(p))
             fails == i = 0 \/ ~Matches(p.tokens[i].type, c)
  <2>2. /\ Without(n) => q \in ParserSet /\ Passes(p, q)
        /\ ~Without(n) /\ fails => q = Failed(p, INVAL)
        /\ ~Without(n) /\ ~fails =>
             q \in ParserSet /\ i \in OpenTokens(p) /\ Shuts(p, q)
    BY <2>1, CloseIs
  <2> HIDE DEF fails
  <2>3. ASSUME q \in ParserSet, i \in OpenTokens(p), Shuts(p, q)
        PROVE  Steps(p, t, q)
    <3>1. Closes(p, q) /\ q.pos = p.pos + 1
      BY <2>3 DEF Closes, Shuts
    <3> QED
      BY <1>0, <1>1, <2>1, <2>3, <3>1 DEF Steps
  <2> QED
    BY <1>3, <1>5, <2>1, <2>2, <2>3, Results DEF q
<1>9. ASSUME NEW type, NEW start \in Nat, NEW end \in Nat, NEW pos \in Nat,
             q \in ParserSet, Tok(type, start, end) \in Token,
             Adds(p, q, Tok(type, start, end), p.toksuper, pos),
             p.pos <= start, start <= end, p.pos < end, start < pos,
             end <= pos, p.pos < pos, pos <= t
      PROVE  Steps(p, t, q)
  <2> DEFINE tok == Tok(type, start, end)
  <2>1. tok.start = start /\ tok.end = end /\ tok.size = 0
    BY DEF Tok
  <2> HIDE DEF tok
  <2>2. Finds(p, q, tok)
    BY <1>9, <2>1 DEF Finds, Adds, tok
  <2> QED
    BY <1>9, <2>2 DEF Steps, Adds
<1>10. CASE Kind(c) = "string"
  <2> DEFINE end == Quote(js, t, p.pos + 1)
             tok == Tok("string", p.pos + 1, end)
  <2>1. c # "nul" /\ q = jsmn_parse_string(p, t, n, js)
    BY <1>2, <1>10
  <2>2. /\ end < 0 => q = Failed(p, end) /\ end \in {PART, INVAL}
        /\ ~(end < 0) => end \in Nat /\ p.pos + 1 <= end /\ end < t
        /\ ~(end < 0) /\ Without(n) =>
             q \in ParserSet /\ Counts(p, q, end + 1)
        /\ ~(end < 0) /\ ~Without(n) /\ p.toknext >= n =>
             q = Failed(p, NOMEM)
        /\ ~(end < 0) /\ ~Without(n) /\ ~(p.toknext >= n) =>
             /\ q \in ParserSet /\ tok \in Token
             /\ Adds(p, q, tok, p.toksuper, end + 1)
    BY <2>1, StringIs
  <2> HIDE DEF end
  <2>3. CASE end < 0
    BY <1>3, <2>2, <2>3, Results DEF q
  <2>4. CASE ~(end < 0)
    <3>1. /\ end \in Nat /\ p.pos + 1 \in Nat /\ end + 1 \in Nat
          /\ p.pos <= p.pos + 1 /\ p.pos + 1 <= end /\ p.pos < end
          /\ p.pos + 1 < end + 1 /\ end <= end + 1 /\ p.pos < end + 1
          /\ end + 1 <= t
      BY <1>0, <2>2, <2>4
    <3>2. CASE Without(n)
      BY <1>4, <2>2, <2>4, <3>1, <3>2 DEF q
    <3>3. CASE ~Without(n) /\ p.toknext >= n
      BY <1>3, <2>2, <2>4, <3>3, Results DEF q
    <3>4. CASE ~Without(n) /\ ~(p.toknext >= n)
      <4>1. /\ q \in ParserSet /\ tok \in Token
            /\ Adds(p, q, tok, p.toksuper, end + 1)
        BY <2>2, <2>4, <3>4
      <4> QED
        BY <1>9, <3>1, <4>1 DEF q
    <3> QED
      BY <3>2, <3>3, <3>4
  <2> QED
    BY <2>3, <2>4
<1>11. CASE Kind(c) = "skip"
  <2>1. c # "nul" /\ q = [p EXCEPT !.pos = @ + 1]
    BY <1>2, <1>11
  <2>2. q \in ParserSet /\ Passes(p, q)
    BY <2>1, PassesIs
  <2> QED
    BY <1>5, <2>1, <2>2 DEF q
<1>12. CASE Kind(c) = "primitive"
  <2> DEFINE end == PrimitiveEnd(js, t, p.pos)
             bad == Char(js, t, end) = NotASCII
             tok == Tok("primitive", p.pos, end)
  <2>1. c # "nul" /\ c \notin Ends /\ q = jsmn_parse_primitive(p, t, n, js)
    BY <1>2, <1>12
  <2>2. /\ end \in Nat /\ p.pos <= end /\ end <= t
        /\ ~bad => p.pos < end
        /\ bad => q = Failed(p, INVAL)
        /\ ~bad /\ Without(n) => q \in ParserSet /\ Counts(p, q, end)
        /\ ~bad /\ ~Without(n) /\ p.toknext >= n => q = Failed(p, NOMEM)
        /\ ~bad /\ ~Without(n) /\ ~(p.toknext >= n) =>
             /\ q \in ParserSet /\ tok \in Token
             /\ Adds(p, q, tok, p.toksuper, end)
    BY <1>1, <2>1, PrimitiveIs DEF c
  <2> HIDE DEF end, bad
  <2>3. CASE bad
    BY <1>3, <2>2, <2>3, Results DEF q
  <2>4. CASE ~bad /\ Without(n)
    BY <1>4, <2>2, <2>4 DEF q
  <2>5. CASE ~bad /\ ~Without(n) /\ p.toknext >= n
    BY <1>3, <2>2, <2>5, Results DEF q
  <2>6. CASE ~bad /\ ~Without(n) /\ ~(p.toknext >= n)
    <3>1. /\ q \in ParserSet /\ tok \in Token
          /\ Adds(p, q, tok, p.toksuper, end)
      BY <2>2, <2>6
    <3>2. /\ p.pos <= p.pos /\ p.pos <= end /\ p.pos < end
          /\ end <= end /\ end <= t
      BY <1>0, <2>2, <2>6
    <3> QED
      BY <1>0, <1>9, <2>2, <3>1, <3>2 DEF q
  <2> QED
    BY <2>3, <2>4, <2>5, <2>6
<1> QED
  BY <1>2, <1>6, <1>7, <1>8, <1>10, <1>11, <1>12 DEF Kinds

-----------------------------------------------------------------------------
(* The tokens form a tree.  L is behind every place of the text.           *)

\* Tokens that have been read up to pos: the later of two starts behind the
\* earlier one, and is inside it or behind it; one that is open goes on.
Nested(T, pos) ==
  /\ \A i \in 1..Len(T) :
       /\ T[i].start < pos
       /\ T[i].end = -1 \/ (T[i].start <= T[i].end /\ T[i].end <= pos)
  /\ \A i, j \in 1..Len(T) : i < j =>
       /\ T[i].start < T[j].start
       /\ \/ T[i].end = -1 \/ T[i].end <= T[j].start
          \/ T[j].end # -1 /\ T[j].end <= T[i].end

\* Where a token ends, an open one being taken to end at L
EndIn(T, L, i) == IF T[i].end = -1 THEN L ELSE T[i].end

\* The token j is inside the token i.
InsideOf(T, L, j, i) ==
  T[i].start <= T[j].start /\ EndIn(T, L, j) <= EndIn(T, L, i)

\* The tokens directly inside i
Children(T, L, i) ==
  {j \in 1..Len(T) : /\ i < j /\ InsideOf(T, L, j, i)
                     /\ \A k \in (i + 1)..(j - 1) : ~InsideOf(T, L, j, k)}

\* Every size is the number of children.
Sized(T, L) ==
  \A i \in 1..Len(T) : T[i].size = Cardinality(Children(T, L, i))

\* A parser whose tokens form the tree of what it has read
Good(p, L) ==
  /\ Sound(p)
  /\ Nested(p.tokens, p.pos) /\ Sized(p.tokens, L)
  /\ p.toknext <= p.pos

\* The last of a set is the one that is last.
LEMMA LastMade ==
  ASSUME NEW m \in Nat, NEW S, S \subseteq 1..m, NEW x \in S,
         \A j \in S : j <= x
  PROVE  Last(S) = x
<1>1. /\ Last(S) \in S /\ Last(S) \in 1..m /\ x \in 1..m
      /\ \A j \in S : j <= Last(S)
  BY LastIs
<1>2. Last(S) <= x /\ x <= Last(S)
  BY <1>1
<1> QED
  BY <1>1, <1>2

\* Tokens in the same places are inside each other in the same way.
LEMMA InsideSame ==
  ASSUME NEW T, NEW U, NEW L, NEW i, NEW j,
         U[i].start = T[i].start, U[j].start = T[j].start,
         U[i].end = T[i].end, U[j].end = T[j].end
  PROVE  InsideOf(U, L, j, i) <=> InsideOf(T, L, j, i)
BY DEF InsideOf, EndIn

\* A token has finitely many children.
LEMMA ChildrenFinite ==
  ASSUME NEW T, Len(T) \in Nat, NEW L, NEW i
  PROVE  /\ IsFiniteSet(Children(T, L, i))
         /\ Cardinality(Children(T, L, i)) \in Nat
<1>1. Children(T, L, i) \subseteq 1..Len(T)
  BY DEF Children
<1>2. IsFiniteSet(1..Len(T))
  BY FS_Interval
<1> QED
  BY <1>1, <1>2, FS_Subset, FS_CardinalityType

\* A token more behind the others is a child of the last that is open, and of
\* no other.
LEMMA AppendKeeps ==
  ASSUME NEW p, NEW L \in Nat, Good(p, L), NEW tok \in Token, NEW x \in Nat,
         x < L, p.pos < x, tok.size = 0, p.pos <= tok.start, tok.start < x,
         \/ tok.end = -1
         \/ tok.start <= tok.end /\ p.pos < tok.end /\ tok.end <= x
  PROVE  /\ Nested(Append(Grown(p), tok), x)
         /\ Sized(Append(Grown(p), tok), L)
<1> DEFINE T == p.tokens
           m == p.toknext
           g == Append(Grown(p), tok)
           s == p.toksuper
<1>1. /\ T \in Seq(Token) /\ Len(T) = m /\ m \in Nat /\ p.pos \in Nat
      /\ s \in 0..m /\ s = Last(OpenTokens(p)) /\ OpenTokens(p) \subseteq 1..m
      /\ OpenTokens(p) = {i \in 1..m : T[i].end = -1}
      /\ Nested(T, p.pos) /\ Sized(T, L)
  BY SoundFacts DEF Good, Sound, OpenTokens
<1>2. /\ tok.start \in Nat /\ tok.end \in Nat \union {-1}
      /\ \A i \in 1..m : /\ T[i].start \in Nat /\ T[i].end \in Nat \union {-1}
                         /\ T[i].size \in Nat
  <2>1. \A i \in 1..m : T[i] \in Token
    BY <1>1
  <2> HIDE DEF T, m
  <2> QED
    BY <2>1 DEF Token
<1>3. /\ g \in Seq(Token) /\ Len(g) = m + 1 /\ g[m + 1] = tok
      /\ \A i \in 1..m : g[i] = Grown(p)[i]
  <2> DEFINE G == Grown(p)
  <2>1. G \in Seq(Token) /\ Len(G) = m
    BY GrownIs DEF Good
  <2> HIDE DEF G, m
  <2>2. Append(G, tok) \in Seq(Token) /\ Len(Append(G, tok)) = m + 1
        /\ Append(G, tok)[m + 1] = tok
        /\ \A i \in 1..m : Append(G, tok)[i] = G[i]
    BY <1>1, <2>1
  <2> QED
    BY <2>2 DEF G
<1>4. \A i \in 1..m : /\ g[i].start = T[i].start /\ g[i].end = T[i].end
                      /\ g[i].size = IF i = s THEN T[i].size + 1 ELSE T[i].size
  <2> HIDE DEF g
  <2> QED
    BY <1>3, GrownIs DEF Good
<1> HIDE DEF T, m, g, s
<1>5. Nested(g, x)
  <2>1. ASSUME NEW i \in 1..(m + 1)
        PROVE  /\ g[i].start < x
               /\ g[i].end = -1 \/ (g[i].start <= g[i].end /\ g[i].end <= x)
    <3>1. CASE i = m + 1
      <4>1. g[i] = tok
        BY <1>3, <3>1
      <4> QED
        BY <1>2, <4>1
    <3>2. CASE i \in 1..m
      <4>1. /\ T[i].start < p.pos
            /\ T[i].end = -1 \/ (T[i].start <= T[i].end /\ T[i].end <= p.pos)
        BY <1>1, <3>2 DEF Nested
      <4>2. /\ g[i].start = T[i].start /\ g[i].end = T[i].end
            /\ T[i].start \in Nat /\ T[i].end \in Nat \union {-1}
        BY <1>2, <1>4, <3>2
      <4>3. p.pos \in Nat /\ p.pos < x
        BY <1>1
      <4> QED
        BY ONLY <4>1, <4>2, <4>3, x \in Nat
    <3> QED
      BY <1>1, <3>1, <3>2
  <2>2. ASSUME NEW i \in 1..(m + 1), NEW j \in 1..(m + 1), i < j
        PROVE  /\ g[i].start < g[j].start
               /\ \/ g[i].end = -1 \/ g[i].end <= g[j].start
                  \/ g[j].end # -1 /\ g[j].end <= g[i].end
    <3>1. i \in 1..m
      BY <1>1, <2>2
    <3>2. CASE j = m + 1
      <4>1. /\ T[i].start < p.pos
            /\ T[i].end = -1 \/ T[i].end <= p.pos
        BY <1>1, <3>1 DEF Nested
      <4>2. /\ g[i].start = T[i].start /\ g[i].end = T[i].end
            /\ T[i].start \in Nat /\ T[i].end \in Nat \union {-1}
        BY <1>2, <1>4, <3>1
      <4>3. /\ g[j].start = tok.start /\ p.pos \in Nat /\ tok.start \in Nat
            /\ p.pos <= tok.start
        BY <1>1, <1>2, <1>3, <3>2
      <4> QED
        BY ONLY <4>1, <4>2, <4>3
    <3>3. CASE j \in 1..m
      <4>1. /\ T[i].start < T[j].start
            /\ \/ T[i].end = -1 \/ T[i].end <= T[j].start
               \/ T[j].end # -1 /\ T[j].end <= T[i].end
        BY <1>1, <2>2, <3>1, <3>3 DEF Nested
      <4> QED
        BY <1>4, <3>1, <3>3, <4>1
    <3> QED
      BY <1>1, <3>2, <3>3
  <2> QED
    BY <1>3, <2>1, <2>2 DEF Nested
\* the new token is inside those that are open
<1>6. \A i \in 1..m : InsideOf(g, L, m + 1, i) <=> T[i].end = -1
  <2> TAKE i \in 1..m
  <2>1. /\ T[i].start < p.pos
        /\ T[i].end = -1 \/ T[i].end <= p.pos
    BY <1>1 DEF Nested
  <2>2. g[i].start = T[i].start /\ g[i].end = T[i].end
    BY <1>4
  <2> QED
    BY <1>1, <1>2, <1>3, <2>1, <2>2 DEF InsideOf, EndIn
<1>7. \A i, j \in 1..m : InsideOf(g, L, j, i) <=> InsideOf(T, L, j, i)
  BY <1>4, InsideSame
<1>8. ASSUME NEW i \in 1..m
      PROVE  Children(g, L, i) = Children(T, L, i) \union
                                   (IF i = s THEN {m + 1} ELSE {})
  <2>1. ASSUME NEW j \in 1..m
        PROVE  j \in Children(g, L, i) <=> j \in Children(T, L, i)
    <3>1. \A k \in (i + 1)..(j - 1) : k \in 1..m
      BY <1>1
    <3>2. j \in 1..(m + 1)
      BY <1>1
    <3> QED
      BY <1>1, <1>3, <1>7, <3>1, <3>2 DEF Children
  <2>2. m + 1 \in Children(g, L, i) <=>
          T[i].end = -1 /\ \A k \in (i + 1)..m : T[k].end # -1
    <3>1. m + 1 \in 1..(m + 1) /\ i < m + 1 /\ (m + 1) - 1 = m
      BY <1>1
    <3>2. \A k \in (i + 1)..m : k \in 1..m
      BY <1>1
    <3> QED
      BY <1>3, <1>6, <3>1, <3>2 DEF Children
  <2>3. (T[i].end = -1 /\ \A k \in (i + 1)..m : T[k].end # -1) <=> i = s
    <3>1. ASSUME T[i].end = -1, \A k \in (i + 1)..m : T[k].end # -1
          PROVE  i = s
      <4>1. i \in OpenTokens(p)
        BY <1>1, <3>1
      <4>2. ASSUME NEW j \in OpenTokens(p) PROVE j <= i
        <5>1. j \in 1..m /\ T[j].end = -1
          BY <1>1
        <5>2. j \notin (i + 1)..m
          BY <3>1, <5>1
        <5> QED
          BY <1>1, <5>1, <5>2
      <4> QED
        BY <1>1, <4>1, <4>2, LastMade
    <3>2. ASSUME i = s
          PROVE  T[i].end = -1 /\ \A k \in (i + 1)..m : T[k].end # -1
      <4>1. i \in OpenTokens(p) /\ \A j \in OpenTokens(p) : j <= i
        <5>1. i # 0
          BY <1>1
        <5> QED
          BY <1>1, <3>2, <5>1, LastIs
      <4>2. ASSUME NEW k \in (i + 1)..m PROVE T[k].end # -1
        <5>1. k \in 1..m /\ ~(k <= i)
          BY <1>1
        <5> QED
          BY <1>1, <4>1, <5>1
      <4> QED
        BY <1>1, <4>1, <4>2
    <3> QED
      BY <3>1, <3>2
  <2>4. Children(g, L, i) \subseteq 1..(m + 1)
        /\ Children(T, L, i) \subseteq 1..m
    BY <1>1, <1>3 DEF Children
  <2> DEFINE A == Children(g, L, i)
             B == Children(T, L, i)
  <2>5. \A j \in 1..(m + 1) : j \in 1..m \/ j = m + 1
    BY <1>1
  <2>6. m + 1 \notin 1..m
    BY <1>1
  <2> HIDE DEF A, B
  <2>7. A = B \union (IF i = s THEN {m + 1} ELSE {})
    <3>1. /\ \A j \in 1..m : j \in A <=> j \in B
          /\ m + 1 \in A <=> i = s
          /\ A \subseteq 1..(m + 1) /\ B \subseteq 1..m
      BY <2>1, <2>2, <2>3, <2>4 DEF A, B
    <3> DEFINE l == m + 1
    <3> HIDE DEF l
    <3>2. /\ l \in A <=> i = s
          /\ \A j \in A : j \in 1..m \/ j = l
          /\ l \notin 1..m
      BY <2>5, <2>6, <3>1 DEF l
    <3>3. A = B \union (IF i = s THEN {l} ELSE {})
      BY <3>1, <3>2
    <3> QED
      BY <3>3 DEF l
  <2> QED
    BY <2>7 DEF A, B
<1>9. Children(g, L, m + 1) = {}
  BY <1>1, <1>3 DEF Children
<1>10. ASSUME NEW i \in 1..(m + 1)
       PROVE  g[i].size = Cardinality(Children(g, L, i))
  <2>1. CASE i = m + 1
    BY <1>3, <1>9, <2>1, FS_EmptySet
  <2>2. CASE i \in 1..m
    <3> DEFINE B == Children(T, L, i)
    <3>1. IsFiniteSet(B) /\ Cardinality(B) \in Nat
      BY <1>1, ChildrenFinite
    <3>2. T[i].size = Cardinality(B)
      BY <1>1, <2>2 DEF Sized
    <3>3. m + 1 \notin B
      BY <1>1 DEF Children
    <3>4. Children(g, L, i) = B \union (IF i = s THEN {m + 1} ELSE {})
      BY <1>8, <2>2
    <3> HIDE DEF B
    <3>5. CASE i = s
      <4>1. Children(g, L, i) = B \union {m + 1}
        BY <3>4, <3>5
      <4>2. Cardinality(B \union {m + 1}) = Cardinality(B) + 1
        BY <3>1, <3>3, FS_AddElement
      <4>3. g[i].size = T[i].size + 1
        BY <1>4, <2>2, <3>5
      <4> QED
        BY <3>2, <4>1, <4>2, <4>3
    <3>6. CASE i # s
      <4>1. Children(g, L, i) = B
        BY <3>4, <3>6
      <4>2. g[i].size = T[i].size
        BY <1>4, <2>2, <3>6
      <4> QED
        BY <3>2, <4>1, <4>2
    <3> QED
      BY <3>5, <3>6
  <2> QED
    BY <1>1, <2>1, <2>2
<1>11. Sized(g, L)
  BY <1>3, <1>10 DEF Sized
<1> QED
  BY <1>5, <1>11 DEF g

\* Closing the last open token leaves every token inside the same others.
LEMMA CloseKeeps ==
  ASSUME NEW p, NEW L \in Nat, Good(p, L), p.pos + 1 < L,
         Last(OpenTokens(p)) \in OpenTokens(p), NEW g,
         g = [p.tokens EXCEPT ![Last(OpenTokens(p))].end = p.pos + 1]
  PROVE  /\ Nested(g, p.pos + 1) /\ Sized(g, L)
         /\ Len(g) = p.toknext
         /\ \A j \in 1..p.toknext :
              g[j].end = IF j = Last(OpenTokens(p)) THEN p.pos + 1
                         ELSE p.tokens[j].end
<1> DEFINE T == p.tokens
           m == p.toknext
           x == p.pos + 1
           c == Last(OpenTokens(p))
<1>1. /\ T \in Seq(Token) /\ Len(T) = m /\ m \in Nat /\ p.pos \in Nat
      /\ OpenTokens(p) \subseteq 1..m
      /\ OpenTokens(p) = {i \in 1..m : T[i].end = -1}
      /\ Nested(T, p.pos) /\ Sized(T, L)
  BY SoundFacts DEF Good, Sound, OpenTokens
<1>2. \A i \in 1..m : /\ T[i].start \in Nat /\ T[i].end \in Nat \union {-1}
                      /\ T[i].size \in Nat /\ T[i] \in Token
  <2>1. \A i \in 1..m : T[i] \in Token
    BY <1>1
  <2> HIDE DEF T, m
  <2> QED
    BY <2>1 DEF Token
<1>3. /\ c \in 1..m /\ T[c].end = -1 /\ \A j \in 1..m : T[j].end = -1 => j <= c
  <2> HIDE DEF m, T
  <2>1. c \in 1..m /\ T[c].end = -1 /\ \A j \in OpenTokens(p) : j <= c
    BY <1>1, LastIs
  <2> QED
    BY <1>1, <2>1
<1>4. /\ Len(g) = m
      /\ \A i \in 1..m : /\ g[i].start = T[i].start /\ g[i].size = T[i].size
                         /\ g[i].end = IF i = c THEN x ELSE T[i].end
  <2> DEFINE k == [T[c] EXCEPT !.end = x]
  <2> HIDE DEF m, c, x, T
  <2>1. g = [T EXCEPT ![c] = k]
    BY DEF c, x, T
  <2>2. k.start = T[c].start /\ k.size = T[c].size /\ k.end = x
    BY <1>2, <1>3 DEF Token
  <2> HIDE DEF k
  <2>3. T \in Seq(Token) /\ Len(T) = m /\ m \in Nat /\ c \in 1..m
    BY <1>1, <1>3
  <2>4. Len(g) = Len(T) /\ \A i \in 1..Len(T) : g[i] = IF i = c THEN k ELSE T[i]
    BY ONLY <2>1, <2>3
  <2>5. ASSUME NEW i \in 1..m
        PROVE  /\ g[i].start = T[i].start /\ g[i].size = T[i].size
               /\ g[i].end = IF i = c THEN x ELSE T[i].end
    <3>1. g[i] = IF i = c THEN k ELSE T[i]
      BY <2>3, <2>4
    <3>2. CASE i = c
      BY ONLY <2>2, <3>1, <3>2, Zenon
    <3>3. CASE i # c
      BY ONLY <3>1, <3>3, Zenon
    <3> QED
      BY <3>2, <3>3
  <2> QED
    BY <2>3, <2>4, <2>5
<1>5. x \in Nat /\ p.pos < x /\ x < L
  BY <1>1
<1> HIDE DEF T, m, x, c
<1>6. ASSUME NEW i \in 1..m
      PROVE  /\ g[i].start < x
             /\ g[i].end = -1 \/ (g[i].start <= g[i].end /\ g[i].end <= x)
  <2>1. /\ T[i].start < p.pos
        /\ T[i].end = -1 \/ (T[i].start <= T[i].end /\ T[i].end <= p.pos)
    BY <1>1 DEF Nested
  <2>2. /\ g[i].start = T[i].start
        /\ g[i].end = T[i].end \/ g[i].end = x
        /\ T[i].start \in Nat /\ T[i].end \in Nat \union {-1}
    BY <1>2, <1>4
  <2> QED
    BY ONLY <1>1, <1>5, <2>1, <2>2
<1>7. ASSUME NEW i \in 1..m, NEW j \in 1..m, i < j
      PROVE  /\ g[i].start < g[j].start
             /\ \/ g[i].end = -1 \/ g[i].end <= g[j].start
                \/ g[j].end # -1 /\ g[j].end <= g[i].end
             /\ InsideOf(g, L, j, i) <=> InsideOf(T, L, j, i)
  <2>1. /\ T[i].start < T[j].start
        /\ \/ T[i].end = -1 \/ T[i].end <= T[j].start
           \/ T[j].end # -1 /\ T[j].end <= T[i].end
        /\ T[i].end = -1 \/ T[i].end <= p.pos
        /\ T[j].end = -1 \/ T[j].end <= p.pos
    BY <1>1, <1>7 DEF Nested
  <2>2. /\ g[i].start = T[i].start /\ g[j].start = T[j].start
        /\ T[i].start \in Nat /\ T[i].end \in Nat \union {-1}
        /\ T[j].start \in Nat /\ T[j].end \in Nat \union {-1}
    BY <1>2, <1>4
  <2>3. CASE i = c
    <3>1. j # c /\ T[j].end # -1 /\ T[i].end = -1
      BY <1>3, <1>7, <2>3
    <3>2. g[i].end = x /\ g[j].end = T[j].end
      BY <1>4, <2>3, <3>1
    <3> QED
      BY ONLY <1>1, <1>5, <2>1, <2>2, <3>1, <3>2 DEF InsideOf, EndIn
  <2>4. CASE j = c
    <3>1. i # c /\ T[j].end = -1
      BY <1>3, <1>7, <2>4
    <3>2. g[j].end = x /\ g[i].end = T[i].end
      BY <1>4, <2>4, <3>1
    <3> QED
      BY ONLY <1>1, <1>5, <2>1, <2>2, <3>1, <3>2, L \in Nat DEF InsideOf, EndIn
  <2>5. CASE i # c /\ j # c
    <3>1. g[i].end = T[i].end /\ g[j].end = T[j].end
      BY <1>4, <2>5
    <3> QED
      BY <2>1, <2>2, <3>1, InsideSame
  <2> QED
    BY <2>3, <2>4, <2>5
<1>8. Nested(g, x)
  BY <1>4, <1>6, <1>7 DEF Nested
<1>9. ASSUME NEW i \in 1..m PROVE Children(g, L, i) = Children(T, L, i)
  <2>1. ASSUME NEW j \in 1..m
        PROVE  j \in Children(g, L, i) <=> j \in Children(T, L, i)
    <3>1. \A k \in (i + 1)..(j - 1) : k \in 1..m /\ k < j
      BY <1>1
    <3> QED
      BY <1>1, <1>4, <1>7, <3>1 DEF Children
  <2>2. Children(g, L, i) \subseteq 1..m /\ Children(T, L, i) \subseteq 1..m
    BY <1>1, <1>4 DEF Children
  <2> DEFINE A == Children(g, L, i)
             B == Children(T, L, i)
  <2> HIDE DEF A, B
  <2>3. A = B
    BY <2>1, <2>2 DEF A, B
  <2> QED
    BY <2>3 DEF A, B
<1>10. Sized(g, L)
  BY <1>1, <1>4, <1>9 DEF Sized
<1> QED
  BY <1>4, <1>8, <1>10 DEF x, m, c, T

\* Every round keeps the tree.
LEMMA GoodKept ==
  ASSUME NEW p, NEW q, NEW L \in Nat, NEW t \in Nat, t < L, Good(p, L),
         Steps(p, t, q)
  PROVE  Good(q, L)
<1> DEFINE m == p.toknext
<1>1. /\ p.tokens \in Seq(Token) /\ Len(p.tokens) = m /\ m \in Nat
      /\ p.pos \in Nat /\ m <= p.pos /\ Sound(p)
      /\ p.toksuper = Last(OpenTokens(p))
      /\ OpenTokens(p) = {i \in 1..m : p.tokens[i].end = -1}
      /\ OpenTokens(p) \subseteq 1..m
  BY SoundFacts DEF Good, Sound, OpenTokens
<1>2. q \in ParserSet /\ q.pos \in Nat /\ q.pos < L /\ q.pos <= t
  BY DEF Steps, ParserSet
<1> HIDE DEF m
<1>3. CASE SameCore(p, q)
  <2>1. OpenTokens(q) = OpenTokens(p)
    BY <1>3 DEF SameCore, OpenTokens
  <2> QED
    BY <1>1, <1>2, <1>3, <2>1 DEF SameCore, Good, Sound
<1>4. CASE p.pos < q.pos /\ Skips(p, q)
  <2>1. OpenTokens(q) = OpenTokens(p)
    BY <1>4 DEF Skips, OpenTokens
  <2>2. Nested(q.tokens, q.pos)
    <3> DEFINE T == p.tokens
    <3>1. q.tokens = T /\ Nested(T, p.pos)
      BY <1>4 DEF Skips, Good
    <3>2. \A i \in 1..Len(T) :
            T[i].start \in Nat /\ T[i].end \in Nat \union {-1}
      <4>1. \A i \in 1..Len(T) : T[i] \in Token
        BY <1>1
      <4> QED
        BY <4>1 DEF Token
    <3> HIDE DEF T
    <3>3. \A i \in 1..Len(T) :
            /\ T[i].start < q.pos
            /\ T[i].end = -1 \/ (T[i].start <= T[i].end /\ T[i].end <= q.pos)
      BY <1>1, <1>2, <1>4, <3>1, <3>2 DEF Nested
    <3> QED
      BY <3>1, <3>3 DEF Nested
  <2>3. q.tokens = p.tokens /\ q.toknext = m /\ q.toksuper = p.toksuper
    BY <1>4 DEF Skips, m
  <2>4. m <= q.pos
    BY <1>1, <1>2, <1>4
  <2> QED
    BY <1>1, <1>2, <2>1, <2>2, <2>3, <2>4 DEF Good, Sound
<1>5. ASSUME NEW tok, p.pos < q.pos, Finds(p, q, tok) \/ Opens(p, q, tok)
      PROVE  Good(q, L)
  <2> DEFINE g == Append(Grown(p), tok)
  <2>1. /\ tok \in Token /\ tok.size = 0
        /\ q.tokens = g /\ q.toknext = m + 1 /\ q.result = NotCalled
    BY <1>5 DEF Finds, Opens, m
  <2>2. tok.start \in Nat /\ tok.end \in Nat \union {-1}
    BY <2>1 DEF Token
  <2>3. /\ p.pos <= tok.start /\ tok.start < q.pos
        /\ \/ tok.end = -1
           \/ tok.start <= tok.end /\ p.pos < tok.end /\ tok.end <= q.pos
    BY <1>1, <1>2, <1>5, <2>2 DEF Finds, Opens
  <2>4. Nested(g, q.pos) /\ Sized(g, L)
    BY <1>1, <1>2, <1>5, <2>1, <2>3, AppendKeeps
  <2>5. Len(g) = m + 1 /\ g[m + 1] = tok
        /\ \A i \in 1..m : g[i] = Grown(p)[i]
    <3> DEFINE G == Grown(p)
    <3>1. G \in Seq(Token) /\ Len(G) = m
      BY <1>1, GrownIs DEF m
    <3> HIDE DEF G
    <3>2. Len(Append(G, tok)) = m + 1 /\ Append(G, tok)[m + 1] = tok
          /\ \A i \in 1..m : Append(G, tok)[i] = G[i]
      BY <1>1, <2>1, <3>1
    <3> QED
      BY <3>2 DEF G
  <2>6. \A i \in 1..m : g[i].end = p.tokens[i].end
    <3> HIDE DEF g
    <3> QED
      BY <1>1, <2>5, GrownIs DEF m
  <2> HIDE DEF g
  <2>7. OpenTokens(q) = {i \in 1..(m + 1) : g[i].end = -1}
    BY <2>1 DEF OpenTokens
  <2>8. q.toksuper = Last(OpenTokens(q))
    <3>1. CASE Finds(p, q, tok)
      <4>1. g[m + 1].end # -1
        BY <2>5, <3>1 DEF Finds
      <4>2. OpenTokens(q) = OpenTokens(p)
        <5>1. \A i \in 1..(m + 1) : i \in 1..m \/ i = m + 1
          BY <1>1
        <5>2. 1..m \subseteq 1..(m + 1)
          BY <1>1
        <5> QED
          BY <1>1, <2>6, <2>7, <4>1, <5>1, <5>2
      <4>3. q.toksuper = p.toksuper
        BY <3>1 DEF Finds
      <4> QED
        BY <1>1, <4>2, <4>3
    <3>2. CASE Opens(p, q, tok)
      <4>1. g[m + 1].end = -1 /\ m + 1 \in 1..(m + 1) /\ m + 1 \in Nat
        BY <1>1, <2>5, <3>2 DEF Opens
      <4>2. m + 1 \in OpenTokens(q) /\ OpenTokens(q) \subseteq 1..(m + 1)
        BY <2>7, <4>1
      <4>3. \A j \in OpenTokens(q) : j <= m + 1
        BY <1>1, <4>2
      <4>4. Last(OpenTokens(q)) = m + 1
        BY <4>1, <4>2, <4>3, LastMade
      <4>5. q.toksuper = m + 1
        BY <2>1, <3>2 DEF Opens
      <4> QED
        BY <4>4, <4>5
    <3> QED
      BY <1>5, <3>1, <3>2
  <2>9. m + 1 <= q.pos
    BY <1>1, <1>2, <1>5
  <2> QED
    BY <1>2, <2>1, <2>4, <2>5, <2>8, <2>9 DEF Good, Sound
<1>6. CASE Closes(p, q)
  <2> DEFINE c == Last(OpenTokens(p))
             g == q.tokens
  <2>1. /\ c \in OpenTokens(p) /\ q.toknext = m /\ q.pos = p.pos + 1
        /\ q.toksuper = Last(OpenTokens(p) \ {c})
        /\ g = [p.tokens EXCEPT ![c].end = p.pos + 1]
    BY <1>6 DEF Closes, m
  <2> HIDE DEF c, g
  <2>2. /\ Nested(g, p.pos + 1) /\ Sized(g, L) /\ Len(g) = m
        /\ \A j \in 1..m : g[j].end = IF j = c THEN p.pos + 1
                                      ELSE p.tokens[j].end
    <3>1. p.pos + 1 < L
      BY <1>1, <1>2, <2>1
    <3>2. c = Last(OpenTokens(p)) /\ m = p.toknext
      BY DEF c, m
    <3> QED
      BY ONLY CloseKeeps, Good(p, L), L \in Nat, <2>1, <3>1, <3>2
  <2>3. p.pos + 1 # -1
    BY <1>1
  <2>4. OpenTokens(q) = OpenTokens(p) \ {c}
    BY <1>1, <2>1, <2>2, <2>3 DEF OpenTokens, g
  <2>5. m <= q.pos
    BY <1>1, <2>1
  <2> QED
    BY <1>2, <2>1, <2>2, <2>4, <2>5 DEF Good, Sound, g
<1> QED
  BY <1>3, <1>4, <1>5, <1>6 DEF Steps, Ended

-----------------------------------------------------------------------------
(* A call *)

\* Behind every place of a text
Behind(js) == Len(js) + 1

\* The parsers that have not read further than what has arrived
Within(js, t) == {p \in ParserSet : Good(p, Behind(js)) /\ p.pos <= t}

\* The places in a text
LEMMA TextFacts ==
  ASSUME NEW js \in TextSet, NEW t \in Parts(js)
  PROVE  /\ Len(js) \in Nat /\ t \in Nat /\ Behind(js) \in Nat
         /\ t < Behind(js) /\ t <= Len(js)
BY PartIs DEF Behind

\* A round stays within what has arrived.
LEMMA RoundKeeps ==
  ASSUME NEW js \in TextSet, NEW t \in Parts(js), NEW n \in Given,
         NEW p \in Within(js, t)
  PROVE  Round(p, t, n, js) \in Within(js, t)
<1>1. CASE p.result # NotCalled
  BY <1>1 DEF Round
<1>2. CASE p.result = NotCalled
  <2> DEFINE q == Round(p, t, n, js)
  <2>1. Good(p, Behind(js)) /\ Sound(p) /\ p.pos <= t
    BY DEF Within, Good
  <2>2. Steps(p, t, q)
    BY <1>2, <2>1, RoundSteps
  <2> HIDE DEF q
  <2>3. Good(q, Behind(js))
    BY <2>1, <2>2, TextFacts, GoodKept
  <2> QED
    BY <2>2, <2>3 DEF Within, Steps, q
<1> QED
  BY <1>1, <1>2

\* What the rounds of a call are
LEMMA RoundsAre ==
  ASSUME NEW js \in TextSet, NEW t \in Parts(js), NEW n \in Given,
         NEW p \in Within(js, t)
  PROVE  /\ Rounds(p, t, n, js)[0] = p
         /\ \A k \in 0..Len(js) :
              Rounds(p, t, n, js)[k + 1] =
                Round(Rounds(p, t, n, js)[k], t, n, js)
         /\ \A k \in 0..(Len(js) + 1) : Rounds(p, t, n, js)[k] \in Within(js, t)
<1> DEFINE N == Len(js) + 1
           D == Within(js, t)
           h == [x \in D |-> Round(x, t, n, js)]
           Made(r) == r = [k \in 0..N |-> IF k = 0 THEN p
                                          ELSE Round(r[k - 1], t, n, js)]
<1>1. N \in Nat /\ Len(js) \in Nat
  BY TextFacts
<1>2. h \in [D -> D] /\ \A x \in D : h[x] = Round(x, t, n, js)
  BY RoundKeeps
<1> HIDE DEF N, h, D
<1>3. p \in D
  BY DEF D
<1>4. PICK g : Repeated(g, N, D, p, h)
  BY <1>1, <1>2, <1>3, RepetitionExists
<1>5. \A k \in 1..N : k - 1 \in 0..N /\ g[k - 1] \in D
  BY <1>1, <1>4 DEF Repeated
<1>6. \A k \in 1..N : g[k] = Round(g[k - 1], t, n, js)
  BY <1>2, <1>4, <1>5 DEF Repeated
<1>7. Made(g)
  BY <1>4, <1>6 DEF Repeated
<1> DEFINE P == Rounds(p, t, n, js)
<1>8. Made(P)
  <2>1. P = CHOOSE r : Made(r)
    BY DEF Rounds, N
  <2> HIDE DEF Made, P
  <2> QED
    BY <1>7, <2>1
<1>9. /\ P[0] = p
      /\ \A k \in 1..N : P[k] = Round(P[k - 1], t, n, js)
  <2> HIDE DEF P
  <2>1. P = [k \in 0..N |-> IF k = 0 THEN p ELSE Round(P[k - 1], t, n, js)]
    BY <1>8
  <2> QED
    BY <1>1, <2>1
<1> HIDE DEF P
<1>10. \A k \in 0..Len(js) : P[k + 1] = Round(P[k], t, n, js)
  <2> TAKE k \in 0..Len(js)
  <2>1. k + 1 \in 1..N /\ (k + 1) - 1 = k
    BY <1>1 DEF N
  <2> QED
    BY <1>9, <2>1
<1>11. \A k \in 0..N : P[k] \in D
  <2> DEFINE T == {k \in Nat : k <= N => P[k] \in D}
  <2>1. 0 \in T
    BY <1>3, <1>9
  <2>2. ASSUME NEW k \in T, k < N PROVE k + 1 \in T
    <3>1. k \in 0..Len(js) /\ P[k] \in D
      BY <1>1, <2>2 DEF N
    <3>2. P[k + 1] \in D
      BY <1>10, <3>1, RoundKeeps DEF D
    <3> QED
      BY <3>1, <3>2
  <2>3. T \in SUBSET Nat
    OBVIOUS
  <2> HIDE DEF T
  <2>4. \A k \in 0..N : k \in T
    BY <1>1, <2>1, <2>2, <2>3, InductUpTo
  <2> QED
    BY <1>1, <2>4 DEF T
<1> QED
  BY <1>9, <1>10, <1>11 DEF P, N, D

\* The parser with which a text is begun
Fresh == Called(jsmn_init, <<>>)

\* It has read nothing, and has no tokens.
LEMMA FreshWithin ==
  ASSUME NEW js \in TextSet, NEW t \in Parts(js)
  PROVE  Fresh \in Within(js, t) /\ Fresh.result = NotCalled
<1>1. /\ Fresh.pos = 0 /\ Fresh.toknext = 0 /\ Fresh.toksuper = 0
      /\ Fresh.tokens = <<>> /\ Fresh.count = 0 /\ Fresh.result = NotCalled
      /\ Fresh = [pos |-> 0, toknext |-> 0, toksuper |-> 0, tokens |-> <<>>,
                  count |-> 0, result |-> NotCalled]
  BY DEF Fresh, Called, jsmn_init
<1>2. <<>> \in Seq(Token) /\ Len(<<>>) = 0
  OBVIOUS
<1>3. Fresh \in ParserSet
  BY <1>1, <1>2, Results DEF ParserSet
<1>4. OpenTokens(Fresh) = {}
  BY <1>1 DEF OpenTokens
<1>5. Sound(Fresh)
  BY <1>1, <1>2, <1>3, <1>4 DEF Sound, Last
<1>6. Nested(<<>>, 0) /\ Sized(<<>>, Behind(js))
  BY <1>2 DEF Nested, Sized
<1> QED
  BY <1>1, <1>3, <1>5, <1>6, TextFacts DEF Within, Good

\* Behind an early result the rounds stand still.
LEMMA StandsStill ==
  ASSUME NEW js \in TextSet, NEW t \in Parts(js), NEW n \in Given,
         NEW p \in Within(js, t), NEW k \in 0..(Len(js) + 1),
         Rounds(p, t, n, js)[k].result # NotCalled
  PROVE  \A j \in k..(Len(js) + 1) :
           Rounds(p, t, n, js)[j] = Rounds(p, t, n, js)[k]
<1> DEFINE P == Rounds(p, t, n, js)
           N == Len(js) + 1
           T == {j \in Nat : k + j <= N => P[k + j] = P[k]}
<1>1. N \in Nat /\ Len(js) \in Nat /\ k \in 0..N
  BY TextFacts
<1>2. \A j \in 0..Len(js) : P[j + 1] = Round(P[j], t, n, js)
  BY RoundsAre
<1>3. P[k].result # NotCalled
  OBVIOUS
<1> HIDE DEF P
<1>4. 0 \in T
  BY <1>1
<1>5. ASSUME NEW j \in T, j < N PROVE j + 1 \in T
  <2>1. CASE k + (j + 1) <= N
    <3>1. k + j \in 0..Len(js) /\ (k + j) + 1 = k + (j + 1) /\ k + j <= N
      BY <1>1, <1>5, <2>1
    <3>2. P[k + (j + 1)] = Round(P[k], t, n, js)
      BY <1>2, <1>5, <3>1
    <3>3. Round(P[k], t, n, js) = P[k]
      BY <1>3 DEF Round
    <3> QED
      BY <1>5, <3>2, <3>3
  <2> QED
    BY <2>1
<1>6. T \in SUBSET Nat
  OBVIOUS
<1> HIDE DEF T
<1>7. \A j \in 0..N : j \in T
  BY <1>1, <1>4, <1>5, <1>6, InductUpTo
<1>8. ASSUME NEW j \in k..N PROVE P[j] = P[k]
  <2>1. j - k \in 0..N /\ k + (j - k) = j /\ j <= N
    BY <1>1
  <2>2. j - k \in T
    BY <1>7, <2>1
  <2> QED
    BY <2>1, <2>2 DEF T
<1> QED
  BY <1>8 DEF P

\* Every call returns: a round that has no result has moved on.
LEMMA Returns ==
  ASSUME NEW js \in TextSet, NEW t \in Parts(js), NEW n \in Given,
         NEW p \in Within(js, t)
  PROVE  /\ Rounds(p, t, n, js)[Len(js) + 1].result # NotCalled
         /\ Rounds(p, t, n, js)[Len(js) + 1] \in Within(js, t)
<1> DEFINE P == Rounds(p, t, n, js)
           N == Len(js) + 1
           T == {k \in Nat : k <= N => P[k].result # NotCalled \/ P[k].pos >= k}
<1>1. N \in Nat /\ Len(js) \in Nat /\ t \in Nat /\ t < N
  BY TextFacts DEF Behind
<1>2. /\ P[0] = p
      /\ \A k \in 0..Len(js) : P[k + 1] = Round(P[k], t, n, js)
      /\ \A k \in 0..N : P[k] \in Within(js, t)
  BY RoundsAre
<1> HIDE DEF P
<1>3. \A k \in 0..N : P[k].pos \in Nat /\ P[k].pos <= t /\ Sound(P[k])
  BY <1>2, SoundFacts DEF Within, Good
<1>4. 0 \in T
  BY <1>1, <1>3
<1>5. ASSUME NEW k \in T, k < N PROVE k + 1 \in T
  <2>1. k \in 0..Len(js) /\ k \in 0..N /\ k + 1 \in 0..N
    BY <1>1, <1>5
  <2>2. P[k + 1] = Round(P[k], t, n, js)
    BY <1>2, <2>1
  <2>3. CASE P[k].result # NotCalled
    BY <2>2, <2>3 DEF Round
  <2>4. CASE P[k].result = NotCalled
    <3>1. Steps(P[k], t, P[k + 1])
      BY <1>3, <2>1, <2>2, <2>4, RoundSteps
    <3>2. P[k].pos >= k
      BY <1>5, <2>1, <2>4
    <3> QED
      BY <1>3, <2>1, <3>1, <3>2 DEF Steps, Ended
  <2> QED
    BY <2>3, <2>4
<1>6. T \in SUBSET Nat
  OBVIOUS
<1> HIDE DEF T
<1>7. \A k \in 0..N : k \in T
  BY <1>1, <1>4, <1>5, <1>6, InductUpTo
<1>8. N \in T /\ N \in 0..N
  BY <1>1, <1>7
<1>9. P[N].result # NotCalled
  BY <1>1, <1>3, <1>8 DEF T
<1> QED
  BY <1>2, <1>8, <1>9 DEF P

\* The parser that a call ends with begins the next one.
LEMMA CoreWithin ==
  ASSUME NEW js \in TextSet, NEW t \in Parts(js), NEW p \in Within(js, t),
         NEW q \in ParserSet, SameCore(p, q)
  PROVE  q \in Within(js, t)
<1>1. OpenTokens(q) = OpenTokens(p)
  BY DEF SameCore, OpenTokens
<1> QED
  BY <1>1 DEF Within, Good, Sound, SameCore

\* A call with that parser and its tokens begins where the last one ended.
LEMMA CalledAgain ==
  ASSUME NEW js \in TextSet, NEW t \in Parts(js), NEW p \in Within(js, t)
  PROVE  /\ Called(ParserOf(p), p.tokens) \in Within(js, t)
         /\ Called(ParserOf(p), p.tokens).result = NotCalled
         /\ SameCore(p, Called(ParserOf(p), p.tokens))
<1> DEFINE q == Called(ParserOf(p), p.tokens)
<1>1. p \in ParserSet
  BY DEF Within
<1>2. /\ q = [pos |-> p.pos, toknext |-> p.toknext, toksuper |-> p.toksuper,
              tokens |-> p.tokens, count |-> 0, result |-> NotCalled]
      /\ SameCore(p, q) /\ q.result = NotCalled
  BY DEF Called, ParserOf, SameCore
<1> HIDE DEF q
<1>3. q \in ParserSet
  BY <1>1, <1>2, Results DEF ParserSet
<1>4. q \in Within(js, t)
  BY <1>2, <1>3, CoreWithin
<1> QED
  BY <1>2, <1>4 DEF q

\* When more of the text arrives the parser is still within it.
LEMMA WithinLonger ==
  ASSUME NEW js \in TextSet, NEW t \in Parts(js), NEW ks \in TextSet,
         NEW u \in Parts(ks), Continues(js, t, ks, u), NEW p \in Within(js, t)
  PROVE  p \in Within(ks, u)
<1>1. p.pos \in Nat /\ t \in Nat /\ u \in Nat /\ t <= u /\ p.pos <= t
  BY SoundFacts, TextFacts DEF Within, Good, Continues
<1>2. Behind(ks) = Behind(js)
  BY DEF Behind, Continues
<1> QED
  BY <1>1, <1>2 DEF Within

-----------------------------------------------------------------------------
(* The tree of tokens is there at every return.                            *)

\* The types, and the tree of the tokens the caller has
TypeOK ==
  /\ text \in Texts /\ len \in Cuts(text) /\ num \in 0..MaxTokens
  /\ buffer \in Buffers(text, len) /\ result \in Int
  /\ Called(parser, tokens) \in Within(buffer, len)

\* What has arrived is a part of a text.
LEMMA Arrived ==
  ASSUME NEW t \in Texts, NEW n \in Cuts(t), NEW b \in Buffers(t, n)
  PROVE  /\ b \in TextSet /\ n \in Parts(b) /\ Len(b) = Len(t) + Beyond
         /\ n \in 0..Len(t) /\ \A i \in 1..n : b[i] = t[i]
<1>1. t \in Seq(STRING \ {"nul"}) /\ n \in 0..Len(t)
  BY TextsAssumption DEF Cuts
<1>2. /\ b \in Seq(STRING) /\ Len(b) = Len(t) + Beyond
      /\ \A i \in 1..n : b[i] = t[i]
  BY <1>1, BuffersAssumption
<1>3. b \in TextSet
  BY <1>2 DEF TextSet
<1>4. \A i \in 1..n : t[i] # "nul"
  BY <1>1
<1>5. n \in 0..Len(b)
  BY <1>1, <1>2 DEF Beyond
<1> QED
  BY <1>1, <1>2, <1>3, <1>4, <1>5 DEF Parts

\* One buffer goes on where an earlier one of the same text has ended.
LEMMA Refilled ==
  ASSUME NEW t \in Texts, NEW n \in Cuts(t), NEW b \in Buffers(t, n),
         NEW m \in Cuts(t), NEW c \in Buffers(t, m), n <= m
  PROVE  Continues(b, n, c, m)
<1>1. /\ Len(b) = Len(t) + Beyond /\ n \in 0..Len(t)
      /\ \A i \in 1..n : b[i] = t[i]
  BY Arrived
<1>2. /\ Len(c) = Len(t) + Beyond /\ m \in 0..Len(t)
      /\ \A i \in 1..m : c[i] = t[i]
  BY Arrived
<1> QED
  BY <1>1, <1>2 DEF Continues

\* The caller's number of tokens is one a call may be given.
LEMMA NumGiven ==
  ASSUME NEW n \in 0..MaxTokens PROVE n \in Given /\ n \in Nat
BY MaxTokensAssumption DEF Given

\* Both are there at first,
LEMMA InitType == Init => TypeOK
<1> SUFFICES ASSUME Init PROVE TypeOK
  OBVIOUS
<1>1. buffer \in TextSet /\ len \in Parts(buffer)
  BY Arrived DEF Init
<1>2. Called(parser, tokens) = Fresh
  BY DEF Init, Fresh
<1>3. Fresh \in Within(buffer, len)
  BY <1>1, FreshWithin
<1> QED
  BY <1>2, <1>3, Results DEF Init, TypeOK

\* every step keeps them,
LEMMA NextType == TypeOK /\ [Next]_vars => TypeOK'
<1> SUFFICES ASSUME TypeOK, [Next]_vars PROVE TypeOK'
  OBVIOUS
<1>1. buffer \in TextSet /\ len \in Parts(buffer) /\ num \in Given
  BY Arrived, NumGiven DEF TypeOK
<1>2. CASE Parse
  <2> DEFINE p == jsmn_parse(parser, tokens, num, buffer, len)
  <2>1. p \in Within(buffer, len)
    BY <1>1, Returns DEF TypeOK, jsmn_parse, Parsed
  <2>2. parser' = ParserOf(p) /\ tokens' = p.tokens /\ result' = p.result
        /\ text' = text /\ len' = len /\ num' = num /\ buffer' = buffer
    BY <1>2 DEF Parse
  <2> HIDE DEF p
  <2>3. Called(ParserOf(p), p.tokens) \in Within(buffer, len)
    BY <1>1, <2>1, CalledAgain
  <2>4. p.result \in Int
    BY <2>1 DEF Within, ParserSet
  <2> QED
    BY <2>2, <2>3, <2>4 DEF TypeOK
<1>3. CASE MoreTokens
  <2>1. num' \in 0..MaxTokens
    BY <1>3, MaxTokensAssumption DEF MoreTokens, TypeOK
  <2> DEFINE b == buffer'
  <2>2. b \in Buffers(text, len)
    BY <1>3 DEF MoreTokens
  <2> HIDE DEF b
  <2>3. len <= len
    BY <1>1, TextFacts
  <2>4. Called(parser, tokens) \in Within(b, len)
    BY <1>1, <2>2, <2>3, Arrived, Refilled, WithinLonger DEF TypeOK
  <2> QED
    BY <1>3, <2>1, <2>2, <2>4, Results DEF MoreTokens, TypeOK, b
<1>4. CASE Arrive
  <2> DEFINE u == len'
             b == buffer'
  <2>1. u \in Cuts(text) /\ u > len /\ b \in Buffers(text, u)
    BY <1>4 DEF Arrive
  <2> HIDE DEF u, b
  <2>2. u \in 0..Len(text) /\ len \in Nat /\ u \in Nat
    BY <1>1, <2>1, Arrived, TextFacts DEF TypeOK
  <2>3. len <= u
    BY <2>1, <2>2
  <2>4. b \in TextSet /\ u \in Parts(b) /\ Continues(buffer, len, b, u)
    BY <2>1, <2>3, Arrived, Refilled DEF TypeOK
  <2>5. Called(parser, tokens) \in Within(b, u)
    BY <1>1, <2>4, WithinLonger DEF TypeOK
  <2> QED
    BY <1>4, <2>1, <2>5, Results DEF Arrive, TypeOK, u, b
<1>5. CASE UNCHANGED vars
  BY <1>5 DEF vars, TypeOK
<1> QED
  BY <1>2, <1>3, <1>4, <1>5 DEF Next

\* and the tree is the one TokensNest means.
LEMMA TypeNests == TypeOK => TokensNest
<1> SUFFICES ASSUME TypeOK PROVE TokensNest
  OBVIOUS
<1> DEFINE L == Len(buffer) + 1
           m == Len(tokens)
           pos == parser.pos
<1>1. buffer \in TextSet /\ len \in Parts(buffer)
  BY Arrived DEF TypeOK
<1>2. Len(buffer) \in Nat /\ len <= Len(buffer) /\ len \in Nat /\ L \in Nat
  BY <1>1, TextFacts
<1>3. /\ Called(parser, tokens).tokens = tokens
      /\ Called(parser, tokens).pos = pos
  BY DEF Called
<1>4. /\ tokens \in Seq(Token) /\ m \in Nat /\ pos \in Nat /\ pos <= len
      /\ Nested(tokens, pos) /\ Sized(tokens, L)
  <2> DEFINE p == Called(parser, tokens)
  <2>1. Good(p, L) /\ p.pos <= len
    BY DEF TypeOK, Within, Behind
  <2>2. Sound(p) /\ Nested(p.tokens, p.pos) /\ Sized(p.tokens, L)
    BY <2>1 DEF Good
  <2>3. p.tokens \in Seq(Token) /\ p.pos \in Nat
    BY <2>2, SoundFacts
  <2> HIDE DEF p, L
  <2> QED
    BY <1>3, <2>1, <2>2, <2>3 DEF p
<1>5. DOMAIN tokens = 1..m
  BY <1>4
<1>6. \A i \in 1..m :
        tokens[i].start \in Nat /\ tokens[i].end \in Nat \union {-1}
  <2>1. \A i \in 1..m : tokens[i] \in Token
    BY <1>4
  <2> QED
    BY <2>1 DEF Token
<1>7. \A i \in 1..m : EndOf(i) = EndIn(tokens, L, i)
  BY DEF EndOf, EndIn
<1>8. \A i, j \in 1..m : Inside(i, j) <=> InsideOf(tokens, L, i, j)
  BY <1>7 DEF Inside, InsideOf
<1> HIDE DEF L, m, pos
<1>9. ASSUME NEW i \in 1..m, NEW j \in 1..m, i < j
      PROVE  /\ tokens[i].start < tokens[j].start
             /\ Inside(j, i) \/ EndOf(i) <= tokens[j].start
  <2>1. /\ tokens[i].start < tokens[j].start
        /\ \/ tokens[i].end = -1 \/ tokens[i].end <= tokens[j].start
           \/ tokens[j].end # -1 /\ tokens[j].end <= tokens[i].end
        /\ tokens[j].end = -1 \/ tokens[j].end <= pos
    BY <1>4, <1>9 DEF Nested, m
  <2>2. pos < L
    BY <1>2, <1>4 DEF L
  <2>3. InsideOf(tokens, L, j, i) \/ EndIn(tokens, L, i) <= tokens[j].start
    BY <1>2, <1>4, <1>6, <2>1, <2>2 DEF InsideOf, EndIn
  <2> QED
    BY <1>7, <1>8, <2>1, <2>3
<1>10. ASSUME NEW i \in 1..m
       PROVE  tokens[i].size =
                Cardinality({j \in 1..m : /\ i < j /\ Inside(j, i)
                                          /\ \A k \in (i + 1)..(j - 1) :
                                               ~Inside(j, k)})
  <2> DEFINE A == {j \in 1..m : /\ i < j /\ Inside(j, i)
                                /\ \A k \in (i + 1)..(j - 1) : ~Inside(j, k)}
  <2>1. \A j \in 1..m : \A k \in (i + 1)..(j - 1) : k \in 1..m
    BY <1>4
  <2>2. ASSUME NEW j \in 1..m PROVE j \in A <=> j \in Children(tokens, L, i)
    BY <1>8, <2>1 DEF Children, m
  <2>3. A \subseteq 1..m /\ Children(tokens, L, i) \subseteq 1..m
    BY DEF Children, m
  <2> HIDE DEF A
  <2>4. A = Children(tokens, L, i)
    BY <2>2, <2>3
  <2>5. tokens[i].size = Cardinality(Children(tokens, L, i))
    BY <1>4 DEF Sized, m
  <2> QED
    BY <2>4, <2>5 DEF A
<1> QED
  BY <1>5, <1>9, <1>10 DEF TokensNest

(* The tokens form a tree at every return of jsmn_parse, an early one too, *)
(* however it came to it: for any text and any number of tokens.           *)
THEOREM JsmnTokensNest == Spec => []TokensNest
<1>1. Spec => []TypeOK
  BY InitType, NextType, PTL DEF Spec
<1> QED
  BY <1>1, TypeNests, PTL

(* Every call returns, the rounds of its loops being enough for any text,  *)
(* and neither the place where the parser stops nor any token is behind    *)
(* what has arrived, though a call may read on behind a backslash.         *)
THEOREM JsmnReturns ==
  Spec => [][Parse => /\ result' # NotCalled /\ parser'.pos <= len
                      /\ \A i \in DOMAIN tokens' :
                           tokens'[i].start < len /\ tokens'[i].end <= len]_vars
<1> DEFINE Returned == /\ result' # NotCalled /\ parser'.pos <= len
                    /\ \A i \in DOMAIN tokens' :
                         tokens'[i].start < len /\ tokens'[i].end <= len
<1>1. Spec => []TypeOK
  BY InitType, NextType, PTL DEF Spec
<1>2. TypeOK /\ [Next]_vars => [Parse => Returned]_vars
  <2> SUFFICES ASSUME TypeOK, Parse PROVE Returned
    OBVIOUS
  <2> DEFINE p == jsmn_parse(parser, tokens, num, buffer, len)
  <2>1. buffer \in TextSet /\ len \in Parts(buffer) /\ num \in Given
    BY Arrived, NumGiven DEF TypeOK
  <2>2. p \in Within(buffer, len) /\ p.result # NotCalled
    BY <2>1, Returns DEF TypeOK, jsmn_parse, Parsed
  <2>3. parser' = ParserOf(p) /\ tokens' = p.tokens /\ result' = p.result
    BY DEF Parse
  <2> HIDE DEF p
  <2>4. /\ p.pos \in Nat /\ p.pos <= len /\ len \in Nat
        /\ p.tokens \in Seq(Token) /\ Nested(p.tokens, p.pos)
    BY <2>1, <2>2, PartIs, SoundFacts DEF Within, Good
  <2>5. ASSUME NEW i \in DOMAIN p.tokens
        PROVE  p.tokens[i].start < len /\ p.tokens[i].end <= len
    <3>1. i \in 1..Len(p.tokens) /\ p.tokens[i] \in Token
      BY <2>4
    <3>2. p.tokens[i].start \in Nat /\ p.tokens[i].end \in Nat \union {-1}
      BY <3>1 DEF Token
    <3>3. /\ p.tokens[i].start < p.pos
          /\ p.tokens[i].end = -1 \/ p.tokens[i].end <= p.pos
      BY <2>4, <3>1 DEF Nested
    <3> QED
      BY <2>4, <3>2, <3>3
  <2>6. parser'.pos = p.pos
    BY <2>3 DEF ParserOf
  <2> QED
    BY <2>2, <2>3, <2>4, <2>5, <2>6
<1> QED
  BY <1>1, <1>2, PTL DEF Spec

-----------------------------------------------------------------------------
(* A call that goes on where an earlier one has stopped                    *)

\* Parsers that differ in what they have counted at most
Same(p, q) ==
  /\ SameCore(p, q)
  /\ p.result = q.result \/ (p.result >= 0 /\ q.result >= 0)

\* What a round makes of both is the same, but for the count.
LEMMA SameMade ==
  ASSUME NEW p, NEW q, Sound(p), Sound(q), SameCore(p, q),
         p.result = NotCalled, q.result = NotCalled, NEW r, NEW s
  PROVE  /\ OpenTokens(q) = OpenTokens(p) /\ Grown(q) = Grown(p)
         /\ \A e : r = Failed(p, e) /\ s = Failed(q, e) => Same(r, s)
         /\ \A y : Counts(p, r, y) /\ Counts(q, s, y) => Same(r, s)
         /\ Passes(p, r) /\ Passes(q, s) => Same(r, s)
         /\ \A tok, x, y : Adds(p, r, tok, x, y) /\ Adds(q, s, tok, x, y)
              => Same(r, s)
         /\ Shuts(p, r) /\ Shuts(q, s) => Same(r, s)
<1>1. OpenTokens(q) = OpenTokens(p) /\ Grown(q) = Grown(p)
  BY DEF SameCore, OpenTokens, Grown
<1>2. ASSUME NEW e, r = Failed(p, e), s = Failed(q, e) PROVE Same(r, s)
  <2>1. p \in ParserSet /\ q \in ParserSet
    BY DEF Sound
  <2>2. SameCore(p, r) /\ r.result = e
    BY <1>2, <2>1 DEF Failed, ParserSet, SameCore
  <2>3. SameCore(q, s) /\ s.result = e
    BY <1>2, <2>1 DEF Failed, ParserSet, SameCore
  <2> QED
    BY <2>2, <2>3 DEF SameCore, Same
<1>3. ASSUME NEW y, Counts(p, r, y), Counts(q, s, y) PROVE Same(r, s)
  BY <1>3 DEF Counts, Same, SameCore
<1>4. ASSUME Passes(p, r), Passes(q, s) PROVE Same(r, s)
  BY <1>4 DEF Passes, Same, SameCore
<1>5. ASSUME NEW tok, NEW x, NEW y, Adds(p, r, tok, x, y), Adds(q, s, tok, x, y)
      PROVE  Same(r, s)
  <2>1. p.toknext = q.toknext
    BY DEF SameCore
  <2>2. /\ r.pos = y /\ s.pos = y /\ r.toknext = p.toknext + 1
        /\ s.toknext = p.toknext + 1 /\ r.toksuper = x /\ s.toksuper = x
        /\ r.tokens = Append(Grown(p), tok) /\ s.tokens = Append(Grown(p), tok)
        /\ r.result = NotCalled /\ s.result = NotCalled
    BY <1>1, <1>5, <2>1 DEF Adds
  <2> QED
    BY <2>2 DEF Same, SameCore
<1>6. ASSUME Shuts(p, r), Shuts(q, s) PROVE Same(r, s)
  BY <1>1, <1>6 DEF Shuts, Same, SameCore
<1> QED
  BY <1>1, <1>2, <1>3, <1>4, <1>5, <1>6

\* What has been counted does not matter to a round.
LEMMA RoundSame ==
  ASSUME NEW js \in TextSet, NEW t \in Parts(js), NEW n \in Given,
         NEW p \in Within(js, t), NEW q \in Within(js, t), Same(p, q)
  PROVE  Same(Round(p, t, n, js), Round(q, t, n, js))
<1> DEFINE r == Round(p, t, n, js)
           s == Round(q, t, n, js)
           c == Char(js, t, p.pos)
<1>0. /\ Sound(p) /\ Sound(q) /\ SameCore(p, q) /\ p.pos \in Nat /\ t \in Nat
      /\ p.result \in Int /\ q.result \in Int /\ p.count \in Nat
      /\ q.count \in Nat
  BY SoundFacts, TextFacts DEF Within, Good, Same
<1>1. CASE p.result # NotCalled
  <2>1. q.result # NotCalled
    BY <1>0, <1>1, Results DEF Same, NotCalled
  <2> QED
    BY <1>1, <2>1 DEF Round
<1>2. CASE p.result = NotCalled
  <2>0. q.result = NotCalled
    BY <1>0, <1>2 DEF Same, NotCalled
  <2>1. /\ q.pos = p.pos /\ q.toknext = p.toknext /\ q.toksuper = p.toksuper
        /\ q.tokens = p.tokens
    BY <1>0 DEF SameCore
  <2>2. c = Char(js, t, q.pos) /\ c = Char(js, t, p.pos)
    BY <2>1
  <2>13. r = Round(p, t, n, js) /\ s = Round(q, t, n, js)
    OBVIOUS
  <2> HIDE DEF c, r, s
  <2> SUFFICES Same(r, s)
    BY DEF r, s
  <2>3. /\ Kind(c) \in Kinds
        /\ Kind(c) = "nul" <=> c = "nul"
        /\ Kind(c) = "nul" => r = Failed(p, AtEnd(p))
        /\ Kind(c) = "open" => c \in Types /\ r = Open(p, n, c)
        /\ Kind(c) = "close" => r = Close(p, n, c)
        /\ Kind(c) = "string" => r = jsmn_parse_string(p, t, n, js)
        /\ Kind(c) = "skip" => r = [p EXCEPT !.pos = @ + 1]
        /\ Kind(c) = "primitive" =>
             r = jsmn_parse_primitive(p, t, n, js) /\ c \notin Ends
    BY <1>2, <2>2, <2>13, RoundIs
  <2>4. /\ Kind(c) = "nul" => s = Failed(q, AtEnd(q))
        /\ Kind(c) = "open" => c \in Types /\ s = Open(q, n, c)
        /\ Kind(c) = "close" => s = Close(q, n, c)
        /\ Kind(c) = "string" => s = jsmn_parse_string(q, t, n, js)
        /\ Kind(c) = "skip" => s = [q EXCEPT !.pos = @ + 1]
        /\ Kind(c) = "primitive" =>
             s = jsmn_parse_primitive(q, t, n, js) /\ c \notin Ends
    <3>1. s = Round(q, t, n, js)
      BY <2>13
    <3>2. c = Char(js, t, q.pos)
      BY <2>2
    <3> QED
      BY ONLY <2>0, <3>1, <3>2, RoundIs
  <2>5. /\ OpenTokens(q) = OpenTokens(p) /\ Grown(q) = Grown(p)
        /\ \A e : r = Failed(p, e) /\ s = Failed(q, e) => Same(r, s)
        /\ \A y : Counts(p, r, y) /\ Counts(q, s, y) => Same(r, s)
        /\ Passes(p, r) /\ Passes(q, s) => Same(r, s)
        /\ \A tok, x, y : Adds(p, r, tok, x, y) /\ Adds(q, s, tok, x, y)
             => Same(r, s)
        /\ Shuts(p, r) /\ Shuts(q, s) => Same(r, s)
    BY <1>0, <1>2, <2>0, SameMade
  <2>6. CASE Kind(c) = "nul"
    <3>1. r = Failed(p, AtEnd(p)) /\ s = Failed(q, AtEnd(q))
      BY <2>3, <2>4, <2>6
    <3>2. CASE OpenTokens(p) # {}
      <4>1. AtEnd(p) = PART /\ AtEnd(q) = PART
        BY <2>5, <3>2 DEF AtEnd
      <4> QED
        BY <2>5, <3>1, <4>1
    <3>3. CASE OpenTokens(p) = {}
      <4>1. AtEnd(p) = p.count /\ AtEnd(q) = q.count
        BY <2>5, <3>3 DEF AtEnd
      <4>2. p \in ParserSet /\ q \in ParserSet
        BY <1>0 DEF Sound
      <4>3. SameCore(p, r) /\ r.result = p.count
        BY <3>1, <4>1, <4>2 DEF Failed, ParserSet, SameCore
      <4>4. SameCore(q, s) /\ s.result = q.count
        BY <3>1, <4>1, <4>2 DEF Failed, ParserSet, SameCore
      <4>5. SameCore(r, s)
        BY <2>1, <4>3, <4>4 DEF SameCore
      <4> QED
        BY <1>0, <4>3, <4>4, <4>5 DEF Same
    <3> QED
      BY <3>2, <3>3
  <2>7. CASE Kind(c) = "open"
    <3>1. c \in Types /\ r = Open(p, n, c) /\ s = Open(q, n, c)
      BY <2>3, <2>4, <2>7
    <3>2. /\ Without(n) => Counts(p, r, p.pos + 1)
          /\ ~Without(n) /\ p.toknext >= n => r = Failed(p, NOMEM)
          /\ ~Without(n) /\ ~(p.toknext >= n) =>
               Adds(p, r, Tok(c, p.pos, -1), p.toknext + 1, p.pos + 1)
      BY <1>0, <3>1, OpenIs
    <3>3. /\ Without(n) => Counts(q, s, q.pos + 1)
          /\ ~Without(n) /\ q.toknext >= n => s = Failed(q, NOMEM)
          /\ ~Without(n) /\ ~(q.toknext >= n) =>
               Adds(q, s, Tok(c, q.pos, -1), q.toknext + 1, q.pos + 1)
      BY <1>0, <3>1, OpenIs
    <3> QED
      BY <2>1, <2>5, <3>2, <3>3
  <2>8. CASE Kind(c) = "close"
    <3> DEFINE i == Last(OpenTokens(p))
               fails == i = 0 \/ ~Matches(p.tokens[i].type, c)
    <3>1. r = Close(p, n, c) /\ s = Close(q, n, c)
      BY <2>3, <2>4, <2>8
    <3>2. /\ Without(n) => Passes(p, r)
          /\ ~Without(n) /\ fails => r = Failed(p, INVAL)
          /\ ~Without(n) /\ ~fails => Shuts(p, r)
      BY <1>0, <3>1, CloseIs
    <3>3. fails <=> \/ Last(OpenTokens(q)) = 0
                    \/ ~Matches(q.tokens[Last(OpenTokens(q))].type, c)
      BY <2>1, <2>5
    <3> HIDE DEF fails
    <3>4. /\ Without(n) => Passes(q, s)
          /\ ~Without(n) /\ fails => s = Failed(q, INVAL)
          /\ ~Without(n) /\ ~fails => Shuts(q, s)
      BY <1>0, <3>1, <3>3, CloseIs
    <3> QED
      BY <2>5, <3>2, <3>4
  <2>9. CASE Kind(c) = "string"
    <3> DEFINE end == Quote(js, t, p.pos + 1)
               tok == Tok("string", p.pos + 1, end)
    <3>1. /\ r = jsmn_parse_string(p, t, n, js)
          /\ s = jsmn_parse_string(q, t, n, js)
      BY <2>3, <2>4, <2>9
    <3>2. /\ end < 0 => r = Failed(p, end)
          /\ ~(end < 0) /\ Without(n) => Counts(p, r, end + 1)
          /\ ~(end < 0) /\ ~Without(n) /\ p.toknext >= n => r = Failed(p, NOMEM)
          /\ ~(end < 0) /\ ~Without(n) /\ ~(p.toknext >= n) =>
               Adds(p, r, tok, p.toksuper, end + 1)
      BY <1>0, <3>1, StringIs
    <3>3. end = Quote(js, t, q.pos + 1) /\ tok = Tok("string", q.pos + 1, end)
      BY <2>1
    <3> HIDE DEF end, tok
    <3>4. /\ end < 0 => s = Failed(q, end)
          /\ ~(end < 0) /\ Without(n) => Counts(q, s, end + 1)
          /\ ~(end < 0) /\ ~Without(n) /\ q.toknext >= n => s = Failed(q, NOMEM)
          /\ ~(end < 0) /\ ~Without(n) /\ ~(q.toknext >= n) =>
               Adds(q, s, tok, q.toksuper, end + 1)
      BY <1>0, <3>1, <3>3, StringIs
    <3> QED
      BY <2>1, <2>5, <3>2, <3>4
  <2>10. CASE Kind(c) = "skip"
    <3>1. r = [p EXCEPT !.pos = @ + 1] /\ s = [q EXCEPT !.pos = @ + 1]
      BY <2>3, <2>4, <2>10
    <3>2. Passes(p, r) /\ Passes(q, s)
      BY <1>0, <3>1, PassesIs
    <3> QED
      BY <2>5, <3>2
  <2>11. CASE Kind(c) = "primitive"
    <3> DEFINE end == PrimitiveEnd(js, t, p.pos)
               bad == Char(js, t, end) = NotASCII
               tok == Tok("primitive", p.pos, end)
    <3>1. /\ r = jsmn_parse_primitive(p, t, n, js) /\ c \notin Ends
          /\ s = jsmn_parse_primitive(q, t, n, js)
      BY <2>3, <2>4, <2>11
    <3>2. c # "nul"
      BY <2>3, <2>11
    <3>3. p.pos < t /\ q.pos < t
      BY <1>0, <2>1, <2>2, <3>2, CharIs
    <3>4. /\ bad => r = Failed(p, INVAL)
          /\ ~bad /\ Without(n) => Counts(p, r, end)
          /\ ~bad /\ ~Without(n) /\ p.toknext >= n => r = Failed(p, NOMEM)
          /\ ~bad /\ ~Without(n) /\ ~(p.toknext >= n) =>
               Adds(p, r, tok, p.toksuper, end)
      BY <1>0, <2>2, <3>1, <3>3, PrimitiveIs
    <3>5. /\ end = PrimitiveEnd(js, t, q.pos)
          /\ tok = Tok("primitive", q.pos, end)
          /\ bad <=> Char(js, t, end) = NotASCII
      BY <2>1
    <3> HIDE DEF end, tok, bad
    <3>6. /\ bad => s = Failed(q, INVAL)
          /\ ~bad /\ Without(n) => Counts(q, s, end)
          /\ ~bad /\ ~Without(n) /\ q.toknext >= n => s = Failed(q, NOMEM)
          /\ ~bad /\ ~Without(n) /\ ~(q.toknext >= n) =>
               Adds(q, s, tok, q.toksuper, end)
      BY <1>0, <2>2, <3>1, <3>3, <3>5, PrimitiveIs
    <3> QED
      BY <2>1, <2>5, <3>4, <3>6
  <2> QED
    BY <2>3, <2>6, <2>7, <2>8, <2>9, <2>10, <2>11 DEF Kinds
<1> QED
  BY <1>1, <1>2

\* Nor to the rounds of a call: one that begins where another has come to goes
\* on like it,
LEMMA RoundsSame ==
  ASSUME NEW js \in TextSet, NEW t \in Parts(js), NEW n \in Given,
         NEW p \in Within(js, t), NEW q \in Within(js, t),
         NEW k \in 0..(Len(js) + 1), Same(p, Rounds(q, t, n, js)[k])
  PROVE  \A j \in 0..(Len(js) + 1) : k + j <= Len(js) + 1 =>
           Same(Rounds(p, t, n, js)[j], Rounds(q, t, n, js)[k + j])
<1> DEFINE P == Rounds(p, t, n, js)
           Q == Rounds(q, t, n, js)
           N == Len(js) + 1
           T == {j \in Nat : k + j <= N => Same(P[j], Q[k + j])}
<1>1. N \in Nat /\ Len(js) \in Nat /\ k \in 0..N
  BY TextFacts
<1>2. /\ P[0] = p
      /\ \A j \in 0..Len(js) : P[j + 1] = Round(P[j], t, n, js)
      /\ \A j \in 0..N : P[j] \in Within(js, t)
  BY RoundsAre
<1>3. /\ \A j \in 0..Len(js) : Q[j + 1] = Round(Q[j], t, n, js)
      /\ \A j \in 0..N : Q[j] \in Within(js, t)
  BY RoundsAre
<1>4. Same(p, Q[k])
  OBVIOUS
<1> HIDE DEF P, Q
<1>5. 0 \in T
  BY <1>1, <1>2, <1>4
<1>6. ASSUME NEW j \in T, j < N PROVE j + 1 \in T
  <2>1. CASE k + (j + 1) <= N
    <3>1. /\ k + j \in 0..Len(js) /\ (k + j) + 1 = k + (j + 1) /\ k + j <= N
          /\ j \in 0..Len(js) /\ j \in 0..N /\ k + j \in 0..N
      BY <1>1, <1>6, <2>1
    <3>2. Same(P[j], Q[k + j])
      BY <1>6, <3>1
    <3>3. P[j] \in Within(js, t) /\ Q[k + j] \in Within(js, t)
      BY <1>2, <1>3, <3>1
    <3>4. Same(Round(P[j], t, n, js), Round(Q[k + j], t, n, js))
      BY <3>2, <3>3, RoundSame
    <3>5. /\ P[j + 1] = Round(P[j], t, n, js)
          /\ Q[k + (j + 1)] = Round(Q[k + j], t, n, js)
      BY <1>2, <1>3, <3>1
    <3>6. Same(P[j + 1], Q[k + (j + 1)])
      BY <3>4, <3>5
    <3> QED
      BY <3>6
  <2> QED
    BY <2>1
<1>7. T \in SUBSET Nat
  OBVIOUS
<1> HIDE DEF T
<1>8. \A j \in 0..N : j \in T
  BY <1>1, <1>5, <1>6, <1>7, InductUpTo
<1>9. ASSUME NEW j \in 0..N, k + j <= N PROVE Same(P[j], Q[k + j])
  BY <1>8, <1>9 DEF T
<1> QED
  BY <1>9 DEF P, Q

\* and comes to the same end.
LEMMA Resumes ==
  ASSUME NEW js \in TextSet, NEW t \in Parts(js), NEW n \in Given,
         NEW p \in Within(js, t), NEW q \in Within(js, t),
         NEW k \in 0..(Len(js) + 1), Same(p, Rounds(q, t, n, js)[k])
  PROVE  Same(Parsed(p, t, n, js), Parsed(q, t, n, js))
<1> DEFINE P == Rounds(p, t, n, js)
           Q == Rounds(q, t, n, js)
           N == Len(js) + 1
<1>1. /\ N \in Nat /\ Len(js) \in Nat /\ k \in 0..N /\ N - k \in 0..N
      /\ k + (N - k) = N /\ N \in (N - k)..N
  BY TextFacts
<1>2. Same(P[N - k], Q[N])
  <2>1. \A j \in 0..N : k + j <= N => Same(P[j], Q[k + j])
    BY RoundsSame
  <2> HIDE DEF P, Q
  <2>2. k + (N - k) <= N
    BY <1>1
  <2> QED
    BY <1>1, <2>1, <2>2
<1>3. Q[N].result # NotCalled
  BY Returns
<1>4. P[N - k].result # NotCalled
  <2>1. P[N - k].result = Q[N].result \/ P[N - k].result >= 0
    BY <1>2 DEF Same
  <2> HIDE DEF P, Q
  <2> QED
    BY <1>3, <2>1 DEF NotCalled
<1>5. P[N] = P[N - k]
  BY <1>1, <1>4, StandsStill
<1> QED
  BY <1>2, <1>5 DEF Parsed

\* The parser a call comes to is that of a round which went on.
LEMMA LastBegun ==
  ASSUME NEW js \in TextSet, NEW t \in Parts(js), NEW n \in Given,
         NEW p \in Within(js, t), p.result = NotCalled,
         NEW k \in 0..(Len(js) + 1)
  PROVE  \E j \in 0..(Len(js) + 1) :
           /\ Rounds(p, t, n, js)[j].result = NotCalled
           /\ SameCore(Rounds(p, t, n, js)[j], Rounds(p, t, n, js)[k])
<1> DEFINE P == Rounds(p, t, n, js)
           N == Len(js) + 1
           Begun(x) == \E j \in 0..N : /\ P[j].result = NotCalled
                                       /\ SameCore(P[j], P[x])
           T == {x \in Nat : x <= N => Begun(x)}
<1>1. N \in Nat /\ Len(js) \in Nat
  BY TextFacts
<1>2. /\ P[0] = p
      /\ \A j \in 0..Len(js) : P[j + 1] = Round(P[j], t, n, js)
      /\ \A j \in 0..N : P[j] \in Within(js, t)
  BY RoundsAre
<1> HIDE DEF P
<1>3. 0 \in T
  <2>1. SameCore(P[0], P[0]) /\ 0 \in 0..N
    BY <1>1 DEF SameCore
  <2> QED
    BY <1>2, <2>1
<1>4. ASSUME NEW x \in T, x < N PROVE x + 1 \in T
  <2>1. x \in 0..Len(js) /\ x \in 0..N /\ x + 1 \in 0..N /\ x <= N
    BY <1>1, <1>4
  <2>2. P[x + 1] = Round(P[x], t, n, js)
    BY <1>2, <2>1
  <2>3. PICK j \in 0..N : P[j].result = NotCalled /\ SameCore(P[j], P[x])
    BY <1>4, <2>1
  <2>4. CASE P[x].result # NotCalled
    <3>1. P[x + 1] = P[x]
      BY <2>2, <2>4 DEF Round
    <3> QED
      BY <2>3, <3>1
  <2>5. CASE P[x].result = NotCalled
    <3>1. Sound(P[x]) /\ P[x].pos <= t
      BY <1>2, <2>1 DEF Within, Good
    <3>2. Steps(P[x], t, P[x + 1])
      BY <2>2, <2>5, <3>1, RoundSteps
    <3>3. CASE P[x + 1].result = NotCalled
      <4>1. SameCore(P[x + 1], P[x + 1])
        BY DEF SameCore
      <4> QED
        BY <2>1, <3>3, <4>1
    <3>4. CASE P[x + 1].result # NotCalled
      <4>1. SameCore(P[x], P[x + 1])
        BY <3>2, <3>4 DEF Steps, Ended, Skips, Finds, Opens, Closes
      <4> QED
        BY <2>1, <2>5, <4>1
    <3> QED
      BY <3>3, <3>4
  <2> QED
    BY <2>4, <2>5
<1>5. T \in SUBSET Nat
  OBVIOUS
<1> HIDE DEF T
<1>6. \A x \in 0..N : x \in T
  BY <1>1, <1>3, <1>4, <1>5, InductUpTo
<1>7. Begun(k)
  BY <1>1, <1>6, k \in 0..N DEF T
<1> QED
  BY <1>7 DEF P

-----------------------------------------------------------------------------
(* A call with more of the text and more tokens                            *)

\* The tokens T that have been read in t characters are not other ones when
\* there are u of them, in ks: no primitive was cut off.
ReadOn(ks, t, u, T) ==
  \/ u = t
  \/ Char(ks, u, t) \in Ends
  \/ \A i \in 1..Len(T) : T[i].type = "primitive" => T[i].end < t

\* A round that has found a token finds it when there is more room.
LEMMA Roomy ==
  ASSUME NEW p, NEW n \in Nat, NEW m \in Nat, p.toknext < n, p.toknext < m,
         p.toknext \in Nat
  PROVE  /\ \A c : Open(p, m, c) = Open(p, n, c)
         /\ \A c : Close(p, m, c) = Close(p, n, c)
         /\ ~Without(n) /\ ~Without(m) /\ ~(p.toknext >= n) /\ ~(p.toknext >= m)
<1>1. ~Without(n) /\ ~Without(m) /\ ~(p.toknext >= n) /\ ~(p.toknext >= m)
  BY DEF Without
<1>2. ASSUME NEW c PROVE Open(p, m, c) = Open(p, n, c)
  <2> DEFINE q == [Allocated(p, c, p.pos, -1)
                     EXCEPT !.toksuper = p.toknext + 1, !.pos = @ + 1]
  <2>1. Open(p, n, c) = q /\ Open(p, m, c) = q
    BY <1>1, Zenon DEF Open
  <2> HIDE DEF q
  <2> QED
    BY <2>1
<1>3. ASSUME NEW c PROVE Close(p, m, c) = Close(p, n, c)
  BY <1>1, Zenon DEF Close
<1> QED
  BY <1>1, <1>2, <1>3

\* A round that goes on goes the same way with more of the text and more room.
LEMMA RoundLonger ==
  ASSUME NEW js \in TextSet, NEW t \in Parts(js), NEW ks \in TextSet,
         NEW u \in Parts(ks), Continues(js, t, ks, u),
         NEW n \in Nat, NEW m \in Nat, n <= m \/ t <= m,
         NEW p \in Within(js, t), p.result = NotCalled,
         NEW q, q = Round(p, t, n, js), q.result = NotCalled,
         ReadOn(ks, t, u, q.tokens)
  PROVE  Round(p, u, m, ks) = q
<1> DEFINE c == Char(js, t, p.pos)
           r == Round(p, u, m, ks)
<1>1. /\ Sound(p) /\ p \in ParserSet /\ p.pos \in Nat /\ p.toknext \in Nat
      /\ t \in Nat /\ u \in Nat /\ p.pos <= t /\ p.toknext <= p.pos
      /\ p.count \in Nat /\ n \in Given /\ m \in Given
      /\ ~Without(n) /\ ~Without(m)
  BY SoundFacts, TextFacts DEF Within, Good, Given, Without
<1>2. \A e : Failed(p, e).result = e
  BY <1>1 DEF Failed, ParserSet
<1>3. \A e : q = Failed(p, e) => e = NotCalled
  BY <1>2
<1>4. \A e \in {NOMEM, PART, INVAL} : q # Failed(p, e)
  BY <1>3, Results
<1>5. c = Char(js, t, p.pos) /\ r = Round(p, u, m, ks)
  OBVIOUS
<1> HIDE DEF c, r
<1>6. /\ Kind(c) \in Kinds
      /\ Kind(c) = "nul" <=> c = "nul"
      /\ Kind(c) = "nul" => q = Failed(p, AtEnd(p))
      /\ Kind(c) = "open" => c \in Types /\ q = Open(p, n, c)
      /\ Kind(c) = "close" => q = Close(p, n, c)
      /\ Kind(c) = "string" => q = jsmn_parse_string(p, t, n, js)
      /\ Kind(c) = "skip" => q = [p EXCEPT !.pos = @ + 1]
      /\ Kind(c) = "primitive" =>
           q = jsmn_parse_primitive(p, t, n, js) /\ c \notin Ends
  BY ONLY <1>5, RoundIs, p.result = NotCalled, q = Round(p, t, n, js)
<1>7. Kind(c) # "nul"
  <2>1. AtEnd(p) # NotCalled
    BY <1>1, Results DEF AtEnd
  <2> QED
    BY <1>3, <1>6, <2>1
<1>8. p.pos < t
  BY <1>1, <1>5, <1>6, <1>7, CharIs
<1>9. c = Char(ks, u, p.pos)
  BY <1>1, <1>5, <1>8, CharLonger
<1>10. /\ Kind(c) = "open" => r = Open(p, m, c)
       /\ Kind(c) = "close" => r = Close(p, m, c)
       /\ Kind(c) = "string" => r = jsmn_parse_string(p, u, m, ks)
       /\ Kind(c) = "skip" => r = [p EXCEPT !.pos = @ + 1]
       /\ Kind(c) = "primitive" => r = jsmn_parse_primitive(p, u, m, ks)
  BY ONLY <1>5, <1>9, RoundIs, p.result = NotCalled
<1>11. p.toknext < n => p.toknext < m
  BY <1>1, <1>8
<1>12. CASE Kind(c) = "open"
  <2>1. q = Open(p, n, c) /\ r = Open(p, m, c) /\ c \in Types
    BY <1>6, <1>10, <1>12
  <2>2. p.toknext < n
    BY <1>1, <1>4, <2>1, OpenIs
  <2> QED
    BY <1>1, <1>5, <1>11, <2>1, <2>2, Roomy
<1>13. CASE Kind(c) = "close"
  <2>1. q = Close(p, n, c) /\ r = Close(p, m, c)
    BY <1>6, <1>10, <1>13
  <2>2. Close(p, m, c) = Close(p, n, c)
    BY <1>1, Zenon DEF Close
  <2> QED
    BY <1>5, <2>1, <2>2
<1>14. CASE Kind(c) = "string"
  <2> DEFINE end == Quote(js, t, p.pos + 1)
  <2>1. /\ q = jsmn_parse_string(p, t, n, js)
        /\ r = jsmn_parse_string(p, u, m, ks)
    BY <1>6, <1>10, <1>14
  <2>2. ~(end < 0) /\ end \in Nat /\ p.toknext < n
    BY <1>1, <1>4, <2>1, StringIs
  <2>3. Quote(ks, u, p.pos + 1) = end
    BY <1>1, <2>2, QuoteLonger
  <2>4. ~(p.toknext >= n) /\ ~(p.toknext >= m)
    BY <1>1, <1>11, <2>2
  <2> HIDE DEF end
  <2> DEFINE x == [Allocated(p, "string", p.pos + 1, end)
                     EXCEPT !.pos = end + 1]
  <2>5. jsmn_parse_string(p, t, n, js) = x
    BY <1>1, <2>2, <2>4, Zenon DEF jsmn_parse_string, end
  <2>6. jsmn_parse_string(p, u, m, ks) = x
    BY <1>1, <2>2, <2>3, <2>4, Zenon DEF jsmn_parse_string
  <2> QED
    BY <1>5, <2>1, <2>5, <2>6
<1>15. CASE Kind(c) = "skip"
  BY <1>5, <1>6, <1>10, <1>15
<1>16. CASE Kind(c) = "primitive"
  <2> DEFINE end == PrimitiveEnd(js, t, p.pos)
             tok == Tok("primitive", p.pos, end)
             bad == Char(js, t, end) = NotASCII
  <2>1. /\ q = jsmn_parse_primitive(p, t, n, js) /\ c \notin Ends
        /\ r = jsmn_parse_primitive(p, u, m, ks)
    BY <1>6, <1>10, <1>16
  <2>2. /\ end \in Nat /\ end <= t
        /\ bad => q = Failed(p, INVAL)
        /\ ~bad /\ p.toknext >= n => q = Failed(p, NOMEM)
        /\ ~bad /\ ~(p.toknext >= n) =>
             tok \in Token /\ Adds(p, q, tok, p.toksuper, end)
    BY <1>1, <1>5, <1>8, <2>1, PrimitiveIs
  <2>3. /\ end = PrimitiveEnd(js, t, p.pos)
        /\ bad <=> Char(js, t, end) = NotASCII
        /\ tok.type = "primitive" /\ tok.end = end
    BY DEF Tok
  <2> HIDE DEF end, bad, tok
  <2>4. ~bad /\ ~(p.toknext >= n) /\ Adds(p, q, tok, p.toksuper, end)
    BY <1>4, <2>2
  <2>5. q.tokens = Append(Grown(p), tok) /\ Len(Grown(p)) = p.toknext
        /\ Grown(p) \in Seq(Token)
    BY <1>1, <2>4, GrownIs DEF Adds
  <2>6. Len(q.tokens) = p.toknext + 1 /\ q.tokens[p.toknext + 1] = tok
    BY <1>1, <2>2, <2>4, <2>5
  <2>7. end < t \/ u = t \/ Char(ks, u, t) \in Ends
    <3>1. p.toknext + 1 \in 1..Len(q.tokens)
      BY <1>1, <2>6
    <3> QED
      BY <2>3, <2>6, <3>1 DEF ReadOn
  <2>8. /\ PrimitiveEnd(ks, u, p.pos) = end
        /\ Char(ks, u, end) = NotASCII <=> bad
    <3>1. p.pos \in 0..t
      BY <1>1
    <3> QED
      BY <2>3, <2>7, <3>1, PrimitiveLonger
  <2>9. ~(p.toknext >= m)
    BY <1>1, <1>11, <2>4
  <2> DEFINE x == [Allocated(p, "primitive", p.pos, end) EXCEPT !.pos = end]
  <2>10. jsmn_parse_primitive(p, t, n, js) = x
    BY <1>1, <2>3, <2>4, Zenon DEF jsmn_parse_primitive
  <2>11. jsmn_parse_primitive(p, u, m, ks) = x
    BY <1>1, <2>4, <2>8, <2>9, Zenon DEF jsmn_parse_primitive
  <2> QED
    BY <1>5, <2>1, <2>10, <2>11
<1> QED
  BY <1>6, <1>7, <1>12, <1>13, <1>14, <1>15, <1>16, Zenon DEF Kinds

\* The tokens S are still there among T: what has an end keeps it.
Kept(S, T) ==
  /\ Len(S) <= Len(T)
  /\ \A i \in 1..Len(S) : /\ T[i].type = S[i].type
                          /\ S[i].end # -1 => T[i].end = S[i].end

\* A step keeps the tokens.
LEMMA StepKeeps ==
  ASSUME NEW p, NEW q, NEW t \in Nat, Sound(p), Steps(p, t, q)
  PROVE  Kept(p.tokens, q.tokens)
<1>1. /\ p.tokens \in Seq(Token) /\ p.toknext = Len(p.tokens)
      /\ p.toknext \in Nat
  BY SoundFacts
<1>2. /\ Grown(p) \in Seq(Token) /\ Len(Grown(p)) = p.toknext
      /\ \A i \in 1..p.toknext : /\ Grown(p)[i].type = p.tokens[i].type
                                 /\ Grown(p)[i].end = p.tokens[i].end
  BY GrownIs
<1>3. CASE q.tokens = p.tokens
  BY <1>1, <1>3 DEF Kept
<1>4. ASSUME NEW tok \in Token, q.tokens = Append(Grown(p), tok)
      PROVE  Kept(p.tokens, q.tokens)
  <2>1. Len(q.tokens) = p.toknext + 1
    BY <1>1, <1>2, <1>4
  <2>2. \A i \in 1..p.toknext : q.tokens[i] = Grown(p)[i]
    BY <1>1, <1>2, <1>4
  <2> QED
    BY <1>1, <1>2, <2>1, <2>2 DEF Kept
<1>5. CASE Closes(p, q)
  <2> DEFINE x == Last(OpenTokens(p))
  <2>1. x \in OpenTokens(p) /\ q.tokens = [p.tokens EXCEPT ![x].end = p.pos + 1]
    BY <1>5 DEF Closes
  <2>2. x \in 1..p.toknext /\ p.tokens[x].end = -1
    BY <2>1 DEF OpenTokens
  <2> HIDE DEF x
  <2>3. Len(q.tokens) = p.toknext
    BY <1>1, <2>1, <2>2
  <2>4. \A i \in 1..p.toknext : i # x => q.tokens[i] = p.tokens[i]
    BY <1>1, <2>1, <2>2
  <2>5. q.tokens[x].type = p.tokens[x].type
    <3>1. p.tokens[x] \in Token
      BY <1>1, <2>2
    <3>2. q.tokens[x] = [p.tokens[x] EXCEPT !.end = p.pos + 1]
      BY <1>1, <2>1, <2>2
    <3> QED
      BY <3>1, <3>2 DEF Token
  <2> QED
    BY <1>1, <2>2, <2>3, <2>4, <2>5 DEF Kept
<1> QED
  BY <1>3, <1>4, <1>5 DEF Steps, Ended, SameCore, Skips, Finds, Opens

\* The tokens of a round are there in the later ones.
LEMMA RoundsKeep ==
  ASSUME NEW js \in TextSet, NEW t \in Parts(js), NEW n \in Given,
         NEW p \in Within(js, t), NEW k \in 0..(Len(js) + 1),
         NEW j \in 0..k
  PROVE  Kept(Rounds(p, t, n, js)[j].tokens, Rounds(p, t, n, js)[k].tokens)
<1> DEFINE P == Rounds(p, t, n, js)
           N == Len(js) + 1
           T == {x \in Nat : j + x <= N => Kept(P[j].tokens, P[j + x].tokens)}
<1>1. N \in Nat /\ Len(js) \in Nat /\ k \in 0..N /\ j \in 0..N /\ t \in Nat
  BY TextFacts
<1>2. /\ \A x \in 0..Len(js) : P[x + 1] = Round(P[x], t, n, js)
      /\ \A x \in 0..N : P[x] \in Within(js, t)
  BY RoundsAre
<1> HIDE DEF P
<1>3. \A x \in 0..N : Sound(P[x]) /\ P[x].pos <= t /\ P[x].tokens \in Seq(Token)
  BY <1>2, SoundFacts DEF Within, Good
<1>4. 0 \in T
  <2>1. P[j].tokens \in Seq(Token) /\ j + 0 = j
    BY <1>1, <1>3
  <2> QED
    BY <2>1 DEF Kept
<1>5. ASSUME NEW x \in T, x < N PROVE x + 1 \in T
  <2>1. CASE j + (x + 1) <= N
    <3>1. /\ j + x \in 0..Len(js) /\ (j + x) + 1 = j + (x + 1) /\ j + x <= N
          /\ j + x \in 0..N /\ j + (x + 1) \in 0..N
      BY <1>1, <1>5, <2>1
    <3>2. P[j + (x + 1)] = Round(P[j + x], t, n, js)
      BY <1>2, <3>1
    <3>3. Kept(P[j + x].tokens, P[j + (x + 1)].tokens)
      <4>1. CASE P[j + x].result # NotCalled
        <5>1. P[j + (x + 1)] = P[j + x]
          BY <3>2, <4>1 DEF Round
        <5> QED
          BY <1>3, <3>1, <5>1 DEF Kept
      <4>2. CASE P[j + x].result = NotCalled
        <5>1. Steps(P[j + x], t, P[j + (x + 1)])
          BY <1>3, <3>1, <3>2, <4>2, RoundSteps
        <5> QED
          BY <1>1, <1>3, <3>1, <5>1, StepKeeps
      <4> QED
        BY <4>1, <4>2
    <3>4. Kept(P[j].tokens, P[j + x].tokens)
      BY <1>5, <3>1
    <3>5. Kept(P[j].tokens, P[j + (x + 1)].tokens)
      <4> DEFINE A == P[j].tokens
                 B == P[j + x].tokens
                 C == P[j + (x + 1)].tokens
      <4>1. Len(A) \in Nat /\ Len(B) \in Nat /\ Len(C) \in Nat
        BY <1>1, <1>3, <3>1
      <4>2. Kept(A, B) /\ Kept(B, C)
        BY <3>3, <3>4
      <4> HIDE DEF A, B, C
      <4>3. Kept(A, C)
        BY <4>1, <4>2 DEF Kept
      <4> QED
        BY <4>3 DEF A, C
    <3> QED
      BY <3>5
  <2> QED
    BY <2>1
<1>6. T \in SUBSET Nat
  OBVIOUS
<1> HIDE DEF T
<1>7. \A x \in 0..N : x \in T
  BY <1>1, <1>4, <1>5, <1>6, InductUpTo
<1>8. k - j \in 0..N /\ j + (k - j) = k /\ k <= N
  BY <1>1
<1>9. k - j \in T
  BY <1>7, <1>8
<1> QED
  BY <1>8, <1>9 DEF T, P

\* What may be read on with T may be with the tokens T was made from.
LEMMA ReadOnKept ==
  ASSUME NEW js, NEW t \in Nat, NEW u, NEW S \in Seq(Token),
         NEW T \in Seq(Token), Kept(S, T), ReadOn(js, t, u, T)
  PROVE  ReadOn(js, t, u, S)
<1>1. ASSUME \A i \in 1..Len(T) : T[i].type = "primitive" => T[i].end < t,
             NEW i \in 1..Len(S), S[i].type = "primitive"
      PROVE  S[i].end < t
  <2>1. i \in 1..Len(T)
    BY DEF Kept
  <2>2. T[i].type = "primitive" /\ (S[i].end # -1 => T[i].end = S[i].end)
    BY <1>1 DEF Kept
  <2>3. T[i].end < t
    BY <1>1, <2>1, <2>2
  <2> QED
    BY <2>2, <2>3
<1> QED
  BY <1>1 DEF ReadOn

\* As far as a call goes on with fewer tokens and less of the text, one with
\* more of them goes the same way.
LEMMA RunLonger ==
  ASSUME NEW js \in TextSet, NEW t \in Parts(js), NEW ks \in TextSet,
         NEW u \in Parts(ks), Continues(js, t, ks, u),
         NEW n \in Nat, NEW m \in Nat, n <= m \/ t <= m,
         NEW p \in Within(js, t), NEW k \in 0..(Len(js) + 1),
         Rounds(p, t, n, js)[k].result = NotCalled,
         ReadOn(ks, t, u, Rounds(p, t, n, js)[k].tokens)
  PROVE  Rounds(p, u, m, ks)[k] = Rounds(p, t, n, js)[k]
<1> DEFINE P == Rounds(p, t, n, js)
           R == Rounds(p, u, m, ks)
           N == Len(js) + 1
           T == {x \in Nat : x <= k => R[x] = P[x]}
<1>1. /\ N \in Nat /\ Len(js) \in Nat /\ k \in 0..N /\ t \in Nat
      /\ n \in Given /\ m \in Given /\ k \in Nat /\ Len(ks) = Len(js)
  BY TextFacts DEF Given, Continues
<1>2. p \in Within(ks, u)
  BY WithinLonger
<1>3. /\ P[0] = p
      /\ \A x \in 0..Len(js) : P[x + 1] = Round(P[x], t, n, js)
      /\ \A x \in 0..N : P[x] \in Within(js, t)
  BY <1>1, RoundsAre
<1>4. /\ R[0] = p
      /\ \A x \in 0..Len(js) : R[x + 1] = Round(R[x], u, m, ks)
  BY <1>1, <1>2, RoundsAre
<1>5. ASSUME NEW x \in 0..k
      PROVE  P[x].result = NotCalled /\ Kept(P[x].tokens, P[k].tokens)
  <2>1. x \in 0..N /\ k \in x..N
    BY <1>1
  <2>2. P[x].result # NotCalled => P[k] = P[x]
    BY <1>1, <2>1, StandsStill
  <2>3. Kept(P[x].tokens, P[k].tokens)
    BY <1>1, RoundsKeep
  <2>4. P[k].result = NotCalled
    OBVIOUS
  <2> HIDE DEF P
  <2> QED
    BY <2>2, <2>3, <2>4
<1>6. ReadOn(ks, t, u, P[k].tokens)
  OBVIOUS
<1> HIDE DEF P, R
<1>7. \A x \in 0..N : P[x].tokens \in Seq(Token)
  BY <1>3, SoundFacts DEF Within, Good
<1>8. 0 \in T
  BY <1>3, <1>4
<1>9. ASSUME NEW x \in T, x < N PROVE x + 1 \in T
  <2>1. CASE x + 1 <= k
    <3>1. /\ x \in 0..Len(js) /\ x + 1 \in 0..k /\ x \in 0..k /\ x <= k
          /\ x \in 0..N /\ x + 1 \in 0..N
      BY <1>1, <1>9, <2>1
    <3>2. R[x] = P[x] /\ R[x + 1] = Round(P[x], u, m, ks)
      BY <1>4, <1>9, <3>1
    <3>3. P[x + 1] = Round(P[x], t, n, js) /\ P[x] \in Within(js, t)
      BY <1>3, <3>1
    <3>4. P[x].result = NotCalled /\ P[x + 1].result = NotCalled
      BY <1>5, <3>1
    <3>5. Kept(P[x + 1].tokens, P[k].tokens)
      BY <1>5, <3>1
    <3>6. ReadOn(ks, t, u, P[x + 1].tokens)
      BY <1>1, <1>6, <1>7, <3>1, <3>5, ReadOnKept
    <3>7. Round(P[x], u, m, ks) = P[x + 1]
      BY <3>3, <3>4, <3>6, RoundLonger
    <3> QED
      BY <3>2, <3>7
  <2> QED
    BY <2>1
<1>10. T \in SUBSET Nat
  OBVIOUS
<1> HIDE DEF T
<1>11. \A x \in 0..N : x \in T
  BY <1>1, <1>8, <1>9, <1>10, InductUpTo
<1>12. R[k] = P[k]
  BY <1>1, <1>11 DEF T
<1> QED
  BY <1>12 DEF P, R

-----------------------------------------------------------------------------
(* What is behind len                                                      *)

\* Two calls differ at most in which error they return.
Alike(p, q) ==
  p = q \/ (SameCore(p, q) /\ {p.result, q.result} \subseteq {INVAL, PART})

\* Where len is looked at, two buffers that agree in front of it are the same.
LEMMA CharOfBoth ==
  ASSUME NEW js \in TextSet, NEW ks \in TextSet, NEW t \in Parts(js),
         t \in Parts(ks), Continues(js, t, ks, t), NEW i \in Nat
  PROVE  Char(ks, t, i) = Char(js, t, i)
<1>1. t \in Nat
  BY PartIs
<1>2. CASE i < t
  BY <1>2, CharLonger
<1>3. CASE i >= t
  <2>1. Char(ks, t, i) = "nul" /\ Char(js, t, i) = "nul"
    BY <1>3, CharIs
  <2> QED
    BY <2>1
<1> QED
  BY <1>1, <1>2, <1>3

\* A string that ends in one of them ends in the other, a round that finds none
\* has an error in both.
LEMMA StringOfBoth ==
  ASSUME NEW js \in TextSet, NEW ks \in TextSet, NEW t \in Parts(js),
         t \in Parts(ks), Continues(js, t, ks, t), NEW n \in Given,
         NEW p, Sound(p)
  PROVE  Alike(jsmn_parse_string(p, t, n, js), jsmn_parse_string(p, t, n, ks))
<1> DEFINE e == Quote(js, t, p.pos + 1)
           f == Quote(ks, t, p.pos + 1)
           q == jsmn_parse_string(p, t, n, js)
           r == jsmn_parse_string(p, t, n, ks)
<1>0. p.pos + 1 \in Nat /\ p \in ParserSet
  BY SoundFacts DEF Sound
<1>1. Continues(ks, t, js, t)
  BY DEF Continues
<1>2. /\ e < 0 => q = Failed(p, e) /\ e \in {PART, INVAL}
      /\ ~(e < 0) => e \in Nat
  BY StringIs
<1>3. /\ f < 0 => r = Failed(p, f) /\ f \in {PART, INVAL}
      /\ ~(f < 0) => f \in Nat
  BY StringIs
<1>4. ASSUME ~(e < 0) \/ ~(f < 0) PROVE e = f
  <2>1. e >= 0 => f = e
    BY <1>0, QuoteLonger
  <2>2. f >= 0 => e = f
    BY <1>0, <1>1, QuoteLonger
  <2> HIDE DEF e, f
  <2>3. (~(e < 0) => e >= 0) /\ (~(f < 0) => f >= 0)
    BY <1>2, <1>3
  <2> QED
    BY <1>4, <2>1, <2>2, <2>3
<1>5. CASE e = f
  <2>1. q = r
    BY <1>5, Zenon DEF jsmn_parse_string
  <2> QED
    BY <2>1 DEF Alike
<1>6. CASE e < 0 /\ f < 0
  <2> HIDE DEF e, f, q, r
  <2>1. /\ SameCore(p, q) /\ q.result = e /\ SameCore(p, r) /\ r.result = f
        /\ e \in {PART, INVAL} /\ f \in {PART, INVAL}
    BY <1>0, <1>2, <1>3, <1>6 DEF Failed, ParserSet, SameCore
  <2>2. SameCore(q, r) /\ {q.result, r.result} \subseteq {INVAL, PART}
    BY <2>1 DEF SameCore
  <2> QED
    BY <2>2 DEF Alike, q, r
<1> QED
  BY <1>4, <1>5, <1>6

\* A round in two such buffers
LEMMA RoundOfBoth ==
  ASSUME NEW js \in TextSet, NEW ks \in TextSet, NEW t \in Parts(js),
         t \in Parts(ks), Continues(js, t, ks, t), NEW n \in Given,
         NEW p \in Within(js, t), p.result = NotCalled
  PROVE  Alike(Round(p, t, n, js), Round(p, t, n, ks))
<1> DEFINE c == Char(js, t, p.pos)
           q == Round(p, t, n, js)
           r == Round(p, t, n, ks)
<1>1. Sound(p) /\ p.pos \in Nat /\ t \in Nat /\ p.pos \in 0..t
  BY PartIs, SoundFacts DEF Within, Good
<1>2. c = Char(js, t, p.pos) /\ q = Round(p, t, n, js)
  OBVIOUS
<1>3. c = Char(ks, t, p.pos) /\ r = Round(p, t, n, ks)
  BY <1>1, CharOfBoth
<1> HIDE DEF c, q, r
<1>4. /\ Kind(c) \in Kinds
      /\ Kind(c) = "nul" => q = Failed(p, AtEnd(p))
      /\ Kind(c) = "open" => q = Open(p, n, c)
      /\ Kind(c) = "close" => q = Close(p, n, c)
      /\ Kind(c) = "string" => q = jsmn_parse_string(p, t, n, js)
      /\ Kind(c) = "skip" => q = [p EXCEPT !.pos = @ + 1]
      /\ Kind(c) = "primitive" => q = jsmn_parse_primitive(p, t, n, js)
  BY ONLY <1>2, RoundIs, p.result = NotCalled
<1>5. /\ Kind(c) = "nul" => r = Failed(p, AtEnd(p))
      /\ Kind(c) = "open" => r = Open(p, n, c)
      /\ Kind(c) = "close" => r = Close(p, n, c)
      /\ Kind(c) = "string" => r = jsmn_parse_string(p, t, n, ks)
      /\ Kind(c) = "skip" => r = [p EXCEPT !.pos = @ + 1]
      /\ Kind(c) = "primitive" => r = jsmn_parse_primitive(p, t, n, ks)
  BY ONLY <1>3, RoundIs, p.result = NotCalled
<1>6. CASE Kind(c) \in {"nul", "open", "close", "skip"}
  <2>1. q = r
    BY <1>4, <1>5, <1>6
  <2> QED
    BY <2>1 DEF Alike, q, r
<1>7. CASE Kind(c) = "string"
  <2>1. /\ q = jsmn_parse_string(p, t, n, js)
        /\ r = jsmn_parse_string(p, t, n, ks)
    BY <1>4, <1>5, <1>7
  <2> QED
    BY <1>1, <2>1, StringOfBoth DEF q, r
<1>8. CASE Kind(c) = "primitive"
  <2> DEFINE end == PrimitiveEnd(js, t, p.pos)
  <2>1. /\ PrimitiveEnd(ks, t, p.pos) = end
        /\ Char(ks, t, end) = NotASCII <=> Char(js, t, end) = NotASCII
    BY <1>1, PrimitiveLonger
  <2>2. jsmn_parse_primitive(p, t, n, js) = jsmn_parse_primitive(p, t, n, ks)
    BY <2>1, Zenon DEF jsmn_parse_primitive
  <2>3. q = r
    BY <1>4, <1>5, <1>8, <2>2
  <2> QED
    BY <2>3 DEF Alike, q, r
<1> QED
  BY <1>4, <1>6, <1>7, <1>8 DEF Kinds

\* All rounds
LEMMA RunOfBoth ==
  ASSUME NEW js \in TextSet, NEW ks \in TextSet, NEW t \in Parts(js),
         t \in Parts(ks), Continues(js, t, ks, t), NEW n \in Given,
         NEW p \in Within(js, t)
  PROVE  Alike(Parsed(p, t, n, js), Parsed(p, t, n, ks))
<1> DEFINE P == Rounds(p, t, n, js)
           R == Rounds(p, t, n, ks)
           N == Len(js) + 1
           T == {k \in Nat : k <= N => Alike(P[k], R[k])}
<1>1. /\ N \in Nat /\ Len(js) \in Nat /\ Len(ks) = Len(js) /\ t <= t
  BY TextFacts DEF Continues
<1>2. p \in Within(ks, t)
  BY WithinLonger
<1>3. /\ P[0] = p
      /\ \A k \in 0..Len(js) : P[k + 1] = Round(P[k], t, n, js)
      /\ \A k \in 0..N : P[k] \in Within(js, t)
  BY RoundsAre
<1>4. /\ R[0] = p
      /\ \A k \in 0..Len(js) : R[k + 1] = Round(R[k], t, n, ks)
  BY <1>1, <1>2, RoundsAre
<1> HIDE DEF P, R
<1>5. 0 \in T
  BY <1>3, <1>4 DEF Alike
<1>6. ASSUME NEW k \in T, k < N PROVE k + 1 \in T
  <2>1. k \in 0..Len(js) /\ k \in 0..N /\ k <= N
    BY <1>1, <1>6
  <2>2. /\ P[k + 1] = Round(P[k], t, n, js) /\ R[k + 1] = Round(R[k], t, n, ks)
        /\ P[k] \in Within(js, t)
    BY <1>3, <1>4, <2>1
  <2>3. Alike(P[k], R[k])
    BY <1>6, <2>1
  <2>4. CASE P[k] = R[k] /\ P[k].result = NotCalled
    <3>1. Alike(Round(P[k], t, n, js), Round(P[k], t, n, ks))
      BY <2>2, <2>4, RoundOfBoth
    <3> QED
      BY <2>2, <2>4, <3>1
  <2>5. CASE P[k].result # NotCalled /\ R[k].result # NotCalled
    <3>1. P[k + 1] = P[k] /\ R[k + 1] = R[k]
      BY <2>2, <2>5 DEF Round
    <3> QED
      BY <2>3, <3>1
  <2>6. \/ P[k] = R[k] /\ P[k].result = NotCalled
        \/ P[k].result # NotCalled /\ R[k].result # NotCalled
    BY <2>3, Results DEF Alike
  <2> QED
    BY <2>4, <2>5, <2>6
<1>7. T \in SUBSET Nat
  OBVIOUS
<1> HIDE DEF T
<1>8. \A k \in 0..N : k \in T
  BY <1>1, <1>5, <1>6, <1>7, InductUpTo
<1>9. Alike(P[N], R[N])
  BY <1>1, <1>8 DEF T
<1> QED
  BY <1>1, <1>9 DEF P, R, Parsed

\* What any other buffer would make of the call
RestIgnored ==
  \A b \in Buffers(text, len) :
    LET p == jsmn_parse(parser, tokens, num, b, len) IN
    /\ parser' = ParserOf(p) /\ tokens' = p.tokens
    /\ result' = p.result \/ {result', p.result} \subseteq {INVAL, PART}

(* A call reads behind len, where it does not look at it, but what stands  *)
(* there decides no more than which error it returns: with any other       *)
(* buffer it would leave the parser and the tokens as they are now, and    *)
(* return the same, or one of JSMN_ERROR_INVAL and JSMN_ERROR_PART for the *)
(* other.                                                                  *)
THEOREM JsmnIgnoresRest ==
  Spec => [][Parse => RestIgnored]_vars
<1>1. Spec => []TypeOK
  BY InitType, NextType, PTL DEF Spec
<1>2. TypeOK /\ [Next]_vars => [Parse => RestIgnored]_vars
  <2> SUFFICES ASSUME TypeOK, Parse, NEW b \in Buffers(text, len)
               PROVE  LET p == jsmn_parse(parser, tokens, num, b, len) IN
                      /\ parser' = ParserOf(p) /\ tokens' = p.tokens
                      /\ \/ result' = p.result
                         \/ {result', p.result} \subseteq {INVAL, PART}
    BY DEF RestIgnored
  <2> DEFINE q == jsmn_parse(parser, tokens, num, buffer, len)
             p == jsmn_parse(parser, tokens, num, b, len)
  <2>1. /\ buffer \in TextSet /\ len \in Parts(buffer) /\ num \in Given
        /\ text \in Texts /\ len \in Cuts(text) /\ len \in Nat
        /\ buffer \in Buffers(text, len)
        /\ Called(parser, tokens) \in Within(buffer, len)
    BY Arrived, NumGiven, PartIs DEF TypeOK
  <2>2. b \in TextSet /\ len \in Parts(b) /\ Continues(buffer, len, b, len)
    BY <2>1, Arrived, Refilled
  <2>3. Alike(q, p)
    BY <2>1, <2>2, RunOfBoth DEF jsmn_parse
  <2>4. parser' = ParserOf(q) /\ tokens' = q.tokens /\ result' = q.result
    BY DEF Parse
  <2> HIDE DEF p, q
  <2>5. /\ parser' = ParserOf(p) /\ tokens' = p.tokens
        /\ result' = p.result \/ {result', p.result} \subseteq {INVAL, PART}
    BY <2>3, <2>4 DEF Alike, SameCore, ParserOf
  <2> QED
    BY <2>5 DEF p
<1> QED
  BY <1>1, <1>2, PTL DEF Spec

-----------------------------------------------------------------------------
(* Many calls are as one.                                                  *)

\* The parser and the tokens are those of a round of one call, of all the
\* tokens there are and all of the text that has arrived.
Reached ==
  \E k \in 0..(Len(buffer) + 1) :
    /\ Rounds(Fresh, len, num, buffer)[k].result = NotCalled
    /\ SameCore(Rounds(Fresh, len, num, buffer)[k], Called(parser, tokens))

\* The inductive invariant
JsmnInv == TypeOK /\ Reached /\ ResumedAsOnce

\* Having the same core is an equivalence.
LEMMA SameCoreIs ==
  ASSUME NEW p, NEW q, SameCore(p, q)
  PROVE  SameCore(q, p) /\ (\A r : SameCore(q, r) => SameCore(p, r))
BY DEF SameCore

\* A call by a fresh parser is its last round.
LEMMA FreshParsed ==
  ASSUME NEW n, NEW js, NEW t
  PROVE  jsmn_parse(jsmn_init, <<>>, n, js, t) =
           Rounds(Fresh, t, n, js)[Len(js) + 1]
BY DEF jsmn_parse, Parsed, Fresh

\* A fresh parser is at round 0 of that call.
LEMMA InitReached == Init => JsmnInv
<1> SUFFICES ASSUME Init PROVE JsmnInv
  OBVIOUS
<1>1. buffer \in TextSet /\ len \in Parts(buffer) /\ num \in Given
  BY Arrived, NumGiven DEF Init
<1>2. Called(parser, tokens) = Fresh
  BY DEF Init, Fresh
<1>3. Fresh \in Within(buffer, len) /\ Fresh.result = NotCalled
  BY <1>1, FreshWithin
<1>4. Rounds(Fresh, len, num, buffer)[0] = Fresh
  BY <1>1, <1>3, RoundsAre
<1>5. 0 \in 0..(Len(buffer) + 1)
  BY <1>1, TextFacts
<1>6. Reached
  <2>1. SameCore(Fresh, Fresh)
    BY DEF SameCore
  <2> QED
    BY <1>2, <1>3, <1>4, <1>5, <2>1 DEF Reached
<1>7. ResumedAsOnce
  BY DEF Init, ResumedAsOnce
<1> QED
  BY <1>6, <1>7, InitType DEF JsmnInv

\* A call comes to the end of it, or to where it had to stop.
LEMMA ParseReached == JsmnInv /\ Parse => Reached' /\ ResumedAsOnce'
<1> SUFFICES ASSUME JsmnInv, Parse PROVE Reached' /\ ResumedAsOnce'
  OBVIOUS
<1> DEFINE c == Called(parser, tokens)
           p == jsmn_parse(parser, tokens, num, buffer, len)
           once == jsmn_parse(jsmn_init, <<>>, num, buffer, len)
           Q == Rounds(Fresh, len, num, buffer)
           N == Len(buffer) + 1
<1>1. /\ buffer \in TextSet /\ len \in Parts(buffer) /\ num \in Given
      /\ c \in Within(buffer, len)
  BY Arrived, NumGiven DEF JsmnInv, TypeOK
<1>2. Fresh \in Within(buffer, len) /\ Fresh.result = NotCalled
  BY <1>1, FreshWithin
<1>3. /\ parser' = ParserOf(p) /\ tokens' = p.tokens /\ result' = p.result
      /\ text' = text /\ len' = len /\ num' = num /\ buffer' = buffer
  BY DEF Parse
<1>4. PICK k \in 0..N : Q[k].result = NotCalled /\ SameCore(Q[k], c)
  BY DEF JsmnInv, Reached
<1>5. c.result = NotCalled
  BY DEF Called
<1>6. once = Q[N] /\ N \in 0..N
  BY <1>1, FreshParsed, TextFacts
<1>7. Same(p, once)
  <2>1. Same(c, Q[k])
    BY <1>4, <1>5, SameCoreIs DEF Same
  <2>2. Same(Parsed(c, len, num, buffer), Parsed(Fresh, len, num, buffer))
    BY <1>1, <1>2, <2>1, Resumes
  <2> QED
    BY <2>2 DEF jsmn_parse, Fresh
<1>8. PICK j \in 0..N : Q[j].result = NotCalled /\ SameCore(Q[j], Q[N])
  BY <1>1, <1>2, <1>6, LastBegun
<1> HIDE DEF c, p, once, Q, N
<1>9. SameCore(p, Called(ParserOf(p), p.tokens))
  BY DEF SameCore, Called, ParserOf
<1>10. SameCore(Q[j], Called(ParserOf(p), p.tokens))
  <2>1. SameCore(Q[N], p)
    BY <1>6, <1>7, SameCoreIs DEF Same
  <2> QED
    BY <1>8, <1>9, <2>1, SameCoreIs
<1>11. Reached'
  BY <1>3, <1>8, <1>10 DEF Reached, Q, N
<1>12. ResumedAsOnce'
  <2>1. /\ p.tokens = once.tokens /\ ParserOf(p) = ParserOf(once)
        /\ p.result = once.result \/ (p.result >= 0 /\ once.result >= 0)
    BY <1>7 DEF Same, SameCore, ParserOf
  <2> QED
    BY <1>3, <2>1 DEF ResumedAsOnce, once
<1> QED
  BY <1>11, <1>12

\* The end may stand behind a text.
LEMMA TerminatedIs ==
  ASSUME NEW t \in Texts, NEW n \in Cuts(t), NEW b \in Buffers(t, n)
  PROVE  /\ Terminated(t) \in TextSet /\ n \in Parts(Terminated(t))
         /\ Continues(b, n, Terminated(t), n)
<1> DEFINE e == [i \in 1..Beyond |-> "nul"]
           js == Terminated(t)
           S == STRING \union {"nul"}
<1>1. t \in Seq(STRING \ {"nul"}) /\ Len(t) \in Nat /\ n \in 0..Len(t)
  BY TextsAssumption DEF Cuts
<1>2. e \in Seq(S) /\ Len(e) = Beyond /\ Beyond \in Nat
  <2>1. Beyond \in Nat /\ "nul" \in S
    BY DEF Beyond
  <2> QED
    BY <2>1
<1>3. t \in Seq(S)
  BY <1>1
<1>4. js = t \o e
  BY DEF Terminated
<1> HIDE DEF e, S, js
<1>5. /\ js \in Seq(S) /\ Len(js) = Len(t) + Beyond
      /\ \A i \in 1..Len(t) : js[i] = t[i]
  <2>1. /\ t \o e \in Seq(S) /\ Len(t \o e) = Len(t) + Len(e)
        /\ \A i \in 1..(Len(t) + Len(e)) :
             (t \o e)[i] = IF i <= Len(t) THEN t[i] ELSE e[i - Len(t)]
    BY <1>2, <1>3, ConcatProperties
  <2>2. \A i \in 1..Len(t) : i \in 1..(Len(t) + Len(e)) /\ i <= Len(t)
    BY <1>1, <1>2
  <2> QED
    BY <1>2, <1>4, <2>1, <2>2
<1>6. \A i \in 1..Len(t) : t[i] # "nul"
  BY <1>1
<1>7. \A i \in 1..n : i \in 1..Len(t) /\ b[i] = t[i]
  BY <1>1, Arrived
<1>8. Len(b) = Len(js) /\ n <= n /\ n \in 0..Len(js)
  BY <1>1, <1>2, <1>5, Arrived
<1> QED
  BY <1>5, <1>6, <1>7, <1>8 DEF TextSet, Parts, Continues, js, S

\* Where the text may be cut no primitive is, of those read so far.
LEMMA CutStays ==
  ASSUME JsmnInv, NEW u \in Cuts(text), u > len, NEW b \in Buffers(text, u),
         NEW k \in 0..(Len(buffer) + 1),
         Rounds(Fresh, len, num, buffer)[k].result = NotCalled
  PROVE  ReadOn(b, len, u, Rounds(Fresh, len, num, buffer)[k].tokens)
<1> DEFINE N == Len(buffer) + 1
           m == Len(text)
           js == Terminated(text)
           Q == Rounds(Fresh, len, num, buffer)
           R == Rounds(Fresh, len, m, js)
           read == jsmn_parse(jsmn_init, <<>>, m, js, len).tokens
<1>1. /\ buffer \in TextSet /\ len \in Parts(buffer) /\ num \in Nat
      /\ num \in Given /\ text \in Texts /\ len \in Cuts(text)
      /\ buffer \in Buffers(text, len) /\ len \in 0..Len(text)
  BY Arrived, NumGiven DEF JsmnInv, TypeOK
<1>2. /\ len \in Nat /\ N \in Nat /\ N \in 0..N /\ k \in 0..N
      /\ Len(buffer) \in Nat /\ Len(text) \in Nat
  BY <1>1, TextFacts, TextsAssumption
<1>3. /\ js \in TextSet /\ len \in Parts(js) /\ Continues(buffer, len, js, len)
      /\ Len(js) + 1 = N
  <2>1. /\ js \in TextSet /\ len \in Parts(js)
        /\ Continues(buffer, len, js, len)
    BY <1>1, TerminatedIs
  <2> QED
    BY <2>1 DEF Continues
<1> HIDE DEF js
<1>4. Fresh \in Within(buffer, len) /\ Fresh \in Within(js, len)
  BY <1>1, <1>3, FreshWithin
<1>5. \/ Char(text, Len(text), len) \in Ends \union {"nul"}
      \/ \A i \in DOMAIN read : read[i].type = "primitive" => read[i].end < len
  BY <1>1 DEF Cuts, js
<1>6. CASE Char(text, Len(text), len) \in Ends \union {"nul"}
  <2>1. /\ u \in 0..Len(text) /\ b \in TextSet /\ u \in Parts(b)
        /\ \A i \in 1..u : b[i] = text[i]
    BY <1>1, Arrived
  <2>2. len < u /\ u \in Nat /\ len < Len(text) /\ len + 1 \in 1..u
    BY <1>2, <2>1
  <2>3. Char(text, Len(text), len) = Char(b, u, len)
    BY <2>1, <2>2 DEF Char
  <2>4. Char(b, u, len) # "nul"
    BY <1>2, <2>1, <2>2, CharIs
  <2>5. Char(b, u, len) \in Ends
    BY <1>6, <2>3, <2>4
  <2> QED
    BY <2>5 DEF ReadOn
<1>7. CASE \A i \in DOMAIN read :
             read[i].type = "primitive" => read[i].end < len
  <2>0. m \in Nat /\ len <= m /\ m \in Given
    BY <1>1, <1>2 DEF Given
  <2> HIDE DEF m
  <2>1. read = R[N].tokens
    BY <1>3, FreshParsed
  <2>2. R[k] = Q[k]
    <3>1. ReadOn(js, len, len, Q[k].tokens)
      BY DEF ReadOn
    <3> QED
      BY <1>1, <1>2, <1>3, <1>4, <2>0, <3>1, RunLonger
  <2>3. /\ R[k].tokens \in Seq(Token) /\ R[N].tokens \in Seq(Token)
        /\ Kept(R[k].tokens, R[N].tokens)
    <3>1. R[k] \in Within(js, len) /\ R[N] \in Within(js, len)
      BY <1>2, <1>3, <1>4, <2>0, RoundsAre
    <3>2. Kept(R[k].tokens, R[N].tokens)
      BY <1>2, <1>3, <1>4, <2>0, RoundsKeep
    <3> QED
      BY <3>1, <3>2, SoundFacts DEF Within, Good
  <2> HIDE DEF read, R, Q
  <2>4. ReadOn(b, len, u, R[N].tokens)
    <3>1. DOMAIN read = 1..Len(read)
      BY <2>1, <2>3
    <3> QED
      BY <1>7, <2>1, <3>1 DEF ReadOn
  <2>5. ReadOn(b, len, u, R[k].tokens)
    BY <1>2, <2>3, <2>4, ReadOnKept
  <2> QED
    BY <2>2, <2>5 DEF Q
<1> QED
  BY <1>5, <1>6, <1>7

\* With more tokens or more text the round is one of the longer call.
LEMMA NextReached == JsmnInv /\ [Next]_vars => JsmnInv'
<1> SUFFICES ASSUME JsmnInv, [Next]_vars PROVE JsmnInv'
  OBVIOUS
<1>1. TypeOK'
  BY NextType DEF JsmnInv
<1>2. /\ buffer \in TextSet /\ len \in Parts(buffer) /\ num \in Nat
      /\ num \in Given /\ num \in 0..MaxTokens
  BY Arrived, NumGiven DEF JsmnInv, TypeOK
<1>3. /\ text \in Texts /\ len \in Cuts(text) /\ buffer \in Buffers(text, len)
      /\ len \in Nat
  BY <1>2, TextFacts DEF JsmnInv, TypeOK
<1>4. Fresh \in Within(buffer, len)
  BY <1>2, FreshWithin
<1>5. PICK k \in 0..(Len(buffer) + 1) :
        /\ Rounds(Fresh, len, num, buffer)[k].result = NotCalled
        /\ SameCore(Rounds(Fresh, len, num, buffer)[k], Called(parser, tokens))
  BY DEF JsmnInv, Reached
<1>6. CASE Parse
  BY <1>1, <1>6, ParseReached DEF JsmnInv
\* the round is there in another buffer, with more of the text or of tokens
<1>7. ASSUME NEW u \in Cuts(text), len <= u, NEW b \in Buffers(text, u),
             NEW m \in Nat, num <= m,
             ReadOn(b, len, u, Rounds(Fresh, len, num, buffer)[k].tokens)
      PROVE  /\ Rounds(Fresh, u, m, b)[k] = Rounds(Fresh, len, num, buffer)[k]
             /\ Len(b) = Len(buffer)
  <2>1. b \in TextSet /\ u \in Parts(b) /\ Continues(buffer, len, b, u)
    BY <1>3, <1>7, Arrived, Refilled
  <2> QED
    BY <1>2, <1>4, <1>5, <1>7, <2>1, RunLonger DEF Continues
<1>8. CASE MoreTokens
  <2> DEFINE m == num'
             b == buffer'
  <2>1. m \in Nat /\ num <= m /\ b \in Buffers(text, len)
    BY <1>2, <1>8, MaxTokensAssumption DEF MoreTokens
  <2>2. /\ text' = text /\ len' = len /\ parser' = parser /\ tokens' = tokens
        /\ result' = NotCalled
    BY <1>8 DEF MoreTokens
  <2> HIDE DEF m, b
  <2>3. ReadOn(b, len, len, Rounds(Fresh, len, num, buffer)[k].tokens)
    BY DEF ReadOn
  <2>4. /\ Rounds(Fresh, len, m, b)[k] = Rounds(Fresh, len, num, buffer)[k]
        /\ Len(b) = Len(buffer)
    BY <1>3, <1>7, <2>1, <2>3
  <2>5. Reached'
    BY <1>5, <2>2, <2>4 DEF Reached, m, b
  <2>6. ResumedAsOnce'
    BY <2>2 DEF ResumedAsOnce
  <2> QED
    BY <1>1, <2>5, <2>6 DEF JsmnInv
<1>9. CASE Arrive
  <2> DEFINE u == len'
             b == buffer'
  <2>1. u \in Cuts(text) /\ u > len /\ b \in Buffers(text, u)
    BY <1>9 DEF Arrive
  <2>2. /\ text' = text /\ num' = num /\ parser' = parser /\ tokens' = tokens
        /\ result' = NotCalled
    BY <1>9 DEF Arrive
  <2> HIDE DEF u, b
  <2>3. ReadOn(b, len, u, Rounds(Fresh, len, num, buffer)[k].tokens)
    BY <1>5, <2>1, CutStays
  <2>4. u \in Nat /\ len <= u /\ num <= num
    BY <1>2, <1>3, <2>1, Arrived
  <2>5. /\ Rounds(Fresh, u, num, b)[k] = Rounds(Fresh, len, num, buffer)[k]
        /\ Len(b) = Len(buffer)
    BY <1>2, <1>7, <2>1, <2>3, <2>4
  <2>6. Reached'
    BY <1>5, <2>2, <2>5 DEF Reached, u, b
  <2>7. ResumedAsOnce'
    BY <2>2 DEF ResumedAsOnce
  <2> QED
    BY <1>1, <2>6, <2>7 DEF JsmnInv
<1>10. CASE UNCHANGED vars
  BY <1>1, <1>10 DEF vars, JsmnInv, Reached, ResumedAsOnce
<1> QED
  BY <1>6, <1>8, <1>9, <1>10 DEF Next

(* However many calls it took, with however many tokens and however the    *)
(* text was cut, the parser, the tokens and the result are those of a      *)
(* single call: for any text and any number of tokens.                     *)
THEOREM JsmnResumedAsOnce == Spec => []ResumedAsOnce
<1>1. JsmnInv => ResumedAsOnce
  BY DEF JsmnInv
<1> QED
  BY <1>1, InitReached, NextReached, PTL DEF Spec

-----------------------------------------------------------------------------
(* A call without tokens                                                   *)

\* What a round without tokens does
LEMMA CountingIs ==
  ASSUME NEW js \in TextSet, NEW t \in Parts(js),
         NEW c \in Within(js, t), c.result = NotCalled, c.toknext = 0,
         NEW x, x = Char(js, t, c.pos), NEW d, d = Round(c, t, -1, js)
  PROVE  /\ Kind(x) = "nul" => d.result = c.count /\ d.toknext = 0
         /\ Kind(x) = "open" => Counts(c, d, c.pos + 1)
         /\ Kind(x) \in {"close", "skip"} => Passes(c, d)
         /\ Kind(x) = "string" =>
              LET end == Quote(js, t, c.pos + 1) IN
              /\ end < 0 => d.result = end /\ d.toknext = 0
                            /\ end \in {PART, INVAL}
              /\ ~(end < 0) => Counts(c, d, end + 1)
         /\ Kind(x) = "primitive" =>
              LET end == PrimitiveEnd(js, t, c.pos)
                  bad == Char(js, t, end) = NotASCII
              IN  /\ bad => d.result = INVAL /\ d.toknext = 0
                  /\ ~bad => Counts(c, d, end)
<1> DEFINE n == -1
<1>1. n \in Given /\ Without(n) /\ d = Round(c, t, n, js)
  BY DEF Given, Without
<1> HIDE DEF n
<1>2. /\ Sound(c) /\ c \in ParserSet /\ c.pos \in Nat /\ t \in Nat
      /\ c.pos <= t
  BY SoundFacts, TextFacts DEF Within, Good
<1>3. \A e : Failed(c, e).result = e /\ Failed(c, e).toknext = 0
  BY <1>2 DEF Failed, ParserSet
<1>4. /\ Kind(x) = "nul" <=> x = "nul"
      /\ Kind(x) = "nul" => d = Failed(c, AtEnd(c))
      /\ Kind(x) = "open" => x \in Types /\ d = Open(c, n, x)
      /\ Kind(x) = "close" => d = Close(c, n, x)
      /\ Kind(x) = "string" => d = jsmn_parse_string(c, t, n, js)
      /\ Kind(x) = "skip" => d = [c EXCEPT !.pos = @ + 1]
      /\ Kind(x) = "primitive" =>
           d = jsmn_parse_primitive(c, t, n, js) /\ x \notin Ends
  BY ONLY <1>1, RoundIs, c.result = NotCalled, x = Char(js, t, c.pos)
<1>5. ASSUME Kind(x) = "nul" PROVE d.result = c.count /\ d.toknext = 0
  <2>1. OpenTokens(c) = {}
    BY DEF OpenTokens
  <2>2. AtEnd(c) = c.count
    BY <2>1 DEF AtEnd
  <2> QED
    BY <1>3, <1>4, <1>5, <2>2
<1>6. ASSUME Kind(x) = "open" PROVE Counts(c, d, c.pos + 1)
  BY <1>1, <1>2, <1>4, <1>6, OpenIs
<1>7. ASSUME Kind(x) = "close" PROVE Passes(c, d)
  BY <1>1, <1>2, <1>4, <1>7, CloseIs
<1>8. ASSUME Kind(x) = "skip" PROVE Passes(c, d)
  BY <1>2, <1>4, <1>8, PassesIs
<1>9. ASSUME Kind(x) = "string"
      PROVE  LET end == Quote(js, t, c.pos + 1) IN
             /\ end < 0 => d.result = end /\ d.toknext = 0
                           /\ end \in {PART, INVAL}
             /\ ~(end < 0) => Counts(c, d, end + 1)
  <2> DEFINE end == Quote(js, t, c.pos + 1)
  <2>1. /\ end < 0 => d = Failed(c, end) /\ end \in {PART, INVAL}
        /\ ~(end < 0) => Counts(c, d, end + 1)
    BY <1>1, <1>2, <1>4, <1>9, StringIs
  <2> HIDE DEF end
  <2>2. /\ end < 0 => d.result = end /\ d.toknext = 0 /\ end \in {PART, INVAL}
        /\ ~(end < 0) => Counts(c, d, end + 1)
    BY <1>3, <2>1
  <2> QED
    BY <2>2 DEF end
<1>10. ASSUME Kind(x) = "primitive"
       PROVE  LET end == PrimitiveEnd(js, t, c.pos)
                  bad == Char(js, t, end) = NotASCII
              IN  /\ bad => d.result = INVAL /\ d.toknext = 0
                  /\ ~bad => Counts(c, d, end)
  <2> DEFINE end == PrimitiveEnd(js, t, c.pos)
             bad == Char(js, t, end) = NotASCII
  <2>1. c.pos < t
    BY <1>2, <1>4, <1>10, CharIs
  <2>2. /\ bad => d = Failed(c, INVAL)
        /\ ~bad => Counts(c, d, end)
    BY <1>1, <1>2, <1>4, <1>10, <2>1, PrimitiveIs
  <2> HIDE DEF end, bad
  <2>3. /\ bad => d.result = INVAL /\ d.toknext = 0
        /\ ~bad => Counts(c, d, end)
    BY <1>3, <2>2
  <2> QED
    BY <2>3 DEF end, bad
<1> QED
  BY <1>5, <1>6, <1>7, <1>8, <1>9, <1>10

\* What has been counted stays counted.
LEMMA CountGrows ==
  ASSUME NEW js \in TextSet, NEW t \in Parts(js),
         NEW c \in Within(js, t), c.result = NotCalled, c.toknext = 0,
         NEW d, d = Round(c, t, -1, js)
  PROVE  /\ d.toknext = 0
         /\ \/ d.result \in {PART, INVAL}
            \/ d.result = c.count
            \/ d.result = NotCalled /\ d.count >= c.count
<1> DEFINE x == Char(js, t, c.pos)
           e == Quote(js, t, c.pos + 1)
           f == PrimitiveEnd(js, t, c.pos)
           bad == Char(js, t, f) = NotASCII
<1>1. /\ Kind(x) = "nul" => d.result = c.count /\ d.toknext = 0
      /\ Kind(x) = "open" => Counts(c, d, c.pos + 1)
      /\ Kind(x) \in {"close", "skip"} => Passes(c, d)
      /\ Kind(x) = "string" =>
           /\ e < 0 => d.result = e /\ d.toknext = 0 /\ e \in {PART, INVAL}
           /\ ~(e < 0) => Counts(c, d, e + 1)
      /\ Kind(x) = "primitive" =>
           /\ bad => d.result = INVAL /\ d.toknext = 0
           /\ ~bad => Counts(c, d, f)
  BY CountingIs
<1>2. Kind(x) \in Kinds
  BY Zenon DEF Kind, Kinds
<1> HIDE DEF x, e, f, bad
<1>3. c.count \in Nat
  BY SoundFacts DEF Within, Good
<1>4. \A y : Counts(c, d, y) =>
        d.toknext = 0 /\ d.result = NotCalled /\ d.count >= c.count
  BY <1>3 DEF Counts
<1>5. Passes(c, d) =>
        d.toknext = 0 /\ d.result = NotCalled /\ d.count >= c.count
  BY <1>3 DEF Passes
<1> QED
  BY <1>1, <1>2, <1>4, <1>5 DEF Kinds

\* A call with n tokens and one without any
Counting(s, c, n) ==
  /\ c.toknext = 0
  /\ \/ /\ s.result = NotCalled /\ c.result = NotCalled
        /\ c.pos = s.pos /\ c.count = s.toknext
     \/ s.result >= 0 /\ c.result = s.toknext
     \/ /\ s.result = NOMEM
        /\ \/ c.result \in {PART, INVAL}
           \/ c.result = NotCalled /\ c.count > n
           \/ c.result > n
     \/ s.result \in {PART, INVAL}

\* A round of both that go on
LEMMA BothCount ==
  ASSUME NEW js \in TextSet, NEW t \in Parts(js), NEW n \in Nat,
         NEW s \in Within(js, t), NEW c \in Within(js, t),
         s.result = NotCalled, c.result = NotCalled, c.toknext = 0,
         c.pos = s.pos, c.count = s.toknext,
         NEW r, r = Round(s, t, n, js), NEW d, d = Round(c, t, -1, js)
  PROVE  Counting(r, d, n)
<1> DEFINE x == Char(js, t, s.pos)
           e == Quote(js, t, s.pos + 1)
           f == PrimitiveEnd(js, t, s.pos)
           bad == Char(js, t, f) = NotASCII
<1>1. /\ Sound(s) /\ s \in ParserSet /\ s.pos \in Nat /\ t \in Nat
      /\ s.pos <= t /\ n \in Given /\ ~Without(n) /\ s.toknext \in Nat
      /\ s.count \in Nat
  BY SoundFacts, TextFacts DEF Within, Good, Given, Without
<1>2. /\ Kind(x) = "nul" => d.result = c.count /\ d.toknext = 0
      /\ Kind(x) = "open" => Counts(c, d, s.pos + 1)
      /\ Kind(x) \in {"close", "skip"} => Passes(c, d)
      /\ Kind(x) = "string" =>
           /\ e < 0 => d.result = e /\ d.toknext = 0 /\ e \in {PART, INVAL}
           /\ ~(e < 0) => Counts(c, d, e + 1)
      /\ Kind(x) = "primitive" =>
           /\ bad => d.result = INVAL /\ d.toknext = 0
           /\ ~bad => Counts(c, d, f)
  BY CountingIs
<1>3. x = Char(js, t, s.pos)
  OBVIOUS
<1> HIDE DEF x
<1>4. /\ Kind(x) \in Kinds
      /\ Kind(x) = "nul" <=> x = "nul"
      /\ Kind(x) = "nul" => r = Failed(s, AtEnd(s))
      /\ Kind(x) = "open" => x \in Types /\ r = Open(s, n, x)
      /\ Kind(x) = "close" => r = Close(s, n, x)
      /\ Kind(x) = "string" => r = jsmn_parse_string(s, t, n, js)
      /\ Kind(x) = "skip" => r = [s EXCEPT !.pos = @ + 1]
      /\ Kind(x) = "primitive" =>
           r = jsmn_parse_primitive(s, t, n, js) /\ x \notin Ends
  BY ONLY <1>3, RoundIs, s.result = NotCalled, r = Round(s, t, n, js)
<1>5. \A y : r = Failed(s, y) => r.result = y /\ r.toknext = s.toknext
  BY <1>1 DEF Failed, ParserSet
\* both have found a token,
<1>6. ASSUME NEW tok, NEW y, NEW z, Adds(s, r, tok, y, z), Counts(c, d, z)
      PROVE  Counting(r, d, n)
  BY <1>6 DEF Adds, Counts, Counting
\* or there is no room for it.
<1>7. ASSUME r = Failed(s, NOMEM), s.toknext >= n, NEW z, Counts(c, d, z)
      PROVE  Counting(r, d, n)
  <2>1. r.result = NOMEM
    BY <1>5, <1>7
  <2>2. d.count > n /\ d.result = NotCalled /\ d.toknext = 0
    BY <1>1, <1>7 DEF Counts
  <2> QED
    BY <2>1, <2>2 DEF Counting
<1>8. CASE Kind(x) = "nul"
  <2>1. r = Failed(s, AtEnd(s)) /\ d.result = c.count /\ d.toknext = 0
    BY <1>2, <1>4, <1>8
  <2>2. AtEnd(s) = PART \/ AtEnd(s) \in Nat
    BY <1>1 DEF AtEnd
  <2>3. r.result = AtEnd(s) /\ r.toknext = s.toknext
    BY <1>5, <2>1
  <2> QED
    BY <2>1, <2>2, <2>3, Results DEF Counting
<1>9. CASE Kind(x) = "open"
  <2>1. x \in Types /\ r = Open(s, n, x) /\ Counts(c, d, s.pos + 1)
    BY <1>2, <1>4, <1>9
  <2>2. /\ s.toknext >= n => r = Failed(s, NOMEM)
        /\ ~(s.toknext >= n) =>
             Adds(s, r, Tok(x, s.pos, -1), s.toknext + 1, s.pos + 1)
    BY <1>1, <2>1, OpenIs
  <2> QED
    BY <1>6, <1>7, <2>1, <2>2
<1>10. CASE Kind(x) = "close"
  <2>1. r = Close(s, n, x) /\ Passes(c, d)
    BY <1>2, <1>4, <1>10
  <2>2. r = Failed(s, INVAL) \/ Shuts(s, r)
    BY <1>1, <2>1, CloseIs
  <2>3. CASE r = Failed(s, INVAL)
    <3>1. r.result = INVAL
      BY <1>5, <2>3
    <3> QED
      BY <2>1, <3>1 DEF Counting, Passes
  <2>4. CASE Shuts(s, r)
    BY <2>1, <2>4 DEF Counting, Passes, Shuts
  <2> QED
    BY <2>2, <2>3, <2>4
<1>11. CASE Kind(x) = "string"
  <2>1. /\ r = jsmn_parse_string(s, t, n, js)
        /\ e < 0 => d.result = e /\ d.toknext = 0 /\ e \in {PART, INVAL}
        /\ ~(e < 0) => Counts(c, d, e + 1)
    BY <1>2, <1>4, <1>11
  <2>2. /\ e < 0 => r = Failed(s, e)
        /\ ~(e < 0) /\ s.toknext >= n => r = Failed(s, NOMEM)
        /\ ~(e < 0) /\ ~(s.toknext >= n) =>
             \E tok : Adds(s, r, tok, s.toksuper, e + 1)
    BY <1>1, <2>1, StringIs
  <2> HIDE DEF e
  <2>3. CASE e < 0
    <3>1. r.result = e /\ e \in {PART, INVAL} /\ d.toknext = 0
      BY <1>5, <2>1, <2>2, <2>3
    <3> QED
      BY <3>1 DEF Counting
  <2> QED
    BY <1>6, <1>7, <2>1, <2>2, <2>3
<1>12. CASE Kind(x) = "skip"
  <2>1. r = [s EXCEPT !.pos = @ + 1] /\ Passes(c, d)
    BY <1>2, <1>4, <1>12
  <2>2. Passes(s, r)
    BY <1>1, <2>1, PassesIs
  <2> QED
    BY <2>1, <2>2 DEF Counting, Passes
<1>13. CASE Kind(x) = "primitive"
  <2>1. /\ r = jsmn_parse_primitive(s, t, n, js) /\ x \notin Ends
        /\ bad => d.result = INVAL /\ d.toknext = 0
        /\ ~bad => Counts(c, d, f)
    BY <1>2, <1>4, <1>13
  <2>2. s.pos < t
    BY <1>1, <1>3, <1>4, <1>13, CharIs
  <2>3. /\ bad => r = Failed(s, INVAL)
        /\ ~bad /\ s.toknext >= n => r = Failed(s, NOMEM)
        /\ ~bad /\ ~(s.toknext >= n) => \E tok : Adds(s, r, tok, s.toksuper, f)
    BY <1>1, <1>3, <2>1, <2>2, PrimitiveIs
  <2> HIDE DEF f, bad
  <2>4. CASE bad
    <3>1. r.result = INVAL /\ d.toknext = 0
      BY <1>5, <2>1, <2>3, <2>4
    <3> QED
      BY <3>1 DEF Counting
  <2> QED
    BY <1>6, <1>7, <2>1, <2>3, <2>4
<1> QED
  BY <1>4, <1>8, <1>9, <1>10, <1>11, <1>12, <1>13 DEF Kinds

\* All rounds of both
LEMMA AllCount ==
  ASSUME NEW js \in TextSet, NEW t \in Parts(js), NEW n \in Nat
  PROVE  Counting(Parsed(Fresh, t, n, js), Parsed(Fresh, t, -1, js), n)
<1> DEFINE S == Rounds(Fresh, t, n, js)
           C == Rounds(Fresh, t, -1, js)
           N == Len(js) + 1
           T == {k \in Nat : k <= N => Counting(S[k], C[k], n)}
<1>1. N \in Nat /\ Len(js) \in Nat /\ n \in Given /\ -1 \in Given
  BY TextFacts DEF Given
<1>2. Fresh \in Within(js, t) /\ Fresh.result = NotCalled
  BY FreshWithin
<1>3. /\ S[0] = Fresh
      /\ \A k \in 0..Len(js) : S[k + 1] = Round(S[k], t, n, js)
      /\ \A k \in 0..N : S[k] \in Within(js, t)
  BY <1>1, <1>2, RoundsAre
<1>4. /\ C[0] = Fresh
      /\ \A k \in 0..Len(js) : C[k + 1] = Round(C[k], t, -1, js)
      /\ \A k \in 0..N : C[k] \in Within(js, t)
  BY <1>1, <1>2, RoundsAre
<1> HIDE DEF S, C
<1>5. \A k \in 0..N : /\ S[k].result \in Int /\ S[k].toknext \in Nat
                      /\ C[k].result \in Int /\ C[k].count \in Nat
  BY <1>3, <1>4, SoundFacts DEF Within, Good
<1>6. 0 \in T
  <2>1. Fresh.toknext = 0 /\ Fresh.count = 0
    BY DEF Fresh, Called, jsmn_init
  <2>2. Counting(S[0], C[0], n)
    BY <1>2, <1>3, <1>4, <2>1 DEF Counting
  <2> QED
    BY <2>2
<1>7. ASSUME NEW k \in T, k < N PROVE k + 1 \in T
  <2>1. k \in 0..Len(js) /\ k \in 0..N /\ k + 1 \in 0..N
    BY <1>1, <1>7
  <2>2. /\ S[k + 1] = Round(S[k], t, n, js) /\ S[k] \in Within(js, t)
        /\ C[k + 1] = Round(C[k], t, -1, js) /\ C[k] \in Within(js, t)
    BY <1>3, <1>4, <2>1
  <2>3. Counting(S[k], C[k], n)
    BY <1>7, <2>1
  <2>4. Counting(S[k + 1], C[k + 1], n)
    <3> DEFINE s == S[k]
               c == C[k]
               r == S[k + 1]
               d == C[k + 1]
    <3>1. /\ r = Round(s, t, n, js) /\ s \in Within(js, t)
          /\ d = Round(c, t, -1, js) /\ c \in Within(js, t)
          /\ s.result \in Int /\ s.toknext \in Nat /\ c.result \in Int
          /\ c.count \in Nat /\ d.count \in Nat /\ d.result \in Int
      BY <1>5, <2>1, <2>2
    <3>2. Counting(s, c, n)
      BY <2>3
    <3> SUFFICES Counting(r, d, n)
      OBVIOUS
    <3> HIDE DEF s, c, r, d
    <3>3. s.result # NotCalled => r = s
      BY <3>1 DEF Round
    <3>4. c.result # NotCalled => d = c
      BY <3>1 DEF Round
    <3>5. c.result = NotCalled =>
            /\ d.toknext = 0
            /\ \/ d.result \in {PART, INVAL}
               \/ d.result = c.count
               \/ d.result = NotCalled /\ d.count >= c.count
      BY <3>1, <3>2, CountGrows DEF Counting
    <3>6. CASE s.result = NotCalled
      <4>1. /\ c.toknext = 0 /\ c.result = NotCalled /\ c.pos = s.pos
            /\ c.count = s.toknext
        BY <3>2, <3>6 DEF Counting, NotCalled, NOMEM, INVAL, PART
      <4> QED
        BY <3>1, <3>6, <4>1, BothCount
    <3>7. CASE s.result >= 0
      <4>1. c.toknext = 0 /\ c.result = s.toknext
        BY <3>2, <3>7 DEF Counting, NotCalled, NOMEM, INVAL, PART
      <4>2. r = s /\ d = c
        BY <3>1, <3>3, <3>4, <3>7, <4>1 DEF NotCalled
      <4> QED
        BY <3>2, <4>2
    <3>8. CASE s.result = NOMEM
      <4>1. r = s
        BY <3>3, <3>8, Results
      <4>2. c.toknext = 0 /\ \/ c.result \in {PART, INVAL}
                             \/ c.result = NotCalled /\ c.count > n
                             \/ c.result > n
        BY <3>2, <3>8 DEF Counting, NotCalled, NOMEM, INVAL, PART
      <4>3. d.toknext = 0 /\ \/ d.result \in {PART, INVAL}
                             \/ d.result = NotCalled /\ d.count > n
                             \/ d.result > n
        <5>1. CASE c.result # NotCalled
          BY <3>4, <4>2, <5>1
        <5>2. CASE c.result = NotCalled
          <6>1. c.count > n
            BY <4>2, <5>2 DEF NotCalled, INVAL, PART
          <6>2. d.count >= c.count => d.count > n
            BY <3>1, <6>1
          <6> QED
            BY <3>5, <5>2, <6>1, <6>2
        <5> QED
          BY <5>1, <5>2
      <4> QED
        BY <3>8, <4>1, <4>3 DEF Counting
    <3>9. CASE s.result \in {PART, INVAL}
      <4>1. r = s
        BY <3>3, <3>9, Results
      <4>2. d.toknext = 0
        BY <3>2, <3>4, <3>5 DEF Counting
      <4> QED
        BY <3>9, <4>1, <4>2 DEF Counting
    <3> QED
      BY <3>2, <3>6, <3>7, <3>8, <3>9 DEF Counting
  <2> QED
    BY <2>4
<1>8. T \in SUBSET Nat
  OBVIOUS
<1> HIDE DEF T
<1>9. \A k \in 0..N : k \in T
  BY <1>1, <1>6, <1>7, <1>8, InductUpTo
<1>10. Counting(S[N], C[N], n)
  BY <1>1, <1>9 DEF T
<1> QED
  BY <1>10 DEF S, C, Parsed

\* What the call without tokens has counted is enough.
LEMMA Suffices == JsmnInv => CountSuffices
<1> SUFFICES ASSUME JsmnInv PROVE CountSuffices
  OBVIOUS
<1> DEFINE once == jsmn_parse(jsmn_init, <<>>, num, buffer, len)
           count == jsmn_parse(jsmn_init, <<>>, -1, buffer, len)
<1>1. /\ buffer \in TextSet /\ len \in Parts(buffer) /\ num \in Nat
      /\ num \in Given /\ result \in Int
  BY Arrived, NumGiven DEF JsmnInv, TypeOK
<1>2. Counting(once, count, num)
  BY <1>1, AllCount DEF jsmn_parse, Fresh
<1>3. once.result \in Int /\ count.result \in Int
      /\ count.result # NotCalled
  <2>1. -1 \in Given /\ Fresh \in Within(buffer, len)
    BY <1>1, FreshWithin DEF Given
  <2>2. /\ once \in Within(buffer, len) /\ count \in Within(buffer, len)
        /\ count.result # NotCalled
    BY <1>1, <2>1, Returns DEF jsmn_parse, Parsed, Fresh
  <2> HIDE DEF once, count
  <2> QED
    BY <2>2, SoundFacts DEF Within, Good
<1>4. result # NotCalled =>
        /\ parser = ParserOf(once)
        /\ result = once.result \/ (result >= 0 /\ once.result >= 0)
  BY DEF JsmnInv, ResumedAsOnce
<1> HIDE DEF once, count
<1>5. ASSUME result >= 0 PROVE parser.toknext = count.result
  <2>1. parser = ParserOf(once) /\ once.result >= 0
    BY <1>1, <1>4, <1>5 DEF NotCalled
  <2>2. count.result = once.toknext
    BY <1>2, <1>3, <2>1 DEF Counting, NotCalled, NOMEM, INVAL, PART
  <2> QED
    BY <2>1, <2>2 DEF ParserOf
<1>6. ASSUME result = NOMEM PROVE count.result < 0 \/ num < count.result
  <2>1. once.result = NOMEM
    BY <1>4, <1>6 DEF NotCalled, NOMEM
  <2>2. count.result \in {PART, INVAL} \/ count.result > num
    BY <1>2, <1>3, <2>1 DEF Counting, NotCalled, NOMEM, INVAL, PART
  <2> QED
    BY <1>1, <1>3, <2>2 DEF INVAL, PART
<1> QED
  BY <1>5, <1>6 DEF CountSuffices, count

(* A text that is parsed took as many tokens as a call without any has     *)
(* counted, and NOMEM is returned to those only who have fewer: for any    *)
(* text and any number of tokens.                                          *)
THEOREM JsmnCountSuffices == Spec => []CountSuffices
BY InitReached, NextReached, Suffices, PTL DEF Spec
=============================================================================
