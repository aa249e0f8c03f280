------------------------- MODULE StatusParser_proofs -------------------------
(***************************************************************************)
(* Proofs about StatusParser, for any tokens that fit into tokenArray:     *)
(* that the schedule fits too, and that of a well-formed reply, however    *)
(* long, the parser makes what the reply says.                             *)
(***************************************************************************)
EXTENDS StatusParser, Recursion

\* A token sequence of tokenArray.
TokensOK ==
  /\ Len(tokens) \in Nat /\ Len(tokens) <= MaxTokens
  /\ \A n \in 1..Len(tokens) : tokens[n] \in Token

-----------------------------------------------------------------------------
(* The inductive invariant.  That the schedule fits is not inductive: what *)
(* bounds it is the number of tokens already paid for it, three for each   *)
(* record, two for the array and one each for the object and the key that  *)
(* a next record already has.                                              *)

Paid ==
  3 * Len(schedule)
    + (IF arrayObjects > 0 \/ Len(schedule) > 0 THEN 2 ELSE 0)
    + (IF arrayObjectSize > 0 THEN 1 ELSE 0)
    + (IF arrayObjectSize > 0 /\ keyFound THEN 1 ELSE 0)

IInv ==
  /\ TokensOK
  /\ TypeOK
  /\ fields \in [Field -> Int]
  /\ arrayObjectSize > 0 => arrayObjects > 0
  /\ keyFound => i >= 1
  /\ Paid <= i

\* What is appended to the schedule is a record.
LEMMA RecordType ==
  ASSUME fields \in [Field -> Int]
  PROVE  /\ \A key, text : text \in Text => WithField(key, text) \in [Field -> Int]
         /\ \A fs \in [Field -> Int] : RecordOf(fs) \in [Field -> Int]
<1>1. ASSUME NEW key, NEW text \in Text
      PROVE  WithField(key, text) \in [Field -> Int]
  <2>1. atoi[text] \in Int
    BY AtoiAssumption
  <2>2. CASE key \in Field
    <3> DEFINE v == IF key = "beaconEnabled"
                      THEN (IF text = "true" THEN 1 ELSE 0) ELSE atoi[text]
    <3>1. v \in Int
      BY <2>1
    <3>2. WithField(key, text) = [fields EXCEPT ![key] = v]
      BY <2>2 DEF WithField
    <3> HIDE DEF v
    <3>3. QED
      BY <3>1, <3>2
  <2>3. CASE key \notin Field
    BY <2>3 DEF WithField
  <2>4. QED
    BY <2>2, <2>3
<1>2. ASSUME NEW fs \in [Field -> Int]
      PROVE  RecordOf(fs) \in [Field -> Int]
  BY DEF RecordOf
<1>3. QED
  BY <1>1, <1>2

\* The inductive invariant holds at the call of parseJSONObject,
LEMMA InitInv == Init => IInv
<1> SUFFICES ASSUME Init
             PROVE  IInv
  OBVIOUS
<1>1. TokensOK
  <2>1. CASE tokens \in Inputs
    BY <2>1, InputsAssumption DEF TokensOK
  <2>2. CASE \E d \in Docs : tokens = DocTokens(d)
    <3>1. PICK d \in Docs : tokens = DocTokens(d)
      BY <2>2
    <3>2. QED
      BY <3>1, DocsAssumption DEF TokensOK
  <2>3. QED
    BY <2>1, <2>2 DEF Init
<1>2. keyFound \in BOOLEAN
  BY DEF Init
<1>3. schedule = <<>> /\ i = 0 /\ arrayObjects = 0 /\ arrayObjectSize = 0
      /\ ~keyFound /\ fields = [f \in Field |-> 0]
  BY DEF Init
<1>4. Len(schedule) = 0 /\ schedule \in Seq([Field -> Int])
  BY <1>3
<1>5. fields \in [Field -> Int]
  BY <1>3
<1>6. TypeOK
  BY <1>1, <1>2, <1>3, <1>4 DEF TypeOK, TokensOK
<1>7. QED
  BY <1>1, <1>3, <1>4, <1>5, <1>6 DEF IInv, Paid

\* The next token is a token.
LEMMA NextTokenOK ==
  ASSUME IInv, NextToken
  PROVE  /\ TokensOK' /\ i' = i + 1 /\ i' \in 0..Len(tokens')
         /\ Len(tokens') <= MaxTokens
         /\ token.size \in Nat /\ token.text \in Text
<1>1. i \in 0..Len(tokens) /\ i < Len(tokens)
  BY DEF IInv, TypeOK, NextToken
<1>2. i + 1 \in 1..Len(tokens)
  BY <1>1 DEF IInv, TokensOK
<1>3. token \in Token
  BY <1>2 DEF IInv, TokensOK, token
<1>4. token.size \in Nat /\ token.text \in Text
  BY <1>3 DEF Token
<1>5. TokensOK'
  BY DEF NextToken, IInv, TokensOK
<1>6. i' \in 0..Len(tokens') /\ Len(tokens') <= MaxTokens
  BY <1>1, <1>2 DEF NextToken, IInv, TokensOK
<1>7. QED
  BY <1>4, <1>5, <1>6 DEF NextToken

\* each token read keeps it,
LEMMA NextInv == IInv /\ [Next]_vars => IInv'
<1> SUFFICES ASSUME IInv, [Next]_vars
             PROVE  IInv'
  OBVIOUS
<1>0. /\ Len(schedule) \in Nat /\ i \in Nat /\ schedule \in Seq([Field -> Int])
      /\ arrayObjects \in Nat /\ arrayObjectSize \in Int /\ keyFound \in BOOLEAN
      /\ fields \in [Field -> Int]
      /\ arrayObjectSize > 0 => arrayObjects > 0
      /\ keyFound => i >= 1
      /\ Paid <= i
  BY DEF IInv, TypeOK, TokensOK
<1>1. CASE ArrayObject
  <2>1. NextToken /\ keyFound' \in BOOLEAN /\ ~keyFound'
    BY <1>1 DEF ArrayObject
  <2>2. arrayObjectSize' \in Int
    BY <1>1, <2>1, NextTokenOK DEF ArrayObject
  <2>3. Paid' <= i'
    BY <1>0, <1>1, <2>1, <2>2, NextTokenOK DEF ArrayObject, Paid
  <2>4. QED
    BY <1>0, <1>1, <2>1, <2>2, <2>3, NextTokenOK DEF ArrayObject, IInv, TypeOK
<1>2. CASE ArrayValue
  <2>1. NextToken /\ keyFound' \in BOOLEAN /\ ~keyFound' /\ keyFound
    BY <1>2 DEF ArrayValue
  <2>2. fields' \in [Field -> Int] /\ RecordOf(fields') \in [Field -> Int]
    <3>1. fields' = WithField(activeKey, token.text)
      BY <1>2 DEF ArrayValue
    <3>2. QED
      BY <1>0, <2>1, <3>1, RecordType, NextTokenOK
  <2>3. CASE arrayObjectSize' = 0
    <3>1. /\ arrayObjectSize = 1 /\ arrayObjects' = arrayObjects - 1
          /\ arrayObjects' \in Nat
          /\ schedule' = Append(schedule, RecordOf(fields'))
      BY <1>0, <1>2, <2>3 DEF ArrayValue
    <3>2. schedule' \in Seq([Field -> Int]) /\ Len(schedule') = Len(schedule) + 1
      BY <1>0, <2>2, <3>1
    <3>3. Paid' <= i'
      BY <1>0, <2>1, <2>3, <3>1, <3>2, NextTokenOK DEF Paid
    <3>4. QED
      BY <1>0, <2>1, <2>2, <2>3, <3>1, <3>2, <3>3, NextTokenOK DEF IInv, TypeOK
  <2>4. CASE arrayObjectSize' # 0
    <3>1. /\ arrayObjectSize' = arrayObjectSize - 1 /\ arrayObjects' = arrayObjects
          /\ schedule' = schedule
      BY <1>2, <2>4 DEF ArrayValue
    <3>2. Paid' <= i'
      BY <1>0, <2>1, <3>1, NextTokenOK DEF Paid
    <3>3. QED
      BY <1>0, <2>1, <2>2, <3>1, <3>2, NextTokenOK DEF IInv, TypeOK
  <2>5. QED
    BY <2>3, <2>4
<1>3. CASE TopValue
  <2>1. /\ NextToken /\ keyFound' \in BOOLEAN /\ ~keyFound' /\ keyFound
        /\ arrayObjects = 0
        /\ UNCHANGED <<arrayObjectSize, fields, schedule>>
    BY <1>3 DEF TopValue
  <2>2. arrayObjects' \in Nat
    BY <1>3, <2>1, NextTokenOK DEF TopValue
  <2>3. Paid' <= i'
    BY <1>0, <2>1, <2>2, NextTokenOK DEF Paid
  <2>4. QED
    BY <1>0, <2>1, <2>2, <2>3, NextTokenOK DEF IInv, TypeOK
<1>4. CASE Key
  <2>1. /\ NextToken /\ keyFound' \in BOOLEAN
        /\ UNCHANGED <<arrayObjects, arrayObjectSize, fields, schedule>>
    BY <1>4 DEF Key
  <2>2. i' >= 1 /\ Paid' <= i'
    BY <1>0, <1>4, <2>1, NextTokenOK DEF Key, Paid
  <2>3. QED
    BY <1>0, <2>1, <2>2, NextTokenOK DEF IInv, TypeOK
<1>5. CASE Skip
  <2>1. /\ NextToken
        /\ UNCHANGED <<keyFound, arrayObjects, arrayObjectSize, fields, schedule>>
    BY <1>5 DEF Skip
  <2>2. Paid' <= i'
    BY <1>0, <2>1, NextTokenOK DEF Paid
  <2>3. QED
    BY <1>0, <2>1, <2>2, NextTokenOK DEF IInv, TypeOK
<1>6. CASE UNCHANGED vars
  BY <1>6 DEF vars, IInv, TokensOK, TypeOK, Paid
<1>7. QED
  BY <1>1, <1>2, <1>3, <1>4, <1>5, <1>6 DEF Next

\* and so it holds throughout.
LEMMA ParserInv == Spec => []IInv
BY InitInv, NextInv, PTL DEF Spec

-----------------------------------------------------------------------------
\* The parser's variables keep their types for every reply.
THEOREM ParserTypeOK == Spec => []TypeOK
<1>1. IInv => TypeOK
  BY DEF IInv
<1>2. QED
  BY ParserInv, <1>1, PTL

\* No reply of at most MaxTokens tokens makes addScheduleRecord write
\* outside schedule.
THEOREM ParserScheduleFits == Spec => []ScheduleFits
<1>1. IInv => ScheduleFits
  <2> SUFFICES ASSUME IInv, Len(schedule) > Capacity
               PROVE  FALSE
    BY CapacityAssumption DEF IInv, TypeOK, ScheduleFits
  <2>1. i <= MaxTokens /\ i \in Nat /\ Len(schedule) \in Nat
    BY CapacityAssumption DEF IInv, TypeOK, TokensOK
  <2>2. 3 * Len(schedule) + 2 <= i
    BY <2>1, CapacityAssumption DEF IInv, TypeOK, Paid
  <2>3. QED
    BY <2>1, <2>2, CapacityAssumption
<1>2. QED
  BY ParserInv, <1>1, PTL

-----------------------------------------------------------------------------
(* Flattened sequences: where each of the sequences begins and ends        *)

\* How many there are in the first k sequences of ss.
Ends(ss) ==
  LET end[k \in 0..Len(ss)] == IF k = 0 THEN 0 ELSE end[k - 1] + Len(ss[k])
  IN  end

\* Each sequence ends its own length behind the one in front of it.
LEMMA EndsStep ==
  ASSUME NEW ss, Len(ss) \in Nat, \A k \in 1..Len(ss) : Len(ss[k]) \in Nat
  PROVE  /\ Ends(ss)[0] = 0
         /\ \A k \in 1..Len(ss) : Ends(ss)[k] = Ends(ss)[k - 1] + Len(ss[k])
         /\ \A k \in 0..Len(ss) : Ends(ss)[k] \in Nat
<1> DEFINE N == Len(ss)
           h == [k \in Nat |->
                   [x \in Nat |-> IF k \in 1..N THEN x + Len(ss[k]) ELSE x]]
           Made(p) == p = [k \in 0..N |-> IF k = 0 THEN 0
                                          ELSE p[k - 1] + Len(ss[k])]
<1>1. h \in [Nat -> [Nat -> Nat]] /\ N \in Nat
  OBVIOUS
<1>2. \A k \in 1..N : \A x \in Nat : h[k][x] = x + Len(ss[k])
  OBVIOUS
<1>3. PICK g : Recursive(g, N, Nat, 0, h)
  <2> DEFINE z == 0
  <2>1. z \in Nat
    OBVIOUS
  <2> HIDE DEF h, N, z
  <2>2. \E g : Recursive(g, N, Nat, z, h)
    BY <1>1, <2>1, RecursionExists
  <2> QED
    BY <2>2 DEF z
<1>4. /\ g \in [0..N -> Nat] /\ g[0] = 0
      /\ \A k \in 1..N : g[k] = g[k - 1] + Len(ss[k])
  <2> HIDE DEF h, N
  <2>1. \A k \in 1..N : k - 1 \in 0..N
    BY <1>1
  <2>2. \A k \in 1..N : g[k - 1] \in Nat
    BY <1>3, <2>1 DEF Recursive
  <2> QED
    BY <1>2, <1>3, <2>2 DEF Recursive
<1>5. Made(g)
  BY <1>4
<1>6. Made(Ends(ss))
  <2>1. Ends(ss) = CHOOSE p : Made(p)
    BY DEF Ends
  <2> HIDE DEF Made
  <2> QED
    BY <1>5, <2>1
<1> DEFINE P == Ends(ss)
<1>7. P[0] = 0 /\ \A k \in 1..N : P[k] = P[k - 1] + Len(ss[k])
  BY <1>6
<1>8. \A k \in 0..N : P[k] \in Nat
  <2> DEFINE T == {k \in Nat : k <= N => P[k] \in Nat}
  <2>1. 0 \in T
    BY <1>7
  <2>2. \A k \in T : k < N => k + 1 \in T
    BY <1>7
  <2>3. T \in SUBSET Nat
    OBVIOUS
  <2> HIDE DEF T, N
  <2>4. \A k \in 0..N : k \in T
    BY <1>1, <2>1, <2>2, <2>3, InductUpTo
  <2> QED
    BY <1>1, <2>4 DEF T
<1> QED
  BY <1>7, <1>8

\* Where the elements of a concatenation are
LEMMA ConcatAt ==
  ASSUME NEW S, NEW x \in Seq(S), NEW y \in Seq(S)
  PROVE  /\ x \o y \in Seq(S) /\ Len(x \o y) = Len(x) + Len(y)
         /\ \A n \in 1..Len(x) : (x \o y)[n] = x[n]
         /\ \A n \in 1..Len(y) : (x \o y)[Len(x) + n] = y[n]
OBVIOUS

\* Nothing in front of a sequence leaves it as it is.
LEMMA EmptyConcat ==
  ASSUME NEW S, NEW y \in Seq(S)
  PROVE  <<>> \o y = y
<1>1. <<>> \in Seq(S) /\ Len(<<>>) = 0
  OBVIOUS
<1>2. /\ <<>> \o y \in Seq(S) /\ Len(<<>> \o y) = Len(y)
      /\ \A n \in 1..Len(y) : (<<>> \o y)[n] = y[n]
  BY <1>1, ConcatAt
<1> QED
  BY <1>2

\* s is made of the first k sequences of ss.
Joins(S, ss, s, k) ==
  /\ s \in Seq(S) /\ Len(s) = Ends(ss)[k]
  /\ \A m \in 1..k :
       /\ Ends(ss)[m - 1] + Len(ss[m]) <= Ends(ss)[k]
       /\ \A j \in 1..Len(ss[m]) : s[Ends(ss)[m - 1] + j] = ss[m][j]

\* The first sequence joins itself,
LEMMA JoinsFirst ==
  ASSUME NEW S, NEW ss \in Seq(Seq(S)), 1 \in 1..Len(ss)
  PROVE  Joins(S, ss, ss[1], 1)
<1>1. ss[1] \in Seq(S) /\ Len(ss[1]) \in Nat
  OBVIOUS
<1>2. \A k \in 1..Len(ss) : Len(ss[k]) \in Nat
  OBVIOUS
<1>3. Ends(ss)[0] = 0 /\ Ends(ss)[1] = Ends(ss)[1 - 1] + Len(ss[1])
  BY <1>2, EndsStep
<1>4. \A m \in 1..1 : m = 1 /\ m - 1 = 0
  OBVIOUS
<1> QED
  BY <1>1, <1>3, <1>4 DEF Joins

\* and appending the next joins one more.
LEMMA JoinsNext ==
  ASSUME NEW S, NEW ss \in Seq(Seq(S)), NEW k \in 1..Len(ss), k + 1 \in 1..Len(ss),
         NEW s, Joins(S, ss, s, k)
  PROVE  Joins(S, ss, s \o ss[k + 1], k + 1)
<1> DEFINE E == Ends(ss)
           l == k + 1
           t == s \o ss[l]
<1>1. \A m \in 1..Len(ss) : ss[m] \in Seq(S) /\ Len(ss[m]) \in Nat
  OBVIOUS
<1>2. k \in 1..Len(ss) /\ l \in 1..Len(ss) /\ l - 1 = k /\ l = k + 1
  OBVIOUS
<1>3. s \in Seq(S) /\ Len(s) = E[k]
  BY DEF Joins
<1>4. \A m \in 1..k :
        /\ E[m - 1] + Len(ss[m]) <= E[k]
        /\ \A j \in 1..Len(ss[m]) : s[E[m - 1] + j] = ss[m][j]
  BY DEF Joins
<1>5. /\ \A m \in 1..Len(ss) : E[m] = E[m - 1] + Len(ss[m])
      /\ \A m \in 1..Len(ss) : E[m - 1] \in Nat /\ E[m] \in Nat
  <2>1. /\ \A m \in 1..Len(ss) : E[m] = E[m - 1] + Len(ss[m])
        /\ \A m \in 0..Len(ss) : E[m] \in Nat
    <3>1. Len(ss) \in Nat /\ \A m \in 1..Len(ss) : Len(ss[m]) \in Nat
      BY <1>1
    <3> QED
      BY ONLY <3>1, EndsStep DEF E
  <2>2. \A m \in 1..Len(ss) : m \in 0..Len(ss) /\ m - 1 \in 0..Len(ss)
    OBVIOUS
  <2> HIDE DEF E
  <2> QED
    BY ONLY <2>1, <2>2
<1> HIDE DEF E, l
<1>6. /\ t \in Seq(S) /\ Len(t) = Len(s) + Len(ss[l])
      /\ \A n \in 1..Len(s) : t[n] = s[n]
      /\ \A n \in 1..Len(ss[l]) : t[Len(s) + n] = ss[l][n]
  <2> DEFINE y == ss[l]
  <2>1. y \in Seq(S)
    BY ONLY <1>1, <1>2
  <2> HIDE DEF y
  <2>2. /\ s \o y \in Seq(S) /\ Len(s \o y) = Len(s) + Len(y)
        /\ \A n \in 1..Len(s) : (s \o y)[n] = s[n]
        /\ \A n \in 1..Len(y) : (s \o y)[Len(s) + n] = y[n]
    <3>1. s \in Seq(S)
      BY <1>3
    <3> QED
      BY ONLY <2>1, <3>1
  <2> QED
    BY ONLY <2>2 DEF t, y
<1> HIDE DEF t
<1>end. E[l] = E[k] + Len(ss[l])
  BY ONLY <1>2, <1>5
<1>7. Len(t) = E[l]
  BY ONLY <1>3, <1>6, <1>end
<1>8. ASSUME NEW m \in 1..l
      PROVE  /\ E[m - 1] + Len(ss[m]) <= E[l]
             /\ \A j \in 1..Len(ss[m]) : t[E[m - 1] + j] = ss[m][j]
  <2>1. CASE m = l
    BY ONLY <1>2, <1>3, <1>6, <1>end, <2>1, <1>5, <1>1
  <2>2. CASE m \in 1..k
    <3>1. /\ E[m - 1] \in Nat /\ Len(ss[m]) \in Nat
          /\ E[k] \in Nat /\ Len(ss[l]) \in Nat
      <4>1. m \in 1..Len(ss)
        BY <1>2, <2>2
      <4> QED
        BY ONLY <1>1, <1>2, <1>5, <4>1
    <3>2. E[m - 1] + Len(ss[m]) <= E[k]
      BY ONLY <1>4, <2>2
    <3>3. E[m - 1] + Len(ss[m]) <= E[l]
      BY ONLY <1>end, <3>1, <3>2
    <3>4. ASSUME NEW j \in 1..Len(ss[m])
          PROVE  t[E[m - 1] + j] = ss[m][j]
      <4>1. E[m - 1] + j \in 1..Len(s)
        <5> DEFINE a == E[m - 1]
                   b == Len(ss[m])
                   c == E[k]
        <5>1. j \in 1..b
          OBVIOUS
        <5>2. a \in Nat /\ b \in Nat /\ c \in Nat /\ a + b <= c /\ Len(s) = c
          BY <1>3, <3>1, <3>2
        <5> HIDE DEF a, b, c
        <5>3. a + j \in 1..c
          BY ONLY <5>1, <5>2
        <5> QED
          BY ONLY <5>2, <5>3 DEF a
      <4>2. s[E[m - 1] + j] = ss[m][j]
        BY ONLY <1>4, <2>2, <3>4
      <4> QED
        BY ONLY <1>6, <4>1, <4>2
    <3> QED
      BY <3>3, <3>4
  <2> QED
    BY <1>2, <2>1, <2>2
<1> QED
  BY <1>6, <1>7, <1>8 DEF Joins, E, l, t

\* FlattenSeq joins all of them.
LEMMA FlattenAt ==
  ASSUME NEW S, NEW ss \in Seq(Seq(S))
  PROVE  Joins(S, ss, FlattenSeq(ss), Len(ss))
<1> DEFINE N == Len(ss)
           D == Seq(S)
           Made(p) == p = [k \in 1..N |-> IF k = 1 THEN ss[k]
                                          ELSE p[k - 1] \o ss[k]]
<1>1. N \in Nat /\ \A k \in 1..N : ss[k] \in D /\ Len(ss[k]) \in Nat
  OBVIOUS
<1>2. Ends(ss)[0] = 0
  BY <1>1, EndsStep
<1>3. CASE N = 0
  <2>1. FlattenSeq(ss) = ss /\ ss = <<>>
    BY <1>3 DEF FlattenSeq
  <2>2. ss \in Seq(S) /\ Len(ss) = 0
    BY <1>3, <2>1
  <2> QED
    BY <1>2, <1>3, <2>1, <2>2 DEF Joins
<1>4. CASE N # 0
  <2> DEFINE h == [k \in Nat |-> [x \in D |-> IF k \in 1..N THEN x \o ss[k] ELSE x]]
  <2>1. h \in [Nat -> [D -> D]]
    <3>1. \A k \in 1..N : \A x \in D : x \o ss[k] \in D
      BY <1>1, ConcatAt
    <3> HIDE DEF D, N
    <3> QED
      BY <3>1
  <2>2. PICK g : Recursive(g, N, D, <<>>, h)
    <3> DEFINE z == <<>>
    <3>1. z \in D
      OBVIOUS
    <3> HIDE DEF h, N, z, D
    <3>2. \E g : Recursive(g, N, D, z, h)
      BY <1>1, <2>1, <3>1, RecursionExists
    <3> QED
      BY <3>2 DEF z
  <2>3. g \in [0..N -> D] /\ g[0] = <<>>
    BY <2>2 DEF Recursive
  <2>4. \A k \in 1..N : g[k] = g[k - 1] \o ss[k]
    <3> SUFFICES ASSUME NEW k \in 1..N PROVE g[k] = g[k - 1] \o ss[k]
      OBVIOUS
    <3>1. k \in Nat /\ k - 1 \in 0..N
      BY <1>1
    <3>2. g[k - 1] \in D
      BY <2>3, <3>1
    <3>3. g[k] = h[k][g[k - 1]]
      BY <2>2 DEF Recursive
    <3> HIDE DEF D
    <3> QED
      BY <3>1, <3>2, <3>3
  <2>first. 1 \in 1..N /\ 1 - 1 = 0
    BY <1>1, <1>4
  <2> DEFINE q == [k \in 1..N |-> g[k]]
  <2>5. Made(q)
    <3>1. g[1] = ss[1]
      <4>1. ss[1] \in Seq(S)
        BY <2>first
      <4>2. g[1] = <<>> \o ss[1]
        <5>1. g[1] = g[1 - 1] \o ss[1]
          BY ONLY <2>4, <2>first
        <5> QED
          BY ONLY <2>3, <2>first, <5>1
      <4> QED
        BY ONLY <4>1, <4>2, EmptyConcat
    <3>2. \A k \in 1..N : k # 1 => k - 1 \in 1..N
      BY <1>1
    <3> HIDE DEF N
    <3> QED
      BY <2>4, <3>1, <3>2
  <2> DEFINE p == CHOOSE x : Made(x)
  <2>6. Made(p)
    <3> HIDE DEF Made, q
    <3> QED
      BY <2>5
  <2>7. FlattenSeq(ss) = p[N]
    BY <1>4 DEF FlattenSeq
  <2> HIDE DEF p
  <2>8. p = [k \in 1..N |-> IF k = 1 THEN ss[k] ELSE p[k - 1] \o ss[k]]
    BY <2>6
  <2>9. /\ p[1] = ss[1]
        /\ \A k \in 1..N : k + 1 \in 1..N => p[k + 1] = p[k] \o ss[k + 1]
    <3> DEFINE body == [k \in 1..N |-> IF k = 1 THEN ss[k] ELSE p[k - 1] \o ss[k]]
    <3>1. \A k \in 1..N : body[k] = IF k = 1 THEN ss[k] ELSE p[k - 1] \o ss[k]
      BY ONLY TRUE
    <3>2. p = body
      BY <2>8
    <3> HIDE DEF body
    <3>3. \A k \in 1..N : p[k] = IF k = 1 THEN ss[k] ELSE p[k - 1] \o ss[k]
      BY ONLY <3>1, <3>2
    <3>4. p[1] = ss[1]
      BY ONLY <2>first, <3>3
    <3>5. ASSUME NEW k \in 1..N, k + 1 \in 1..N
          PROVE  p[k + 1] = p[k] \o ss[k + 1]
      <4> DEFINE l == k + 1
      <4>1. l \in 1..N /\ l # 1 /\ l - 1 = k
        BY <1>1, <3>5
      <4> HIDE DEF l
      <4>2. p[l] = p[k] \o ss[l]
        BY ONLY <3>3, <4>1
      <4> QED
        BY ONLY <4>2 DEF l
    <3> QED
      BY <3>4, <3>5
  <2> DEFINE T == {k \in Nat : k < N => Joins(S, ss, p[k + 1], k + 1)}
  <2>10. 0 \in T
    <3>1. Joins(S, ss, p[1], 1)
      BY <2>first, <2>9, JoinsFirst
    <3> QED
      BY <3>1
  <2>11. ASSUME NEW k \in T, k < N PROVE k + 1 \in T
    <3> SUFFICES ASSUME k + 1 < N PROVE Joins(S, ss, p[k + 1 + 1], k + 1 + 1)
      OBVIOUS
    <3> DEFINE l == k + 1
    <3>1. l \in 1..N /\ l + 1 \in 1..N /\ l + 1 # 1 /\ l + 1 - 1 = l
      BY <1>1
    <3>2. Joins(S, ss, p[l], l)
      BY <2>11
    <3> HIDE DEF l, T
    <3>3. p[l + 1] = p[l] \o ss[l + 1]
      BY ONLY <2>9, <3>1
    <3>4. Joins(S, ss, p[l] \o ss[l + 1], l + 1)
      BY <3>1, <3>2, JoinsNext
    <3>5. Joins(S, ss, p[l + 1], l + 1)
      BY ONLY <3>3, <3>4
    <3> QED
      BY <3>5 DEF l
  <2>12. T \in SUBSET Nat
    OBVIOUS
  <2>13. Joins(S, ss, p[N], N)
    <3> HIDE DEF T
    <3>1. \A k \in 0..N : k \in T
      <4> HIDE DEF N
      <4> QED
        BY <1>1, <2>10, <2>11, <2>12, InductUpTo
    <3>2. N - 1 \in 0..N /\ N - 1 < N /\ N - 1 + 1 = N
      BY <1>1, <1>4
    <3>3. N - 1 \in T
      BY <3>1, <3>2
    <3> HIDE DEF N
    <3> QED
      BY <3>2, <3>3 DEF T
  <2> QED
    BY <2>7, <2>13
<1> QED
  BY <1>1, <1>3, <1>4

\* None ends behind the last.
LEMMA EndsWithin ==
  ASSUME NEW S, NEW ss \in Seq(Seq(S)), NEW n \in 1..Len(ss)
  PROVE  Ends(ss)[n] <= Ends(ss)[Len(ss)]
<1>1. Len(ss) \in Nat /\ \A k \in 1..Len(ss) : Len(ss[k]) \in Nat
  OBVIOUS
<1>2. Ends(ss)[n] = Ends(ss)[n - 1] + Len(ss[n])
  BY <1>1, EndsStep
<1>3. Ends(ss)[n - 1] + Len(ss[n]) <= Ends(ss)[Len(ss)]
  BY FlattenAt DEF Joins
<1> QED
  BY ONLY <1>2, <1>3

-----------------------------------------------------------------------------
(* The tokens of a reply: where each pair, record and entry stands in      *)
(* them. Joined with the sections before, this says of every place of the  *)
(* token array what jsmn has put there.                                    *)

\* The tokens jsmn makes of a well-formed reply
Kind == {"object", "array", "string", "primitive"}
Toks == [type : Kind, size : Nat, text : Text \cup {NoText}]

\* Where the tokens of a record and of an entry begin
Entries(d) == [n \in DOMAIN d |-> EntryTokens(d[n])]
Recs(v)    == [n \in DOMAIN v |-> RecordTokens(v[n])]
Pairs(r)   == [n \in DOMAIN r |-> FieldTokens(r[n])]

\* What stands at place p of a token sequence
KeyAt(s, p, text)   == s[p].type = "string" /\ s[p].text = text
ValueAt(s, p, text) == s[p].type \in {"string", "primitive"} /\ s[p].text = text
SizeAt(s, p, t, n)  == s[p].type = t /\ s[p].size = n

\* The tokens of a record, of an entry and of a document stand behind place p.
RecordAt(s, p, r) ==
  /\ SizeAt(s, p + 1, "object", 2 * Len(r))
  /\ \A f \in 1..Len(r) : /\ KeyAt(s, p + 2 * f, r[f][1])
                          /\ ValueAt(s, p + 2 * f + 1, r[f][2])

ScheduleAt(s, p, v) ==
  /\ SizeAt(s, p + 2, "array", Len(v))
  /\ \A n \in 1..Len(v) : RecordAt(s, p + 2 + Ends(Recs(v))[n - 1], v[n])

EntryAt(s, p, e) ==
  /\ KeyAt(s, p + 1, e.key)
  /\ IF e.key = "currentSchedule" THEN ScheduleAt(s, p, e.val)
                                  ELSE ValueAt(s, p + 2, e.val)

DocAt(s, d) ==
  /\ s[1].type = "object"
  /\ \A n \in 1..Len(d) : EntryAt(s, 1 + Ends(Entries(d))[n - 1], d[n])

\* The tokens of a pair
LEMMA PairTokens ==
  ASSUME NEW f \in Text \X Text
  PROVE  /\ FieldTokens(f) \in Seq(Toks) /\ Len(FieldTokens(f)) = 2
         /\ KeyAt(FieldTokens(f), 1, f[1])
         /\ ValueAt(FieldTokens(f), 2, f[2])
<1> DEFINE t == IF f[2] \in {"true", "false"} THEN "primitive" ELSE "string"
           a == Tok("string", 0, f[1])
           b == Tok(t, 0, f[2])
<1>1. t \in {"string", "primitive"}
  OBVIOUS
<1> HIDE DEF t
<1>2. f[1] \in Text /\ f[2] \in Text
  OBVIOUS
<1>3. a \in Toks /\ a.type = "string" /\ a.text = f[1]
  BY <1>2 DEF Tok, Toks, Kind
<1>4. b \in Toks /\ b.type \in {"string", "primitive"} /\ b.text = f[2]
  BY <1>1, <1>2 DEF Tok, Toks, Kind
<1>5. FieldTokens(f) = <<a, b>>
  BY DEF FieldTokens, t
<1> HIDE DEF a, b
<1>6. /\ <<a, b>> \in Seq(Toks) /\ Len(<<a, b>>) = 2
      /\ <<a, b>>[1] = a /\ <<a, b>>[2] = b
  BY ONLY <1>3, <1>4
<1> QED
  BY ONLY <1>3, <1>4, <1>5, <1>6 DEF KeyAt, ValueAt

\* The pairs of a record stand one behind the other.
LEMMA PairsAt ==
  ASSUME NEW r \in Seq(Text \X Text)
  PROVE  /\ FlatMap(FieldTokens, r) \in Seq(Toks)
         /\ Len(FlatMap(FieldTokens, r)) = 2 * Len(r)
         /\ \A f \in 1..Len(r) :
              /\ KeyAt(FlatMap(FieldTokens, r), 2 * f - 1, r[f][1])
              /\ ValueAt(FlatMap(FieldTokens, r), 2 * f, r[f][2])
<1> DEFINE N == Len(r)
           ss == Pairs(r)
           s == FlattenSeq(ss)
<1>1. N \in Nat /\ DOMAIN r = 1..N /\ \A n \in 1..N : r[n] \in Text \X Text
  OBVIOUS
<1>2. FlatMap(FieldTokens, r) = s
  BY DEF FlatMap, Pairs
<1>3. /\ \A n \in 1..N : FieldTokens(r[n]) \in Seq(Toks)
      /\ \A n \in 1..N : ss[n] = FieldTokens(r[n]) /\ Len(ss[n]) = 2
  BY <1>1, PairTokens DEF Pairs
<1>4. ss \in Seq(Seq(Toks)) /\ Len(ss) = N
  BY <1>1, <1>3 DEF Pairs
<1> HIDE DEF ss, N, s
<1>5. \A k \in 0..N : Ends(ss)[k] = 2 * k
  <2>1. /\ Ends(ss)[0] = 0
        /\ \A k \in 1..N : Ends(ss)[k] = Ends(ss)[k - 1] + Len(ss[k])
    <3>1. Len(ss) \in Nat /\ \A k \in 1..Len(ss) : Len(ss[k]) \in Nat
      BY <1>1, <1>3, <1>4
    <3> QED
      BY ONLY <1>4, <3>1, EndsStep
  <2> DEFINE T == {k \in Nat : k <= N => Ends(ss)[k] = 2 * k}
  <2>2. 0 \in T
    BY <2>1
  <2>3. \A k \in T : k < N => k + 1 \in T
    <3> SUFFICES ASSUME NEW k \in T, k < N PROVE Ends(ss)[k + 1] = 2 * (k + 1)
      BY <1>1
    <3> DEFINE l == k + 1
    <3>1. k \in Nat /\ l \in 1..N /\ l - 1 = k /\ Ends(ss)[k] = 2 * k
      BY <1>1
    <3>2. l = k + 1
      OBVIOUS
    <3> HIDE DEF l
    <3>3. Ends(ss)[l] = 2 * l
      <4>1. Len(ss[l]) = 2
        BY ONLY <1>3, <3>1
      <4>2. Ends(ss)[l] = Ends(ss)[k] + Len(ss[l])
        BY ONLY <2>1, <3>1
      <4> QED
        BY ONLY <3>1, <3>2, <4>1, <4>2
    <3> QED
      BY ONLY <3>3 DEF l
  <2>4. T \in SUBSET Nat
    OBVIOUS
  <2> HIDE DEF T
  <2>5. \A k \in 0..N : k \in T
    BY <1>1, <2>2, <2>3, <2>4, InductUpTo
  <2> QED
    BY <1>1, <2>5 DEF T
<1>6. Joins(Toks, ss, s, N)
  <2>1. Joins(Toks, ss, FlattenSeq(ss), Len(ss))
    BY ONLY <1>4, FlattenAt
  <2> QED
    BY ONLY <1>4, <2>1 DEF s
<1>7. s \in Seq(Toks) /\ Len(s) = 2 * N
  BY <1>1, <1>5, <1>6 DEF Joins
<1>8. ASSUME NEW f \in 1..N
      PROVE  s[2 * f - 1] = ss[f][1] /\ s[2 * f] = ss[f][2]
  <2>1. f - 1 \in 0..N /\ 2 * (f - 1) + 1 = 2 * f - 1 /\ 2 * (f - 1) + 2 = 2 * f
    BY <1>1
  <2>2. Ends(ss)[f - 1] = 2 * (f - 1)
    BY ONLY <1>5, <2>1
  <2>3. \A j \in 1..Len(ss[f]) : s[Ends(ss)[f - 1] + j] = ss[f][j]
    BY <1>6 DEF Joins
  <2>4. 1 \in 1..Len(ss[f]) /\ 2 \in 1..Len(ss[f])
    <3>1. Len(ss[f]) = 2
      BY ONLY <1>3, <1>8
    <3> QED
      BY ONLY <3>1
  <2>5. s[2 * (f - 1) + 1] = ss[f][1] /\ s[2 * (f - 1) + 2] = ss[f][2]
    BY ONLY <2>2, <2>3, <2>4
  <2> QED
    BY ONLY <2>1, <2>5
<1>9. ASSUME NEW f \in 1..N
      PROVE  KeyAt(s, 2 * f - 1, r[f][1]) /\ ValueAt(s, 2 * f, r[f][2])
  <2>1. KeyAt(ss[f], 1, r[f][1]) /\ ValueAt(ss[f], 2, r[f][2])
    BY <1>1, <1>3, PairTokens
  <2> QED
    BY <1>8, <2>1 DEF KeyAt, ValueAt
<1> QED
  BY ONLY <1>2, <1>7, <1>9 DEF N

\* A token in front of tokens
LEMMA InFront ==
  ASSUME NEW a \in Toks, NEW s \in Seq(Toks)
  PROVE  /\ <<a>> \o s \in Seq(Toks) /\ Len(<<a>> \o s) = 1 + Len(s)
         /\ (<<a>> \o s)[1] = a
         /\ \A n \in 1..Len(s) : (<<a>> \o s)[1 + n] = s[n]
<1> DEFINE x == <<a>>
<1>1. x \in Seq(Toks) /\ Len(x) = 1 /\ x[1] = a
  OBVIOUS
<1> HIDE DEF x
<1>2. /\ x \o s \in Seq(Toks) /\ Len(x \o s) = Len(x) + Len(s)
      /\ \A n \in 1..Len(x) : (x \o s)[n] = x[n]
      /\ \A n \in 1..Len(s) : (x \o s)[Len(x) + n] = s[n]
  <2>1. x \in Seq(Toks)
    BY ONLY <1>1
  <2> QED
    BY ONLY <2>1
<1> QED
  BY <1>1, <1>2 DEF x

\* The tokens of a record
LEMMA RecordTokensAt ==
  ASSUME NEW r \in Seq(Text \X Text)
  PROVE  /\ RecordTokens(r) \in Seq(Toks) /\ Len(RecordTokens(r)) = 1 + 2 * Len(r)
         /\ RecordAt(RecordTokens(r), 0, r)
<1> DEFINE N == Len(r)
           a == Tok("object", 2 * N, NoText)
           s == FlatMap(FieldTokens, r)
           t == <<a>> \o s
<1>1. N \in Nat
  OBVIOUS
<1>2. RecordTokens(r) = t
  BY DEF RecordTokens
<1>3. a \in Toks /\ a.type = "object" /\ a.size = 2 * N
  BY <1>1 DEF Tok, Toks, Kind
<1>4. /\ s \in Seq(Toks) /\ Len(s) = 2 * N
      /\ \A f \in 1..N : KeyAt(s, 2 * f - 1, r[f][1]) /\ ValueAt(s, 2 * f, r[f][2])
  BY PairsAt
<1> HIDE DEF a, s
<1>5. /\ t \in Seq(Toks) /\ Len(t) = 1 + Len(s) /\ t[1] = a
      /\ \A n \in 1..Len(s) : t[1 + n] = s[n]
  <2>1. s \in Seq(Toks)
    BY <1>4
  <2>2. a \in Toks
    BY <1>3
  <2> QED
    BY ONLY <2>1, <2>2, InFront DEF t
<1> HIDE DEF t
<1>6. ASSUME NEW f \in 1..N
      PROVE  KeyAt(t, 0 + 2 * f, r[f][1]) /\ ValueAt(t, 0 + 2 * f + 1, r[f][2])
  <2>1. /\ 2 * f - 1 \in 1..Len(s) /\ 2 * f \in 1..Len(s)
        /\ 1 + (2 * f - 1) = 0 + 2 * f /\ 1 + 2 * f = 0 + 2 * f + 1
    BY <1>1, <1>4
  <2>2. t[0 + 2 * f] = s[2 * f - 1] /\ t[0 + 2 * f + 1] = s[2 * f]
    <3>1. t[1 + (2 * f - 1)] = s[2 * f - 1] /\ t[1 + 2 * f] = s[2 * f]
      BY ONLY <1>5, <2>1
    <3> QED
      BY ONLY <2>1, <3>1
  <2> QED
    BY <1>4, <2>2 DEF KeyAt, ValueAt
<1>7. SizeAt(t, 0 + 1, "object", 2 * N)
  BY <1>3, <1>5 DEF SizeAt
<1> QED
  BY <1>1, <1>2, <1>4, <1>5, <1>6, <1>7 DEF RecordAt, N

\* What stands in a part of a sequence stands in the sequence.
LEMMA RecordWithin ==
  ASSUME NEW s, NEW u, NEW p \in Nat, NEW q \in Nat, NEW r,
         Len(r) \in Nat, Len(u) \in Nat, q + 1 + 2 * Len(r) <= Len(u),
         RecordAt(u, q, r), \A j \in 1..Len(u) : s[p + j] = u[j]
  PROVE  RecordAt(s, p + q, r)
<1>1. \A j \in 1..(1 + 2 * Len(r)) : s[p + q + j] = u[q + j]
  <2> SUFFICES ASSUME NEW j \in 1..(1 + 2 * Len(r)) PROVE s[p + q + j] = u[q + j]
    OBVIOUS
  <2>1. q + j \in 1..Len(u) /\ p + (q + j) = p + q + j
    OBVIOUS
  <2>2. s[p + (q + j)] = u[q + j]
    BY <2>1
  <2> QED
    BY ONLY <2>1, <2>2
<1>2. SizeAt(s, p + q + 1, "object", 2 * Len(r))
  <2>1. s[p + q + 1] = u[q + 1]
    BY <1>1
  <2>2. SizeAt(u, q + 1, "object", 2 * Len(r))
    BY DEF RecordAt
  <2> QED
    BY ONLY <2>1, <2>2 DEF SizeAt
<1>3. ASSUME NEW f \in 1..Len(r)
      PROVE  /\ KeyAt(s, p + q + 2 * f, r[f][1])
             /\ ValueAt(s, p + q + 2 * f + 1, r[f][2])
  <2>1. 2 * f \in 1..(1 + 2 * Len(r)) /\ 2 * f + 1 \in 1..(1 + 2 * Len(r))
    OBVIOUS
  <2>2. s[p + q + 2 * f] = u[q + 2 * f]
    BY <1>1, <2>1
  <2>3. s[p + q + 2 * f + 1] = u[q + 2 * f + 1]
    <3>1. s[p + q + (2 * f + 1)] = u[q + (2 * f + 1)]
      BY ONLY <1>1, <2>1
    <3>2. p + q + (2 * f + 1) = p + q + 2 * f + 1 /\ q + (2 * f + 1) = q + 2 * f + 1
      OBVIOUS
    <3> QED
      BY ONLY <3>1, <3>2
  <2>4. KeyAt(u, q + 2 * f, r[f][1]) /\ ValueAt(u, q + 2 * f + 1, r[f][2])
    BY DEF RecordAt
  <2> QED
    BY ONLY <2>2, <2>3, <2>4 DEF KeyAt, ValueAt
<1> QED
  BY ONLY <1>2, <1>3 DEF RecordAt

\* The records of a schedule, and where they end
LEMMA RecsEnds ==
  ASSUME NEW v \in Seq(Seq(Text \X Text))
  PROVE  /\ Recs(v) \in Seq(Seq(Toks)) /\ Len(Recs(v)) = Len(v)
         /\ \A n \in 1..Len(v) : /\ Recs(v)[n] = RecordTokens(v[n])
                                 /\ Len(Recs(v)[n]) = 1 + 2 * Len(v[n])
         /\ Ends(Recs(v))[0] = 0
         /\ \A n \in 1..Len(v) :
              Ends(Recs(v))[n] = Ends(Recs(v))[n - 1] + 1 + 2 * Len(v[n])
         /\ \A n \in 0..Len(v) : Ends(Recs(v))[n] \in Nat
         /\ \A n \in 1..Len(v) : Ends(Recs(v))[n] <= Ends(Recs(v))[Len(v)]
<1> DEFINE N == Len(v)
           ss == Recs(v)
<1>1. N \in Nat /\ DOMAIN v = 1..N /\ \A n \in 1..N : v[n] \in Seq(Text \X Text)
  OBVIOUS
<1>2. \A n \in 1..N : /\ RecordTokens(v[n]) \in Seq(Toks)
                      /\ Len(RecordTokens(v[n])) = 1 + 2 * Len(v[n])
  BY ONLY <1>1, RecordTokensAt
<1>3. /\ \A n \in 1..N : ss[n] = RecordTokens(v[n])
      /\ ss \in Seq(Seq(Toks)) /\ Len(ss) = N
  BY <1>1, <1>2 DEF Recs
<1> HIDE DEF N, ss
<1>4. \A n \in 1..N : Len(ss[n]) = 1 + 2 * Len(v[n]) /\ Len(v[n]) \in Nat
  <2>1. \A n \in 1..N : Len(ss[n]) = 1 + 2 * Len(v[n])
    BY ONLY <1>2, <1>3
  <2>2. \A n \in 1..N : Len(v[n]) \in Nat
    BY ONLY <1>1
  <2> QED
    BY ONLY <2>1, <2>2
<1>5. Len(ss) \in Nat /\ \A n \in 1..Len(ss) : Len(ss[n]) \in Nat
  BY <1>1, <1>3, <1>4
<1>6. /\ Ends(ss)[0] = 0
      /\ \A n \in 1..Len(ss) : Ends(ss)[n] = Ends(ss)[n - 1] + Len(ss[n])
      /\ \A n \in 0..Len(ss) : Ends(ss)[n] \in Nat
  BY ONLY <1>5, EndsStep
<1>7. ASSUME NEW n \in 1..N
      PROVE  Ends(ss)[n] = Ends(ss)[n - 1] + 1 + 2 * Len(v[n])
  <2>1. n - 1 \in 0..N
    BY <1>1
  <2>2. Ends(ss)[n] = Ends(ss)[n - 1] + Len(ss[n]) /\ Ends(ss)[n - 1] \in Nat
    BY ONLY <1>3, <1>6, <1>7, <2>1
  <2>3. Len(ss[n]) = 1 + 2 * Len(v[n]) /\ Len(v[n]) \in Nat
    BY ONLY <1>4, <1>7
  <2> QED
    BY ONLY <2>2, <2>3
<1>8. \A n \in 1..Len(ss) : Ends(ss)[n] <= Ends(ss)[Len(ss)]
  <2>1. ss \in Seq(Seq(Toks))
    BY ONLY <1>3
  <2> QED
    BY ONLY <2>1, EndsWithin
<1> QED
  BY ONLY <1>3, <1>4, <1>6, <1>7, <1>8 DEF N, ss

\* The length of an entry's tokens
Length(e) == 2 + (IF e.key = "currentSchedule" THEN Ends(Recs(e.val))[Len(e.val)]
                                               ELSE 0)

\* The tokens of the schedule
LEMMA ScheduleTokensAt ==
  ASSUME NEW e, IsEntry(e), e.key = "currentSchedule"
  PROVE  /\ EntryTokens(e) \in Seq(Toks) /\ Len(EntryTokens(e)) = Length(e)
         /\ EntryAt(EntryTokens(e), 0, e)
<1> DEFINE v == e.val
           N == Len(v)
           a == Tok("string", 0, e.key)
           b == Tok("array", N, NoText)
           s == FlatMap(RecordTokens, v)
           u == <<a, b>>
           t == u \o s
           E == Ends(Recs(v))
<1>1. v \in Seq(Seq(Text \X Text)) /\ e.key \in Text /\ N \in Nat
  BY DEF IsEntry
<1>2. EntryTokens(e) = t
  BY DEF EntryTokens
<1>3. /\ a \in Toks /\ a.type = "string" /\ a.text = e.key
      /\ b \in Toks /\ b.type = "array" /\ b.size = N
  BY <1>1 DEF Tok, Toks, Kind
<1>4. s = FlattenSeq(Recs(v))
  BY DEF FlatMap, Recs
<1>5. \A n \in 1..N : v[n] \in Seq(Text \X Text)
  BY <1>1
<1> HIDE DEF a, b, s, v, N
<1>6. /\ Recs(v) \in Seq(Seq(Toks)) /\ Len(Recs(v)) = N
      /\ \A n \in 1..N : /\ Recs(v)[n] = RecordTokens(v[n])
                         /\ Len(Recs(v)[n]) = 1 + 2 * Len(v[n])
      /\ \A n \in 0..N : E[n] \in Nat
  BY ONLY <1>1, RecsEnds DEF N
<1>7. Joins(Toks, Recs(v), s, N)
  <2>1. Recs(v) \in Seq(Seq(Toks))
    BY ONLY <1>6
  <2>2. Joins(Toks, Recs(v), FlattenSeq(Recs(v)), Len(Recs(v)))
    BY ONLY <2>1, FlattenAt
  <2> QED
    BY ONLY <1>4, <1>6, <2>2
<1>8. s \in Seq(Toks) /\ Len(s) = E[N]
  BY <1>7 DEF Joins
<1>9. u \in Seq(Toks) /\ Len(u) = 2 /\ u[1] = a /\ u[2] = b
  BY ONLY <1>3
<1> HIDE DEF u
<1>10. /\ t \in Seq(Toks) /\ Len(t) = 2 + Len(s) /\ t[1] = a /\ t[2] = b
       /\ \A n \in 1..Len(s) : t[2 + n] = s[n]
  <2>1. u \in Seq(Toks) /\ s \in Seq(Toks)
    BY ONLY <1>8, <1>9
  <2>2. /\ t \in Seq(Toks) /\ Len(t) = Len(u) + Len(s)
        /\ \A n \in 1..Len(u) : t[n] = u[n]
        /\ \A n \in 1..Len(s) : t[Len(u) + n] = s[n]
    BY ONLY <2>1 DEF t
  <2> HIDE DEF t
  <2>3. 1 \in 1..Len(u) /\ 2 \in 1..Len(u)
    BY ONLY <1>9
  <2> QED
    BY ONLY <1>9, <2>2, <2>3
<1> HIDE DEF t
<1>11. KeyAt(t, 0 + 1, e.key) /\ SizeAt(t, 0 + 2, "array", N)
  <2>1. t[0 + 1] = a /\ t[0 + 2] = b
    BY ONLY <1>10
  <2> QED
    BY ONLY <1>3, <2>1 DEF KeyAt, SizeAt
<1>12. ASSUME NEW n \in 1..N
       PROVE  RecordAt(t, 0 + 2 + E[n - 1], v[n])
  <2> DEFINE w == RecordTokens(v[n])
             p == 2 + E[n - 1]
  <2>1. /\ w \in Seq(Toks) /\ Len(w) = 1 + 2 * Len(v[n]) /\ RecordAt(w, 0, v[n])
        /\ Len(v[n]) \in Nat
    <3>1. v[n] \in Seq(Text \X Text)
      BY ONLY <1>5, <1>12
    <3>2. Len(v[n]) \in Nat
      BY ONLY <3>1
    <3> QED
      BY ONLY <3>1, <3>2, RecordTokensAt
  <2>2. E[n - 1] \in Nat /\ E[N] \in Nat
    <3>1. n - 1 \in 0..N /\ N \in 0..N
      BY <1>1
    <3> QED
      BY ONLY <1>6, <3>1
  <2>3. Recs(v)[n] = w
    BY ONLY <1>6, <1>12
  <2> HIDE DEF w
  <2>4. /\ E[n - 1] + Len(w) <= E[N]
        /\ \A j \in 1..Len(w) : s[E[n - 1] + j] = w[j]
    <3>1. /\ E[n - 1] + Len(Recs(v)[n]) <= E[N]
          /\ \A j \in 1..Len(Recs(v)[n]) : s[E[n - 1] + j] = Recs(v)[n][j]
      BY <1>7, <1>12 DEF Joins
    <3> QED
      BY ONLY <2>3, <3>1
  <2>5. ASSUME NEW j \in 1..Len(w) PROVE t[p + j] = w[j]
    <3> HIDE DEF E
    <3>1. E[n - 1] + j \in 1..Len(s) /\ 2 + (E[n - 1] + j) = p + j
      <4> DEFINE x == E[n - 1]
                 y == E[N]
                 z == Len(w)
      <4>1. x \in Nat /\ y \in Nat /\ z \in Nat /\ x + z <= y /\ Len(s) = y
        BY <1>8, <2>1, <2>2, <2>4
      <4>2. j \in 1..z
        OBVIOUS
      <4> HIDE DEF x, y, z
      <4>3. x + j \in 1..y /\ 2 + (x + j) = 2 + x + j
        BY ONLY <4>1, <4>2
      <4> QED
        BY ONLY <4>1, <4>3 DEF x, p
    <3>2. t[2 + (E[n - 1] + j)] = s[E[n - 1] + j]
      BY ONLY <1>10, <3>1
    <3>3. s[E[n - 1] + j] = w[j]
      BY ONLY <2>4, <2>5
    <3> QED
      BY ONLY <3>1, <3>2, <3>3
  <2>6. p \in Nat /\ 0 \in Nat /\ 0 + 1 + 2 * Len(v[n]) <= Len(w) /\ Len(w) \in Nat
    BY <2>1, <2>2
  <2>7. p + 0 = 0 + 2 + E[n - 1]
    BY <2>2
  <2> HIDE DEF p
  <2>8. RecordAt(t, p + 0, v[n])
    BY ONLY <2>1, <2>5, <2>6, RecordWithin
  <2> QED
    BY ONLY <2>7, <2>8
<1>13. EntryAt(t, 0, e)
  BY <1>11, <1>12 DEF EntryAt, ScheduleAt, N, v
<1>14. Len(t) = Length(e)
  <2>1. Len(t) = 2 + E[N]
    BY ONLY <1>8, <1>10
  <2> QED
    BY <2>1 DEF Length, N, v
<1> QED
  BY ONLY <1>2, <1>10, <1>13, <1>14

\* The tokens of an entry
LEMMA EntryTokensAt ==
  ASSUME NEW e, IsEntry(e)
  PROVE  /\ EntryTokens(e) \in Seq(Toks) /\ Len(EntryTokens(e)) = Length(e)
         /\ EntryAt(EntryTokens(e), 0, e)
<1>1. CASE e.key = "currentSchedule"
  BY <1>1, ScheduleTokensAt
<1>2. CASE e.key # "currentSchedule"
  <2> DEFINE f == <<e.key, e.val>>
  <2>1. f \in Text \X Text /\ f[1] = e.key /\ f[2] = e.val
    BY <1>2 DEF IsEntry
  <2>2. EntryTokens(e) = FieldTokens(f)
    BY <1>2 DEF EntryTokens
  <2> HIDE DEF f
  <2>3. /\ FieldTokens(f) \in Seq(Toks) /\ Len(FieldTokens(f)) = 2
        /\ KeyAt(FieldTokens(f), 1, f[1])
        /\ ValueAt(FieldTokens(f), 2, f[2])
    BY ONLY <2>1, PairTokens
  <2>4. KeyAt(EntryTokens(e), 0 + 1, e.key) /\ ValueAt(EntryTokens(e), 0 + 2, e.val)
    BY <2>1, <2>2, <2>3
  <2>5. EntryAt(EntryTokens(e), 0, e)
    BY <1>2, <2>4 DEF EntryAt
  <2>6. Length(e) = 2
    BY <1>2 DEF Length
  <2> QED
    BY ONLY <2>2, <2>3, <2>5, <2>6
<1> QED
  BY <1>1, <1>2

\* What stands in a part of a sequence stands in the sequence.
LEMMA EntryWithin ==
  ASSUME NEW s, NEW p \in Nat, NEW e, IsEntry(e),
         \A j \in 1..Len(EntryTokens(e)) : s[p + j] = EntryTokens(e)[j]
  PROVE  EntryAt(s, p, e)
<1> DEFINE u == EntryTokens(e)
<1>1. Len(u) = Length(e) /\ EntryAt(u, 0, e)
  BY EntryTokensAt
<1>2. \A j \in 1..Len(u) : s[p + j] = u[j]
  OBVIOUS
<1> HIDE DEF u
<1>3. CASE e.key # "currentSchedule"
  <2>1. Len(u) = 2
    BY <1>1, <1>3 DEF Length
  <2>2. KeyAt(u, 0 + 1, e.key) /\ ValueAt(u, 0 + 2, e.val)
    BY <1>1, <1>3 DEF EntryAt
  <2>3. s[p + 1] = u[0 + 1] /\ s[p + 2] = u[0 + 2]
    BY ONLY <1>2, <2>1
  <2> QED
    BY ONLY <1>3, <2>2, <2>3 DEF EntryAt, KeyAt, ValueAt
<1>4. CASE e.key = "currentSchedule"
  <2> DEFINE v == e.val
             N == Len(v)
             E == Ends(Recs(v))
  <2>1. v \in Seq(Seq(Text \X Text)) /\ N \in Nat
    BY <1>4 DEF IsEntry
  <2>2. Len(u) = 2 + E[N]
    BY <1>1, <1>4 DEF Length
  <2>3. KeyAt(u, 0 + 1, e.key) /\ SizeAt(u, 0 + 2, "array", N)
        /\ \A n \in 1..N : RecordAt(u, 0 + 2 + E[n - 1], v[n])
    BY <1>1, <1>4 DEF EntryAt, ScheduleAt
  <2> HIDE DEF v
  <2>4. /\ \A n \in 1..N : E[n] = E[n - 1] + 1 + 2 * Len(v[n])
        /\ \A n \in 0..N : E[n] \in Nat
        /\ Joins(Toks, Recs(v), FlattenSeq(Recs(v)), N)
        /\ \A n \in 1..N : Len(Recs(v)[n]) = 1 + 2 * Len(v[n])
    <3>1. /\ \A n \in 1..N : E[n] = E[n - 1] + 1 + 2 * Len(v[n])
          /\ \A n \in 0..N : E[n] \in Nat
          /\ Recs(v) \in Seq(Seq(Toks)) /\ Len(Recs(v)) = N
          /\ \A n \in 1..N : Len(Recs(v)[n]) = 1 + 2 * Len(v[n])
      BY ONLY <2>1, RecsEnds
    <3>2. Joins(Toks, Recs(v), FlattenSeq(Recs(v)), Len(Recs(v)))
      <4>1. Recs(v) \in Seq(Seq(Toks))
        BY ONLY <3>1
      <4> QED
        BY ONLY <4>1, FlattenAt
    <3> QED
      BY ONLY <3>1, <3>2
  <2>5. ASSUME NEW n \in 1..N PROVE RecordAt(s, p + 2 + E[n - 1], v[n])
    <3> DEFINE q == 2 + E[n - 1]
               l == Len(v[n])
    <3>1. E[n - 1] \in Nat /\ E[N] \in Nat
      <4>1. n - 1 \in 0..N /\ N \in 0..N
        BY <2>1
      <4> QED
        BY ONLY <2>4, <4>1
    <3>2. l \in Nat
      BY ONLY <2>1, <2>5
    <3>3. E[n - 1] + (1 + 2 * l) <= E[N]
      <4>1. E[n - 1] + Len(Recs(v)[n]) <= E[N]
        BY <2>4 DEF Joins
      <4>2. Len(Recs(v)[n]) = 1 + 2 * l
        BY ONLY <2>4, <2>5
      <4> QED
        BY ONLY <4>1, <4>2
    <3>4. q \in Nat /\ q + 1 + 2 * l <= Len(u) /\ Len(u) \in Nat
      <4> DEFINE x == E[n - 1]
                 y == E[N]
      <4>1. x \in Nat /\ y \in Nat /\ x + (1 + 2 * l) <= y /\ Len(u) = 2 + y
        BY <2>2, <3>1, <3>3
      <4> HIDE DEF x, y, l
      <4>2. 2 + x \in Nat /\ 2 + x + 1 + 2 * l <= Len(u) /\ Len(u) \in Nat
        BY ONLY <3>2, <4>1
      <4> QED
        BY ONLY <4>2 DEF q, x
    <3>5. RecordAt(u, q, v[n])
      <4>1. 0 + 2 + E[n - 1] = q
        BY <3>1
      <4> QED
        BY <2>3, <4>1
    <3>6. p + q = p + 2 + E[n - 1]
      BY <3>1
    <3> HIDE DEF q
    <3>7. RecordAt(s, p + q, v[n])
      BY ONLY p \in Nat, <1>2, <3>2, <3>4, <3>5, RecordWithin DEF l
    <3> QED
      BY ONLY <3>6, <3>7
  <2>6. KeyAt(s, p + 1, e.key) /\ SizeAt(s, p + 2, "array", N)
    <3>1. 1 \in 1..Len(u) /\ 2 \in 1..Len(u)
      <4>1. E[N] \in Nat
        <5>1. N \in 0..N
          BY <2>1
        <5> QED
          BY ONLY <2>4, <5>1
      <4> QED
        BY ONLY <2>2, <4>1
    <3>2. s[p + 1] = u[0 + 1] /\ s[p + 2] = u[0 + 2]
      BY ONLY <1>2, <3>1
    <3> QED
      BY ONLY <2>3, <3>2 DEF KeyAt, SizeAt
  <2> QED
    BY <1>4, <2>5, <2>6 DEF EntryAt, ScheduleAt, v
<1> QED
  BY <1>3, <1>4

\* What Docs holds
IsDoc(d) == /\ Len(d) \in Nat /\ DOMAIN d = 1..Len(d)
            /\ \A n \in 1..Len(d) : IsEntry(d[n])

\* The tokens of a document
LEMMA DocTokensAt ==
  ASSUME NEW d, IsDoc(d)
  PROVE  /\ Len(DocTokens(d)) = 1 + Ends(Entries(d))[Len(d)]
         /\ DocAt(DocTokens(d), d)
         /\ Ends(Entries(d))[0] = 0
         /\ \A n \in 1..Len(d) :
              Ends(Entries(d))[n] = Ends(Entries(d))[n - 1] + Length(d[n])
         /\ \A n \in 0..Len(d) : Ends(Entries(d))[n] \in Nat
         /\ \A n \in 1..Len(d) : Ends(Entries(d))[n] <= Ends(Entries(d))[Len(d)]
<1> DEFINE N == Len(d)
           ss == Entries(d)
           s == FlatMap(EntryTokens, d)
           a == Tok("object", 2 * N, NoText)
           t == <<a>> \o s
           E == Ends(ss)
<1>1. N \in Nat /\ DOMAIN d = 1..N /\ \A n \in 1..N : IsEntry(d[n])
  BY DEF IsDoc
<1>2. DocTokens(d) = t
  BY DEF DocTokens
<1>3. a \in Toks /\ a.type = "object"
  BY <1>1 DEF Tok, Toks, Kind
<1>4. s = FlattenSeq(ss)
  BY DEF FlatMap, Entries
<1>5. \A n \in 1..N : /\ EntryTokens(d[n]) \in Seq(Toks)
                      /\ Len(EntryTokens(d[n])) = Length(d[n])
  BY ONLY <1>1, EntryTokensAt
<1>6. /\ \A n \in 1..N : ss[n] = EntryTokens(d[n])
      /\ ss \in Seq(Seq(Toks)) /\ Len(ss) = N
  BY <1>1, <1>5 DEF Entries
<1> HIDE DEF N, ss, s, a
<1>7. Joins(Toks, ss, s, N)
  <2>1. ss \in Seq(Seq(Toks))
    BY ONLY <1>6
  <2>2. Joins(Toks, ss, FlattenSeq(ss), Len(ss))
    BY ONLY <2>1, FlattenAt
  <2> QED
    BY ONLY <1>4, <1>6, <2>2
<1>8. \A n \in 1..N : Len(ss[n]) = Length(d[n]) /\ Len(ss[n]) \in Nat
  <2>1. \A n \in 1..N : Len(ss[n]) = Length(d[n])
    BY ONLY <1>5, <1>6
  <2>2. \A n \in 1..N : Len(ss[n]) \in Nat
    BY ONLY <1>6
  <2> QED
    BY ONLY <2>1, <2>2
<1>9. /\ E[0] = 0
      /\ \A n \in 1..N : E[n] = E[n - 1] + Length(d[n])
      /\ \A n \in 0..N : E[n] \in Nat
  <2>1. Len(ss) \in Nat /\ \A n \in 1..Len(ss) : Len(ss[n]) \in Nat
    BY ONLY <1>1, <1>6, <1>8
  <2>2. /\ E[0] = 0
        /\ \A n \in 1..Len(ss) : E[n] = E[n - 1] + Len(ss[n])
        /\ \A n \in 0..Len(ss) : E[n] \in Nat
    BY ONLY <2>1, EndsStep
  <2> QED
    BY ONLY <1>6, <1>8, <2>2
<1>10. s \in Seq(Toks) /\ Len(s) = E[N]
  BY <1>7 DEF Joins
<1>11. /\ Len(t) = 1 + Len(s) /\ t[1] = a
       /\ \A n \in 1..Len(s) : t[1 + n] = s[n]
  <2>1. s \in Seq(Toks) /\ a \in Toks
    BY ONLY <1>3, <1>10
  <2> QED
    BY ONLY <2>1, InFront
<1> HIDE DEF t
<1>12. ASSUME NEW n \in 1..N PROVE EntryAt(t, 1 + E[n - 1], d[n])
  <2> DEFINE w == EntryTokens(d[n])
             p == 1 + E[n - 1]
  <2>1. E[n - 1] \in Nat /\ E[N] \in Nat
    <3>1. n - 1 \in 0..N /\ N \in 0..N
      BY <1>1
    <3> QED
      BY ONLY <1>9, <3>1
  <2>2. ss[n] = w /\ Len(w) \in Nat
    BY ONLY <1>6, <1>8, <1>12
  <2> HIDE DEF w
  <2>3. /\ E[n - 1] + Len(w) <= E[N]
        /\ \A j \in 1..Len(w) : s[E[n - 1] + j] = w[j]
    <3>1. /\ E[n - 1] + Len(ss[n]) <= E[N]
          /\ \A j \in 1..Len(ss[n]) : s[E[n - 1] + j] = ss[n][j]
      BY <1>7, <1>12 DEF Joins
    <3> QED
      BY ONLY <2>2, <3>1
  <2>4. ASSUME NEW j \in 1..Len(w) PROVE t[p + j] = w[j]
    <3>1. E[n - 1] + j \in 1..Len(s) /\ 1 + (E[n - 1] + j) = p + j
      <4> DEFINE x == E[n - 1]
                 y == E[N]
                 z == Len(w)
      <4>1. x \in Nat /\ y \in Nat /\ z \in Nat /\ x + z <= y /\ Len(s) = y
        BY <1>10, <2>1, <2>2, <2>3
      <4>2. j \in 1..z
        OBVIOUS
      <4> HIDE DEF x, y, z
      <4>3. x + j \in 1..y /\ 1 + (x + j) = 1 + x + j
        BY ONLY <4>1, <4>2
      <4> QED
        BY ONLY <4>1, <4>3 DEF x, p
    <3>2. t[1 + (E[n - 1] + j)] = s[E[n - 1] + j]
      BY ONLY <1>11, <3>1
    <3>3. s[E[n - 1] + j] = w[j]
      BY ONLY <2>3, <2>4
    <3> QED
      BY ONLY <3>1, <3>2, <3>3
  <2>5. p \in Nat
    BY <2>1
  <2> HIDE DEF p
  <2>6. IsEntry(d[n])
    BY ONLY <1>1, <1>12
  <2>7. EntryAt(t, p, d[n])
    BY ONLY <2>4, <2>5, <2>6, EntryWithin DEF w
  <2> QED
    BY ONLY <2>7 DEF p
<1>13. DocAt(t, d)
  BY <1>3, <1>11, <1>12 DEF DocAt, N, ss
<1>14. Len(t) = 1 + E[N]
  BY ONLY <1>10, <1>11
<1>15. \A n \in 1..N : E[n] <= E[N]
  <2>1. ss \in Seq(Seq(Toks))
    BY ONLY <1>6
  <2>2. \A n \in 1..Len(ss) : Ends(ss)[n] <= Ends(ss)[Len(ss)]
    BY ONLY <2>1, EndsWithin
  <2> QED
    BY ONLY <1>6, <2>2
<1> QED
  BY ONLY <1>2, <1>9, <1>13, <1>14, <1>15 DEF N, ss

-----------------------------------------------------------------------------
(* What a reply means, read pair by pair as the parser does, and that at   *)
(* its end nothing else was meant                                          *)

\* A set of places has a last one.
LEMMA LastOf ==
  ASSUME NEW N \in Nat, NEW P \in SUBSET (1..N), P # {}
  PROVE  \E n \in P : \A m \in P : m <= n
<1> DEFINE T == {N - n : n \in P}
<1>1. T \subseteq Nat /\ T # {}
  <2>1. \A n \in P : N - n \in Nat
    OBVIOUS
  <2>2. \E n \in P : TRUE
    OBVIOUS
  <2> QED
    BY ONLY <2>1, <2>2
<1>2. PICK t \in T : \A m \in T : t <= m
  <2> HIDE DEF T
  <2> QED
    BY <1>1, Least
<1>3. PICK n \in P : t = N - n
  BY <1>2
<1>4. \A m \in P : N - n <= N - m
  BY <1>2, <1>3
<1> QED
  BY <1>4

\* The last pair with a key gives its value.
LEMMA GivenIs ==
  ASSUME NEW r, DOMAIN r \subseteq Int, NEW k, NEW n \in DOMAIN r, r[n][1] = k,
         \A m \in DOMAIN r : r[m][1] = k => m <= n
  PROVE  Given(r, k) = r[n][2]
<1> DEFINE P(x) == r[x][1] = k /\ \A m \in DOMAIN r : r[m][1] = k => m <= x
           c == CHOOSE x \in DOMAIN r : P(x)
<1>1. P(n)
  OBVIOUS
<1>2. c \in DOMAIN r /\ P(c)
  <2> HIDE DEF P
  <2> QED
    BY <1>1
<1> HIDE DEF c
<1>3. c = n
  BY <1>1, <1>2
<1>4. Given(r, k) = r[c][2]
  BY DEF Given, c
<1> QED
  BY <1>3, <1>4

\* What a setting and a field are set to by a value
SettingOf(k, text) == IF k = "beaconUUID" THEN text ELSE atoi[text]
FieldOf(k, text) ==
  IF k = "beaconEnabled" THEN (IF text = "true" THEN 1 ELSE 0) ELSE atoi[text]

\* s are the settings of the first e entries of the document d,
SettingsOf(s, d, e) ==
  /\ s = [k \in DOMAIN Defaults |-> s[k]]
  /\ \A k \in DOMAIN Defaults :
       /\ (\A n \in 1..e : d[n].key # k) => s[k] = Defaults[k]
       /\ \A n \in 1..e :
            d[n].key = k /\ (\A m \in 1..e : d[m].key = k => m <= n)
              => s[k] = SettingOf(k, d[n].val)

\* and fs the fields of the first f pairs of a record.
FieldsOf(fs, rec, f) ==
  \A k \in Field : \A n \in 1..f :
    rec[n][1] = k /\ (\A m \in 1..f : rec[m][1] = k => m <= n)
      => fs[k] = FieldOf(k, rec[n][2])

\* One more pair of the record
LEMMA FieldsNext ==
  ASSUME NEW rec, NEW f \in Nat, NEW fs \in [Field -> Int], FieldsOf(fs, rec, f),
         NEW gs,
         gs = IF rec[f + 1][1] \in Field
                THEN [fs EXCEPT ![rec[f + 1][1]] =
                        FieldOf(rec[f + 1][1], rec[f + 1][2])]
                ELSE fs
  PROVE  FieldsOf(gs, rec, f + 1)
<1> DEFINE key == rec[f + 1][1]
<1> SUFFICES ASSUME NEW k \in Field, NEW n \in 1..(f + 1), rec[n][1] = k,
                    \A m \in 1..(f + 1) : rec[m][1] = k => m <= n
             PROVE  gs[k] = FieldOf(k, rec[n][2])
  BY DEF FieldsOf
<1>1. CASE n = f + 1
  <2>1. key = k
    BY <1>1
  <2> DEFINE z == FieldOf(key, rec[f + 1][2])
  <2>2. gs = [fs EXCEPT ![k] = z]
    BY <2>1
  <2>3. z = FieldOf(k, rec[n][2])
    BY <1>1, <2>1
  <2> HIDE DEF z, key
  <2> QED
    BY <2>2, <2>3
<1>2. CASE n \in 1..f
  <2>1. key # k
    BY <1>2
  <2>2. \A m \in 1..f : rec[m][1] = k => m <= n
    BY <1>2
  <2>3. fs[k] = FieldOf(k, rec[n][2])
    BY <1>2, <2>2 DEF FieldsOf
  <2> DEFINE z == FieldOf(key, rec[f + 1][2])
  <2>4. gs = IF key \in Field THEN [fs EXCEPT ![key] = z] ELSE fs
    OBVIOUS
  <2> HIDE DEF z, key
  <2>5. gs[k] = fs[k]
    BY <2>1, <2>4
  <2> QED
    BY ONLY <2>3, <2>5
<1> QED
  BY <1>1, <1>2

\* One more entry of the document that is a setting, or none
LEMMA SettingsNext ==
  ASSUME NEW d, NEW e \in Nat, NEW s, SettingsOf(s, d, e),
         NEW t,
         t = IF d[e + 1].key \in DOMAIN Defaults
               THEN [s EXCEPT ![d[e + 1].key] =
                       SettingOf(d[e + 1].key, d[e + 1].val)]
               ELSE s
  PROVE  SettingsOf(t, d, e + 1)
<1> DEFINE key == d[e + 1].key
           z == SettingOf(key, d[e + 1].val)
           D == DOMAIN Defaults
<1>1. t = IF key \in D THEN [s EXCEPT ![key] = z] ELSE s
  OBVIOUS
<1>fun. s = [k \in D |-> s[k]]
  BY DEF SettingsOf
<1>dom. DOMAIN s = D
  <2> HIDE DEF D
  <2> QED
    BY ONLY <1>fun
<1>2. ASSUME NEW k \in D, \A n \in 1..(e + 1) : d[n].key # k
      PROVE  t[k] = Defaults[k]
  <2>1. key # k /\ \A n \in 1..e : d[n].key # k
    BY <1>2
  <2>2. s[k] = Defaults[k]
    BY <1>2, <2>1 DEF SettingsOf
  <2> HIDE DEF z, key, D
  <2> QED
    BY <1>1, <1>2, <2>1, <2>2
<1>3. ASSUME NEW k \in D, NEW n \in 1..(e + 1), d[n].key = k,
             \A m \in 1..(e + 1) : d[m].key = k => m <= n
      PROVE  t[k] = SettingOf(k, d[n].val)
  <2>1. CASE n = e + 1
    <3>1. key = k /\ z = SettingOf(k, d[n].val)
      BY <1>3, <2>1
    <3>2. k \in DOMAIN s
      BY <1>3, <1>dom
    <3> HIDE DEF z, key, D
    <3>3. t = [s EXCEPT ![k] = z]
      BY <1>1, <1>3, <3>1
    <3> QED
      BY ONLY <3>1, <3>2, <3>3
  <2>2. CASE n \in 1..e
    <3>1. key # k
      BY <1>3, <2>2
    <3>2. \A m \in 1..e : d[m].key = k => m <= n
      BY <1>3, <2>2
    <3>3. s[k] = SettingOf(k, d[n].val)
      BY <1>3, <2>2, <3>2 DEF SettingsOf
    <3>4. k \in DOMAIN s
      BY <1>3, <1>dom
    <3> HIDE DEF z, key, D
    <3>5. t[k] = s[k]
      BY ONLY <1>1, <3>1, <3>4
    <3> QED
      BY ONLY <3>3, <3>5
  <2> QED
    BY <2>1, <2>2
<1>4. t = [k \in D |-> t[k]]
  <2> HIDE DEF z, key, D
  <2> QED
    BY ONLY <1>1, <1>fun
<1> QED
  BY <1>2, <1>3, <1>4 DEF SettingsOf

\* The fields of a whole record make the record that is meant.
LEMMA RecordIsMeant ==
  ASSUME NEW rec \in Seq(Text \X Text), IsRecord(rec),
         NEW fs, FieldsOf(fs, rec, Len(rec))
  PROVE  RecordOf(fs) = MeantRecord(rec)
<1>1. ASSUME NEW k \in Field
      PROVE  fs[k] = FieldOf(k, Given(rec, k))
  <2> DEFINE N == Len(rec)
             P == {n \in 1..N : rec[n][1] = k}
  <2>1. N \in Nat /\ DOMAIN rec = 1..N
    OBVIOUS
  <2>2. P \in SUBSET (1..N) /\ P # {}
    BY <1>1, <2>1 DEF IsRecord
  <2>3. PICK n \in P : \A m \in P : m <= n
    <3> HIDE DEF P, N
    <3> QED
      BY <2>1, <2>2, LastOf
  <2>4. n \in 1..N /\ rec[n][1] = k /\ \A m \in 1..N : rec[m][1] = k => m <= n
    BY <2>3
  <2>5. Given(rec, k) = rec[n][2]
    <3>1. DOMAIN rec \subseteq Int
      BY <2>1
    <3> HIDE DEF P
    <3> QED
      BY <2>1, <2>4, <3>1, GivenIs
  <2>6. fs[k] = FieldOf(k, rec[n][2])
    BY <1>1, <2>4 DEF FieldsOf
  <2> QED
    BY ONLY <2>5, <2>6
<1> DEFINE on == Given(rec, "beaconEnabled") = "true"
           g(k) == Given(rec, k)
<1>2. fs["beaconEnabled"] = IF on THEN 1 ELSE 0
  BY <1>1 DEF Field, FieldOf
<1>3. \A k \in Field : k # "beaconEnabled" => fs[k] = atoi[g(k)]
  BY <1>1 DEF FieldOf
<1>4. MeantRecord(rec) =
        [f \in Field |-> CASE f = "beaconEnabled"  -> IF on THEN 1 ELSE 0
                           [] f = "transitionTime" -> atoi[g(f)]
                           [] OTHER                -> IF on THEN atoi[g(f)] ELSE 0]
  BY DEF MeantRecord
<1> HIDE DEF on, g
<1> QED
  BY <1>2, <1>3, <1>4 DEF RecordOf, Field

\* The settings of a whole document are those that are meant.
LEMMA SettingsAreMeant ==
  ASSUME NEW d, IsDoc(d), NEW s, SettingsOf(s, d, Len(d))
  PROVE  s = MeantSettings(d)
<1> DEFINE N == Len(d)
           pairs == [n \in DOMAIN d |-> <<d[n].key, d[n].val>>]
           v(k) == IF \A n \in DOMAIN d : d[n].key # k THEN Defaults[k]
                   ELSE IF k = "beaconUUID" THEN Given(pairs, k)
                   ELSE atoi[Given(pairs, k)]
<1>1. N \in Nat /\ DOMAIN d = 1..N
  BY DEF IsDoc
<1>2. /\ DOMAIN pairs = 1..N
      /\ \A n \in 1..N : pairs[n][1] = d[n].key /\ pairs[n][2] = d[n].val
  BY <1>1
<1>3. MeantSettings(d) = [k \in DOMAIN Defaults |-> v(k)]
  BY DEF MeantSettings
<1> HIDE DEF pairs
<1>4. ASSUME NEW k \in DOMAIN Defaults PROVE s[k] = v(k)
  <2>1. CASE \A n \in 1..N : d[n].key # k
    BY <1>1, <1>4, <2>1 DEF SettingsOf
  <2>2. CASE \E n \in 1..N : d[n].key = k
    <3> DEFINE P == {n \in 1..N : d[n].key = k}
    <3>1. P \in SUBSET (1..N) /\ P # {}
      BY <2>2
    <3>2. PICK n \in P : \A m \in P : m <= n
      <4> HIDE DEF P, N
      <4> QED
        BY <1>1, <3>1, LastOf
    <3>3. n \in 1..N /\ d[n].key = k /\ \A m \in 1..N : d[m].key = k => m <= n
      BY <3>2
    <3> HIDE DEF P
    <3>4. Given(pairs, k) = d[n].val
      <4>1. DOMAIN pairs \subseteq Int /\ n \in DOMAIN pairs /\ pairs[n][1] = k
        BY <1>1, <1>2, <3>3
      <4>2. \A m \in DOMAIN pairs : pairs[m][1] = k => m <= n
        BY <1>2, <3>3
      <4>3. Given(pairs, k) = pairs[n][2]
        BY ONLY <4>1, <4>2, GivenIs
      <4> QED
        BY <1>2, <3>3, <4>3
    <3>5. s[k] = SettingOf(k, d[n].val)
      BY <1>4, <3>3 DEF SettingsOf
    <3>6. v(k) = IF k = "beaconUUID" THEN Given(pairs, k) ELSE atoi[Given(pairs, k)]
      BY <1>1, <2>2
    <3> QED
      BY ONLY <3>4, <3>5, <3>6 DEF SettingOf
  <2> QED
    BY <2>1, <2>2
<1>5. s = [k \in DOMAIN Defaults |-> s[k]]
  BY DEF SettingsOf
<1> HIDE DEF v
<1> QED
  BY ONLY <1>3, <1>4, <1>5

\* How many records an entry has, those of each entry, and what a record is
Records(e) == IF e.key = "currentSchedule" THEN Len(e.val) ELSE 0
MeantBy(d) == [n \in DOMAIN d |-> MeantRecords(d[n])]
MeantSet   == {MeantRecord(r) : r \in Seq(Text \X Text)}

\* The records of a document stand one behind the other.
LEMMA MeantAt ==
  ASSUME NEW d, IsDoc(d)
  PROVE  /\ Meant(d) \in Seq(MeantSet)
         /\ Len(Meant(d)) = Ends(MeantBy(d))[Len(d)]
         /\ Ends(MeantBy(d))[0] = 0
         /\ \A n \in 1..Len(d) :
              /\ Ends(MeantBy(d))[n] = Ends(MeantBy(d))[n - 1] + Records(d[n])
              /\ Records(d[n]) \in Nat
              /\ d[n].key = "currentSchedule" =>
                   \A r \in 1..Len(d[n].val) :
                     Meant(d)[Ends(MeantBy(d))[n - 1] + r] = MeantRecord(d[n].val[r])
         /\ \A n \in 0..Len(d) : Ends(MeantBy(d))[n] \in Nat
<1> DEFINE N == Len(d)
           ss == MeantBy(d)
           s == Meant(d)
           E == Ends(ss)
<1>1. N \in Nat /\ DOMAIN d = 1..N /\ \A n \in 1..N : IsEntry(d[n])
  BY DEF IsDoc
<1>2. s = FlattenSeq(ss)
  BY DEF Meant, FlatMap, MeantBy
<1>3. ASSUME NEW n \in 1..N
      PROVE  /\ MeantRecords(d[n]) \in Seq(MeantSet)
             /\ Len(MeantRecords(d[n])) = Records(d[n])
             /\ d[n].key = "currentSchedule" =>
                  \A r \in 1..Len(d[n].val) :
                    MeantRecords(d[n])[r] = MeantRecord(d[n].val[r])
  <2>1. CASE d[n].key = "currentSchedule"
    <3> DEFINE v == d[n].val
    <3>1. v \in Seq(Seq(Text \X Text))
      BY <1>1, <2>1 DEF IsEntry
    <3>2. MeantRecords(d[n]) = [m \in DOMAIN v |-> MeantRecord(v[m])]
      BY <2>1 DEF MeantRecords
    <3>3. \A m \in 1..Len(v) : MeantRecord(v[m]) \in MeantSet
      BY <3>1 DEF MeantSet
    <3>4. Records(d[n]) = Len(v)
      BY <2>1 DEF Records
    <3> HIDE DEF v
    <3>5. DOMAIN v = 1..Len(v) /\ Len(v) \in Nat
      BY ONLY <3>1
    <3> DEFINE w == [m \in 1..Len(v) |-> MeantRecord(v[m])]
    <3>6. w \in Seq(MeantSet) /\ Len(w) = Len(v)
          /\ \A m \in 1..Len(v) : w[m] = MeantRecord(v[m])
      BY ONLY <3>3, <3>5
    <3> HIDE DEF w
    <3>7. MeantRecords(d[n]) = w
      BY ONLY <3>2, <3>5 DEF w
    <3> QED
      BY ONLY <3>4, <3>6, <3>7 DEF v
  <2>2. CASE d[n].key # "currentSchedule"
    <3>1. MeantRecords(d[n]) = <<>> /\ Records(d[n]) = 0
      BY <2>2 DEF MeantRecords, Records
    <3>2. <<>> \in Seq(MeantSet) /\ Len(<<>>) = 0
      BY ONLY TRUE
    <3> QED
      BY ONLY <2>2, <3>1, <3>2
  <2> QED
    BY <2>1, <2>2
<1>4. /\ \A n \in 1..N : ss[n] = MeantRecords(d[n])
      /\ ss \in Seq(Seq(MeantSet)) /\ Len(ss) = N
  <2> DEFINE R(n) == MeantRecords(d[n])
  <2>1. ss = [n \in 1..N |-> R(n)] /\ \A n \in 1..N : R(n) \in Seq(MeantSet)
    BY <1>1, <1>3 DEF MeantBy
  <2> HIDE DEF ss, R, N
  <2>2. /\ \A n \in 1..N : ss[n] = R(n)
        /\ ss \in Seq(Seq(MeantSet)) /\ Len(ss) = N
    BY ONLY <1>1, <2>1
  <2> QED
    BY ONLY <2>2 DEF R
<1> HIDE DEF N, ss, s
<1>5. Joins(MeantSet, ss, s, N)
  <2>1. ss \in Seq(Seq(MeantSet))
    BY ONLY <1>4
  <2>2. Joins(MeantSet, ss, FlattenSeq(ss), Len(ss))
    BY ONLY <2>1, FlattenAt
  <2> QED
    BY ONLY <1>2, <1>4, <2>2
<1>6. \A n \in 1..N : Len(ss[n]) = Records(d[n]) /\ Len(ss[n]) \in Nat
  <2>1. \A n \in 1..N : Len(ss[n]) = Records(d[n])
    BY ONLY <1>3, <1>4
  <2>2. \A n \in 1..N : Len(ss[n]) \in Nat
    BY ONLY <1>4
  <2> QED
    BY ONLY <2>1, <2>2
<1>7. /\ E[0] = 0
      /\ \A n \in 1..N : E[n] = E[n - 1] + Records(d[n]) /\ Records(d[n]) \in Nat
      /\ \A n \in 0..N : E[n] \in Nat
  <2>1. Len(ss) \in Nat /\ \A n \in 1..Len(ss) : Len(ss[n]) \in Nat
    BY ONLY <1>1, <1>4, <1>6
  <2>2. /\ E[0] = 0
        /\ \A n \in 1..Len(ss) : E[n] = E[n - 1] + Len(ss[n])
        /\ \A n \in 0..Len(ss) : E[n] \in Nat
    BY ONLY <2>1, EndsStep
  <2> QED
    BY ONLY <1>4, <1>6, <2>2
<1>8. s \in Seq(MeantSet) /\ Len(s) = E[N]
  BY <1>5 DEF Joins
<1>9. ASSUME NEW n \in 1..N, d[n].key = "currentSchedule",
             NEW r \in 1..Len(d[n].val)
      PROVE  s[E[n - 1] + r] = MeantRecord(d[n].val[r])
  <2>1. ss[n][r] = MeantRecord(d[n].val[r]) /\ Len(ss[n]) = Len(d[n].val)
    BY <1>3, <1>4, <1>6, <1>9 DEF Records
  <2>2. \A j \in 1..Len(ss[n]) : s[E[n - 1] + j] = ss[n][j]
    BY <1>5 DEF Joins
  <2> QED
    BY ONLY <1>9, <2>1, <2>2
<1> QED
  BY ONLY <1>7, <1>8, <1>9 DEF N, ss, s

\* The schedule has the records of the first e entries and r more.
ScheduleOf(s, d, e, r) ==
  /\ s \in Seq(MeantSet) /\ Len(s) = Ends(MeantBy(d))[e] + r
  /\ \A n \in 1..Len(s) : s[n] = Meant(d)[n]

\* One more record of the entry
LEMMA ScheduleNext ==
  ASSUME NEW d, IsDoc(d), NEW e \in 0..(Len(d) - 1),
         d[e + 1].key = "currentSchedule",
         NEW r \in 0..(Len(d[e + 1].val) - 1),
         NEW s, ScheduleOf(s, d, e, r)
  PROVE  ScheduleOf(Append(s, MeantRecord(d[e + 1].val[r + 1])), d, e, r + 1)
<1> DEFINE E == Ends(MeantBy(d))
           l == e + 1
           v == d[l].val
           x == MeantRecord(v[r + 1])
           t == Append(s, x)
<1>1. Len(d) \in Nat /\ l \in 1..Len(d) /\ e \in 0..Len(d) /\ l - 1 = e /\ IsEntry(d[l])
  BY DEF IsDoc
<1>2. v \in Seq(Seq(Text \X Text))
  BY <1>1 DEF IsEntry
<1>3. r + 1 \in 1..Len(v) /\ r \in Nat
  BY <1>2
<1>4. x \in MeantSet
  <2>1. v[r + 1] \in Seq(Text \X Text)
    BY ONLY <1>2, <1>3
  <2> QED
    BY ONLY <2>1 DEF x, MeantSet
<1>5. Meant(d)[E[e] + (r + 1)] = x /\ E[e] \in Nat
  <2>1. /\ \A n \in 1..Len(d) :
             d[n].key = "currentSchedule" =>
               \A m \in 1..Len(d[n].val) :
                 Meant(d)[E[n - 1] + m] = MeantRecord(d[n].val[m])
        /\ \A n \in 0..Len(d) : E[n] \in Nat
    BY MeantAt
  <2>2. d[l].key = "currentSchedule"
    OBVIOUS
  <2> HIDE DEF l, E
  <2>3. Meant(d)[E[l - 1] + (r + 1)] = MeantRecord(d[l].val[r + 1])
    BY ONLY <1>1, <1>3, <2>1, <2>2 DEF v
  <2> QED
    BY ONLY <1>1, <2>1, <2>3 DEF x, v
<1>6. /\ s \in Seq(MeantSet) /\ Len(s) = E[e] + r
      /\ \A n \in 1..Len(s) : s[n] = Meant(d)[n]
  BY DEF ScheduleOf
<1> HIDE DEF E, x
<1>7. /\ t \in Seq(MeantSet) /\ Len(t) = Len(s) + 1 /\ Len(s) \in Nat
      /\ \A n \in 1..Len(s) : t[n] = s[n]
      /\ t[Len(s) + 1] = x
  <2>1. s \in Seq(MeantSet)
    BY ONLY <1>6
  <2> QED
    BY ONLY <1>4, <2>1
<1> HIDE DEF t
<1>8. Len(t) = E[e] + (r + 1) /\ Len(s) + 1 = E[e] + (r + 1)
  <2> DEFINE y == E[e]
  <2>1. y \in Nat /\ Len(s) = y + r /\ Len(t) = Len(s) + 1
    BY ONLY <1>5, <1>6, <1>7
  <2>2. r \in Nat
    BY ONLY <1>3
  <2> HIDE DEF y
  <2>3. Len(t) = y + (r + 1) /\ Len(s) + 1 = y + (r + 1)
    BY ONLY <2>1, <2>2
  <2> QED
    BY ONLY <2>3 DEF y
<1>9. ASSUME NEW n \in 1..Len(t) PROVE t[n] = Meant(d)[n]
  <2>1. CASE n = Len(s) + 1
    BY ONLY <1>5, <1>7, <1>8, <2>1
  <2>2. CASE n \in 1..Len(s)
    BY ONLY <1>6, <1>7, <2>2
  <2> QED
    BY ONLY <1>7, <1>9, <2>1, <2>2
<1> QED
  BY ONLY <1>7, <1>8, <1>9 DEF ScheduleOf, t, x, v, l, E

\* At the end of an entry all of its records are there.
LEMMA ScheduleEntry ==
  ASSUME NEW d, IsDoc(d), NEW e \in 0..(Len(d) - 1), NEW s,
         ScheduleOf(s, d, e, Records(d[e + 1]))
  PROVE  ScheduleOf(s, d, e + 1, 0)
<1> DEFINE E == Ends(MeantBy(d))
           l == e + 1
<1>1. Len(d) \in Nat /\ l \in 1..Len(d) /\ e \in 0..Len(d) /\ l - 1 = e
  BY DEF IsDoc
<1>2. /\ \A n \in 1..Len(d) : /\ E[n] = E[n - 1] + Records(d[n])
                              /\ Records(d[n]) \in Nat
      /\ \A n \in 0..Len(d) : E[n] \in Nat
  BY MeantAt
<1>3. ScheduleOf(s, d, e, Records(d[l]))
  OBVIOUS
<1> HIDE DEF l, E
<1>4. E[l] = E[e] + Records(d[l]) /\ E[e] \in Nat /\ Records(d[l]) \in Nat
  BY ONLY <1>1, <1>2
<1>5. E[l] + 0 = E[e] + Records(d[l])
  BY ONLY <1>4
<1>6. ScheduleOf(s, d, l, 0)
  BY ONLY <1>3, <1>5 DEF ScheduleOf, E
<1> QED
  BY ONLY <1>6 DEF l

-----------------------------------------------------------------------------
(* Where the parser's steps take it                                        *)

\* Where an entry stands
LEMMA EntryPlace ==
  ASSUME NEW d, IsDoc(d), NEW e \in 0..(Len(d) - 1)
  PROVE  /\ EntryAt(DocTokens(d), 1 + Ends(Entries(d))[e], d[e + 1])
         /\ Ends(Entries(d))[e] \in Nat
         /\ Ends(Entries(d))[e + 1] = Ends(Entries(d))[e] + Length(d[e + 1])
         /\ Len(DocTokens(d)) = 1 + Ends(Entries(d))[Len(d)]
         /\ Ends(Entries(d))[Len(d)] \in Nat
         /\ Ends(Entries(d))[e + 1] <= Ends(Entries(d))[Len(d)]
         /\ IsEntry(d[e + 1]) /\ e \in Nat /\ e + 1 \in 0..Len(d)
<1> DEFINE l == e + 1
           E == Ends(Entries(d))
<1>1. /\ l \in 1..Len(d) /\ e \in 0..Len(d) /\ l - 1 = e
      /\ IsEntry(d[l]) /\ e \in Nat /\ l \in 0..Len(d) /\ Len(d) \in 0..Len(d)
  BY DEF IsDoc
<1> HIDE DEF l
<1>2. /\ DocAt(DocTokens(d), d)
      /\ \A n \in 1..Len(d) : E[n] = E[n - 1] + Length(d[n])
      /\ \A n \in 0..Len(d) : E[n] \in Nat
      /\ Len(DocTokens(d)) = 1 + E[Len(d)]
      /\ \A n \in 1..Len(d) : E[n] <= E[Len(d)]
  BY DocTokensAt
<1>3. EntryAt(DocTokens(d), 1 + E[l - 1], d[l])
  BY <1>1, <1>2 DEF DocAt
<1> HIDE DEF E
<1>4. /\ EntryAt(DocTokens(d), 1 + E[e], d[l]) /\ E[e] \in Nat
      /\ E[l] = E[e] + Length(d[l])
      /\ Len(DocTokens(d)) = 1 + E[Len(d)]
      /\ E[Len(d)] \in Nat /\ E[l] <= E[Len(d)]
  BY ONLY <1>1, <1>2, <1>3
<1> QED
  BY ONLY <1>1, <1>4 DEF l, E

\* Where a record of an entry stands
LEMMA RecordPlace ==
  ASSUME NEW x, IsEntry(x), x.key = "currentSchedule",
         NEW r \in 0..(Len(x.val) - 1),
         NEW p \in Nat, NEW s, EntryAt(s, p, x)
  PROVE  /\ RecordAt(s, p + 2 + Ends(Recs(x.val))[r], x.val[r + 1])
         /\ Ends(Recs(x.val))[r] \in Nat
         /\ Ends(Recs(x.val))[r + 1] =
              Ends(Recs(x.val))[r] + 1 + 2 * Len(x.val[r + 1])
         /\ x.val[r + 1] \in Seq(Text \X Text) /\ IsRecord(x.val[r + 1])
         /\ Len(x.val[r + 1]) \in Nat /\ Len(x.val[r + 1]) > 0
         /\ r \in Nat /\ Len(x.val) \in Nat
         /\ Ends(Recs(x.val))[r + 1] <= Ends(Recs(x.val))[Len(x.val)]
<1> DEFINE l == r + 1
           v == x.val
           R == Ends(Recs(v))
<1>1. v \in Seq(Seq(Text \X Text)) /\ \A n \in DOMAIN v : IsRecord(v[n])
  BY DEF IsEntry
<1>2. \A n \in 1..Len(v) : RecordAt(s, p + 2 + R[n - 1], v[n])
  BY DEF EntryAt, ScheduleAt
<1>3. r \in 0..(Len(v) - 1)
  OBVIOUS
<1> HIDE DEF v
<1>4. Len(v) \in Nat /\ DOMAIN v = 1..Len(v)
  BY ONLY <1>1
<1>5. l \in 1..Len(v) /\ l - 1 = r /\ r \in 0..Len(v) /\ r \in Nat
  BY ONLY <1>3, <1>4
<1> HIDE DEF l
<1>6. v[l] \in Seq(Text \X Text) /\ IsRecord(v[l])
  <2>1. v \in Seq(Seq(Text \X Text))
    BY ONLY <1>1
  <2>2. v[l] \in Seq(Text \X Text)
    BY ONLY <1>5, <2>1
  <2>3. l \in DOMAIN v
    BY ONLY <1>4, <1>5
  <2> QED
    BY ONLY <1>1, <2>2, <2>3
<1>7. Len(v[l]) \in Nat /\ Len(v[l]) > 0
  <2>1. DOMAIN v[l] = 1..Len(v[l]) /\ Len(v[l]) \in Nat
    BY ONLY <1>6
  <2>2. DOMAIN v[l] # {}
    BY ONLY <1>6 DEF IsRecord, Field
  <2> QED
    BY ONLY <2>1, <2>2
<1>8. /\ \A n \in 1..Len(v) : R[n] = R[n - 1] + 1 + 2 * Len(v[n])
      /\ \A n \in 0..Len(v) : R[n] \in Nat
      /\ \A n \in 1..Len(v) : R[n] <= R[Len(v)]
  BY ONLY <1>1, RecsEnds
<1> HIDE DEF R
<1>9. /\ R[l] = R[r] + 1 + 2 * Len(v[l]) /\ R[r] \in Nat
      /\ RecordAt(s, p + 2 + R[r], v[l])
      /\ R[l] <= R[Len(v)]
  BY ONLY <1>2, <1>5, <1>8
<1> QED
  BY ONLY <1>4, <1>5, <1>6, <1>7, <1>9 DEF l, v, R

\* Which step the next token brings
LEMMA WhichStep ==
  ASSUME Next
  PROVE  /\ NextToken
         /\ ~keyFound /\ token.type = "string" => Key
         /\ ~keyFound /\ token.type = "object" /\ arrayObjects = 0 => Skip
         /\ ~keyFound /\ token.type = "object" /\ arrayObjects > 0 => ArrayObject
         /\ keyFound /\ arrayObjects = 0 => TopValue
         /\ keyFound /\ arrayObjects > 0 /\ token.type # "object" => ArrayValue
<1>1. \/ ArrayObject /\ arrayObjects > 0 /\ token.type = "object"
      \/ ArrayValue /\ arrayObjects > 0 /\ token.type # "object" /\ keyFound
      \/ TopValue /\ arrayObjects = 0 /\ keyFound
      \/ Key /\ ~keyFound /\ token.type = "string"
      \/ Skip /\ ~keyFound /\ token.type # "string"
           /\ ~(arrayObjects > 0 /\ token.type = "object")
  BY DEF Next, ArrayObject, ArrayValue, TopValue, Key, Skip
<1>2. NextToken
  BY DEF Next, ArrayObject, ArrayValue, TopValue, Key, Skip
<1>3. ~(arrayObjects = 0 /\ arrayObjects > 0)
  OBVIOUS
<1>4. ~("string" = "object")
  OBVIOUS
<1> QED
  BY <1>1, <1>2, <1>3, <1>4

-----------------------------------------------------------------------------
(* Where the parser stands in the document, and what it has made of the    *)
(* part behind it                                                          *)

\* e entries are done: their settings are made and their records added.
Between(e) ==
  /\ e \in 0..Len(doc)
  /\ i = 1 + Ends(Entries(doc))[e]
  /\ ~keyFound /\ arrayObjects = 0
  /\ ScheduleOf(schedule, doc, e, 0) /\ SettingsOf(settings, doc, e)

\* The key of the next entry is read.
KeyRead(e) ==
  /\ e \in 0..(Len(doc) - 1)
  /\ i = 1 + Ends(Entries(doc))[e] + 1
  /\ keyFound /\ activeKey = doc[e + 1].key /\ arrayObjects = 0
  /\ ScheduleOf(schedule, doc, e, 0) /\ SettingsOf(settings, doc, e)

\* r records of the next entry are done, and so many tokens of another.
InArray(e, r, n) ==
  /\ e \in 0..(Len(doc) - 1) /\ doc[e + 1].key = "currentSchedule"
  /\ r \in 0..(Len(doc[e + 1].val) - 1)
  /\ i = 1 + Ends(Entries(doc))[e] + 2 + Ends(Recs(doc[e + 1].val))[r] + n
  /\ arrayObjects = Len(doc[e + 1].val) - r
  /\ ScheduleOf(schedule, doc, e, r) /\ SettingsOf(settings, doc, e)

\* f pairs of that record are done,
InRecord(e, r, f, n) ==
  /\ InArray(e, r, 1 + 2 * f + n)
  /\ f \in 0..(Len(doc[e + 1].val[r + 1]) - 1)
  /\ arrayObjectSize = Len(doc[e + 1].val[r + 1]) - f
  /\ FieldsOf(fields, doc[e + 1].val[r + 1], f)

\* and the key of the next is read.
FieldKeyRead(e, r, f) ==
  /\ InRecord(e, r, f, 1)
  /\ keyFound /\ activeKey = doc[e + 1].val[r + 1][f + 1][1]

\* Nothing is read.
AtStart ==
  /\ i = 0 /\ ~keyFound /\ arrayObjects = 0
  /\ ScheduleOf(schedule, doc, 0, 0) /\ SettingsOf(settings, doc, 0)

\* At every moment it is one of these.
Standing ==
  \/ AtStart
  \/ \E e \in Nat : Between(e)
  \/ \E e \in Nat : KeyRead(e)
  \/ \E e, r \in Nat : InArray(e, r, 0) /\ ~keyFound
  \/ \E e, r, f \in Nat : InRecord(e, r, f, 0) /\ ~keyFound
  \/ \E e, r, f \in Nat : FieldKeyRead(e, r, f)

\* The tokens are those of a well-formed document.
Read == IsDoc(doc) /\ tokens = DocTokens(doc)

\* The invariant: of a well-formed reply, what is made is what is read.
SentInv == doc # <<>> => Read /\ Standing

\* The token of the document's object is skipped.
LEMMA SkipFirst ==
  ASSUME Read, AtStart, Next
  PROVE  Between(0)'
<1>1. DocAt(tokens, doc) /\ Ends(Entries(doc))[0] = 0 /\ Len(doc) \in Nat
  BY DocTokensAt DEF Read, IsDoc
<1>2. token.type = "object"
  BY <1>1 DEF DocAt, token, AtStart
<1>3. Skip /\ NextToken
  BY <1>2, WhichStep DEF AtStart
<1>4. i' = 1 /\ doc' = doc /\ tokens' = tokens
  BY <1>3 DEF NextToken, AtStart
<1>5. UNCHANGED <<keyFound, arrayObjects, schedule, settings>>
  BY <1>3 DEF Skip
<1>6. 0 \in 0..Len(doc') /\ i' = 1 + Ends(Entries(doc'))[0]
  BY <1>1, <1>4
<1> QED
  BY <1>4, <1>5, <1>6 DEF Between, AtStart

\* Between two entries a key is read.
LEMMA ReadKey ==
  ASSUME Read, NEW e \in Nat, Between(e), Next
  PROVE  KeyRead(e)'
<1> DEFINE E == Ends(Entries(doc))
<1>1. NextToken /\ i < Len(tokens)
  BY WhichStep DEF NextToken
<1>2. Len(tokens) = 1 + E[Len(doc)] /\ \A n \in 0..Len(doc) : E[n] \in Nat
  BY DocTokensAt DEF Read
<1>3. e \in 0..(Len(doc) - 1)
  <2>1. e \in 0..Len(doc) /\ i = 1 + E[e] /\ Len(doc) \in Nat
    BY DEF Between, Read, IsDoc
  <2>2. e # Len(doc)
    <3> HIDE DEF E
    <3> QED
      BY <1>1, <1>2, <2>1
  <2> QED
    BY <2>1, <2>2
<1>4. EntryAt(tokens, 1 + E[e], doc[e + 1]) /\ E[e] \in Nat
  BY <1>3, EntryPlace DEF Read
<1>5. KeyAt(tokens, 1 + E[e] + 1, doc[e + 1].key)
  BY <1>4 DEF EntryAt
<1>6. token.type = "string" /\ token.text = doc[e + 1].key
  <2>1. i + 1 = 1 + E[e] + 1
    BY <1>4 DEF Between
  <2> HIDE DEF E
  <2> QED
    BY <1>5, <2>1 DEF KeyAt, token
<1>7. Key
  BY <1>6, WhichStep DEF Between
<1>8. i' = i + 1 /\ doc' = doc
  BY <1>1 DEF NextToken
<1>9. /\ keyFound' /\ activeKey' = doc[e + 1].key
      /\ UNCHANGED <<arrayObjects, schedule, settings>>
  BY <1>6, <1>7 DEF Key
<1>10. i' = 1 + Ends(Entries(doc'))[e] + 1
  BY <1>4, <1>8 DEF Between
<1> QED
  BY <1>3, <1>8, <1>9, <1>10 DEF KeyRead, Between

\* A value of the document's own: it ends the entry, but for the array's.
LEMMA ReadTopValue ==
  ASSUME Read, NEW e \in Nat, KeyRead(e), Next
  PROVE  Between(e + 1)' \/ (InArray(e, 0, 0) /\ ~keyFound)'
<1> DEFINE E == Ends(Entries(doc))
           x == doc[e + 1]
           R == Ends(Recs(x.val))
<1>1. /\ EntryAt(tokens, 1 + E[e], x) /\ E[e] \in Nat
      /\ E[e + 1] = E[e] + Length(x)
      /\ IsEntry(x) /\ e + 1 \in 0..Len(doc) /\ e \in 0..(Len(doc) - 1)
  BY EntryPlace DEF Read, KeyRead
<1>2. i = 1 + E[e] + 1 /\ keyFound /\ activeKey = x.key /\ arrayObjects = 0
  BY DEF KeyRead
<1>3. /\ ScheduleOf(schedule, doc, e, 0) /\ SettingsOf(settings, doc, e)
      /\ IsDoc(doc)
  BY DEF KeyRead, Read
<1>4. TopValue /\ NextToken
  BY <1>2, WhichStep
<1>5. /\ i' = i + 1 /\ doc' = doc /\ ~keyFound' /\ schedule' = schedule
  BY <1>4 DEF TopValue, NextToken
<1>6. token = tokens[1 + E[e] + 2]
  <2>1. i + 1 = 1 + E[e] + 2
    BY <1>1, <1>2
  <2> HIDE DEF E
  <2> QED
    BY ONLY <2>1 DEF token
<1>7. ASSUME SettingsOf(settings', doc, e + 1), Records(x) = 0, arrayObjects' = 0,
             Length(x) = 2
      PROVE  Between(e + 1)'
  <2>1. ScheduleOf(schedule, doc, e + 1, 0)
    <3>1. ScheduleOf(schedule, doc, e, Records(x))
      BY ONLY <1>3, <1>7
    <3> HIDE DEF x
    <3> QED
      BY ONLY <1>1, <1>3, <3>1, ScheduleEntry DEF x
  <2>2. i' = 1 + E[e + 1]
    <3> HIDE DEF E, x
    <3> QED
      BY ONLY <1>1, <1>2, <1>5, <1>7
  <2> QED
    BY <1>1, <1>5, <1>7, <2>1, <2>2 DEF Between
<1>8. CASE x.key # "currentSchedule"
  <2>1. ValueAt(tokens, 1 + E[e] + 2, x.val)
    BY <1>1, <1>8 DEF EntryAt
  <2>2. token.type # "array" /\ token.text = x.val
    <3> HIDE DEF E, x
    <3> QED
      BY ONLY <1>6, <2>1 DEF ValueAt
  <2>3. settings' = WithSetting(activeKey, token.text) /\ arrayObjects' = 0
    BY <1>4, <2>2 DEF TopValue
  <2>4. settings' = IF x.key \in DOMAIN Defaults
                      THEN [settings EXCEPT ![x.key] = SettingOf(x.key, x.val)]
                      ELSE settings
    <3>1. settings' = WithSetting(x.key, x.val)
      BY ONLY <1>2, <2>2, <2>3
    <3> DEFINE k == x.key
               t == x.val
    <3> HIDE DEF k, t
    <3>2. DOMAIN Defaults = {"systemTime", "serverReconnectPeriod", "beaconUUID"}
      BY DEF Defaults
    <3>3. settings' = WithSetting(k, t)
      BY ONLY <3>1 DEF k, t
    <3>4. settings' = IF k \in DOMAIN Defaults
                        THEN [settings EXCEPT ![k] = SettingOf(k, t)] ELSE settings
      BY ONLY <3>2, <3>3 DEF WithSetting, SettingOf
    <3> QED
      BY ONLY <3>4 DEF k, t
  <2>5. SettingsOf(settings', doc, e + 1)
    BY ONLY <1>3, <2>4, e \in Nat, SettingsNext DEF x
  <2>6. Records(x) = 0 /\ Length(x) = 2
    BY <1>8 DEF Records, Length
  <2> QED
    BY <1>7, <2>3, <2>5, <2>6
<1>9. CASE x.key = "currentSchedule"
  <2>1. SizeAt(tokens, 1 + E[e] + 2, "array", Len(x.val))
    BY <1>1, <1>9 DEF EntryAt, ScheduleAt
  <2>2. token.type = "array" /\ token.size = Len(x.val)
    <3> HIDE DEF E, x
    <3> QED
      BY ONLY <1>6, <2>1 DEF SizeAt
  <2>3. settings' = settings /\ arrayObjects' = Len(x.val)
    BY <1>2, <1>4, <1>9, <2>2 DEF TopValue
  <2>4. x.val \in Seq(Seq(Text \X Text)) /\ R[0] = 0 /\ Len(x.val) \in Nat
    <3>1. x.val \in Seq(Seq(Text \X Text))
      BY <1>1, <1>9 DEF IsEntry
    <3>2. Len(x.val) \in Nat
      BY ONLY <3>1
    <3> QED
      BY ONLY <3>1, <3>2, RecsEnds
  <2>5. CASE Len(x.val) = 0
    <3>1. x.key \notin DOMAIN Defaults
      BY <1>9 DEF Defaults
    <3>2. settings' = IF x.key \in DOMAIN Defaults
                        THEN [settings EXCEPT ![x.key] = SettingOf(x.key, x.val)]
                        ELSE settings
      BY ONLY <2>3, <3>1
    <3>3. SettingsOf(settings', doc, e + 1)
      BY ONLY <1>3, <3>2, e \in Nat, SettingsNext DEF x
    <3>4. Records(x) = 0 /\ Length(x) = 2
      BY <1>9, <2>4, <2>5 DEF Records, Length
    <3> QED
      BY <1>7, <2>3, <2>5, <3>3, <3>4
  <2>6. CASE Len(x.val) # 0
    <3>1. 0 \in 0..(Len(x.val) - 1) /\ Len(x.val) - 0 = Len(x.val)
      BY <2>4, <2>6
    <3>2. i' = 1 + E[e] + 2 + R[0] + 0
      <4> HIDE DEF E, R
      <4> QED
        BY ONLY <1>1, <1>2, <1>5, <2>4
    <3> QED
      BY <1>1, <1>3, <1>5, <1>9, <2>3, <3>1, <3>2 DEF InArray
  <2> QED
    BY <2>5, <2>6
<1> QED
  BY <1>8, <1>9

\* A record begins.
LEMMA ReadRecord ==
  ASSUME Read, NEW e \in Nat, NEW r \in Nat, InArray(e, r, 0), ~keyFound, Next
  PROVE  (InRecord(e, r, 0, 0) /\ ~keyFound)'
<1> DEFINE E == Ends(Entries(doc))
           x == doc[e + 1]
           R == Ends(Recs(x.val))
           rec == x.val[r + 1]
<1>1. /\ EntryAt(tokens, 1 + E[e], x) /\ E[e] \in Nat
      /\ IsEntry(x) /\ e \in 0..(Len(doc) - 1)
  BY EntryPlace DEF Read, InArray
<1>2. /\ x.key = "currentSchedule" /\ r \in 0..(Len(x.val) - 1)
      /\ i = 1 + E[e] + 2 + R[r] + 0 /\ arrayObjects = Len(x.val) - r
  BY DEF InArray
<1>3. ScheduleOf(schedule, doc, e, r) /\ SettingsOf(settings, doc, e)
  BY DEF InArray
<1>4. /\ RecordAt(tokens, 1 + E[e] + 2 + R[r], rec)
      /\ R[r] \in Nat /\ Len(rec) \in Nat /\ Len(rec) > 0 /\ Len(x.val) \in Nat
  <2>1. 1 + E[e] \in Nat
    BY <1>1
  <2> HIDE DEF x
  <2> QED
    BY ONLY <1>1, <1>2, <2>1, RecordPlace
<1>5. SizeAt(tokens, 1 + E[e] + 2 + R[r] + 1, "object", 2 * Len(rec))
  BY <1>4 DEF RecordAt
<1>6. token.type = "object" /\ token.size = 2 * Len(rec)
  <2> HIDE DEF E, R, rec
  <2>1. i + 1 = 1 + E[e] + 2 + R[r] + 1
    BY ONLY <1>1, <1>2, <1>4
  <2> QED
    BY ONLY <1>5, <2>1 DEF SizeAt, token
<1>7. arrayObjects > 0
  BY <1>2, <1>4
<1>8. ArrayObject /\ NextToken
  BY <1>6, <1>7, WhichStep
<1>9. /\ i' = i + 1 /\ doc' = doc /\ ~keyFound'
      /\ arrayObjectSize' = token.size \div 2
      /\ UNCHANGED <<arrayObjects, fields, schedule, settings>>
  BY <1>8 DEF ArrayObject, NextToken
<1>10. arrayObjectSize' = Len(rec) - 0 /\ 0 \in 0..(Len(rec) - 1)
  <2> DEFINE n == Len(rec)
  <2> HIDE DEF n
  <2>1. n \in Nat /\ n > 0 /\ token.size = 2 * n
    BY ONLY <1>4, <1>6 DEF n
  <2>2. (2 * n) \div 2 = n - 0 /\ 0 \in 0..(n - 1)
    BY ONLY <2>1
  <2> QED
    BY ONLY <1>9, <2>1, <2>2 DEF n
<1>11. i' = 1 + E[e] + 2 + R[r] + (1 + 2 * 0 + 0)
  <2> HIDE DEF E, R
  <2> QED
    BY ONLY <1>1, <1>2, <1>4, <1>9
<1>12. FieldsOf(fields, rec, 0)
  BY DEF FieldsOf
<1>13. InArray(e, r, 1 + 2 * 0 + 0)'
  BY <1>1, <1>2, <1>3, <1>9, <1>11 DEF InArray
<1> QED
  BY <1>9, <1>10, <1>12, <1>13 DEF InRecord

\* The key of a field
LEMMA ReadFieldKey ==
  ASSUME Read, NEW e \in Nat, NEW r \in Nat, NEW f \in Nat,
         InRecord(e, r, f, 0), ~keyFound, Next
  PROVE  FieldKeyRead(e, r, f)'
<1> DEFINE E == Ends(Entries(doc))
           x == doc[e + 1]
           R == Ends(Recs(x.val))
           rec == x.val[r + 1]
<1>1. /\ EntryAt(tokens, 1 + E[e], x) /\ E[e] \in Nat
      /\ IsEntry(x) /\ e \in 0..(Len(doc) - 1)
  BY EntryPlace DEF Read, InRecord, InArray
<1>2. /\ x.key = "currentSchedule" /\ r \in 0..(Len(x.val) - 1)
      /\ i = 1 + E[e] + 2 + R[r] + (1 + 2 * f + 0)
      /\ arrayObjects = Len(x.val) - r
  BY DEF InRecord, InArray
<1>3. ScheduleOf(schedule, doc, e, r) /\ SettingsOf(settings, doc, e)
  BY DEF InRecord, InArray
<1>4. /\ f \in 0..(Len(rec) - 1) /\ arrayObjectSize = Len(rec) - f
      /\ FieldsOf(fields, rec, f)
  BY DEF InRecord
<1>5. /\ RecordAt(tokens, 1 + E[e] + 2 + R[r], rec)
      /\ R[r] \in Nat /\ Len(rec) \in Nat
  <2>1. 1 + E[e] \in Nat
    BY <1>1
  <2> HIDE DEF x
  <2> QED
    BY ONLY <1>1, <1>2, <2>1, RecordPlace
<1>6. KeyAt(tokens, 1 + E[e] + 2 + R[r] + 2 * (f + 1), rec[f + 1][1])
  <2>1. f + 1 \in 1..Len(rec)
    BY <1>4, <1>5
  <2> HIDE DEF rec
  <2> QED
    BY <1>5, <2>1 DEF RecordAt
<1>7. token.type = "string" /\ token.text = rec[f + 1][1]
  <2> HIDE DEF E, R, rec
  <2>1. i + 1 = 1 + E[e] + 2 + R[r] + 2 * (f + 1)
    <3> DEFINE a == E[e]
               b == R[r]
    <3>1. a \in Nat /\ b \in Nat /\ i = 1 + a + 2 + b + (1 + 2 * f + 0)
      BY ONLY <1>1, <1>2, <1>5
    <3> HIDE DEF a, b
    <3>2. i + 1 = 1 + a + 2 + b + 2 * (f + 1)
      BY ONLY <3>1, f \in Nat
    <3> QED
      BY ONLY <3>2 DEF a, b
  <2> QED
    BY ONLY <1>6, <2>1 DEF KeyAt, token
<1>8. Key /\ NextToken
  BY <1>7, WhichStep
<1>9. /\ i' = i + 1 /\ doc' = doc /\ keyFound' /\ activeKey' = rec[f + 1][1]
      /\ UNCHANGED <<arrayObjects, arrayObjectSize, fields, schedule, settings>>
  BY <1>7, <1>8 DEF Key, NextToken
<1>10. i' = 1 + E[e] + 2 + R[r] + (1 + 2 * f + 1)
  <2> DEFINE a == E[e]
             b == R[r]
  <2>1. a \in Nat /\ b \in Nat /\ i = 1 + a + 2 + b + (1 + 2 * f + 0) /\ i' = i + 1
    BY <1>1, <1>2, <1>5, <1>9
  <2> HIDE DEF a, b
  <2>2. i' = 1 + a + 2 + b + (1 + 2 * f + 1)
    BY ONLY <2>1, f \in Nat
  <2> QED
    BY ONLY <2>2 DEF a, b
<1>11. InArray(e, r, 1 + 2 * f + 1)'
  BY <1>1, <1>2, <1>3, <1>9, <1>10 DEF InArray
<1> QED
  BY <1>4, <1>9, <1>11 DEF FieldKeyRead, InRecord

\* A value of a record: the next pair's turn, the next record's, or the end
\* of the array.
LEMMA ReadFieldValue ==
  ASSUME Read, fields \in [Field -> Int],
         NEW e \in Nat, NEW r \in Nat, NEW f \in Nat, FieldKeyRead(e, r, f), Next
  PROVE  \/ (InRecord(e, r, f + 1, 0) /\ ~keyFound)'
         \/ (InArray(e, r + 1, 0) /\ ~keyFound)'
         \/ Between(e + 1)'
<1> DEFINE E == Ends(Entries(doc))
           x == doc[e + 1]
           R == Ends(Recs(x.val))
           rec == x.val[r + 1]
           N == Len(rec)
           V == Len(x.val)
<1>1. /\ EntryAt(tokens, 1 + E[e], x) /\ E[e] \in Nat
      /\ E[e + 1] = E[e] + Length(x)
      /\ IsEntry(x) /\ e \in 0..(Len(doc) - 1) /\ e + 1 \in 0..Len(doc)
  BY EntryPlace DEF Read, FieldKeyRead, InRecord, InArray
<1>2. /\ x.key = "currentSchedule" /\ r \in 0..(V - 1)
      /\ i = 1 + E[e] + 2 + R[r] + (1 + 2 * f + 1)
      /\ arrayObjects = V - r
      /\ keyFound /\ activeKey = rec[f + 1][1]
  BY DEF FieldKeyRead, InRecord, InArray
<1>3. /\ ScheduleOf(schedule, doc, e, r) /\ SettingsOf(settings, doc, e)
      /\ IsDoc(doc)
  BY DEF FieldKeyRead, InRecord, InArray, Read
<1>4. /\ f \in 0..(N - 1) /\ arrayObjectSize = N - f
      /\ FieldsOf(fields, rec, f)
  BY DEF FieldKeyRead, InRecord
<1>5. /\ RecordAt(tokens, 1 + E[e] + 2 + R[r], rec)
      /\ R[r] \in Nat /\ N \in Nat /\ V \in Nat
      /\ R[r + 1] = R[r] + 1 + 2 * N
      /\ rec \in Seq(Text \X Text) /\ IsRecord(rec)
  <2>1. 1 + E[e] \in Nat
    BY <1>1
  <2> HIDE DEF x
  <2> QED
    BY ONLY <1>1, <1>2, <2>1, RecordPlace
<1>6. ValueAt(tokens, 1 + E[e] + 2 + R[r] + 2 * (f + 1) + 1, rec[f + 1][2])
  <2>1. f + 1 \in 1..Len(rec)
    BY <1>4, <1>5
  <2> HIDE DEF rec
  <2> QED
    BY <1>5, <2>1 DEF RecordAt
<1>7. token.type # "object" /\ token.text = rec[f + 1][2]
  <2>1. i + 1 = 1 + E[e] + 2 + R[r] + 2 * (f + 1) + 1
    <3> DEFINE a == E[e]
               b == R[r]
    <3>1. a \in Nat /\ b \in Nat /\ i = 1 + a + 2 + b + (1 + 2 * f + 1)
      BY ONLY <1>1, <1>2, <1>5
    <3> HIDE DEF a, b
    <3>2. i + 1 = 1 + a + 2 + b + 2 * (f + 1) + 1
      BY ONLY <3>1, f \in Nat
    <3> QED
      BY ONLY <3>2 DEF a, b
  <2> HIDE DEF E, R, rec
  <2> QED
    BY ONLY <1>6, <2>1 DEF ValueAt, token
<1>8. ArrayValue /\ NextToken
  <2>1. arrayObjects > 0
    BY <1>2, <1>5
  <2> QED
    BY <1>2, <1>7, <2>1, WhichStep
<1>9. /\ i' = i + 1 /\ doc' = doc /\ ~keyFound' /\ settings' = settings
      /\ arrayObjectSize' = arrayObjectSize - 1
      /\ arrayObjects' = IF arrayObjectSize' = 0 THEN arrayObjects - 1
                                                 ELSE arrayObjects
      /\ fields' = WithField(activeKey, token.text)
      /\ schedule' = IF arrayObjectSize' = 0
                       THEN Append(schedule, RecordOf(fields')) ELSE schedule
  BY <1>8 DEF ArrayValue, NextToken
<1>10. FieldsOf(fields', rec, f + 1)
  <2> DEFINE k == rec[f + 1][1]
             t == rec[f + 1][2]
             g == fields'
  <2>1. g = WithField(k, t)
    BY ONLY <1>2, <1>7, <1>9
  <2> HIDE DEF k, t, g
  <2>2. g = IF k \in Field THEN [fields EXCEPT ![k] = FieldOf(k, t)] ELSE fields
    BY ONLY <2>1 DEF WithField, FieldOf
  <2> HIDE DEF rec
  <2>3. FieldsOf(g, rec, f + 1)
    BY ONLY <1>4, <2>2, f \in Nat, fields \in [Field -> Int], FieldsNext DEF k, t
  <2> QED
    BY ONLY <2>3 DEF g
<1>11. CASE f + 1 # N
  <2>1. f + 1 \in 0..(N - 1) /\ arrayObjectSize' = N - (f + 1) /\ N - (f + 1) # 0
    <3> HIDE DEF N
    <3> QED
      BY ONLY <1>4, <1>5, <1>9, <1>11
  <2>2. arrayObjects' = V - r /\ schedule' = schedule
    BY ONLY <1>2, <1>9, <2>1
  <2>3. i' = 1 + E[e] + 2 + R[r] + (1 + 2 * (f + 1) + 0)
    <3> DEFINE a == E[e]
               b == R[r]
    <3>1. a \in Nat /\ b \in Nat /\ i = 1 + a + 2 + b + (1 + 2 * f + 1) /\ i' = i + 1
      BY ONLY <1>1, <1>2, <1>5, <1>9
    <3> HIDE DEF a, b
    <3>2. i' = 1 + a + 2 + b + (1 + 2 * (f + 1) + 0)
      BY ONLY <3>1, f \in Nat
    <3> QED
      BY ONLY <3>2 DEF a, b
  <2>4. InArray(e, r, 1 + 2 * (f + 1) + 0)'
    BY <1>1, <1>2, <1>3, <1>9, <2>2, <2>3 DEF InArray
  <2> QED
    BY <1>9, <1>10, <2>1, <2>4 DEF InRecord
<1>12. CASE f + 1 = N
  <2>1. arrayObjectSize' = 0
    <3> HIDE DEF N
    <3> QED
      BY ONLY <1>4, <1>5, <1>9, <1>12
  <2>2. arrayObjects' = V - (r + 1)
    <3> HIDE DEF V
    <3>1. arrayObjects' = arrayObjects - 1
      BY ONLY <1>9, <2>1
    <3> QED
      BY ONLY <1>2, <1>5, <3>1, r \in Nat
  <2>3. schedule' = Append(schedule, MeantRecord(rec))
    <3>1. RecordOf(fields') = MeantRecord(rec)
      <4> DEFINE g == fields'
      <4>1. FieldsOf(g, rec, Len(rec))
        BY <1>10, <1>12
      <4> HIDE DEF g, rec
      <4>2. RecordOf(g) = MeantRecord(rec)
        BY ONLY <1>5, <4>1, RecordIsMeant
      <4> QED
        BY ONLY <4>2 DEF g
    <3> QED
      BY ONLY <1>9, <2>1, <3>1
  <2>4. ScheduleOf(schedule', doc, e, r + 1)
    <3>1. ScheduleOf(Append(schedule, MeantRecord(rec)), doc, e, r + 1)
      BY ONLY <1>1, <1>2, <1>3, ScheduleNext DEF rec, x, V
    <3> QED
      BY ONLY <2>3, <3>1
  <2>5. i' = 1 + E[e] + 2 + R[r + 1]
    <3> DEFINE a == E[e]
               b == R[r]
               c == R[r + 1]
    <3>1. /\ a \in Nat /\ b \in Nat /\ i = 1 + a + 2 + b + (1 + 2 * f + 1)
          /\ i' = i + 1 /\ c = b + 1 + 2 * N
      BY ONLY <1>1, <1>2, <1>5, <1>9
    <3> HIDE DEF a, b, c, N
    <3>2. i' = 1 + a + 2 + c
      BY ONLY <1>12, <3>1, f \in Nat
    <3> QED
      BY ONLY <3>2 DEF a, c
  <2>6. R[r + 1] \in Nat
    <3> DEFINE b == R[r]
               c == R[r + 1]
    <3>1. b \in Nat /\ N \in Nat /\ c = b + 1 + 2 * N
      BY ONLY <1>5
    <3> HIDE DEF b, c, N
    <3>2. c \in Nat
      BY ONLY <3>1
    <3> QED
      BY ONLY <3>2 DEF c
  <2>7. CASE r + 1 # V
    <3>1. r + 1 \in 0..(V - 1)
      <4> HIDE DEF V
      <4> QED
        BY ONLY <1>2, <1>5, <2>7
    <3>2. i' = 1 + E[e] + 2 + R[r + 1] + 0
      BY <1>1, <2>5, <2>6
    <3>3. InArray(e, r + 1, 0)'
      BY <1>1, <1>2, <1>3, <1>9, <2>2, <2>4, <3>1, <3>2 DEF InArray
    <3> QED
      BY <1>9, <3>3
  <2>8. CASE r + 1 = V
    <3>1. Records(x) = r + 1 /\ Length(x) = 2 + R[r + 1]
      BY <1>2, <2>8 DEF Records, Length
    <3>2. ScheduleOf(schedule', doc, e + 1, 0)
      <4>1. ScheduleOf(schedule', doc, e, Records(x))
        BY ONLY <2>4, <3>1
      <4> HIDE DEF x
      <4> QED
        BY ONLY <1>1, <1>3, <4>1, ScheduleEntry DEF x
    <3>3. SettingsOf(settings', doc, e + 1)
      <4>1. x.key \notin DOMAIN Defaults
        BY <1>2 DEF Defaults
      <4>2. settings' = IF x.key \in DOMAIN Defaults
                          THEN [settings EXCEPT ![x.key] = SettingOf(x.key, x.val)]
                          ELSE settings
        BY ONLY <1>9, <4>1
      <4> QED
        BY ONLY <1>3, <4>2, e \in Nat, SettingsNext DEF x
    <3>4. i' = 1 + E[e + 1] /\ arrayObjects' = 0
      <4> DEFINE a == E[e]
                 b == E[e + 1]
                 c == R[r + 1]
      <4>1. a \in Nat /\ c \in Nat /\ i' = 1 + a + 2 + c /\ b = a + (2 + c)
        BY ONLY <1>1, <2>5, <2>6, <3>1
      <4> HIDE DEF a, b, c
      <4>2. i' = 1 + b
        BY ONLY <4>1
      <4> HIDE DEF V
      <4>3. arrayObjects' = 0
        BY ONLY <1>5, <2>2, <2>8
      <4> QED
        BY ONLY <4>2, <4>3 DEF b
    <3> QED
      BY <1>1, <1>9, <3>2, <3>3, <3>4 DEF Between
  <2> QED
    BY <2>7, <2>8
<1> QED
  BY <1>11, <1>12

\* It holds at the call,
LEMMA InitSent == Init => SentInv
<1> SUFFICES ASSUME Init, doc # <<>> PROVE Read /\ Standing
  BY DEF SentInv
<1>1. PICK d \in Docs : tokens = DocTokens(d) /\ doc = d
  BY DEF Init
<1>2. IsDoc(doc)
  BY <1>1, DocsAssumption DEF IsDoc
<1>3. i = 0 /\ ~keyFound /\ arrayObjects = 0 /\ schedule = <<>> /\ settings = Defaults
  BY DEF Init
<1>4. ScheduleOf(schedule, doc, 0, 0)
  <2>1. Ends(MeantBy(doc))[0] = 0
    BY <1>2, MeantAt
  <2>2. schedule \in Seq(MeantSet) /\ Len(schedule) = 0
    BY <1>3
  <2> QED
    BY ONLY <2>1, <2>2 DEF ScheduleOf
<1>5. SettingsOf(settings, doc, 0)
  <2>1. Defaults = [k \in DOMAIN Defaults |-> Defaults[k]]
    BY DEF Defaults
  <2>2. 1..0 = {}
    OBVIOUS
  <2> QED
    BY ONLY <1>3, <2>1, <2>2 DEF SettingsOf
<1> QED
  BY <1>1, <1>2, <1>3, <1>4, <1>5 DEF Read, Standing, AtStart

\* and each token read keeps it.
LEMMA NextSent == IInv /\ SentInv /\ [Next]_vars => SentInv'
<1> SUFFICES ASSUME IInv, SentInv, [Next]_vars, doc' # <<>>
             PROVE  (Read /\ Standing)'
  BY DEF SentInv
<1>1. CASE UNCHANGED vars
  <2>1. Read /\ Standing
    BY <1>1 DEF SentInv, vars
  <2> QED
    BY <1>1, <2>1 DEF Read, Standing, AtStart, Between, KeyRead, InArray, InRecord,
      FieldKeyRead, vars
<1>2. CASE Next
  <2>1. tokens' = tokens /\ doc' = doc
    BY <1>2, WhichStep DEF NextToken
  <2>2. Read /\ Standing
    BY <2>1 DEF SentInv
  <2>3. Read'
    BY <2>1, <2>2 DEF Read
  <2>4. fields \in [Field -> Int]
    BY DEF IInv
  <2>5. CASE AtStart
    <3>1. Between(0)'
      BY <1>2, <2>2, <2>5, SkipFirst
    <3> QED
      BY <2>3, <3>1 DEF Standing
  <2>6. ASSUME NEW e \in Nat, Between(e) PROVE Standing'
    BY <1>2, <2>2, <2>6, ReadKey DEF Standing
  <2>7. ASSUME NEW e \in Nat, KeyRead(e) PROVE Standing'
    <3>1. Between(e + 1)' \/ (InArray(e, 0, 0) /\ ~keyFound)'
      BY <1>2, <2>2, <2>7, ReadTopValue
    <3>2. e + 1 \in Nat /\ 0 \in Nat
      OBVIOUS
    <3> QED
      BY <3>1, <3>2, <2>7 DEF Standing
  <2>8. ASSUME NEW e \in Nat, NEW r \in Nat, InArray(e, r, 0), ~keyFound
        PROVE  Standing'
    <3>1. (InRecord(e, r, 0, 0) /\ ~keyFound)'
      BY <1>2, <2>2, <2>8, ReadRecord
    <3> QED
      BY <3>1, <2>8 DEF Standing
  <2>9. ASSUME NEW e \in Nat, NEW r \in Nat, NEW f \in Nat, InRecord(e, r, f, 0),
               ~keyFound
        PROVE  Standing'
    BY <1>2, <2>2, <2>9, ReadFieldKey DEF Standing
  <2>10. ASSUME NEW e \in Nat, NEW r \in Nat, NEW f \in Nat, FieldKeyRead(e, r, f)
         PROVE  Standing'
    <3>1. \/ (InRecord(e, r, f + 1, 0) /\ ~keyFound)'
          \/ (InArray(e, r + 1, 0) /\ ~keyFound)'
          \/ Between(e + 1)'
      BY <1>2, <2>2, <2>4, <2>10, ReadFieldValue
    <3>2. e + 1 \in Nat /\ r + 1 \in Nat /\ f + 1 \in Nat
      OBVIOUS
    <3> QED
      BY <3>1, <3>2, <2>10 DEF Standing
  <2>11. Standing'
    BY <2>2, <2>5, <2>6, <2>7, <2>8, <2>9, <2>10 DEF Standing
  <2> QED
    BY <2>3, <2>11
<1> QED
  BY <1>1, <1>2

\* An entry not done leaves at least its value's token,
LEMMA EntryLeft ==
  ASSUME IsDoc(doc), NEW e \in 0..(Len(doc) - 1)
  PROVE  1 + Ends(Entries(doc))[e] + 1 < Len(DocTokens(doc))
<1> DEFINE E == Ends(Entries(doc))
           x == doc[e + 1]
           a == E[e]
           b == E[e + 1]
           c == E[Len(doc)]
           n == Length(x)
<1>1. /\ a \in Nat /\ c \in Nat /\ b = a + n /\ b <= c
      /\ Len(DocTokens(doc)) = 1 + c /\ IsEntry(x)
  BY EntryPlace
<1>2. n \in Nat /\ n >= 2
  <2>1. CASE x.key = "currentSchedule"
    <3> DEFINE v == x.val
               R == Ends(Recs(v))[Len(v)]
    <3>1. v \in Seq(Seq(Text \X Text))
      BY <1>1, <2>1 DEF IsEntry
    <3>2. n = 2 + R
      BY <2>1 DEF Length
    <3> HIDE DEF v, n
    <3>3. Len(v) \in 0..Len(v)
      BY ONLY <3>1
    <3>4. R \in Nat
      BY ONLY <3>1, <3>3, RecsEnds
    <3> HIDE DEF R
    <3> QED
      BY ONLY <3>2, <3>4
  <2>2. CASE x.key # "currentSchedule"
    BY <2>2 DEF Length
  <2> QED
    BY <2>1, <2>2
<1> HIDE DEF a, b, c, n
<1>3. 1 + a + 1 < Len(DocTokens(doc))
  BY ONLY <1>1, <1>2
<1> QED
  BY ONLY <1>3 DEF a

\* and a record not done its last.
LEMMA RecordLeft ==
  ASSUME Read, NEW e \in Nat, NEW r \in Nat, NEW n \in Nat, InArray(e, r, n),
         n <= 2 * Len(doc[e + 1].val[r + 1])
  PROVE  i < Len(tokens)
<1> DEFINE E == Ends(Entries(doc))
           x == doc[e + 1]
           R == Ends(Recs(x.val))
           V == Len(x.val)
           l == Len(x.val[r + 1])
<1>1. /\ EntryAt(tokens, 1 + E[e], x) /\ E[e] \in Nat
      /\ E[e + 1] = E[e] + Length(x) /\ E[e + 1] <= E[Len(doc)]
      /\ Len(tokens) = 1 + E[Len(doc)] /\ E[Len(doc)] \in Nat
      /\ IsEntry(x)
  BY EntryPlace DEF Read, InArray
<1>2. /\ x.key = "currentSchedule" /\ r \in 0..(V - 1)
      /\ i = 1 + E[e] + 2 + R[r] + n
  BY DEF InArray
<1>3. /\ R[r] \in Nat /\ l \in Nat /\ V \in Nat
      /\ R[r + 1] = R[r] + 1 + 2 * l /\ R[r + 1] <= R[V]
  <2>1. 1 + E[e] \in Nat
    BY <1>1
  <2> HIDE DEF x
  <2> QED
    BY ONLY <1>1, <1>2, <2>1, RecordPlace
<1>4. R[V] \in Nat /\ Length(x) = 2 + R[V]
  <2>1. Length(x) = 2 + R[V]
    BY <1>2 DEF Length
  <2> DEFINE v == x.val
  <2>2. v \in Seq(Seq(Text \X Text))
    BY <1>1, <1>2 DEF IsEntry
  <2> HIDE DEF v
  <2>3. Len(v) \in 0..Len(v)
    BY ONLY <2>2
  <2>4. Ends(Recs(v))[Len(v)] \in Nat
    BY ONLY <2>2, <2>3, RecsEnds
  <2> QED
    BY ONLY <2>1, <2>4 DEF v
<1>5. n <= 2 * l
  OBVIOUS
<1> DEFINE a == E[e]
           b == E[e + 1]
           c == E[Len(doc)]
           t == Len(tokens)
           u == R[r]
           w == R[r + 1]
           z == R[V]
<1>6. /\ a \in Nat /\ c \in Nat /\ u \in Nat /\ z \in Nat /\ l \in Nat
      /\ b = a + (2 + z) /\ b <= c /\ t = 1 + c
      /\ i = 1 + a + 2 + u + n
      /\ w = u + 1 + 2 * l /\ w <= z
  BY ONLY <1>1, <1>2, <1>3, <1>4
<1> HIDE DEF a, b, c, t, u, w, z, l
<1>7. i < t
  BY ONLY <1>5, <1>6, n \in Nat
<1> QED
  BY ONLY <1>7 DEF t

\* At the last token all entries are done.
LEMMA EndsBetween ==
  ASSUME Read, Standing, i = Len(tokens)
  PROVE  Between(Len(doc))
<1> DEFINE E == Ends(Entries(doc))
           N == Len(doc)
<1>1. /\ Len(tokens) = 1 + E[N] /\ N \in Nat /\ E[N] \in Nat
  <2>1. N \in Nat /\ IsDoc(doc) /\ tokens = DocTokens(doc)
    BY DEF Read, IsDoc
  <2>2. N \in 0..N
    BY <2>1
  <2> HIDE DEF N
  <2> QED
    BY ONLY <2>1, <2>2, DocTokensAt DEF N
<1>2. ~(i < Len(tokens))
  BY <1>1
<1>3. \A e \in 0..(N - 1) : 1 + E[e] + 1 < Len(tokens) /\ E[e] \in Nat
  BY EntryLeft, EntryPlace DEF Read
<1>4. ~AtStart
  BY <1>1, <1>2 DEF AtStart
<1>5. ASSUME NEW e \in Nat PROVE ~KeyRead(e)
  BY <1>2, <1>3 DEF KeyRead
<1>6. ASSUME NEW e \in Nat, Between(e) PROVE e = N
  <2> SUFFICES ASSUME e # N PROVE FALSE
    OBVIOUS
  <2>1. e \in 0..(N - 1) /\ i = 1 + E[e]
    BY <1>1, <1>6 DEF Between
  <2>2. 1 + E[e] + 1 < Len(tokens) /\ E[e] \in Nat
    BY ONLY <1>3, <2>1
  <2> HIDE DEF E
  <2> QED
    BY <1>1, <1>2, <2>1, <2>2
<1>7. ASSUME NEW e \in Nat, NEW r \in Nat PROVE ~InArray(e, r, 0)
  <2> SUFFICES ASSUME InArray(e, r, 0) PROVE FALSE
    OBVIOUS
  <2>1. Len(doc[e + 1].val[r + 1]) \in Nat
    BY EntryPlace, RecordPlace DEF Read, InArray
  <2>2. 0 <= 2 * Len(doc[e + 1].val[r + 1]) /\ 0 \in Nat
    BY <2>1
  <2> QED
    BY <1>2, <2>2, RecordLeft
<1>8. ASSUME NEW e \in Nat, NEW r \in Nat, NEW f \in Nat, NEW k \in {0, 1}
      PROVE  ~InRecord(e, r, f, k)
  <2> SUFFICES ASSUME InRecord(e, r, f, k) PROVE FALSE
    OBVIOUS
  <2> DEFINE l == Len(doc[e + 1].val[r + 1])
             n == 1 + 2 * f + k
  <2>1. InArray(e, r, n)
    BY DEF InRecord
  <2>2. f \in 0..(l - 1)
    BY DEF InRecord
  <2> HIDE DEF n
  <2>3. l \in Nat
    BY <2>1, EntryPlace, RecordPlace DEF Read, InArray
  <2> HIDE DEF l
  <2>4. n \in Nat /\ n <= 2 * l
    BY ONLY <2>2, <2>3, f \in Nat, k \in {0, 1} DEF n
  <2>5. i < Len(tokens)
    BY <2>1, <2>4, RecordLeft DEF l
  <2> QED
    BY <1>2, <2>5
<1>9. \A e, r, f \in Nat : ~InRecord(e, r, f, 0) /\ ~FieldKeyRead(e, r, f)
  BY <1>8 DEF FieldKeyRead
<1>10. \E e \in Nat : Between(e)
  BY <1>4, <1>5, <1>7, <1>9 DEF Standing
<1> QED
  BY <1>6, <1>10

\* parseJSONObject makes of every well-formed reply that fits into tokenArray
\* the schedule and the settings the reply gives, however long it is and in
\* whatever order it has them (backend_connection.c).
THEOREM ParserParsedAsSent == Spec => []ParsedAsSent
<1>1. SentInv => ParsedAsSent
  <2> SUFFICES ASSUME SentInv, i = Len(tokens), doc # <<>>
               PROVE  schedule = Meant(doc) /\ settings = MeantSettings(doc)
    BY DEF ParsedAsSent
  <2>1. Read /\ Between(Len(doc))
    BY EndsBetween DEF SentInv
  <2>2. settings = MeantSettings(doc)
    BY <2>1, SettingsAreMeant DEF Read, Between
  <2>3. schedule = Meant(doc)
    <3>1. /\ schedule \in Seq(MeantSet) /\ Len(schedule) = Ends(MeantBy(doc))[Len(doc)] + 0
          /\ \A n \in 1..Len(schedule) : schedule[n] = Meant(doc)[n]
      BY <2>1 DEF Between, ScheduleOf
    <3>2. /\ Meant(doc) \in Seq(MeantSet)
          /\ Len(Meant(doc)) = Ends(MeantBy(doc))[Len(doc)]
      BY <2>1, MeantAt DEF Read
    <3> DEFINE m == Meant(doc)
               n == Ends(MeantBy(doc))[Len(doc)]
    <3>3. /\ m \in Seq(MeantSet) /\ schedule \in Seq(MeantSet)
          /\ Len(m) = n /\ Len(schedule) = n + 0
          /\ \A k \in 1..Len(schedule) : schedule[k] = m[k]
      BY ONLY <3>1, <3>2
    <3> HIDE DEF m, n
    <3>4. schedule = m
      BY ONLY <3>3
    <3> QED
      BY ONLY <3>4 DEF m
  <2> QED
    BY <2>2, <2>3
<1>2. SentInv /\ IInv /\ [Next]_vars => SentInv'
  BY NextSent
<1> QED
  BY <1>1, <1>2, InitSent, ParserInv, PTL DEF Spec

=============================================================================
