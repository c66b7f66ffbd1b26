--------------------------- MODULE FillsLedgerSums ---------------------------
(***************************************************************************)
(* What the sums over the table say, for every set of coroutines and of    *)
(* fills: the two authorities for a position agree, money adds up, and the *)
(* age of a position and the owner of a streak are those of the row that   *)
(* opened it.                                                              *)
(***************************************************************************)
EXTENDS FillsLedgerProofs

----------------------------------------------------------------------------
(* Induction, stated for sets instead of predicates *)

\* A set of naturals that is not empty has a least element.
LEMMA LeastNatural ==
  ASSUME NEW T, T \subseteq Nat, T # {}
  PROVE  \E n \in T : \A m \in T : n <= m
<1> DEFINE R == {ss \in Nat \X Nat : ss[1] < ss[2]}
<1>1. IsWellFoundedOn(R, Nat)
  BY NatLessThanWellFounded DEF OpToRel
<1>2. \E x \in T : \A y \in T : ~(<<y, x>> \in R)
  <2> HIDE DEF R
  <2> QED
    BY <1>1, WFMin
<1>3. PICK x \in T : \A y \in T : ~(<<y, x>> \in R)
  BY <1>2
<1>4. \A y \in T : x <= y
  <2> TAKE y \in T
  <2>1. <<y, x>> \in Nat \X Nat /\ ~(<<y, x>> \in R)
    BY <1>3
  <2>2. ~(y < x) /\ x \in Nat /\ y \in Nat
    BY <2>1
  <2> QED
    BY <2>2
<1> QED
  BY <1>4

LEMMA SetInduction ==
  ASSUME NEW S, 0 \in S, \A n \in Nat : n \in S => n + 1 \in S
  PROVE  Nat \subseteq S
<1> SUFFICES ASSUME Nat \ S # {} PROVE FALSE
  OBVIOUS
<1>1. PICK n \in Nat \ S : \A m \in Nat \ S : n <= m
  BY LeastNatural
<1>2. n # 0 /\ n - 1 \in Nat
  OBVIOUS
<1>3. n - 1 \in S
  BY <1>1, <1>2
<1> QED
  BY <1>2, <1>3

----------------------------------------------------------------------------
(* AddUp *)

\* f holds the sums of the first 0, 1, ..., n members of s.
SumsUpTo(f, s, n) ==
  /\ f \in [0..n -> Int]
  /\ f[0] = 0
  /\ \A k \in 1..n : f[k] = f[k - 1] + s[k]

LEMMA SumsExist ==
  ASSUME NEW s \in Seq(Int)
  PROVE  \E f : SumsUpTo(f, s, Len(s))
<1> DEFINE S == {n \in Nat : n <= Len(s) => \E f : SumsUpTo(f, s, n)}
<1>1. 0 \in S
  <2>1. SumsUpTo([k \in 0..0 |-> 0], s, 0)
    BY DEF SumsUpTo
  <2> QED
    BY <2>1
<1>2. ASSUME NEW n \in Nat, n \in S PROVE n + 1 \in S
  <2> SUFFICES ASSUME n + 1 <= Len(s) PROVE \E f : SumsUpTo(f, s, n + 1)
    OBVIOUS
  <2>0. Len(s) \in Nat
    OBVIOUS
  <2>1. PICK f : SumsUpTo(f, s, n)
    BY <1>2, <2>0
  <2>2. n + 1 \in 1..Len(s) /\ s[n + 1] \in Int
    BY <2>0
  <2> DEFINE g == [k \in 0..n + 1 |-> IF k = n + 1 THEN f[n] + s[n + 1] ELSE f[k]]
  <2>3. f[n] + s[n + 1] \in Int
    BY <2>1, <2>2 DEF SumsUpTo
  <2>4. g \in [0..n + 1 -> Int] /\ g[0] = 0
    BY <2>1, <2>3 DEF SumsUpTo
  <2>5. \A k \in 1..n + 1 : g[k] = g[k - 1] + s[k]
    <3> TAKE k \in 1..n + 1
    <3>1. CASE k = n + 1
      BY <3>1
    <3>2. CASE k \in 1..n
      BY <2>1, <3>2 DEF SumsUpTo
    <3> QED
      BY <3>1, <3>2
  <2> HIDE DEF g
  <2>6. SumsUpTo(g, s, n + 1)
    BY <2>4, <2>5 DEF SumsUpTo
  <2> QED
    BY <2>6
<1> HIDE DEF S
<1>3. Nat \subseteq S
  BY <1>1, <1>2, SetInduction
<1> QED
  BY <1>3 DEF S

\* Sums of sequences that agree on their first n members agree on them too.
LEMMA SumsAgree ==
  ASSUME NEW s, NEW t, NEW n \in Nat, NEW f, NEW g, NEW m \in Nat, n <= m,
         \A i \in 1..n : s[i] = t[i],
         SumsUpTo(f, s, n), SumsUpTo(g, t, m)
  PROVE  f[n] = g[n]
<1> DEFINE S == {k \in Nat : k <= n => f[k] = g[k]}
<1>1. 0 \in S
  BY DEF SumsUpTo
<1>2. ASSUME NEW k \in Nat, k \in S PROVE k + 1 \in S
  <2> SUFFICES ASSUME k + 1 <= n PROVE f[k + 1] = g[k + 1]
    OBVIOUS
  <2>1. f[k] = g[k]
    BY <1>2
  <2>2. k + 1 \in 1..n /\ k + 1 \in 1..m /\ (k + 1) - 1 = k
    OBVIOUS
  <2>3. f[k + 1] = f[k] + s[k + 1]
    BY <2>2 DEF SumsUpTo
  <2>4. g[k + 1] = g[k] + t[k + 1]
    BY <2>2 DEF SumsUpTo
  <2> QED
    BY <2>1, <2>2, <2>3, <2>4
<1> HIDE DEF S
<1>3. Nat \subseteq S
  BY <1>1, <1>2, SetInduction
<1> QED
  BY <1>3 DEF S

LEMMA AddUpIsLastSum ==
  ASSUME NEW s \in Seq(Int)
  PROVE  \E f : SumsUpTo(f, s, Len(s)) /\ AddUp(s) = f[Len(s)]
<1> DEFINE Eqn(f) == f = [n \in 0..Len(s) |-> IF n = 0 THEN 0 ELSE f[n - 1] + s[n]]
           sum == CHOOSE f : Eqn(f)
<1>0. Len(s) \in Nat
  OBVIOUS
<1>1. \E f : Eqn(f)
  <2>1. PICK f : SumsUpTo(f, s, Len(s))
    BY SumsExist
  <2>2. f = [n \in 0..Len(s) |-> f[n]]
    BY <2>1 DEF SumsUpTo
  <2>3. \A n \in 0..Len(s) : f[n] = IF n = 0 THEN 0 ELSE f[n - 1] + s[n]
    BY <1>0, <2>1 DEF SumsUpTo
  <2>4. Eqn(f)
    BY <2>2, <2>3
  <2> QED
    BY <2>4
<1>2. Eqn(sum)
  <2> HIDE DEF Eqn
  <2> QED
    BY <1>1
<1>3. AddUp(s) = sum[Len(s)]
  BY DEF AddUp
<1> HIDE DEF sum
<1>4. PICK f : SumsUpTo(f, s, Len(s))
  BY SumsExist
<1> DEFINE S == {k \in Nat : k <= Len(s) => sum[k] = f[k]}
<1>5. 0 \in S
  BY <1>0, <1>2, <1>4 DEF SumsUpTo
<1>6. ASSUME NEW k \in Nat, k \in S PROVE k + 1 \in S
  <2> SUFFICES ASSUME k + 1 <= Len(s) PROVE sum[k + 1] = f[k + 1]
    OBVIOUS
  <2>1. k + 1 \in 0..Len(s) /\ k + 1 \in 1..Len(s) /\ (k + 1) - 1 = k /\ k + 1 # 0
    BY <1>0
  <2>2. sum[k + 1] = sum[k] + s[k + 1]
    BY <1>2, <2>1
  <2>3. f[k + 1] = f[k] + s[k + 1]
    BY <1>4, <2>1 DEF SumsUpTo
  <2>4. sum[k] = f[k]
    BY <1>0, <1>6
  <2> QED
    BY <2>2, <2>3, <2>4
<1> HIDE DEF S
<1>7. Nat \subseteq S
  BY <1>5, <1>6, SetInduction
<1>8. sum[Len(s)] = f[Len(s)]
  BY <1>0, <1>7 DEF S
<1> QED
  BY <1>3, <1>4, <1>8

LEMMA AddUpType == ASSUME NEW s \in Seq(Int) PROVE AddUp(s) \in Int
<1>1. PICK f : SumsUpTo(f, s, Len(s)) /\ AddUp(s) = f[Len(s)]
  BY AddUpIsLastSum
<1> QED
  BY <1>1 DEF SumsUpTo

LEMMA AddUpEmpty == ASSUME NEW s \in Seq(Int), Len(s) = 0 PROVE AddUp(s) = 0
<1>1. PICK f : SumsUpTo(f, s, Len(s)) /\ AddUp(s) = f[Len(s)]
  BY AddUpIsLastSum
<1> QED
  BY <1>1 DEF SumsUpTo

\* One more member adds itself to the sum.
LEMMA AddUpExtend ==
  ASSUME NEW s \in Seq(Int), NEW t \in Seq(Int), Len(t) = Len(s) + 1,
         \A i \in 1..Len(s) : s[i] = t[i]
  PROVE  AddUp(t) = AddUp(s) + t[Len(t)]
<1>1. PICK f : SumsUpTo(f, s, Len(s)) /\ AddUp(s) = f[Len(s)]
  BY AddUpIsLastSum
<1>2. PICK g : SumsUpTo(g, t, Len(t)) /\ AddUp(t) = g[Len(t)]
  BY AddUpIsLastSum
<1>3. Len(s) \in Nat /\ Len(t) \in Nat /\ Len(s) <= Len(t)
  OBVIOUS
<1>4. f[Len(s)] = g[Len(s)]
  <2> DEFINE n == Len(s)
             m == Len(t)
  <2>1. /\ n \in Nat /\ m \in Nat /\ n <= m /\ \A i \in 1..n : s[i] = t[i]
        /\ SumsUpTo(f, s, n) /\ SumsUpTo(g, t, m)
    BY <1>1, <1>2, <1>3
  <2> HIDE DEF n, m
  <2>2. f[n] = g[n]
    BY <2>1, SumsAgree
  <2> QED
    BY <2>2 DEF n
<1>5. g[Len(t)] = g[Len(t) - 1] + t[Len(t)]
  <2>1. Len(t) \in 1..Len(t)
    BY <1>3
  <2>2. \A k \in 1..Len(t) : g[k] = g[k - 1] + t[k]
    BY <1>2 DEF SumsUpTo
  <2> QED
    BY <2>1, <2>2, Zenon
<1> QED
  BY <1>1, <1>2, <1>3, <1>4, <1>5

----------------------------------------------------------------------------
(* Columns of the table *)

LEMMA ColumnIsSeq ==
  ASSUME NEW n \in Nat, NEW f \in [1..n -> Int]
  PROVE  f \in Seq(Int) /\ Len(f) = n
<1>1. f \in Seq(Int)
  BY SeqDef
<1>2. Len(f) \in Nat /\ 1..Len(f) = 1..n
  BY <1>1, LenProperties
<1> QED
  BY <1>1, <1>2

\* A new row adds its own entry to the sum of a column.
LEMMA ColumnExtend ==
  ASSUME NEW n \in Nat, NEW f \in [1..n -> Int], NEW g \in [1..n + 1 -> Int],
         \A i \in 1..n : f[i] = g[i]
  PROVE  /\ AddUp(f) \in Int /\ AddUp(g) \in Int
         /\ AddUp(g) = AddUp(f) + g[n + 1]
<1>1. f \in Seq(Int) /\ Len(f) = n /\ g \in Seq(Int) /\ Len(g) = n + 1
  BY ColumnIsSeq
<1>2. AddUp(f) \in Int /\ AddUp(g) \in Int
  BY <1>1, AddUpType
<1>3. Len(g) = Len(f) + 1 /\ \A i \in 1..Len(f) : f[i] = g[i]
  BY <1>1
<1>4. AddUp(g) = AddUp(f) + g[Len(g)]
  BY <1>1, <1>3, AddUpExtend
<1> QED
  BY <1>1, <1>2, <1>4

Signed == [i \in DOMAIN rows |-> rows[i].delta]
Money == [i \in DOMAIN rows |-> rows[i].realised + rows[i].delta * rows[i].price]
Sizes == [i \in DOMAIN rows |-> Abs(rows[i].after)]

LEMMA ColumnTypes ==
  ASSUME TypeOK
  PROVE  /\ Len(rows) \in Nat /\ DOMAIN rows = 1..Len(rows)
         /\ \A i \in 1..Len(rows) : rows[i] \in Row
         /\ Signed \in [1..Len(rows) -> Int]
         /\ Money \in [1..Len(rows) -> Int]
         /\ Sizes \in [1..Len(rows) -> Int]
<1>1. Len(rows) \in Nat /\ DOMAIN rows = 1..Len(rows)
  BY LenProperties DEF TypeOK
<1>2. \A i \in 1..Len(rows) : rows[i] \in Row
  BY ElementOfSeq DEF TypeOK
<1>3. \A i \in 1..Len(rows) : /\ rows[i].delta \in Int /\ rows[i].price \in Nat
                               /\ rows[i].after \in Int /\ rows[i].realised \in Int
  BY <1>2 DEF Row
<1>4. Signed \in [1..Len(rows) -> Int]
  BY <1>1, <1>3 DEF Signed
<1>5. Money \in [1..Len(rows) -> Int]
  <2>1. \A i \in 1..Len(rows) : rows[i].realised + rows[i].delta * rows[i].price \in Int
    BY <1>3
  <2> QED
    BY <1>1, <2>1 DEF Money
<1>6. Sizes \in [1..Len(rows) -> Int]
  <2>1. \A i \in 1..Len(rows) : Abs(rows[i].after) \in Int
    <3> TAKE i \in 1..Len(rows)
    <3>1. rows[i].after \in Int
      BY <1>3
    <3>2. Abs(rows[i].after) \in Nat
      BY <3>1, AbsFacts
    <3> QED
      BY <3>2
  <2> QED
    BY <1>1, <2>1 DEF Sizes
<1> QED
  BY <1>1, <1>2, <1>4, <1>5, <1>6

LEMMA SumsOfAppend ==
  ASSUME TypeOK, NEW r \in Row, rows' = Append(rows, r), TypeOK'
  PROVE  /\ AddUp(Signed) \in Int /\ AddUp(Money) \in Int /\ AddUp(Sizes) \in Int
         /\ AddUp(Signed)' = AddUp(Signed) + r.delta
         /\ AddUp(Money)' = AddUp(Money) + (r.realised + r.delta * r.price)
         /\ AddUp(Sizes)' = AddUp(Sizes) + Abs(r.after)
<1> DEFINE n == Len(rows)
<1>1. /\ n \in Nat /\ Len(rows') = n + 1
      /\ rows'[n + 1] = r /\ \A i \in 1..n : rows'[i] = rows[i]
  BY AppendFacts
<1>2. DOMAIN rows = 1..n /\ DOMAIN rows' = 1..n + 1
  BY <1>1, ColumnTypes, LenProperties DEF TypeOK
<1>3. /\ Signed \in [1..n -> Int] /\ Money \in [1..n -> Int] /\ Sizes \in [1..n -> Int]
  BY ColumnTypes
<1>4. \A i \in 1..n + 1 : rows'[i] \in Row
  BY <1>1, ElementOfSeq DEF TypeOK
<1>5. \A i \in 1..n + 1 : /\ rows'[i].delta \in Int
                           /\ rows'[i].realised + rows'[i].delta * rows'[i].price \in Int
                           /\ Abs(rows'[i].after) \in Int
  <2> TAKE i \in 1..n + 1
  <2>1. /\ rows'[i].delta \in Int /\ rows'[i].price \in Nat
        /\ rows'[i].after \in Int /\ rows'[i].realised \in Int
    BY <1>4 DEF Row
  <2>2. rows'[i].realised + rows'[i].delta * rows'[i].price \in Int
    BY <2>1
  <2>3. Abs(rows'[i].after) \in Int
    BY <2>1 DEF Abs
  <2> QED
    BY <2>1, <2>2, <2>3
<1>6. /\ Signed' \in [1..n + 1 -> Int]
      /\ Signed'[n + 1] = r.delta /\ \A i \in 1..n : Signed[i] = Signed'[i]
  BY <1>1, <1>2, <1>5 DEF Signed
<1>7. /\ Money' \in [1..n + 1 -> Int]
      /\ Money'[n + 1] = r.realised + r.delta * r.price
      /\ \A i \in 1..n : Money[i] = Money'[i]
  BY <1>1, <1>2, <1>5 DEF Money
<1>8. /\ Sizes' \in [1..n + 1 -> Int]
      /\ Sizes'[n + 1] = Abs(r.after) /\ \A i \in 1..n : Sizes[i] = Sizes'[i]
  BY <1>1, <1>2, <1>5 DEF Sizes
<1> HIDE DEF n
<1>9. AddUp(Signed) \in Int /\ AddUp(Signed') = AddUp(Signed) + r.delta
  BY <1>1, <1>3, <1>6, ColumnExtend
<1>10. AddUp(Money) \in Int /\ AddUp(Money') = AddUp(Money) + (r.realised + r.delta * r.price)
  BY <1>1, <1>3, <1>7, ColumnExtend
<1>11. AddUp(Sizes) \in Int /\ AddUp(Sizes') = AddUp(Sizes) + Abs(r.after)
  BY <1>1, <1>3, <1>8, ColumnExtend
<1> QED
  BY <1>9, <1>10, <1>11 DEF AddUp

----------------------------------------------------------------------------
(* The arithmetic of one fill *)

\* What a fill adds to the money account differs from the change of the cost of
\* the open position by the rounding of one average.
LEMMA FillMoney ==
  ASSUME NEW q \in Int, NEW avg \in Nat, NEW d \in Int, d # 0, NEW px \in Nat,
         NEW cost \in NewCost(q, avg, d, px)
  PROVE  2 * Abs(Realised(q, avg, d, px) + d * px + q * avg - (q + d) * cost)
           <= Abs(q + d)
<1>0. cost \in Nat
  BY CostIsNat
<1> DEFINE e == Realised(q, avg, d, px) + d * px + q * avg - (q + d) * cost
<1>1. CASE ~Opposite(q, d)
  <2>1. Realised(q, avg, d, px) = 0
    BY <1>1 DEF Realised
  <2>2. cost \in Nearest(Abs(q) * avg + Abs(d) * px, Abs(q + d))
    BY <1>1 DEF NewCost
  <2>3. 2 * Abs(cost * Abs(q + d) - (Abs(q) * avg + Abs(d) * px)) <= Abs(q + d)
    BY <2>2 DEF Nearest
  <2>4. CASE q >= 0 /\ d > 0
    <3>1. Abs(q) = q /\ Abs(d) = d /\ Abs(q + d) = q + d
      BY <2>4 DEF Abs
    <3>2. 2 * Abs(cost * (q + d) - (q * avg + d * px)) <= q + d
      BY <2>3, <3>1
    <3>3. e = 0 - (cost * (q + d) - (q * avg + d * px))
      BY <1>0, <2>1
    <3>4. cost * (q + d) - (q * avg + d * px) \in Int
      BY <1>0
    <3> QED
      BY <3>1, <3>2, <3>3, <3>4 DEF Abs
  <2>5. CASE q <= 0 /\ d < 0
    <3>1. Abs(q) = 0 - q /\ Abs(d) = 0 - d /\ Abs(q + d) = 0 - (q + d)
      BY <2>5 DEF Abs
    <3>2. 2 * Abs(cost * (0 - (q + d)) - ((0 - q) * avg + (0 - d) * px)) <= Abs(q + d)
      BY <2>3, <3>1
    <3>3. e = cost * (0 - (q + d)) - ((0 - q) * avg + (0 - d) * px)
      BY <1>0, <2>1
    <3> QED
      BY <3>2, <3>3
  <2> QED
    BY <1>1, <2>4, <2>5 DEF Opposite
<1>2. CASE Opposite(q, d)
  <2>1. Abs(q + d) \in Nat /\ Abs(0) = 0
    BY AbsFacts DEF Abs
  <2>2. CASE IsFlip(q, d)
    <3>1. cost = px
      BY <1>2, <2>2 DEF NewCost
    <3>2. CASE q > 0
      <4>1. d < 0 /\ ~(Abs(d) < Abs(q)) /\ Abs(q) = q
        BY <1>2, <2>2, <3>2 DEF Opposite, IsFlip, Abs
      <4>2. Realised(q, avg, d, px) = (px - avg) * q
        BY <1>2, <3>2, <4>1 DEF Realised
      <4>3. e = 0
        BY <3>1, <4>2
      <4> QED
        BY <2>1, <4>3
    <3>3. CASE q < 0
      <4>1. d > 0 /\ ~(Abs(d) < Abs(q)) /\ Abs(q) = 0 - q
        BY <1>2, <2>2, <3>3 DEF Opposite, IsFlip, Abs
      <4>2. Realised(q, avg, d, px) = (avg - px) * (0 - q)
        BY <1>2, <3>3, <4>1 DEF Realised
      <4>3. e = 0
        BY <3>1, <4>2
      <4> QED
        BY <2>1, <4>3
    <3> QED
      BY <1>2, <3>2, <3>3 DEF Opposite
  <2>3. CASE ~IsFlip(q, d)
    <3>1. q + d = 0 \/ cost = avg
      BY <1>2, <2>3 DEF NewCost
    <3>2. (q + d) * cost = (q + d) * avg
      BY <1>0, <3>1
    <3>3. CASE q > 0
      <4>1. d < 0 /\ Abs(d) = 0 - d /\ Abs(q) = q /\ 0 - d <= q
        BY <1>2, <2>3, <3>3 DEF Opposite, IsFlip, Abs
      <4>2. Realised(q, avg, d, px) = (px - avg) * (0 - d)
        BY <1>2, <3>3, <4>1 DEF Realised
      <4>3. e = 0
        BY <3>2, <4>2
      <4> QED
        BY <2>1, <4>3
    <3>4. CASE q < 0
      <4>1. d > 0 /\ Abs(d) = d /\ Abs(q) = 0 - q /\ d <= 0 - q
        BY <1>2, <2>3, <3>4 DEF Opposite, IsFlip, Abs
      <4>2. Realised(q, avg, d, px) = (avg - px) * d
        BY <1>2, <3>4, <4>1 DEF Realised
      <4>3. e = 0
        BY <3>2, <4>2
      <4> QED
        BY <2>1, <4>3
    <3> QED
      BY <1>2, <3>3, <3>4 DEF Opposite
  <2> QED
    BY <2>2, <2>3
<1> QED
  BY <1>1, <1>2

----------------------------------------------------------------------------
(* The sums of the table *)

LastState == Prior(Len(rows))
Imbalance == AddUp(Money) - LastState.qty * LastState.avg

\* Both authorities hold the same position, and the money account is off by at
\* most the roundings.
SumsOK ==
  /\ AddUp(Signed) = LastState.qty
  /\ 2 * Abs(Imbalance) <= AddUp(Sizes)

\* What Prior reads of a row that is there.
LEMMA PriorOfRow ==
  ASSUME TypeOK, NEW i \in 1..Len(rows)
  PROVE  Prior(i).qty = rows[i].after
BY DEF Prior, Flat

\* A committed row keeps the sums in balance.
LEMMA CommitSums ==
  ASSUME IndInv, IndInv', SumsOK, NEW w \in Writers, Commit(w)
  PROVE  SumsOK'
<1>1. PICK r \in NewRows(w) : rows' = Append(rows, r)
  BY DEF Commit
<1>2. wr[w].pc = "commit" /\ TypeOK /\ TypeOK'
  BY DEF Commit, IndInv
<1> DEFINE f == wr[w]
           q == f.prior.qty
           a == f.prior.avg
           d == f.delta
           px == f.price
<1>3. f \in WriterRecord /\ WriterOK(f) /\ f.prior = LastState
  BY <1>2 DEF IndInv, TypeOK, WritersOK, WriterOK, Inside, LastState
<1>4. q \in Int /\ a \in Nat /\ d \in Int /\ d # 0 /\ px \in Nat
  BY <1>3 DEF WriterRecord, PriorRecord, WriterOK
<1>5. PICK cost \in NewCost(q, a, d, px) :
        /\ r.delta = d /\ r.price = px /\ r.after = q + d
        /\ r.avg = cost /\ r.realised = Realised(q, a, d, px)
  BY <1>1 DEF NewRows
<1>6. r \in Row
  BY <1>1, <1>2, NewRowType
<1>7. /\ AddUp(Signed) \in Int /\ AddUp(Money) \in Int /\ AddUp(Sizes) \in Int
      /\ AddUp(Signed)' = AddUp(Signed) + r.delta
      /\ AddUp(Money)' = AddUp(Money) + (r.realised + r.delta * r.price)
      /\ AddUp(Sizes)' = AddUp(Sizes) + Abs(r.after)
  BY <1>1, <1>2, <1>6, SumsOfAppend
<1>8. LastState'.qty = r.after /\ LastState'.qty * LastState'.avg = r.after * r.avg
  <2>1. /\ Len(rows) \in Nat /\ Len(rows') = Len(rows) + 1
        /\ rows'[Len(rows) + 1] = r
    BY <1>1, <1>2, <1>6, AppendFacts
  <2>2. Len(rows') \in 1..Len(rows') /\ rows'[Len(rows')] = r
    BY <2>1
  <2>3. r.after \in Int /\ r.avg \in Nat
    BY <1>6 DEF Row
  <2>4. CASE r.after = 0
    <3>1. LastState' = Flat
      BY <2>2, <2>4 DEF LastState, Prior
    <3> QED
      BY <2>3, <2>4, <3>1 DEF Flat
  <2>5. CASE r.after # 0
    <3>1. LastState' = [qty |-> r.after, avg |-> r.avg, digits |-> r.digits]
      BY <2>1, <2>2, <2>5 DEF LastState, Prior
    <3> QED
      BY <3>1
  <2> QED
    BY <2>4, <2>5
<1>9. AddUp(Signed)' = LastState'.qty
  BY <1>3, <1>4, <1>5, <1>7, <1>8 DEF SumsOK
<1>10. 2 * Abs(Imbalance') <= AddUp(Sizes)'
  <2> DEFINE gain == r.realised + r.delta * r.price
             old == q * a
             new == (q + d) * cost
             e == Realised(q, a, d, px) + d * px + q * a - (q + d) * cost
  <2>1. 2 * Abs(e) <= Abs(q + d)
    BY <1>4, <1>5, FillMoney
  <2>2. gain \in Int /\ old \in Int /\ new \in Int /\ cost \in Nat
    BY <1>4, <1>5, <1>6, CostIsNat DEF Row
  <2>3. e = gain + old - new
    BY <1>4, <1>5, <2>2
  <2>4. Imbalance = AddUp(Money) - old /\ 2 * Abs(Imbalance) <= AddUp(Sizes)
    BY <1>3 DEF Imbalance, SumsOK
  <2>5. Imbalance' = AddUp(Money) + gain - new
    <3>1. Imbalance' = AddUp(Money)' - LastState'.qty * LastState'.avg
      BY DEF Imbalance
    <3>2. LastState'.qty * LastState'.avg = new
      BY <1>5, <1>8
    <3>3. AddUp(Money)' = AddUp(Money) + gain
      BY <1>7
    <3> HIDE DEF gain, new
    <3> QED
      BY <1>7, <2>2, <3>1, <3>2, <3>3
  <2>6. AddUp(Sizes)' = AddUp(Sizes) + Abs(q + d) /\ Abs(q + d) \in Int
    BY <1>4, <1>5, <1>7, AbsFacts
  <2> HIDE DEF gain, old, new, e
  <2>7. Imbalance' = Imbalance + e /\ Imbalance \in Int /\ e \in Int
    BY <1>7, <2>2, <2>3, <2>4, <2>5
  <2>8. 2 * Abs(Imbalance + e) <= 2 * Abs(Imbalance) + 2 * Abs(e)
    BY <2>7 DEF Abs
  <2>9. Abs(e) \in Int /\ Abs(Imbalance) \in Int /\ Abs(Imbalance + e) \in Int
    BY <2>7, AbsFacts
  <2> QED
    BY <1>7, <2>1, <2>4, <2>6, <2>7, <2>8, <2>9
<1> QED
  BY <1>9, <1>10 DEF SumsOK

LEMMA InitSums == Init => SumsOK
<1> SUFFICES ASSUME Init PROVE SumsOK
  OBVIOUS
<1>1. rows = <<>> /\ Len(rows) = 0 /\ TypeOK
  BY InitInv DEF Init, IndInv
<1>2. /\ Signed \in [1..0 -> Int] /\ Money \in [1..0 -> Int]
      /\ Sizes \in [1..0 -> Int]
  BY <1>1, ColumnTypes
<1>3. \A f \in [1..0 -> Int] : AddUp(f) = 0
  BY ColumnIsSeq, AddUpEmpty
<1>4. LastState = Flat
  BY <1>1 DEF LastState, Prior
<1>5. AddUp(Signed) = 0 /\ AddUp(Money) = 0 /\ AddUp(Sizes) = 0
  BY <1>2, <1>3
<1> QED
  BY <1>4, <1>5 DEF SumsOK, Imbalance, Flat, Abs

\* The table changes only by Commit.
LEMMA TableStep ==
  ASSUME [Next]_vars
  PROVE  rows' = rows \/ \E w \in Writers : Commit(w)
BY DEF Next, vars, RecordFill, Submit, Enter, ReadLast, ReadFlat, ReadOpener, Fail,
       PositionState, Crash

LEMMA StepSums == IndInv /\ IndInv' /\ SumsOK /\ [Next]_vars => SumsOK'
<1> SUFFICES ASSUME IndInv, IndInv', SumsOK, [Next]_vars PROVE SumsOK'
  OBVIOUS
<1>1. CASE rows' = rows
  BY <1>1 DEF SumsOK, Imbalance, LastState, Prior, Signed, Money, Sizes
<1> QED
  BY <1>1, TableStep, CommitSums

LEMMA SumsInvariance == Spec => []SumsOK
<1>1. IndInv /\ IndInv' /\ SumsOK /\ [Next]_vars => SumsOK'
  BY StepSums
<1> QED
  BY <1>1, InitSums, LedgerInvariance, PTL DEF Spec

\* SUM(signed_quantity), which the oversell guard reads, is position_qty_after of
\* the last row, from which costs are computed, however many coroutines fill,
\* fail and crash.
THEOREM OnePosition == Spec => []AuthoritiesAgree
<1>1. SumsOK => AuthoritiesAgree
  BY DEF SumsOK, AuthoritiesAgree, Total, LastState, Signed
<1> QED
  BY <1>1, SumsInvariance, PTL

\* Realised P&L plus the cost of what is open is the cash flow, up to the rounding
\* of the averages, through longs, shorts and flips of any sizes and prices.
THEOREM MoneyIsKept == Spec => []MoneyAddsUp
<1>1. SumsOK => MoneyAddsUp
  BY DEF SumsOK, MoneyAddsUp, Imbalance, LastState, Money, Sizes
<1> QED
  BY <1>1, SumsInvariance, PTL

----------------------------------------------------------------------------
(* The age of a position *)

LEMMA MaxOfIndices ==
  ASSUME NEW n \in Nat, NEW S, S \subseteq 1..n, S # {}
  PROVE  Max(S) \in S /\ \A j \in S : j <= Max(S)
<1>1. PICK i \in S : \A j \in S : j <= i
  BY LargestIndex
<1>2. i \in S /\ \A j \in S : i >= j
  BY <1>1
<1>3. Max(S) \in S /\ \A j \in S : Max(S) >= j
  BY <1>2 DEF Max
<1> QED
  BY <1>3

\* Row j started the streak of row i.
Starts(i, j) ==
  /\ Prior(j - 1).qty = 0 \/ FlipAt(j)
  /\ \A k \in j + 1..i : Prior(k - 1).qty # 0 /\ ~FlipAt(k)

\* The row StreakStart chooses is one that started the streak.
LEMMA StreakStartStarts ==
  ASSUME TypeOK, NEW i \in 1..Len(rows)
  PROVE  StreakStart(i) \in 1..i /\ Starts(i, StreakStart(i))
<1> DEFINE S == {j \in 1..i : Prior(j - 1).qty = 0 \/ FlipAt(j)}
<1>1. i \in Nat /\ S \subseteq 1..i
  BY LenProperties DEF TypeOK
<1>2. 1 \in S
  BY <1>1 DEF Prior, Flat
<1>3. PICK j \in S : \A k \in S : k <= j
  <2> HIDE DEF S
  <2> QED
    BY <1>1, <1>2, LargestIndex
<1>4. j \in 1..i /\ Starts(i, j)
  <2>1. \A k \in j + 1..i : k \notin S /\ k \in 1..i
    <3> HIDE DEF S
    <3> QED
      BY <1>1, <1>3
  <2> QED
    BY <1>3, <2>1 DEF Starts
<1>5. StreakStart(i) = CHOOSE k \in 1..i : Starts(i, k)
  BY DEF StreakStart, Starts
<1> QED
  BY <1>4, <1>5

LEMMA AgeFollows == IndInv /\ SumsOK => AgeCountsPosition
<1> SUFFICES ASSUME IndInv, SumsOK PROVE AgeCountsPosition
  OBVIOUS
<1> DEFINE n == Len(rows)
           opened == StreakStart(n)
<1>1. TypeOK /\ n \in Nat
  BY LenProperties DEF IndInv, TypeOK
<1>2. n > 0 => Total(rows) = rows[n].after
  BY <1>1, PriorOfRow DEF SumsOK, Total, Signed, LastState
<1>3. \A k \in 0..n : k = 0 \/ Total(rows) = 0 => AgeRow(k) = 0
  BY <1>1, <1>2 DEF AgeRow
<1>4. ASSUME NEW k \in 1..n, Total(rows) # 0
      PROVE  LET r == AgeRow(k)
                 oldest == n - k + 1 IN
             /\ r \in oldest..n
             /\ r > opened => r = oldest
             /\ r < opened => /\ FlipAt(opened)
                              /\ r > oldest => rows[r - 1].after = 0
                              /\ \A i \in r..n : rows[i].after # 0
  <2> DEFINE oldest == n - k + 1
             flats == {i \in oldest..n : rows[i].after = 0}
             r == AgeRow(k)
  <2>1. k # 0 /\ rows[n].after # 0 /\ oldest \in 1..n
    BY <1>1, <1>2, <1>4
  <2>2. r = IF flats = {} THEN oldest ELSE Max(flats) + 1
    BY <2>1 DEF AgeRow
  <2>3. /\ r \in oldest..n
        /\ \A i \in r..n : rows[i].after # 0
        /\ r > oldest => rows[r - 1].after = 0
    <3>1. CASE flats = {}
      BY <1>1, <2>1, <2>2, <3>1
    <3>2. CASE flats # {}
      <4>1. flats \subseteq 1..n
        BY <1>1, <2>1
      <4> DEFINE last == Max(flats)
      <4>2. last \in flats /\ \A j \in flats : j <= last
        <5> HIDE DEF flats
        <5> QED
          BY <1>1, <3>2, <4>1, MaxOfIndices
      <4> HIDE DEF last
      <4>3. last \in oldest..n /\ rows[last].after = 0 /\ last # n
        BY <2>1, <4>2
      <4>4. \A i \in last + 1..n : rows[i].after # 0
        BY <1>1, <2>1, <4>2, <4>3
      <4>5. r = last + 1
        BY <2>2, <3>2 DEF last
      <4>6. last + 1 \in oldest..n /\ (last + 1) - 1 = last
        BY <1>1, <2>1, <4>3
      <4> QED
        BY <4>3, <4>4, <4>5, <4>6
    <3> QED
      BY <3>1, <3>2
  <2>4. opened \in 1..n /\ Starts(n, opened)
    BY <1>1, <2>1, StreakStartStarts
  <2>5. \A i \in 1..n : Prior(i).qty = rows[i].after
    BY <1>1, PriorOfRow
  <2> HIDE DEF r, opened, flats
  <2>6. r > opened => r = oldest
    <3> SUFFICES ASSUME r > opened, r # oldest PROVE FALSE
      OBVIOUS
    <3>1. r \in opened + 1..n /\ r > oldest /\ r - 1 \in 1..n
      BY <1>1, <2>1, <2>3, <2>4
    <3> QED
      BY <2>3, <2>4, <2>5, <3>1 DEF Starts
  <2>7. r < opened => FlipAt(opened)
    <3> SUFFICES ASSUME r < opened PROVE FlipAt(opened)
      OBVIOUS
    <3>1. opened - 1 \in r..n /\ opened - 1 \in 1..n
      BY <1>1, <2>1, <2>3, <2>4
    <3> QED
      BY <2>3, <2>4, <2>5, <3>1 DEF Starts
  <2> QED
    BY <2>3, <2>6, <2>7 DEF r
<1> HIDE DEF opened
<1>5. \A k \in 0..n : k # 0 => k \in 1..n
  BY <1>1
<1> QED
  BY <1>3, <1>4, <1>5 DEF AgeCountsPosition, opened

\* The row that gives a position its age is the one that opened it, a flip included,
\* unless the query's limit has cut that row off, or the position was opened by a
\* flip, whose age goes back to the last flat row: for every table and every limit.
THEOREM AgeIsOfPosition == Spec => []AgeCountsPosition
<1>1. IndInv /\ SumsOK => AgeCountsPosition
  BY AgeFollows
<1> QED
  BY <1>1, LedgerInvariance, SumsInvariance, PTL

----------------------------------------------------------------------------
(* The owner of a streak, where a flat row is found as flat *)

\* The strategy of the row after the last flat one.
Owner == IF LastFlat < Len(rows) THEN rows[LastFlat + 1].strategy ELSE NoStrategy

\* What a writer has read of the last flat row and of the opener is current.
OpenerRead(f) ==
  /\ f.pc = "opener" => f.flat = LastFlat
  /\ f.pc = "commit" /\ f.prior.qty # 0 => f.opener = Owner
OpenersRead == \A w \in Writers : OpenerRead(wr[w])

OwnersOK ==
  \A i \in 1..Len(rows) : \A j \in 1..i :
    Starts(i, j) /\ Prior(j - 1).qty = 0 => rows[i].opener = rows[j].strategy

StreakInv == OpenersRead /\ OwnersOK

LEMMA InitStreak == Init => StreakInv
<1> SUFFICES ASSUME Init PROVE StreakInv
  OBVIOUS
<1>1. Len(rows) = 0
  BY DEF Init
<1>2. OwnersOK
  BY <1>1 DEF OwnersOK
<1>3. OpenersRead
  BY DEF Init, OpenersRead, OpenerRead, IdleWriter
<1> QED
  BY <1>2, <1>3 DEF StreakInv

\* Steps that add no row.
LEMMA QuietStreak ==
  ASSUME IndInv, StreakInv, [Next]_vars, rows' = rows
  PROVE  StreakInv'
<1>1. OwnersOK'
  BY DEF StreakInv, OwnersOK, Starts, FlipAt, Prior
<1>2. LastFlat' = LastFlat /\ Owner' = Owner
  BY DEF LastFlat, FlatRows, Owner
<1>3. wr \in [Writers -> WriterRecord]
  BY DEF IndInv, TypeOK
<1>4. ASSUME NEW w \in Writers PROVE OpenerRead(wr[w])'
  <2>1. OpenerRead(wr[w]) /\ wr[w] \in WriterRecord
    BY <1>3 DEF StreakInv, OpenersRead
  <2>2. CASE wr'[w] = wr[w]
    BY <1>2, <2>1, <2>2 DEF OpenerRead
  <2>3. CASE wr'[w].pc \notin {"opener", "commit"}
    BY <2>3 DEF OpenerRead
  <2>4. CASE ReadLast(w)
    <3>1. wr'[w].pc = "flat" \/ (wr'[w].pc = "commit" /\ wr'[w].prior.qty = 0)
      BY <1>3, <2>1, <2>4 DEF ReadLast, WriterStep, WriterRecord
    <3> QED
      BY <3>1 DEF OpenerRead
  <2>5. CASE ReadFlat(w)
    <3>1. wr'[w].pc = "opener" /\ wr'[w].flat = LastFlat
      BY <1>3, <2>1, <2>5 DEF ReadFlat, WriterStep, WriterRecord
    <3> QED
      BY <1>2, <3>1 DEF OpenerRead
  <2>6. CASE ReadOpener(w)
    <3>1. wr[w].flat = LastFlat
      BY <2>1, <2>6 DEF ReadOpener, OpenerRead
    <3>2. wr'[w].pc = "commit" /\ wr'[w].opener = Owner
      BY <1>3, <2>1, <2>6, <3>1 DEF ReadOpener, WriterStep, WriterRecord, Owner
    <3> QED
      BY <1>2, <3>2 DEF OpenerRead
  <2>7. \/ wr'[w] = wr[w] \/ wr'[w].pc \notin {"opener", "commit"}
        \/ ReadLast(w) \/ ReadFlat(w) \/ ReadOpener(w)
    <3>1. CASE \E v \in Writers : RecordFill(v)
      <4>1. PICK v \in Writers : RecordFill(v)
        BY <3>1
      <4>2. CASE v # w
        <5>1. \E f : wr' = [wr EXCEPT ![v] = f]
          BY <4>1 DEF RecordFill, Submit, Enter, ReadLast, ReadFlat, ReadOpener,
                      Commit, Fail, WriterStep
        <5> QED
          BY <1>3, <4>2, <5>1
      <4>3. CASE v = w
        <5>1. Submit(w) => wr'[w].pc = "wait"
          BY <1>3 DEF Submit, WriterStep, IdleWriter
        <5>2. Enter(w) => wr'[w].pc = "last"
          BY <1>3, <2>1 DEF Enter, WriterStep, WriterRecord
        <5>3. Fail(w) \/ Commit(w) => wr'[w].pc = "idle"
          BY <1>3 DEF Fail, Commit, WriterStep, IdleWriter
        <5> QED
          BY <4>1, <4>3, <5>1, <5>2, <5>3 DEF RecordFill
      <4> QED
        BY <4>2, <4>3
    <3>2. CASE ~\E v \in Writers : RecordFill(v)
      <4>1. wr' = wr \/ Crash
        BY <3>2 DEF Next, vars, PositionState
      <4>2. Crash => wr'[w].pc = "idle"
        BY DEF Crash, IdleWriter
      <4> QED
        BY <4>1, <4>2
    <3> QED
      BY <3>1, <3>2
  <2> QED
    BY <2>2, <2>3, <2>4, <2>5, <2>6, <2>7
<1> QED
  BY <1>1, <1>4 DEF StreakInv, OpenersRead

\* Where the streak of the next row would go on, its opening row follows the last
\* row the query finds flat.
LEMMA StreakAfterFlat ==
  ASSUME TypeOK, ~Sqlite, NEW j \in 1..Len(rows), Prior(j - 1).qty = 0,
         \A k \in j + 1..Len(rows) + 1 : Prior(k - 1).qty # 0
  PROVE  Owner = rows[j].strategy
<1>1. Len(rows) \in Nat /\ DOMAIN rows = 1..Len(rows)
  BY LenProperties DEF TypeOK
<1>2. \A i \in j..Len(rows) : rows[i].after # 0
  <2> TAKE i \in j..Len(rows)
  <2>1. i + 1 \in j + 1..Len(rows) + 1 /\ (i + 1) - 1 = i /\ i \in 1..Len(rows)
    BY <1>1
  <2>2. Prior(i).qty # 0
    BY <2>1
  <2> QED
    BY <2>1, <2>2, PriorOfRow
<1>3. FlatRows = {i \in 1..Len(rows) : rows[i].after = 0}
  BY <1>1 DEF FlatRows
<1>4. LastFlat = j - 1
  <2>1. CASE j = 1
    <3>1. FlatRows = {}
      BY <1>1, <1>2, <1>3, <2>1
    <3> QED
      BY <2>1, <3>1 DEF LastFlat
  <2>2. CASE j # 1
    <3>1. j - 1 \in 1..Len(rows)
      BY <1>1, <2>2
    <3>2. j - 1 \in FlatRows
      BY <1>3, <3>1, PriorOfRow
    <3>3. \A i \in FlatRows : i <= j - 1
      BY <1>1, <1>2, <1>3
    <3>4. \A i \in FlatRows : (\A k \in FlatRows : k <= i) => i = j - 1
      BY <1>1, <1>3, <3>2, <3>3
    <3> QED
      BY <3>2, <3>3, <3>4 DEF LastFlat
  <2> QED
    BY <2>1, <2>2
<1> QED
  BY <1>1, <1>4 DEF Owner

LEMMA CommitStreak ==
  ASSUME IndInv, StreakInv, ~Sqlite, NEW w \in Writers, Commit(w)
  PROVE  StreakInv'
<1>1. PICK r \in NewRows(w) : rows' = Append(rows, r)
  BY DEF Commit
<1>2. /\ wr[w].pc = "commit" /\ TypeOK /\ lock = w
      /\ wr' = [wr EXCEPT ![w] = IdleWriter]
  BY DEF Commit, WriterStep, IndInv, LockOK, Inside
<1> DEFINE f == wr[w]
           n == Len(rows)
<1>3. f \in WriterRecord /\ f.prior = Prior(n) /\ OpenerRead(f)
  BY <1>2 DEF IndInv, TypeOK, WritersOK, WriterOK, Inside, StreakInv, OpenersRead
<1>4. /\ r.strategy = f.strategy /\ r.delta = f.delta
      /\ r.opener = IF Prior(n).qty = 0 \/ IsFlip(Prior(n).qty, f.delta)
                    THEN f.strategy ELSE f.opener
  BY <1>1, <1>3 DEF NewRows
<1>5. r \in Row
  BY <1>1, <1>2, NewRowType
<1>6. /\ n \in Nat /\ Len(rows') = n + 1
      /\ rows'[n + 1] = r /\ \A i \in 1..n : rows'[i] = rows[i]
      /\ \A i \in 0..n : Prior(i)' = Prior(i)
  BY <1>1, <1>2, <1>5, AppendFacts
<1>7. OpenersRead'
  <2>1. \A v \in Writers : wr'[v].pc \notin {"opener", "commit"}
    <3>1. \A v \in Writers \ {w} : wr[v].pc \notin Inside
      BY <1>2 DEF IndInv, LockOK
    <3> QED
      BY <1>2, <3>1 DEF TypeOK, IdleWriter, Inside
  <2> QED
    BY <2>1 DEF OpenersRead, OpenerRead
<1>8. OwnersOK'
  <2> SUFFICES ASSUME NEW i \in 1..n + 1, NEW j \in 1..i,
                      Starts(i, j)', Prior(j - 1)'.qty = 0
               PROVE  rows'[i].opener = rows'[j].strategy
    BY <1>6 DEF OwnersOK
  <2>1. \A k \in 1..n + 1 : Prior(k - 1)' = Prior(k - 1)
    <3> TAKE k \in 1..n + 1
    <3>1. k - 1 \in 0..n
      BY <1>6
    <3> QED
      BY <1>6, <3>1
  <2>2. j \in 1..n + 1 /\ Prior(j - 1).qty = 0
    BY <1>6, <2>1
  <2>3. \A k \in j + 1..i : /\ Prior(k - 1).qty # 0
                            /\ ~IsFlip(Prior(k - 1).qty, rows'[k].delta)
    <3>1. \A k \in j + 1..i : /\ Prior(k - 1)'.qty # 0
                              /\ ~IsFlip(Prior(k - 1)'.qty, rows'[k].delta)
      BY DEF Starts, FlipAt
    <3>2. \A k \in j + 1..i : k \in 1..n + 1
      BY <1>6
    <3> QED
      BY <2>1, <3>1, <3>2
  <2>4. CASE i \in 1..n
    <3>1. \A k \in j + 1..i : rows'[k] = rows[k]
      BY <1>6, <2>4
    <3>2. Starts(i, j)
      BY <2>2, <2>3, <3>1 DEF Starts, FlipAt
    <3>3. rows[i].opener = rows[j].strategy
      BY <2>2, <2>4, <3>2 DEF StreakInv, OwnersOK
    <3> QED
      BY <1>6, <2>4, <3>3
  <2>5. CASE i = n + 1 /\ j = n + 1
    BY <1>4, <1>6, <2>2, <2>5
  <2>6. CASE i = n + 1 /\ j \in 1..n
    <3>1. n + 1 \in j + 1..i /\ (n + 1) - 1 = n
      BY <1>6, <2>6
    <3>2. Prior(n).qty # 0 /\ ~IsFlip(Prior(n).qty, r.delta)
      <4>1. Prior(n).qty # 0 /\ ~IsFlip(Prior(n).qty, rows'[n + 1].delta)
        BY <2>3, <3>1
      <4> QED
        BY <1>6, <4>1
    <3>3. r.opener = Owner
      BY <1>2, <1>3, <1>4, <3>2 DEF OpenerRead
    <3>4. Owner = rows[j].strategy
      BY <1>2, <2>2, <2>3, <2>6, StreakAfterFlat
    <3> QED
      BY <1>6, <2>6, <3>3, <3>4
  <2> QED
    BY <1>6, <2>4, <2>5, <2>6
<1> QED
  BY <1>7, <1>8 DEF StreakInv

LEMMA StepStreak == ~Sqlite /\ IndInv /\ StreakInv /\ [Next]_vars => StreakInv'
BY TableStep, QuietStreak, CommitStreak

\* Where the database finds a flat row as flat, every fill of a streak that
\* started flat belongs to the strategy that opened it: no concurrent fill, no
\* failed query and no crash makes record_fill read another opener.
THEOREM OpenersOwnStreaks ==
  ASSUME ~Sqlite
  PROVE  Spec => []OpenerOwnsStreak
<1>1. IndInv /\ StreakInv => OpenerOwnsStreak
  <2> SUFFICES ASSUME IndInv, StreakInv, NEW i \in 1..Len(rows),
                      Prior(StreakStart(i) - 1).qty = 0
               PROVE  rows[i].opener = rows[StreakStart(i)].strategy
    BY LenProperties DEF OpenerOwnsStreak, IndInv, TypeOK
  <2> QED
    BY StreakStartStarts DEF StreakInv, OwnersOK, IndInv
<1>2. IndInv /\ StreakInv /\ [Next]_vars => StreakInv'
  BY StepStreak
<1> QED
  BY <1>1, <1>2, InitStreak, LedgerInvariance, PTL DEF Spec
============================================================================
