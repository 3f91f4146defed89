----------------------------- MODULE SumsProofs -----------------------------
(***************************************************************************)
(* Facts about totals, for sequences of every length.  Induction on the    *)
(* length is by the least counterexample: < is well founded on Nat.        *)
(***************************************************************************)
EXTENDS Sums, SequenceTheorems, WellFoundedInduction, TLAPS

\* Every nonempty set of naturals has a least element.
LEMMA LeastElement ==
  ASSUME NEW T, T \subseteq Nat, T # {}
  PROVE  \E x \in T : \A y \in T : ~(y < x)
<1>1. IsWellFoundedOn(OpToRel(<, Nat), Nat)
  BY NatLessThanWellFounded
<1>2. \E x \in T : \A y \in T : ~(<<y, x>> \in OpToRel(<, Nat))
  BY <1>1, WFMin
<1>3. QED
  BY <1>2 DEF OpToRel

\* Induction, for a property given as the set of the naturals that have it.
LEMMA SetInduction ==
  ASSUME NEW T, T \subseteq Nat, 0 \in T, \A n \in Nat : n \in T => n + 1 \in T
  PROVE  T = Nat
<1>1. SUFFICES ASSUME Nat \ T # {}
               PROVE  FALSE
  OBVIOUS
<1>2. PICK x \in Nat \ T : \A y \in Nat \ T : ~(y < x)
  BY <1>1, LeastElement
<1>3. x # 0 /\ x - 1 \in Nat /\ x - 1 \in T
  BY <1>2
<1>4. QED
  BY <1>2, <1>3

\* t is a function of running totals of s.
AreTotals(s, t) ==
  t = [n \in 0..Len(s) |-> IF n = 0 THEN 0 ELSE t[n - 1] + s[n]]

\* Two such functions agree, so the recursive definition names one.
LEMMA TotalsAgree ==
  ASSUME NEW s \in Seq(Int), NEW t, NEW u, AreTotals(s, t), AreTotals(s, u)
  PROVE  t = u
<1> DEFINE T == {n \in Nat : n \in 0..Len(s) => t[n] = u[n]}
<1>1. 0 \in T
  BY DEF AreTotals
<1>2. \A n \in Nat : n \in T => n + 1 \in T
  BY DEF AreTotals
<1>3. T = Nat
  <2>1. T \subseteq Nat
    OBVIOUS
  <2> HIDE DEF T
  <2>2. QED
    BY <1>1, <1>2, <2>1, SetInduction
<1>4. \A n \in 0..Len(s) : t[n] = u[n]
  BY <1>3
<1>5. QED
  BY <1>4 DEF AreTotals

\* Appending an element extends the running totals by one.
LEMMA TotalsExtend ==
  ASSUME NEW s \in Seq(Int), NEW x \in Int, NEW t \in [0..Len(s) -> Int], AreTotals(s, t)
  PROVE  LET u == [n \in 0..(Len(s) + 1) |-> IF n \in 0..Len(s) THEN t[n] ELSE t[Len(s)] + x]
         IN  u \in [0..(Len(s) + 1) -> Int] /\ AreTotals(Append(s, x), u)
<1> DEFINE u == [n \in 0..(Len(s) + 1) |-> IF n \in 0..Len(s) THEN t[n] ELSE t[Len(s)] + x]
           v == Append(s, x)
<1>0. \A n \in 0..Len(s) : t[n] = IF n = 0 THEN 0 ELSE t[n - 1] + s[n]
  BY DEF AreTotals
<1>1. Len(s) \in Nat /\ Len(v) = Len(s) + 1 /\ \A n \in 1..Len(s) : v[n] = s[n]
  BY AppendProperties
<1>1a. v[Len(s) + 1] = x
  BY AppendProperties
<1>2. u \in [0..(Len(s) + 1) -> Int]
  BY <1>1
<1>3. ASSUME NEW n \in 0..(Len(s) + 1)
      PROVE  u[n] = IF n = 0 THEN 0 ELSE u[n - 1] + v[n]
  <2>1. CASE n = 0
    BY <1>0, <1>1, <2>1
  <2>2. CASE n \in 1..Len(s)
    <3>1. t[n] = t[n - 1] + s[n]
      BY <1>0, <1>1, <2>2
    <3>2. n # 0 /\ n - 1 \in 0..Len(s) /\ n \in 0..Len(s)
      BY <2>2, <1>1
    <3>3. QED
      BY <3>1, <3>2, <2>2, <1>1
  <2>3. CASE n = Len(s) + 1
    BY <2>3, <1>1, <1>1a
  <2>4. QED
    BY <1>1, <2>1, <2>2, <2>3
<1>4. AreTotals(v, u)
  <2> HIDE DEF v
  <2>1. u = [n \in 0..Len(v) |-> IF n = 0 THEN 0 ELSE u[n - 1] + v[n]]
    BY <1>1, <1>3
  <2>2. QED
    BY <2>1 DEF AreTotals
<1>5. QED
  BY <1>2, <1>4

\* A nonempty sequence is its front with its last element appended.
LEMMA SplitLast ==
  ASSUME NEW r \in Seq(Int), NEW n \in Nat, Len(r) = n + 1
  PROVE  \E f \in Seq(Int), x \in Int : r = Append(f, x) /\ Len(f) = n
<1> DEFINE f == [i \in 1..n |-> r[i]]
           x == r[n + 1]
<1>1. \A i \in 1..(n + 1) : r[i] \in Int
  BY ElementOfSeq
<1>2. f \in Seq(Int) /\ Len(f) = n /\ x \in Int
  BY <1>1
<1>3. /\ Append(f, x) \in Seq(Int) /\ Len(Append(f, x)) = n + 1
      /\ \A i \in 1..(n + 1) : Append(f, x)[i] = r[i]
  BY <1>2
<1>4. r = Append(f, x)
  BY <1>3, SeqEqual
<1>5. QED
  BY <1>2, <1>4

LEMMA ConcatAppend ==
  ASSUME NEW s \in Seq(Int), NEW f \in Seq(Int), NEW x \in Int
  PROVE  s \o f \in Seq(Int) /\ s \o Append(f, x) = Append(s \o f, x)
<1>1. s \o Append(f, x) \in Seq(Int) /\ Append(s \o f, x) \in Seq(Int)
  OBVIOUS
<1>2. Len(s \o Append(f, x)) = Len(Append(s \o f, x))
  OBVIOUS
<1>3. \A i \in 1..Len(Append(s \o f, x)) :
        (s \o Append(f, x))[i] = Append(s \o f, x)[i]
  OBVIOUS
<1>4. QED
  BY <1>1, <1>2, <1>3, SeqEqual

\* Every integer sequence has running totals, and they are integers.
LEMMA TotalsExist ==
  ASSUME NEW s \in Seq(Int)
  PROVE  \E t \in [0..Len(s) -> Int] : AreTotals(s, t)
<1> DEFINE T == {n \in Nat : \A r \in Seq(Int) :
                   Len(r) = n => \E t \in [0..Len(r) -> Int] : AreTotals(r, t)}
<1>1. 0 \in T
  <2>1. ASSUME NEW r \in Seq(Int), Len(r) = 0
        PROVE  \E t \in [0..Len(r) -> Int] : AreTotals(r, t)
    <3> DEFINE t == [n \in 0..0 |-> 0]
    <3>1. t \in [0..Len(r) -> Int]
      BY <2>1
    <3>2. AreTotals(r, t)
      BY <2>1 DEF AreTotals
    <3>3. QED
      BY <3>1, <3>2
  <2>2. QED
    BY <2>1
<1>2. ASSUME NEW n \in Nat, n \in T
      PROVE  n + 1 \in T
  <2>1. ASSUME NEW r \in Seq(Int), Len(r) = n + 1
        PROVE  \E t \in [0..Len(r) -> Int] : AreTotals(r, t)
    <3>1. PICK f \in Seq(Int), x \in Int : r = Append(f, x) /\ Len(f) = n
      BY <2>1, SplitLast
    <3>3. PICK t \in [0..Len(f) -> Int] : AreTotals(f, t)
      BY <1>2, <3>1
    <3>4. Len(r) = Len(f) + 1
      BY <2>1, <3>1
    <3>5. QED
      BY <3>1, <3>3, <3>4, TotalsExtend
  <2>2. QED
    BY <2>1
<1>3. T = Nat
  <2>1. T \subseteq Nat
    OBVIOUS
  <2> HIDE DEF T
  <2>2. QED
    BY <1>1, <1>2, <2>1, SetInduction
<1>4. Len(s) \in T
  BY <1>3, LenProperties
<1>5. QED
  BY <1>4

\* RunningTotals names those totals.
LEMMA RunningTotalsAreTotals ==
  ASSUME NEW s \in Seq(Int)
  PROVE  RunningTotals(s) \in [0..Len(s) -> Int] /\ AreTotals(s, RunningTotals(s))
<1>1. PICK t \in [0..Len(s) -> Int] : AreTotals(s, t)
  BY TotalsExist
<1>2. AreTotals(s, RunningTotals(s))
  BY <1>1 DEF AreTotals, RunningTotals
<1>3. RunningTotals(s) = t
  BY <1>1, <1>2, TotalsAgree
<1>4. QED
  BY <1>1, <1>2, <1>3

THEOREM TotalInt ==
  ASSUME NEW s \in Seq(Int)
  PROVE  Total(s) \in Int
<1>1. Len(s) \in 0..Len(s)
  BY LenProperties
<1>2. QED
  BY <1>1, RunningTotalsAreTotals DEF Total

THEOREM TotalEmpty == Total(<<>>) = 0
<1>1. <<>> \in Seq(Int) /\ Len(<<>>) = 0
  OBVIOUS
<1>2. RunningTotals(<<>>)[0] = 0
  <2> DEFINE t == RunningTotals(<<>>)
  <2>1. AreTotals(<<>>, t)
    BY <1>1, RunningTotalsAreTotals
  <2> HIDE DEF t
  <2>2. \A n \in 0..Len(<<>>) : t[n] = IF n = 0 THEN 0 ELSE t[n - 1] + <<>>[n]
    BY <2>1 DEF AreTotals
  <2>3. t[0] = 0
    BY <2>2, <1>1
  <2>4. QED
    BY <2>3 DEF t
<1>3. QED
  BY <1>1, <1>2 DEF Total

\* The total after an append: what SQL's SUM shows after an INSERT.
THEOREM TotalAppend ==
  ASSUME NEW s \in Seq(Int), NEW x \in Int
  PROVE  Total(Append(s, x)) = Total(s) + x
<1> DEFINE t == RunningTotals(s)
           v == Append(s, x)
           u == [n \in 0..(Len(s) + 1) |-> IF n \in 0..Len(s) THEN t[n] ELSE t[Len(s)] + x]
<1>1. Len(s) \in Nat /\ v \in Seq(Int) /\ Len(v) = Len(s) + 1
  BY AppendProperties, LenProperties
<1>2. t \in [0..Len(s) -> Int] /\ AreTotals(s, t)
  BY RunningTotalsAreTotals
<1>3. AreTotals(v, u)
  <2> HIDE DEF t
  <2>1. QED
    BY <1>2, TotalsExtend
<1>4. AreTotals(v, RunningTotals(v))
  BY <1>1, RunningTotalsAreTotals
<1>5. RunningTotals(v) = u
  <2> HIDE DEF u, v
  <2>1. QED
    BY <1>1, <1>3, <1>4, TotalsAgree
<1>6. u[Len(v)] = t[Len(s)] + x
  <2> HIDE DEF t
  <2>1. QED
    BY <1>1
<1>7. QED
  BY <1>5, <1>6 DEF Total

\* The total of a concatenation: what SUM shows after a commit.
THEOREM TotalConcat ==
  ASSUME NEW s \in Seq(Int), NEW r \in Seq(Int)
  PROVE  Total(s \o r) = Total(s) + Total(r)
<1> DEFINE T == {n \in Nat : \A q \in Seq(Int) :
                   Len(q) = n => Total(s \o q) = Total(s) + Total(q)}
<1>1. 0 \in T
  <2>1. ASSUME NEW q \in Seq(Int), Len(q) = 0
        PROVE  Total(s \o q) = Total(s) + Total(q)
    <3>1. q = <<>> /\ s \o q = s
      BY <2>1, EmptySeq
    <3>2. QED
      BY <3>1, TotalEmpty, TotalInt
  <2>2. QED
    BY <2>1
<1>2. ASSUME NEW n \in Nat, n \in T
      PROVE  n + 1 \in T
  <2>1. ASSUME NEW q \in Seq(Int), Len(q) = n + 1
        PROVE  Total(s \o q) = Total(s) + Total(q)
    <3>1. PICK f \in Seq(Int), x \in Int : q = Append(f, x) /\ Len(f) = n
      BY <2>1, SplitLast
    <3>2. s \o f \in Seq(Int) /\ s \o q = Append(s \o f, x)
      BY <3>1, ConcatAppend
    <3>3. Total(s \o f) = Total(s) + Total(f)
      BY <1>2, <3>1
    <3>4. Total(s) \in Int /\ Total(f) \in Int
      BY TotalInt
    <3>5. Total(Append(s \o f, x)) = Total(s \o f) + x
      BY <3>2, TotalAppend
    <3>6. Total(Append(f, x)) = Total(f) + x
      BY TotalAppend
    <3>7. QED
      BY <3>1, <3>2, <3>3, <3>4, <3>5, <3>6
  <2>2. QED
    BY <2>1
<1>3. T = Nat
  <2>1. T \subseteq Nat
    OBVIOUS
  <2> HIDE DEF T
  <2>2. QED
    BY <1>1, <1>2, <2>1, SetInduction
<1>4. Len(r) \in T
  BY <1>3, LenProperties
<1>5. QED
  BY <1>4

\* Pointwise larger sequences have larger totals.
THEOREM TotalMonotone ==
  ASSUME NEW s \in Seq(Int), NEW r \in Seq(Int), Len(s) = Len(r),
         \A i \in 1..Len(s) : s[i] <= r[i]
  PROVE  Total(s) <= Total(r)
<1> DEFINE a == RunningTotals(s)
           b == RunningTotals(r)
           T == {n \in Nat : n \in 0..Len(s) => a[n] <= b[n]}
<1>1. /\ a \in [0..Len(s) -> Int] /\ b \in [0..Len(s) -> Int]
      /\ AreTotals(s, a) /\ AreTotals(r, b)
  BY RunningTotalsAreTotals
<1>2. /\ \A n \in 0..Len(s) : a[n] = IF n = 0 THEN 0 ELSE a[n - 1] + s[n]
      /\ \A n \in 0..Len(s) : b[n] = IF n = 0 THEN 0 ELSE b[n - 1] + r[n]
  <2> HIDE DEF a, b
  <2>1. QED
    BY <1>1 DEF AreTotals
<1>3. Len(s) \in Nat /\ s \in [1..Len(s) -> Int] /\ r \in [1..Len(s) -> Int]
  BY LenProperties
<1>4. 0 \in T
  <2> HIDE DEF a, b
  <2>1. QED
    BY <1>2, <1>3
<1>5. ASSUME NEW n \in Nat, n \in T
      PROVE  n + 1 \in T
  <2> HIDE DEF a, b
  <2>1. CASE n + 1 \in 0..Len(s)
    <3>1. a[n] <= b[n] /\ s[n + 1] <= r[n + 1]
      BY <2>1, <1>5, <1>3
    <3>2. a[n + 1] = a[n] + s[n + 1] /\ b[n + 1] = b[n] + r[n + 1]
      BY <2>1, <1>2, <1>3
    <3>3. n \in 0..Len(s) /\ n + 1 \in 1..Len(s)
      BY <2>1, <1>3
    <3>4. s[n + 1] \in Int /\ r[n + 1] \in Int
      BY <3>3, <1>3
    <3>5. a[n] \in Int /\ b[n] \in Int
      BY <3>3, <1>1
    <3>6. QED
      BY <3>1, <3>2, <3>4, <3>5
  <2>2. QED
    BY <2>1
<1>6. T = Nat
  <2>1. T \subseteq Nat
    OBVIOUS
  <2> HIDE DEF T
  <2>2. QED
    BY <1>4, <1>5, <2>1, SetInduction
<1>7. a[Len(s)] <= b[Len(s)]
  <2> HIDE DEF a, b
  <2>1. QED
    BY <1>3, <1>6
<1>8. QED
  BY <1>7 DEF Total

\* t tells what is left of amount after each of the first n stocks of s.
AreLeft(s, amount, n, t) ==
  t = [k \in 0..n |-> IF k = 0 THEN amount ELSE t[k - 1] - Least(t[k - 1], s[k])]

LEMMA LeftExtend ==
  ASSUME NEW s \in Seq(Nat), NEW amount \in Nat, NEW n \in Nat, n + 1 \in 1..Len(s),
         NEW t \in [0..n -> 0..amount], AreLeft(s, amount, n, t)
  PROVE  \E u \in [0..(n + 1) -> 0..amount] : AreLeft(s, amount, n + 1, u)
<1> DEFINE last == t[n] - Least(t[n], s[n + 1])
           u == [k \in 0..(n + 1) |-> IF k \in 0..n THEN t[k] ELSE last]
<1>1. s[n + 1] \in Nat /\ t[n] \in 0..amount
  BY ElementOfSeq
<1>2. last \in 0..amount
  BY <1>1 DEF Least
<1>3. u \in [0..(n + 1) -> 0..amount]
  <2> HIDE DEF last
  <2>1. QED
    BY <1>2
<1>4. \A k \in 0..n : t[k] = IF k = 0 THEN amount ELSE t[k - 1] - Least(t[k - 1], s[k])
  BY DEF AreLeft
<1>5. ASSUME NEW k \in 0..(n + 1)
      PROVE  u[k] = IF k = 0 THEN amount ELSE u[k - 1] - Least(u[k - 1], s[k])
  <2>1. CASE k \in 0..n
    <3>1. u[k] = t[k] /\ (k # 0 => u[k - 1] = t[k - 1])
      BY <2>1
    <3>2. QED
      BY <1>4, <2>1, <3>1
  <2>2. CASE k = n + 1
    <3>1. u[k] = last /\ u[k - 1] = t[n] /\ k # 0
      BY <2>2
    <3>2. QED
      BY <2>2, <3>1
  <2>3. QED
    BY <2>1, <2>2
<1>6. AreLeft(s, amount, n + 1, u)
  <2> HIDE DEF last
  <2>1. u = [k \in 0..(n + 1) |-> u[k]]
    OBVIOUS
  <2> HIDE DEF u
  <2>2. QED
    BY <1>5, <2>1 DEF AreLeft
<1>7. QED
  BY <1>3, <1>6

LEMMA LeftExists ==
  ASSUME NEW s \in Seq(Nat), NEW amount \in Nat
  PROVE  \E t \in [0..Len(s) -> 0..amount] : AreLeft(s, amount, Len(s), t)
<1> DEFINE T == {n \in Nat : n \in 0..Len(s) =>
                   \E t \in [0..n -> 0..amount] : AreLeft(s, amount, n, t)}
<1>1. 0 \in T
  <2> DEFINE t == [k \in 0..0 |-> amount]
  <2>1. t \in [0..0 -> 0..amount] /\ AreLeft(s, amount, 0, t)
    BY DEF AreLeft
  <2>2. QED
    BY <2>1
<1>2. ASSUME NEW n \in Nat, n \in T
      PROVE  n + 1 \in T
  <2>1. ASSUME n + 1 \in 0..Len(s)
        PROVE  \E t \in [0..(n + 1) -> 0..amount] : AreLeft(s, amount, n + 1, t)
    <3>1. n + 1 \in 1..Len(s) /\ n \in 0..Len(s)
      BY <2>1, LenProperties
    <3>2. PICK t \in [0..n -> 0..amount] : AreLeft(s, amount, n, t)
      BY <1>2, <3>1
    <3>3. QED
      BY <3>1, <3>2, LeftExtend
  <2>2. QED
    BY <2>1
<1>3. T = Nat
  <2>1. T \subseteq Nat
    OBVIOUS
  <2> HIDE DEF T
  <2>2. QED
    BY <1>1, <1>2, <2>1, SetInduction
<1>4. Len(s) \in T /\ Len(s) \in 0..Len(s)
  BY <1>3, LenProperties
<1>5. QED
  BY <1>4

LEMMA LeftAgree ==
  ASSUME NEW s \in Seq(Nat), NEW amount, NEW t, NEW u,
         AreLeft(s, amount, Len(s), t), AreLeft(s, amount, Len(s), u)
  PROVE  t = u
<1> DEFINE T == {n \in Nat : n \in 0..Len(s) => t[n] = u[n]}
<1>1. 0 \in T
  BY DEF AreLeft
<1>2. \A n \in Nat : n \in T => n + 1 \in T
  BY DEF AreLeft
<1>3. T = Nat
  <2>1. T \subseteq Nat
    OBVIOUS
  <2> HIDE DEF T
  <2>2. QED
    BY <1>1, <1>2, <2>1, SetInduction
<1>4. \A n \in 0..Len(s) : t[n] = u[n]
  BY <1>3
<1>5. QED
  BY <1>4 DEF AreLeft

LEMMA LeftIsLeft ==
  ASSUME NEW s \in Seq(Nat), NEW amount \in Nat
  PROVE  /\ Left(s, amount) \in [0..Len(s) -> 0..amount]
         /\ AreLeft(s, amount, Len(s), Left(s, amount))
<1>1. PICK t \in [0..Len(s) -> 0..amount] : AreLeft(s, amount, Len(s), t)
  BY LeftExists
<1>2. AreLeft(s, amount, Len(s), Left(s, amount))
  BY <1>1 DEF AreLeft, Left
<1>3. Left(s, amount) = t
  BY <1>1, <1>2, LeftAgree
<1>4. QED
  BY <1>1, <1>2, <1>3

THEOREM LeftType ==
  ASSUME NEW s \in Seq(Nat), NEW amount \in Nat, NEW k \in 1..Len(s)
  PROVE  Left(s, amount)[k - 1] \in Int /\ Left(s, amount)[k] \in Int
<1>1. Left(s, amount) \in [0..Len(s) -> 0..amount]
  BY LeftIsLeft
<1>2. k \in 0..Len(s) /\ k - 1 \in 0..Len(s)
  BY LenProperties
<1>3. QED
  BY <1>1, <1>2

\* Drawing on stocks takes from each no more than it has, and never more than
\* is asked for: what debit's loop over the lots relies on.
THEOREM LeftDraws ==
  ASSUME NEW s \in Seq(Nat), NEW amount \in Nat, NEW k \in 1..Len(s)
  PROVE  Left(s, amount)[k - 1] - Left(s, amount)[k] \in 0..s[k]
<1> DEFINE u == Left(s, amount)
<1>1. u \in [0..Len(s) -> 0..amount] /\ AreLeft(s, amount, Len(s), u)
  BY LeftIsLeft
<1> HIDE DEF u
<1>4. u[k] = u[k - 1] - Least(u[k - 1], s[k]) /\ u[k - 1] \in 0..amount
  <2>1. k \in 0..Len(s) /\ k - 1 \in 0..Len(s) /\ k # 0
    BY LenProperties
  <2>2. \A n \in 0..Len(s) : u[n] = IF n = 0 THEN amount ELSE u[n - 1] - Least(u[n - 1], s[n])
    BY <1>1 DEF AreLeft
  <2>3. u[k - 1] \in 0..amount
    BY <1>1, <2>1
  <2>4. QED
    BY <2>1, <2>2, <2>3
<1>5. s[k] \in Nat
  BY ElementOfSeq
<1>6. QED
  BY <1>4, <1>5 DEF Least, u

\* A running total is an integer, and the next one adds the next element.
LEMMA RunningTotalsStep ==
  ASSUME NEW s \in Seq(Int)
  PROVE  /\ RunningTotals(s)[0] = 0
         /\ \A n \in 0..Len(s) : RunningTotals(s)[n] \in Int
         /\ \A n \in 1..Len(s) : RunningTotals(s)[n] = RunningTotals(s)[n - 1] + s[n]
<1> DEFINE t == RunningTotals(s)
<1>1. t \in [0..Len(s) -> Int] /\ AreTotals(s, t)
  BY RunningTotalsAreTotals
<1> HIDE DEF t
<1>2. \A n \in 0..Len(s) : t[n] = IF n = 0 THEN 0 ELSE t[n - 1] + s[n]
  BY <1>1 DEF AreTotals
<1>3. Len(s) \in Nat
  BY LenProperties
<1>4. t[0] = 0
  BY <1>2, <1>3
<1>5. \A n \in 0..Len(s) : t[n] \in Int
  BY <1>1
<1>6. \A n \in 1..Len(s) : t[n] = t[n - 1] + s[n]
  BY <1>2, <1>3
<1>7. QED
  BY <1>4, <1>5, <1>6 DEF t

\* Totals are added element by element.
THEOREM TotalSum ==
  ASSUME NEW s \in Seq(Int), NEW r \in Seq(Int), NEW q \in Seq(Int),
         Len(s) = Len(q), Len(r) = Len(q), \A i \in 1..Len(q) : q[i] = s[i] + r[i]
  PROVE  Total(q) = Total(s) + Total(r)
<1> DEFINE a == RunningTotals(s)
           b == RunningTotals(r)
           c == RunningTotals(q)
           T == {n \in Nat : n \in 0..Len(q) => c[n] = a[n] + b[n]}
<1>1. /\ a[0] = 0 /\ \A n \in 0..Len(q) : a[n] \in Int
      /\ \A n \in 1..Len(q) : a[n] = a[n - 1] + s[n]
  BY RunningTotalsStep
<1>2. /\ b[0] = 0 /\ \A n \in 0..Len(q) : b[n] \in Int
      /\ \A n \in 1..Len(q) : b[n] = b[n - 1] + r[n]
  BY RunningTotalsStep
<1>3. /\ c[0] = 0 /\ \A n \in 0..Len(q) : c[n] \in Int
      /\ \A n \in 1..Len(q) : c[n] = c[n - 1] + q[n]
  BY RunningTotalsStep
<1>4. Len(q) \in Nat /\ \A n \in 1..Len(q) : s[n] \in Int /\ r[n] \in Int
  BY LenProperties, ElementOfSeq
<1> HIDE DEF a, b, c
<1>5. 0 \in T
  BY <1>1, <1>2, <1>3
<1>6. ASSUME NEW n \in Nat, n \in T
      PROVE  n + 1 \in T
  <2>1. CASE n + 1 \in 0..Len(q)
    <3>1. n \in 0..Len(q) /\ n + 1 \in 1..Len(q) /\ (n + 1) - 1 = n
      BY <2>1, <1>4
    <3>2. c[n] = a[n] + b[n]
      BY <3>1, <1>6
    <3>3. /\ a[n + 1] = a[n] + s[n + 1] /\ b[n + 1] = b[n] + r[n + 1]
          /\ c[n + 1] = c[n] + q[n + 1] /\ q[n + 1] = s[n + 1] + r[n + 1]
      BY <3>1, <1>1, <1>2, <1>3
    <3>4. a[n] \in Int /\ b[n] \in Int /\ s[n + 1] \in Int /\ r[n + 1] \in Int
      BY <3>1, <1>1, <1>2, <1>4
    <3>5. c[n + 1] = a[n + 1] + b[n + 1]
      BY <3>2, <3>3, <3>4
    <3>6. QED
      BY <3>5
  <2>2. QED
    BY <2>1
<1>7. T = Nat
  <2>1. T \subseteq Nat
    OBVIOUS
  <2> HIDE DEF T
  <2>2. QED
    BY <1>5, <1>6, <2>1, SetInduction
<1>8. c[Len(q)] = a[Len(s)] + b[Len(r)]
  BY <1>4, <1>7
<1>9. QED
  BY <1>8 DEF Total, a, b, c

\* A sequence with at most one element that is not 0 has that one as its total.
LEMMA TotalPoint ==
  ASSUME NEW s \in Seq(Int), NEW k \in 1..Len(s), \A i \in 1..Len(s) : i # k => s[i] = 0
  PROVE  Total(s) = s[k]
<1> DEFINE a == RunningTotals(s)
           T == {n \in Nat : n \in 0..Len(s) => a[n] = IF n < k THEN 0 ELSE s[k]}
<1>1. /\ a[0] = 0 /\ \A n \in 0..Len(s) : a[n] \in Int
      /\ \A n \in 1..Len(s) : a[n] = a[n - 1] + s[n]
  BY RunningTotalsStep
<1>2. Len(s) \in Nat /\ s[k] \in Int
  BY LenProperties, ElementOfSeq
<1> HIDE DEF a
<1>3. 0 \in T
  BY <1>1
<1>4. ASSUME NEW n \in Nat, n \in T
      PROVE  n + 1 \in T
  <2>1. CASE n + 1 \in 0..Len(s)
    <3>1. n \in 0..Len(s) /\ n + 1 \in 1..Len(s) /\ (n + 1) - 1 = n
      BY <2>1, <1>2
    <3>2. a[n + 1] = a[n] + s[n + 1] /\ a[n] = IF n < k THEN 0 ELSE s[k]
      BY <3>1, <1>1, <1>4
    <3>3. a[n + 1] = IF n + 1 < k THEN 0 ELSE s[k]
      <4>1. CASE n + 1 = k
        BY <4>1, <3>2, <1>2
      <4>2. CASE n + 1 # k
        <5>1. s[n + 1] = 0
          BY <4>2, <3>1
        <5>2. QED
          BY <4>2, <5>1, <3>2, <1>2
      <4>3. QED
        BY <4>1, <4>2
    <3>4. QED
      BY <3>3
  <2>2. QED
    BY <2>1
<1>5. T = Nat
  <2>1. T \subseteq Nat
    OBVIOUS
  <2> HIDE DEF T
  <2>2. QED
    BY <1>3, <1>4, <2>1, SetInduction
<1>6. a[Len(s)] = s[k]
  BY <1>2, <1>5
<1>7. QED
  BY <1>6 DEF Total, a

\* Changing one element changes the total by as much.
THEOREM TotalChange ==
  ASSUME NEW s \in Seq(Int), NEW r \in Seq(Int), Len(r) = Len(s), NEW k \in 1..Len(s),
         \A i \in 1..Len(s) : i # k => r[i] = s[i]
  PROVE  Total(r) = Total(s) + (r[k] - s[k])
<1> DEFINE d == [i \in 1..Len(s) |-> IF i = k THEN r[k] - s[k] ELSE 0]
<1>1. Len(s) \in Nat /\ \A i \in 1..Len(s) : s[i] \in Int /\ r[i] \in Int
  BY LenProperties, ElementOfSeq
<1>2. d \in Seq(Int) /\ Len(d) = Len(s)
  BY <1>1
<1>3. d[k] = r[k] - s[k] /\ \A i \in 1..Len(s) : i # k => d[i] = 0
  OBVIOUS
<1> HIDE DEF d
<1>4. Total(d) = r[k] - s[k]
  BY <1>2, <1>3, TotalPoint
<1>5. \A i \in 1..Len(r) : r[i] = s[i] + d[i]
  BY <1>1, <1>3
<1>6. Len(s) = Len(r) /\ Len(d) = Len(r) /\ d \in Seq(Int)
  BY <1>2
<1>7. Total(r) = Total(s) + Total(d)
  BY <1>5, <1>6, TotalSum
<1>8. QED
  BY <1>4, <1>7

LEMMA ConcatInts ==
  ASSUME NEW x \in Seq(Int), NEW y \in Seq(Int)
  PROVE  x \o y \in Seq(Int) /\ Len(x \o y) = Len(x) + Len(y)
OBVIOUS

\* The total of what is made of two parts, one after the other.
LEMMA TotalParts ==
  ASSUME NEW q \in Seq(Int), NEW a \in Seq(Int), NEW b \in Seq(Int),
         Len(q) = Len(a) + Len(b), \A i \in 1..Len(a) : q[i] = a[i],
         \A k \in 1..Len(b) : q[Len(a) + k] = b[k]
  PROVE  Total(q) = Total(a) + Total(b)
<1>1. Len(a) \in Nat /\ Len(b) \in Nat
  BY LenProperties
<1>2. a \o b \in Seq(Int) /\ Len(a \o b) = Len(a) + Len(b)
  BY ConcatInts
<1>3. ASSUME NEW i \in 1..(Len(a) + Len(b))
      PROVE  q[i] = (a \o b)[i]
  <2>1. CASE i \in 1..Len(a)
    <3>1. (a \o b)[i] = a[i]
      BY <2>1
    <3>2. QED
      BY <2>1, <3>1
  <2>2. CASE i \notin 1..Len(a)
    <3>1. PICK k \in 1..Len(b) : i = Len(a) + k
      <4>1. i - Len(a) \in 1..Len(b) /\ i = Len(a) + (i - Len(a))
        BY <1>1, <2>2
      <4>2. QED
        BY <4>1
    <3>2. (a \o b)[Len(a) + k] = b[k]
      BY <1>1, <3>1, SMTT(60)
    <3>3. QED
      BY <3>1, <3>2
  <2>3. QED
    BY <2>1, <2>2
<1>4. q = a \o b
  BY <1>2, <1>3, SeqEqual
<1>5. QED
  BY <1>4, TotalConcat

\* A total is its first element and the total of the rest.
LEMMA TotalTail ==
  ASSUME NEW s \in Seq(Int), s # <<>>
  PROVE  Total(s) = Head(s) + Total(Tail(s))
<1>1. Len(s) \in Nat /\ Len(s) > 0 /\ Head(s) = s[1] /\ Head(s) \in Int
  BY EmptySeq, LenProperties, HeadTailProperties
<1>2. /\ Tail(s) \in Seq(Int) /\ Len(Tail(s)) = Len(s) - 1
      /\ \A k \in 1..Len(Tail(s)) : Tail(s)[k] = s[1 + k]
  BY <1>1, HeadTailProperties
<1> DEFINE a == Append(<<>>, Head(s))
<1>3. a \in Seq(Int) /\ Len(a) = 1 /\ a[1] = Head(s)
  BY <1>1
<1>4. Total(a) = Head(s)
  <2>1. <<>> \in Seq(Int)
    OBVIOUS
  <2>2. Total(a) = Total(<<>>) + Head(s)
    BY <1>1, <2>1, TotalAppend
  <2>3. QED
    BY <1>1, <2>2, TotalEmpty
<1> HIDE DEF a
<1>5. Len(s) = Len(a) + Len(Tail(s))
  BY <1>1, <1>2, <1>3
<1>6. \A i \in 1..Len(a) : s[i] = a[i]
  BY <1>1, <1>3
<1>7. \A k \in 1..Len(Tail(s)) : s[Len(a) + k] = Tail(s)[k]
  BY <1>2, <1>3
<1>8. Total(s) = Total(a) + Total(Tail(s))
  BY <1>2, <1>3, <1>5, <1>6, <1>7, TotalParts
<1>9. QED
  BY <1>4, <1>8

LEMMA TotalZeros ==
  ASSUME NEW s \in Seq(Int), \A i \in 1..Len(s) : s[i] = 0
  PROVE  Total(s) = 0
<1>1. CASE Len(s) = 0
  <2>1. s = <<>>
    BY <1>1, EmptySeq
  <2>2. QED
    BY <2>1, TotalEmpty
<1>2. CASE Len(s) # 0
  <2>1. 1 \in 1..Len(s)
    BY <1>2, LenProperties
  <2>2. QED
    BY <2>1, TotalPoint
<1>3. QED
  BY <1>1, <1>2

\* What is placed at places of its own adds up, in whatever order: the elements
\* of g stand in s at the places o, and everything else in s is 0.
THEOREM TotalPlaced ==
  ASSUME NEW s \in Seq(Int), NEW g \in Seq(Int), NEW o \in [1..Len(g) -> 1..Len(s)],
         \A i, j \in 1..Len(g) : o[i] = o[j] => i = j,
         \A j \in 1..Len(g) : s[o[j]] = g[j],
         \A i \in 1..Len(s) : (\A j \in 1..Len(g) : o[j] # i) => s[i] = 0
  PROVE  Total(s) = Total(g)
<1> DEFINE a == RunningTotals(g)
           x(n) == [i \in 1..Len(s) |-> IF \E j \in 1..n : o[j] = i THEN s[i] ELSE 0]
           T == {n \in Nat : n \in 0..Len(g) => Total(x(n)) = a[n]}
<1>1. /\ a[0] = 0 /\ \A n \in 0..Len(g) : a[n] \in Int
      /\ \A n \in 1..Len(g) : a[n] = a[n - 1] + g[n]
  BY RunningTotalsStep
<1>2. /\ Len(s) \in Nat /\ \A i \in 1..Len(s) : s[i] \in Int
      /\ Len(g) \in Nat /\ \A i \in 1..Len(g) : g[i] \in Int
  BY LenProperties, ElementOfSeq
<1> HIDE DEF a
<1>3. ASSUME NEW n \in Nat
      PROVE  x(n) \in Seq(Int) /\ Len(x(n)) = Len(s)
  BY <1>2
<1>4. 0 \in T
  <2>1. x(0) \in Seq(Int) /\ Len(x(0)) = Len(s)
    BY <1>3
  <2>2. \A i \in 1..Len(s) : x(0)[i] = 0
    OBVIOUS
  <2>3. Total(x(0)) = 0
    <3> HIDE DEF x
    <3>1. QED
      BY <2>1, <2>2, TotalZeros
  <2>4. QED
    BY <2>3, <1>1
<1>5. ASSUME NEW n \in Nat, n \in T
      PROVE  n + 1 \in T
  <2>1. ASSUME n + 1 \in 0..Len(g)
        PROVE  Total(x(n + 1)) = a[n + 1]
    <3> DEFINE k == o[n + 1]
    <3>1. n \in 0..Len(g) /\ n + 1 \in 1..Len(g) /\ (n + 1) - 1 = n
      BY <2>1, <1>2
    <3>2. k \in 1..Len(s) /\ s[k] = g[n + 1]
      BY <3>1
    <3>3. x(n)[k] = 0
      <4>1. \A j \in 1..n : o[j] # k
        <5>1. \A j \in 1..n : j \in 1..Len(g) /\ j # n + 1
          BY <3>1, <1>2
        <5>2. QED
          BY <3>1, <5>1
      <4>2. QED
        BY <4>1, <3>2
    <3>4. x(n + 1)[k] = g[n + 1]
      <4>1. n + 1 \in 1..(n + 1)
        OBVIOUS
      <4>2. QED
        BY <3>2, <4>1
    <3>5. ASSUME NEW i \in 1..Len(s), i # k
          PROVE  x(n + 1)[i] = x(n)[i]
      <4>1. (\E j \in 1..(n + 1) : o[j] = i) <=> (\E j \in 1..n : o[j] = i)
        BY <3>5
      <4>2. QED
        BY <4>1
    <3>6. /\ x(n) \in Seq(Int) /\ Len(x(n)) = Len(s)
          /\ x(n + 1) \in Seq(Int) /\ Len(x(n + 1)) = Len(s)
      BY <1>3
    <3> HIDE DEF x, k
    <3>7. Total(x(n + 1)) = Total(x(n)) + (x(n + 1)[k] - x(n)[k])
      BY <3>2, <3>5, <3>6, TotalChange
    <3>8. Total(x(n)) = a[n]
      BY <1>5, <3>1
    <3>9. a[n + 1] = a[n] + g[n + 1] /\ a[n] \in Int /\ g[n + 1] \in Int
      BY <1>1, <1>2, <3>1
    <3>10. QED
      BY <3>3, <3>4, <3>7, <3>8, <3>9
  <2>2. QED
    BY <2>1
<1>6. T = Nat
  <2>1. T \subseteq Nat
    OBVIOUS
  <2> HIDE DEF T
  <2>2. QED
    BY <1>4, <1>5, <2>1, SetInduction
<1>7. Total(x(Len(g))) = a[Len(g)]
  <2> HIDE DEF x
  <2>1. QED
    BY <1>2, <1>6
<1>8. s = x(Len(g))
  <2>1. x(Len(g)) \in Seq(Int) /\ Len(x(Len(g))) = Len(s)
    BY <1>2, <1>3
  <2>2. \A i \in 1..Len(s) : s[i] = x(Len(g))[i]
    OBVIOUS
  <2> HIDE DEF x
  <2>3. QED
    BY <2>1, <2>2, SeqEqual
<1>9. QED
  <2> HIDE DEF x
  <2>1. QED
    BY <1>7, <1>8 DEF Total, a

\* One draw after the other.
LEMMA LeftSteps ==
  ASSUME NEW s \in Seq(Nat), NEW amount \in Nat
  PROVE  /\ Left(s, amount)[0] = amount
         /\ \A k \in 0..Len(s) : Left(s, amount)[k] \in 0..amount
         /\ \A k \in 1..Len(s) : Left(s, amount)[k]
              = Left(s, amount)[k - 1] - Least(Left(s, amount)[k - 1], s[k])
<1> DEFINE u == Left(s, amount)
<1>1. u \in [0..Len(s) -> 0..amount] /\ AreLeft(s, amount, Len(s), u)
  BY LeftIsLeft
<1> HIDE DEF u
<1>2. \A k \in 0..Len(s) : u[k] = IF k = 0 THEN amount ELSE u[k - 1] - Least(u[k - 1], s[k])
  BY <1>1 DEF AreLeft
<1>3. Len(s) \in Nat
  BY LenProperties
<1>4. u[0] = amount
  BY <1>2, <1>3
<1>5. \A k \in 0..Len(s) : u[k] \in 0..amount
  BY <1>1
<1>6. \A k \in 1..Len(s) : u[k] = u[k - 1] - Least(u[k - 1], s[k])
  BY <1>2, <1>3
<1>7. QED
  BY <1>4, <1>5, <1>6 DEF u

\* A stock is used up before the next one is touched ...
THEOREM LeftExhausts ==
  ASSUME NEW s \in Seq(Nat), NEW amount \in Nat, NEW k \in 1..Len(s), Left(s, amount)[k] > 0
  PROVE  Left(s, amount)[k - 1] - Left(s, amount)[k] = s[k]
<1> DEFINE u == Left(s, amount)
<1>1. u[k] = u[k - 1] - Least(u[k - 1], s[k])
  BY LeftSteps
<1>2. u[k - 1] \in Int /\ s[k] \in Nat /\ u[k] > 0
  BY LeftType, ElementOfSeq
<1> HIDE DEF u
<1>3. Least(u[k - 1], s[k]) # u[k - 1]
  BY <1>1, <1>2
<1>4. Least(u[k - 1], s[k]) = s[k]
  BY <1>3 DEF Least
<1>5. QED
  BY <1>1, <1>2, <1>4 DEF u

\* ... and what is left never grows.
THEOREM LeftFalls ==
  ASSUME NEW s \in Seq(Nat), NEW amount \in Nat, NEW j \in 0..Len(s), NEW k \in 0..Len(s),
         j <= k
  PROVE  Left(s, amount)[k] <= Left(s, amount)[j]
<1> DEFINE u == Left(s, amount)
           T == {n \in Nat : j + n \in 0..Len(s) => u[j + n] <= u[j]}
<1>1. /\ \A n \in 0..Len(s) : u[n] \in 0..amount
      /\ \A n \in 1..Len(s) : u[n] = u[n - 1] - Least(u[n - 1], s[n])
  BY LeftSteps
<1>2. Len(s) \in Nat /\ \A i \in 1..Len(s) : s[i] \in Nat
  BY LenProperties, ElementOfSeq
<1> HIDE DEF u
<1>3. 0 \in T
  BY <1>1
<1>4. ASSUME NEW n \in Nat, n \in T
      PROVE  n + 1 \in T
  <2>1. CASE j + (n + 1) \in 0..Len(s)
    <3>1. /\ j + n \in 0..Len(s) /\ j + (n + 1) \in 1..Len(s)
          /\ (j + (n + 1)) - 1 = j + n
      BY <2>1, <1>2
    <3>2. u[j + n] <= u[j] /\ u[j] \in Nat /\ u[j + n] \in Nat
      BY <3>1, <1>1, <1>4
    <3>3. s[j + (n + 1)] \in Nat
      BY <3>1, <1>2
    <3>4. u[j + (n + 1)] = u[j + n] - Least(u[j + n], s[j + (n + 1)])
      BY <3>1, <1>1
    <3>5. u[j + (n + 1)] <= u[j + n] /\ u[j + (n + 1)] \in Int
      BY <3>2, <3>3, <3>4 DEF Least
    <3>6. u[j + (n + 1)] <= u[j]
      BY <3>2, <3>5
    <3>7. QED
      BY <3>6
  <2>2. QED
    BY <2>1
<1>5. T = Nat
  <2>1. T \subseteq Nat
    OBVIOUS
  <2> HIDE DEF T
  <2>2. QED
    BY <1>3, <1>4, <2>1, SetInduction
<1>6. k - j \in T
  <2>1. k - j \in Nat
    BY <1>2
  <2> HIDE DEF T
  <2>2. QED
    BY <1>5, <2>1
<1>7. j + (k - j) = k
  BY <1>2
<1>8. QED
  BY <1>6, <1>7 DEF u

\* Altogether the draws come to no more than the amount.
THEOREM LeftTotal ==
  ASSUME NEW s \in Seq(Nat), NEW amount \in Nat, NEW g \in Seq(Int), Len(g) = Len(s),
         \A k \in 1..Len(s) : g[k] = Left(s, amount)[k - 1] - Left(s, amount)[k]
  PROVE  Total(g) <= amount
<1> DEFINE u == Left(s, amount)
           a == RunningTotals(g)
           T == {n \in Nat : n \in 0..Len(s) => a[n] = amount - u[n]}
<1>1. u[0] = amount /\ \A n \in 0..Len(s) : u[n] \in 0..amount
  BY LeftSteps
<1>2. /\ a[0] = 0 /\ \A n \in 0..Len(s) : a[n] \in Int
      /\ \A n \in 1..Len(s) : a[n] = a[n - 1] + g[n]
  BY RunningTotalsStep
<1>3. \A n \in 1..Len(s) : g[n] = u[n - 1] - u[n]
  OBVIOUS
<1>4. Len(s) \in Nat
  BY LenProperties
<1> HIDE DEF u, a
<1>5. 0 \in T
  BY <1>1, <1>2
<1>6. ASSUME NEW n \in Nat, n \in T
      PROVE  n + 1 \in T
  <2>1. CASE n + 1 \in 0..Len(s)
    <3>1. n \in 0..Len(s) /\ n + 1 \in 1..Len(s) /\ (n + 1) - 1 = n
      BY <2>1, <1>4
    <3>2. a[n] = amount - u[n] /\ a[n + 1] = a[n] + (u[n] - u[n + 1])
      BY <3>1, <1>2, <1>3, <1>6
    <3>3. u[n] \in Int /\ u[n + 1] \in Int
      BY <3>1, <1>1
    <3>4. a[n + 1] = amount - u[n + 1]
      BY <3>2, <3>3
    <3>5. QED
      BY <3>4
  <2>2. QED
    BY <2>1
<1>7. T = Nat
  <2>1. T \subseteq Nat
    OBVIOUS
  <2> HIDE DEF T
  <2>2. QED
    BY <1>5, <1>6, <2>1, SetInduction
<1>8. a[Len(s)] = amount - u[Len(s)] /\ u[Len(s)] \in 0..amount
  BY <1>4, <1>7, <1>1
<1>9. a[Len(s)] <= amount
  BY <1>8
<1>10. QED
  BY <1>9 DEF Total, a
=============================================================================
