-------------------------- MODULE StatementProofs ---------------------------
(***************************************************************************)
(* Theorems about module Statement, for any width of the integers and any  *)
(* lines: the loop body of parseCSV with the callback of processUpload     *)
(* takes the results of a file to those of the file with one more line.    *)
(***************************************************************************)
EXTENDS Statement, FiniteSetTheorems, SequenceTheorems, WellFoundedInduction, TLAPS

-----------------------------------------------------------------------------
(* Induction over the naturals, on a set. *)
LEMMA NatSet ==
  ASSUME NEW S, 0 \in S, \A n \in Nat : n \in S => n + 1 \in S
  PROVE  Nat \subseteq S
<1> DEFINE R == {ss \in Nat \X Nat : ss[1] < ss[2]}
           T == Nat \ S
<1>1. IsWellFoundedOn(R, Nat)
  BY NatLessThanWellFounded DEF OpToRel
<1>2. SUFFICES ASSUME T # {} PROVE FALSE
  OBVIOUS
<1>3. PICK x \in T : \A y \in T : ~(<<y, x>> \in R)
  BY <1>1, <1>2, WFMin
<1>4. x # 0 /\ x - 1 \in Nat /\ <<x - 1, x>> \in R
  OBVIOUS
<1>5. x - 1 \in S
  BY <1>3, <1>4
<1> QED
  BY <1>4, <1>5

-----------------------------------------------------------------------------
(* The arithmetic of int64: to wrap in between changes nothing.            *)
LEMMA DivMod ==
  ASSUME NEW m \in Nat \ {0}, NEW a \in Int
  PROVE  a = m * (a \div m) + (a % m) /\ a % m \in 0..(m - 1) /\ a \div m \in Int
OBVIOUS

LEMMA DivModUnique ==
  ASSUME NEW m \in Nat \ {0}, NEW k \in Int, NEW l \in Int,
         NEW q \in 0..(m - 1), NEW r \in 0..(m - 1), m * k + q = m * l + r
  PROVE  q = r
OBVIOUS

LEMMA ModAdd ==
  ASSUME NEW m \in Nat \ {0}, NEW a \in Int, NEW x \in Int
  PROVE  ((a % m) + x) % m = (a + x) % m
<1> DEFINE b == (a % m) + x
           c == a + x
<1>1. b \in Int /\ c \in Int /\ c = m * (a \div m) + b
  BY DivMod
<1>2. b = m * (b \div m) + (b % m) /\ b % m \in 0..(m - 1) /\ b \div m \in Int
  BY <1>1, DivMod
<1>3. c = m * (c \div m) + (c % m) /\ c % m \in 0..(m - 1) /\ c \div m \in Int
  BY <1>1, DivMod
<1>4. a \div m \in Int
  OBVIOUS
<1> HIDE DEF b, c
<1>5. m * ((a \div m) + (b \div m)) + (b % m) = m * (c \div m) + (c % m)
  BY <1>1, <1>2, <1>3, <1>4
<1>6. (a \div m) + (b \div m) \in Int
  BY <1>2, <1>4
<1>7. b % m = c % m
  BY <1>2, <1>3, <1>5, <1>6, DivModUnique
<1> QED
  BY <1>7 DEF b, c

LEMMA WrapAdd ==
  ASSUME NEW a \in Int, NEW x \in Int
  PROVE  Wrap(Wrap(a) + x) = Wrap(a + x)
<1> DEFINE m == MaxInt - MinInt + 1
           b == a - MinInt
           v == Wrap(a) + x
           w == a + x
<1>1. m \in Nat \ {0} /\ b \in Int /\ MinInt \in Int
  BY MaxIntAssumption DEF MinInt
<1>2. ((b % m) + x) % m = (b + x) % m
  BY <1>1, ModAdd
<1>3. b % m \in Int
  BY <1>1, DivMod
<1>4. v - MinInt = (b % m) + x /\ w - MinInt = b + x
  BY <1>1, <1>3 DEF Wrap
<1>5. ((v - MinInt) % m = (w - MinInt) % m) => Wrap(v) = Wrap(w)
  <2> HIDE DEF v, w
  <2> QED
    BY DEF Wrap
<1> HIDE DEF m, b, v, w
<1>6. Wrap(v) = Wrap(w)
  BY <1>2, <1>4, <1>5
<1> QED
  BY <1>6 DEF v, w

LEMMA WrapType == \A a \in Int : Wrap(a) \in IntRange
<1> DEFINE m == MaxInt - MinInt + 1
<1>1. m \in Nat \ {0} /\ MinInt \in Int
  BY MaxIntAssumption DEF MinInt
<1> SUFFICES ASSUME NEW a \in Int PROVE Wrap(a) \in IntRange
  OBVIOUS
<1>2. (a - MinInt) % m \in 0..(m - 1)
  BY <1>1, DivMod
<1> QED
  BY <1>1, <1>2, MaxIntAssumption DEF Wrap, IntRange

LEMMA WrapSmall == \A a \in IntRange : Wrap(a) = a
<1> DEFINE m == MaxInt - MinInt + 1
<1>1. m \in Nat \ {0} /\ MinInt \in Int
  BY MaxIntAssumption DEF MinInt
<1> SUFFICES ASSUME NEW a \in IntRange PROVE Wrap(a) = a
  OBVIOUS
<1>2. a \in Int /\ a - MinInt \in 0..(m - 1)
  BY <1>1, MaxIntAssumption DEF IntRange
<1>3. (a - MinInt) % m = a - MinInt
  BY <1>1, <1>2
<1> QED
  BY <1>1, <1>2, <1>3 DEF Wrap

-----------------------------------------------------------------------------
(* Sums. *)
LEMMA PartialSums ==
  ASSUME NEW s \in Seq(Int)
  PROVE  \E f \in [0..Len(s) -> Int] :
           /\ f[0] = 0
           /\ \A n \in 1..Len(s) : f[n] = f[n - 1] + s[n]
           /\ AddUp(s) = f[Len(s)]
<1> DEFINE Sums(f, k) == \A n \in 0..k : f[n] = IF n = 0 THEN 0 ELSE f[n - 1] + s[n]
           Summed(k) == k <= Len(s) => \E f \in [0..k -> Int] : Sums(f, k)
           S == {k \in Nat : Summed(k)}
<1>1. Summed(0)
  <2>1. [n \in 0..0 |-> 0] \in [0..0 -> Int] /\ Sums([n \in 0..0 |-> 0], 0)
    OBVIOUS
  <2> QED
    BY <2>1
<1>2. ASSUME NEW k \in Nat, Summed(k)
      PROVE  Summed(k + 1)
  <2> SUFFICES ASSUME k + 1 <= Len(s)
               PROVE  \E f \in [0..(k + 1) -> Int] : Sums(f, k + 1)
    OBVIOUS
  <2>1. PICK f \in [0..k -> Int] : Sums(f, k)
    <3>1. k <= Len(s)
      OBVIOUS
    <3> QED
      BY <1>2, <3>1
  <2> DEFINE g == [n \in 0..(k + 1) |-> IF n = k + 1 THEN f[k] + s[k + 1] ELSE f[n]]
  <2>2. s[k + 1] \in Int
    OBVIOUS
  <2>3. g \in [0..(k + 1) -> Int]
    BY <2>2
  <2>4. Sums(g, k + 1)
    <3> SUFFICES ASSUME NEW n \in 0..(k + 1)
                 PROVE  g[n] = IF n = 0 THEN 0 ELSE g[n - 1] + s[n]
      OBVIOUS
    <3>1. CASE n = k + 1
      <4>1. n # 0 /\ n - 1 = k /\ k \in 0..(k + 1) /\ g[n] = f[k] + s[n] /\ g[k] = f[k]
        BY <3>1
      <4> QED
        BY <4>1
    <3>2. CASE n \in 0..k
      <4>1. g[n] = f[n] /\ (n # 0 => g[n - 1] = f[n - 1])
        BY <3>2
      <4> QED
        BY <2>1, <3>2, <4>1
    <3> QED
      BY <3>1, <3>2
  <2> QED
    BY <2>3, <2>4
<1>3. Summed(Len(s))
  <2> HIDE DEF Summed
  <2>1. 0 \in S /\ \A k \in Nat : k \in S => k + 1 \in S
    BY <1>1, <1>2
  <2>2. Nat \subseteq S
    <3> HIDE DEF S
    <3> QED
      BY <2>1, NatSet
  <2>3. Len(s) \in Nat
    OBVIOUS
  <2> QED
    BY <2>2, <2>3
<1>4. PICK f \in [0..Len(s) -> Int] : Sums(f, Len(s))
  BY <1>3
<1>5. f = [n \in 0..Len(s) |-> IF n = 0 THEN 0 ELSE f[n - 1] + s[n]]
  BY <1>4
<1>6. PICK g : /\ g = [n \in 0..Len(s) |-> IF n = 0 THEN 0 ELSE g[n - 1] + s[n]]
               /\ AddUp(s) = g[Len(s)]
  BY <1>5 DEF AddUp
<1>7. Sums(g, Len(s))
  BY <1>6
<1> DEFINE Typed(k) == k <= Len(s) => g[k] \in Int
           T == {k \in Nat : Typed(k)}
<1>8. Typed(0)
  BY <1>7
<1>9. ASSUME NEW k \in Nat, Typed(k)
      PROVE  Typed(k + 1)
  BY <1>7, <1>9
<1>10. \A k \in Nat : Typed(k)
  <2>1. 0 \in T /\ \A k \in Nat : k \in T => k + 1 \in T
    <3> HIDE DEF Typed
    <3> QED
      BY <1>8, <1>9
  <2>2. Nat \subseteq T
    <3> HIDE DEF T
    <3> QED
      BY <2>1, NatSet
  <2> QED
    BY <2>2
<1>11. g \in [0..Len(s) -> Int]
  <2>1. \A n \in 0..Len(s) : g[n] \in Int
    BY <1>10
  <2>2. g = [n \in 0..Len(s) |-> g[n]]
    BY <1>6
  <2> QED
    BY <2>1, <2>2
<1>12. g[0] = 0 /\ \A n \in 1..Len(s) : g[n] = g[n - 1] + s[n]
  BY <1>7
<1> QED
  BY <1>6, <1>11, <1>12

LEMMA AddUpAppend ==
  ASSUME NEW s \in Seq(Int), NEW x \in Int
  PROVE  AddUp(s) \in Int /\ AddUp(Append(s, x)) = AddUp(s) + x
<1> DEFINE t == Append(s, x)
<1>1. t \in Seq(Int) /\ Len(t) = Len(s) + 1 /\ t[Len(t)] = x /\ \A n \in 1..Len(s) : t[n] = s[n]
  OBVIOUS
<1> HIDE DEF t
<1>2. PICK f \in [0..Len(s) -> Int] :
        f[0] = 0 /\ (\A n \in 1..Len(s) : f[n] = f[n - 1] + s[n]) /\ AddUp(s) = f[Len(s)]
  BY PartialSums
<1>3. PICK g \in [0..Len(t) -> Int] :
        g[0] = 0 /\ (\A n \in 1..Len(t) : g[n] = g[n - 1] + t[n]) /\ AddUp(t) = g[Len(t)]
  BY <1>1, PartialSums
<1> DEFINE Same(k) == k <= Len(s) => g[k] = f[k]
           S == {k \in Nat : Same(k)}
<1>4. Same(0)
  BY <1>2, <1>3
<1>5. ASSUME NEW k \in Nat, Same(k)
      PROVE  Same(k + 1)
  BY <1>1, <1>2, <1>3, <1>5
<1>6. Same(Len(s))
  <2> HIDE DEF Same
  <2>1. 0 \in S /\ \A k \in Nat : k \in S => k + 1 \in S
    BY <1>4, <1>5
  <2>2. Nat \subseteq S
    <3> HIDE DEF S
    <3> QED
      BY <2>1, NatSet
  <2>3. Len(s) \in Nat
    OBVIOUS
  <2> QED
    BY <2>2, <2>3
<1>7. g[Len(t)] = g[Len(s)] + x
  <2>1. Len(t) \in 1..Len(t) /\ Len(t) - 1 = Len(s) /\ t[Len(t)] = x
    BY <1>1
  <2> QED
    BY <1>3, <2>1
<1>8. Len(s) \in Nat /\ Len(s) \in 0..Len(s)
  OBVIOUS
<1>9. g[Len(s)] = f[Len(s)] /\ f[Len(s)] \in Int
  BY <1>6, <1>8
<1> QED
  BY <1>2, <1>3, <1>7, <1>9 DEF t

LEMMA AddUpEmpty == AddUp(<<>>) = 0
<1>1. <<>> \in Seq(Int) /\ Len(<<>>) = 0
  OBVIOUS
<1> QED
  BY <1>1, PartialSums

-----------------------------------------------------------------------------
(* Positions in order.  A last one changes nothing before it.              *)
LEMMA LastOne ==
  ASSUME NEW S, IsFiniteSet(S), S \subseteq Int, NEW m \in Int, \A i \in S : i < m
  PROVE  /\ Cardinality(S) \in Nat
         /\ Cardinality(S \cup {m}) = Cardinality(S) + 1
         /\ \A k \in 1..Cardinality(S) : Nth(S \cup {m}, k) = Nth(S, k)
         /\ Nth(S \cup {m}, Cardinality(S) + 1) = m
<1> DEFINE T == S \cup {m}
           n == Cardinality(S)
           Upto(U, i) == {j \in U : j <= i}
<1>1. n \in Nat /\ Cardinality(T) = n + 1 /\ m \notin S
  BY FS_CardinalityType, FS_AddElement
<1>2. \A i \in S : Upto(T, i) = Upto(S, i)
  OBVIOUS
<1>3. Upto(T, m) = T
  <2>1. \A j \in T : j <= m
    OBVIOUS
  <2> QED
    BY <2>1
<1>4. ASSUME NEW i \in S
      PROVE  Cardinality(Upto(S, i)) <= n
  <2>1. Upto(S, i) \subseteq S
    OBVIOUS
  <2> QED
    BY <2>1, FS_Subset
<1>5. \A i \in S : Cardinality(Upto(S, i)) <= n
  BY <1>4
<1>6. ASSUME NEW k \in 1..n
      PROVE  Nth(T, k) = Nth(S, k)
  <2>1. Cardinality(Upto(T, m)) # k
    BY <1>1, <1>3
  <2>2. \A i \in S : Cardinality(Upto(T, i)) = Cardinality(Upto(S, i))
    BY <1>2
  <2>3. \A i : (i \in T /\ Cardinality(Upto(T, i)) = k) <=> (i \in S /\ Cardinality(Upto(S, i)) = k)
    <3> HIDE DEF Upto
    <3> QED
      BY <2>1, <2>2
  <2> QED
    BY <2>3 DEF Nth
<1>7. Nth(T, n + 1) = m
  <2>1. Cardinality(Upto(T, m)) = n + 1 /\ m \in T
    BY <1>1, <1>3
  <2>2. \A i \in T : Cardinality(Upto(T, i)) = n + 1 => i = m
    BY <1>1, <1>2, <1>5
  <2> QED
    BY <2>1, <2>2 DEF Nth
<1> QED
  BY <1>1, <1>6, <1>7

(* The k-th position is one that has k positions up to it. *)
LEMMA NthIn ==
  ASSUME NEW n \in Nat, NEW S \in SUBSET (1..n)
  PROVE  /\ IsFiniteSet(S) /\ Cardinality(S) \in Nat
         /\ \A k \in 1..Cardinality(S) :
              Nth(S, k) \in S /\ Cardinality({j \in S : j <= Nth(S, k)}) = k
<1> DEFINE Fine(T) == /\ IsFiniteSet(T) /\ Cardinality(T) \in Nat
                      /\ \A i \in 1..Cardinality(T) :
                           Nth(T, i) \in T /\ Cardinality({j \in T : j <= Nth(T, i)}) = i
           Good(k) == \A T \in SUBSET (1..k) : Fine(T)
           G == {k \in Nat : Good(k)}
<1>1. Good(0)
  <2>1. Fine({})
    BY FS_EmptySet
  <2>2. \A T \in SUBSET (1..0) : T = {}
    OBVIOUS
  <2> QED
    BY <2>1, <2>2
<1>2. ASSUME NEW k \in Nat, Good(k)
      PROVE  Good(k + 1)
  <2> SUFFICES ASSUME NEW T \in SUBSET (1..(k + 1))
               PROVE  Fine(T)
    OBVIOUS
  <2> DEFINE U == T \ {k + 1}
             c == Cardinality(U)
  <2>1. U \in SUBSET (1..k)
    OBVIOUS
  <2>2. Fine(U)
    BY <1>2, <2>1
  <2>3. CASE k + 1 \notin T
    <3>1. T = U
      BY <2>3
    <3> QED
      BY <2>2, <3>1
  <2>4. CASE k + 1 \in T
    <3>1. T = U \cup {k + 1} /\ U \subseteq Int /\ k + 1 \in Int /\ \A i \in U : i < k + 1
      BY <2>1, <2>4
    <3>2. IsFiniteSet(U)
      BY <2>2
    <3> HIDE DEF U
    <3>3. IsFiniteSet(T)
      BY <3>1, <3>2, FS_AddElement
    <3>4. /\ c \in Nat
          /\ Cardinality(T) = c + 1
          /\ \A i \in 1..c : Nth(T, i) = Nth(U, i)
          /\ Nth(T, c + 1) = k + 1
      BY <3>1, <3>2, LastOne
    <3>5. ASSUME NEW i \in 1..c
          PROVE  Nth(T, i) \in T /\ Cardinality({j \in T : j <= Nth(T, i)}) = i
      <4>1. Nth(U, i) \in U /\ Cardinality({j \in U : j <= Nth(U, i)}) = i
        BY <2>2
      <4> DEFINE x == Nth(U, i)
      <4>2. x \in U /\ x \in Int /\ x < k + 1
        BY <3>1, <4>1
      <4>3. ~(k + 1 <= x)
        BY <4>2
      <4> HIDE DEF x
      <4>4. {j \in T : j <= x} = {j \in U : j <= x}
        BY <3>1, <4>3
      <4>5. Nth(T, i) = x /\ x \in T
        BY <3>1, <3>4, <4>2 DEF x
      <4> QED
        BY <4>1, <4>4, <4>5 DEF x
    <3>6. {j \in T : j <= k + 1} = T
      <4>1. \A j \in T : j <= k + 1
        BY <3>1
      <4> QED
        BY <4>1
    <3>7. \A i \in 1..(c + 1) : i \in 1..c \/ i = c + 1
      BY <3>4
    <3>8. \A i \in 1..(c + 1) : Nth(T, i) \in T /\ Cardinality({j \in T : j <= Nth(T, i)}) = i
      BY <2>4, <3>4, <3>5, <3>6, <3>7
    <3> QED
      BY <3>3, <3>4, <3>8
  <2> QED
    BY <2>3, <2>4
<1>3. \A k \in Nat : Good(k)
  <2>1. 0 \in G /\ \A k \in Nat : k \in G => k + 1 \in G
    <3> HIDE DEF Good
    <3> QED
      BY <1>1, <1>2
  <2>2. Nat \subseteq G
    <3> HIDE DEF G
    <3> QED
      BY <2>1, NatSet
  <2> QED
    BY <2>2
<1> QED
  BY <1>3

LEMMA Positions ==
  ASSUME NEW n \in Nat, NEW S \in SUBSET (1..n)
  PROVE  /\ IsFiniteSet(S) /\ Cardinality(S) \in Nat
         /\ \A k \in 1..Cardinality(S) : Nth(S, k) \in S /\ Nth(S, k) \in 1..n
<1>1. IsFiniteSet(S) /\ Cardinality(S) \in Nat
  BY NthIn
<1>2. ASSUME NEW k \in 1..Cardinality(S)
      PROVE  Nth(S, k) \in S
  BY NthIn
<1> QED
  BY <1>1, <1>2

LEMMA NextPosition ==
  ASSUME NEW n \in Nat, NEW S \in SUBSET (1..n)
  PROVE  /\ Cardinality(S \cup {n + 1}) = Cardinality(S) + 1
         /\ \A k \in 1..Cardinality(S) : Nth(S \cup {n + 1}, k) = Nth(S, k)
         /\ Nth(S \cup {n + 1}, Cardinality(S) + 1) = n + 1
<1>1. IsFiniteSet(S) /\ n + 1 \in Int
  BY Positions
<1>2. S \subseteq Int /\ \A i \in S : i < n + 1
  OBVIOUS
<1> QED
  BY <1>1, <1>2, LastOne

(* InOrder lists the positions of a set, each one once, in their order.    *)
THEOREM OrderIsRight ==
  ASSUME NEW n \in Nat, NEW S \in SUBSET (1..n)
  PROVE  /\ InOrder(S) \in Seq(S)
         /\ \A k, l \in DOMAIN InOrder(S) : k < l => InOrder(S)[k] < InOrder(S)[l]
         /\ \A i \in S : \E k \in DOMAIN InOrder(S) : InOrder(S)[k] = i
<1> DEFINE Upto(i) == {j \in S : j <= i}
           Rank(i) == Cardinality(Upto(i))
           c == Cardinality(S)
<1>1. IsFiniteSet(S) /\ c \in Nat /\ \A k \in 1..c : Nth(S, k) \in S
  BY Positions
<1>2. S \subseteq Int
  OBVIOUS
<1>3. \A k \in 1..c : Rank(Nth(S, k)) = k
  BY NthIn
<1>4. ASSUME NEW i \in S
      PROVE  IsFiniteSet(Upto(i)) /\ Rank(i) \in 1..c
  <2>1. Upto(i) \subseteq S /\ i \in Upto(i)
    BY <1>2
  <2>2. IsFiniteSet(Upto(i)) /\ Rank(i) <= c
    BY <1>1, <2>1, FS_Subset
  <2>3. Rank(i) \in Nat /\ Rank(i) # 0
    BY <2>1, <2>2, FS_CardinalityType, FS_EmptySet
  <2> QED
    BY <1>1, <2>2, <2>3
<1>5. ASSUME NEW i \in S, NEW j \in S, i < j
      PROVE  Rank(i) < Rank(j)
  <2>1. Upto(i) \subseteq Upto(j) /\ j \in Upto(j) /\ j \notin Upto(i)
    <3>1. i \in Int /\ j \in Int /\ \A a \in S : a <= i => a <= j
      BY <1>2, <1>5
    <3>2. j <= j /\ ~(j <= i)
      BY <1>5, <3>1
    <3> QED
      BY <3>1, <3>2
  <2>2. IsFiniteSet(Upto(j)) /\ Rank(i) \in Int /\ Rank(j) \in Int
    BY <1>1, <1>4
  <2> HIDE DEF Upto
  <2>3. Rank(i) <= Rank(j) /\ Rank(i) # Rank(j)
    BY <2>1, <2>2, FS_Subset
  <2> HIDE DEF Rank
  <2> QED
    BY <2>2, <2>3
<1>6. InOrder(S) = [k \in 1..c |-> Nth(S, k)]
  BY DEF InOrder
<1> HIDE DEF Rank, c
<1>7. \A k, l \in 1..c : k < l => Nth(S, k) < Nth(S, l)
  <2> SUFFICES ASSUME NEW k \in 1..c, NEW l \in 1..c, k < l
               PROVE  Nth(S, k) < Nth(S, l)
    OBVIOUS
  <2>1. Nth(S, k) \in S /\ Rank(Nth(S, k)) = k /\ Nth(S, l) \in S /\ Rank(Nth(S, l)) = l
    BY <1>1, <1>3
  <2>2. Nth(S, l) < Nth(S, k) \/ Nth(S, l) = Nth(S, k) \/ Nth(S, k) < Nth(S, l)
    <3>1. Nth(S, k) \in Int /\ Nth(S, l) \in Int
      BY <1>2, <2>1
    <3> QED
      BY <3>1
  <2>3. ~(Nth(S, l) < Nth(S, k))
    <3>1. ~(l < k)
      OBVIOUS
    <3> QED
      BY <1>5, <2>1, <3>1
  <2>4. k # l
    OBVIOUS
  <2> QED
    BY <2>1, <2>2, <2>3, <2>4
<1>8. \A i \in S : \E k \in 1..c : Nth(S, k) = i
  <2> SUFFICES ASSUME NEW i \in S
               PROVE  Nth(S, Rank(i)) = i /\ Rank(i) \in 1..c
    OBVIOUS
  <2> DEFINE m == Nth(S, Rank(i))
  <2>1. Rank(i) \in 1..c
    BY <1>4
  <2>2. m \in S /\ Rank(m) = Rank(i)
    BY <1>1, <1>3, <2>1
  <2>3. Rank(i) \in Int
    BY <1>1, <2>1
  <2> HIDE DEF m
  <2>4. i < m \/ m < i \/ i = m
    BY <1>2, <2>2
  <2>5. ~(i < m) /\ ~(m < i)
    BY <1>5, <2>2, <2>3
  <2> QED
    BY <2>1, <2>4, <2>5 DEF m
<1>9. InOrder(S) \in Seq(S) /\ DOMAIN InOrder(S) = 1..c
  BY <1>1, <1>6
<1> QED
  BY <1>6, <1>7, <1>8, <1>9

(* A sequence given place by place. *)
LEMMA IsAppend ==
  ASSUME NEW V, NEW c \in Nat, NEW f \in [1..c -> V], NEW g \in [1..(c + 1) -> V],
         \A k \in 1..c : g[k] = f[k]
  PROVE  f \in Seq(V) /\ Len(f) = c /\ g = Append(f, g[c + 1])
<1> DEFINE x == g[c + 1]
<1>1. f \in Seq(V) /\ Len(f) = c /\ x \in V
  OBVIOUS
<1>2. g \in Seq(V) /\ Len(g) = c + 1
  OBVIOUS
<1>3. /\ Append(f, x) \in Seq(V)
      /\ Len(Append(f, x)) = c + 1
      /\ \A k \in 1..c : Append(f, x)[k] = f[k]
      /\ Append(f, x)[c + 1] = x
  BY <1>1, AppendProperties
<1>4. \A k \in 1..(c + 1) : k \in 1..c \/ k = c + 1
  OBVIOUS
<1>5. \A k \in 1..Len(g) : g[k] = Append(f, x)[k]
  BY <1>2, <1>3, <1>4
<1> HIDE DEF x
<1>6. g = Append(f, x)
  BY <1>2, <1>3, <1>5, SeqEqual
<1> QED
  BY <1>1, <1>6 DEF x

LEMMA InOrderAppend ==
  ASSUME NEW n \in Nat, NEW S \in SUBSET (1..n)
  PROVE  /\ InOrder(S) \in Seq(Nat)
         /\ InOrder(S \cup {n + 1}) = Append(InOrder(S), n + 1)
<1> DEFINE T == S \cup {n + 1}
           c == Cardinality(S)
<1>1. c \in Nat /\ \A k \in 1..c : Nth(S, k) \in 1..n
  BY Positions
<1>2. /\ Cardinality(T) = c + 1
      /\ \A k \in 1..c : Nth(T, k) = Nth(S, k)
      /\ Nth(T, c + 1) = n + 1
  BY NextPosition
<1>3. /\ InOrder(S) = [k \in 1..c |-> Nth(S, k)]
      /\ InOrder(T) = [k \in 1..(c + 1) |-> Nth(T, k)]
  BY <1>2 DEF InOrder
<1> HIDE DEF T, c
<1>4. \A k \in 1..(c + 1) : k \in 1..c \/ k = c + 1
  BY <1>1
<1>5. /\ InOrder(S) \in [1..c -> Nat]
      /\ InOrder(T) \in [1..(c + 1) -> Nat]
      /\ \A k \in 1..c : InOrder(T)[k] = InOrder(S)[k]
      /\ InOrder(T)[c + 1] = n + 1
  BY <1>1, <1>2, <1>3, <1>4
<1>6. InOrder(S) \in Seq(Nat) /\ InOrder(T) = Append(InOrder(S), n + 1)
  BY <1>1, <1>5, IsAppend
<1> QED
  BY <1>6 DEF T

LEMMA PickAppend ==
  ASSUME NEW V, NEW s \in Seq(V), NEW x \in V, NEW S \in SUBSET (1..Len(s))
  PROVE  /\ Pick(Append(s, x), S) = Pick(s, S)
         /\ Pick(Append(s, x), S \cup {Len(s) + 1}) = Append(Pick(s, S), x)
<1> DEFINE n == Len(s)
           t == Append(s, x)
           T == S \cup {n + 1}
           c == Cardinality(S)
<1>1. n \in Nat /\ t[n + 1] = x /\ \A i \in 1..n : s[i] \in V /\ t[i] = s[i]
  OBVIOUS
<1> HIDE DEF n, t
<1>2. S \in SUBSET (1..n)
  BY DEF n
<1>3. c \in Nat /\ \A k \in 1..c : Nth(S, k) \in 1..n
  BY <1>1, <1>2, Positions
<1>4. /\ Cardinality(T) = c + 1
      /\ \A k \in 1..c : Nth(T, k) = Nth(S, k)
      /\ Nth(T, c + 1) = n + 1
  BY <1>1, <1>2, NextPosition
<1>5. /\ Pick(s, S) = [k \in 1..c |-> s[Nth(S, k)]]
      /\ Pick(t, S) = [k \in 1..c |-> t[Nth(S, k)]]
      /\ Pick(t, T) = [k \in 1..(c + 1) |-> t[Nth(T, k)]]
  BY <1>4 DEF Pick
<1> HIDE DEF T, c
<1>6. /\ Pick(s, S) \in [1..c -> V]
      /\ Pick(t, T) \in [1..(c + 1) -> V]
      /\ \A k \in 1..c : Pick(t, T)[k] = Pick(s, S)[k]
      /\ Pick(t, T)[c + 1] = x
  <2>1. \A k \in 1..(c + 1) : k \in 1..c \/ k = c + 1
    BY <1>3
  <2>2. \A k \in 1..c : k \in 1..(c + 1) /\ k # c + 1
    BY <1>3
  <2>3. \A k \in 1..c : s[Nth(S, k)] \in V /\ t[Nth(T, k)] = s[Nth(S, k)]
    BY <1>1, <1>3, <1>4
  <2>4. t[Nth(T, c + 1)] = x /\ c + 1 \in 1..(c + 1)
    BY <1>1, <1>3, <1>4
  <2>5. Pick(s, S) \in [1..c -> V]
    BY <1>5, <2>3
  <2>6. Pick(t, T) \in [1..(c + 1) -> V]
    BY <1>5, <2>1, <2>3, <2>4
  <2>7. \A k \in 1..c : Pick(t, T)[k] = Pick(s, S)[k]
    BY <1>5, <2>2, <2>3
  <2> QED
    BY <1>5, <2>4, <2>5, <2>6, <2>7
<1>7. Pick(t, S) = Pick(s, S)
  BY <1>1, <1>3, <1>5
<1>8. Pick(t, T) = Append(Pick(s, S), x)
  BY <1>3, <1>6, IsAppend
<1> QED
  BY <1>7, <1>8 DEF n, t, T

LEMMA PickNone == \A s : Pick(s, {}) = <<>> /\ InOrder({}) = <<>>
<1>1. Cardinality({}) = 0
  BY FS_EmptySet
<1> QED
  BY <1>1 DEF Pick, InOrder

-----------------------------------------------------------------------------
(* What a body amounts to.                                                 *)
Readable(body) == \A i \in 1..Len(body) : body[i].quoted

LEMMA ReadableRecords ==
  ASSUME NEW V, NEW body \in Seq(V), Readable(body)
  PROVE  Records(body) = 1..Len(body)
BY DEF Records, Readable

(* The first line that is refused ends the records. *)
LEMMA RefusedRecords ==
  ASSUME NEW V, NEW body \in Seq(V), NEW n \in Nat, n < Len(body),
         \A i \in 1..n : body[i].quoted, ~body[n + 1].quoted
  PROVE  Records(body) = 1..n
<1>1. \A i \in 1..n : i \in DOMAIN body /\ \A j \in 1..i : body[j].quoted
  OBVIOUS
<1>2. \A i \in DOMAIN body : i \notin 1..n => n + 1 \in 1..i
  OBVIOUS
<1> QED
  BY <1>1, <1>2 DEF Records

(* Two bodies with the same records have all but their ends in common. *)
LEMMA SameRecords ==
  ASSUME NEW s, NEW t, Records(s) = Records(t), \A i \in Records(s) : s[i] = t[i]
  PROVE  /\ Parsed(s) = Parsed(t)
         /\ Unsettled(s) = Unsettled(t)
         /\ Transactions(s) = Transactions(t)
         /\ \A type : Amounts(s, type) = Amounts(t, type)
<1>1. Parsed(s) = Parsed(t) /\ \A i \in Parsed(s) : i \in Records(s)
  BY DEF Parsed
<1>2. Unsettled(s) = Unsettled(t)
  BY <1>1 DEF Unsettled
<1>3. Transactions(s) = Transactions(t)
  BY DEF Transactions
<1>4. \A type : Amounts(s, type) = Amounts(t, type)
  BY <1>1, <1>2 DEF Amounts
<1> QED
  BY <1>1, <1>2, <1>3, <1>4

LEMMA AmountsType ==
  ASSUME NEW V, NEW s \in Seq(V), Readable(s), NEW type
  PROVE  Amounts(s, type) \in Seq(Int) /\ Len(Amounts(s, type)) = Len(s)
<1>1. Records(s) = 1..Len(s) /\ Len(s) \in Nat
  BY ReadableRecords
<1>2. \A i \in Parsed(s) : s[i].amount \in Int
  BY MaxIntAssumption DEF Parsed, Parses, IntRange, MinInt
<1>3. Amounts(s, type) \in [1..Len(s) -> Int]
  BY <1>1, <1>2 DEF Amounts
<1> QED
  BY <1>1, <1>3

(* What one more line adds to each part of the reference. *)
LEMMA OneMoreLine ==
  ASSUME NEW V, NEW s \in Seq(V), NEW line \in V, Readable(s), line.quoted
  PROVE  LET n == Len(s)
             t == Append(s, line)
         IN /\ Records(t) = Records(s) \cup {n + 1}
            /\ Parsed(t) = IF Parses(line) THEN Parsed(s) \cup {n + 1} ELSE Parsed(s)
            /\ Unsettled(t) = IF Parses(line) /\ Tx(line).status # "SUCCESS"
                              THEN Unsettled(s) \cup {n + 1} ELSE Unsettled(s)
            /\ Transactions(t) = Append(Transactions(s), Tx(line))
            /\ \A type : Amounts(t, type) =
                 Append(Amounts(s, type),
                        IF Parses(line) /\ Tx(line).status = "SUCCESS" /\ Tx(line).type = type
                        THEN line.amount ELSE 0)
<1> DEFINE n == Len(s)
           t == Append(s, line)
           W == {Tx(v) : v \in V}
<1>1. /\ n \in Nat /\ t \in Seq(V) /\ Len(t) = n + 1 /\ t[n + 1] = line
      /\ \A i \in 1..n : t[i] = s[i] /\ s[i] \in V
  OBVIOUS
<1> HIDE DEF n, t
<1>2. \A i \in 1..(n + 1) : i \in 1..n \/ i = n + 1
  BY <1>1
<1>3. Readable(t)
  BY <1>1, <1>2 DEF Readable, n
<1>4. Records(s) = 1..n /\ Records(t) = 1..(n + 1)
  BY <1>1, <1>3, ReadableRecords DEF n
<1>5. n + 1 \notin 1..n /\ 1..(n + 1) = 1..n \cup {n + 1}
  BY <1>1
<1>6. Parsed(t) = IF Parses(line) THEN Parsed(s) \cup {n + 1} ELSE Parsed(s)
  BY <1>1, <1>4, <1>5 DEF Parsed
<1>7. \A i \in Parsed(s) : i \in 1..n
  BY <1>4 DEF Parsed
<1>8. Unsettled(t) = IF Parses(line) /\ Tx(line).status # "SUCCESS"
                    THEN Unsettled(s) \cup {n + 1} ELSE Unsettled(s)
  <2>1. \A i \in Parsed(s) : Tx(t[i]).status = Tx(s[i]).status
    BY <1>1, <1>7
  <2> QED
    BY <1>1, <1>6, <2>1 DEF Unsettled
<1>9. Transactions(t) = Append(Transactions(s), Tx(line))
  <2>1. Transactions(s) = [i \in 1..n |-> Tx(s[i])] /\ Transactions(t) = [i \in 1..(n + 1) |-> Tx(t[i])]
    BY <1>4 DEF Transactions
  <2>2. Tx(line) \in W /\ \A i \in 1..n : Tx(s[i]) \in W /\ t[i] = s[i]
    BY <1>1
  <2> HIDE DEF W
  <2>3. Transactions(s) \in [1..n -> W]
    BY <2>1, <2>2
  <2>4. Transactions(t) \in [1..(n + 1) -> W]
    BY <1>1, <1>2, <2>1, <2>2
  <2>5. /\ \A i \in 1..n : Transactions(t)[i] = Transactions(s)[i]
        /\ Transactions(t)[n + 1] = Tx(line)
    BY <1>1, <1>5, <2>1, <2>2
  <2> QED
    BY <1>1, <2>3, <2>4, <2>5, IsAppend
<1>10. ASSUME NEW type
       PROVE  Amounts(t, type) =
                Append(Amounts(s, type),
                       IF Parses(line) /\ Tx(line).status = "SUCCESS" /\ Tx(line).type = type
                       THEN line.amount ELSE 0)
  <2> DEFINE f == Amounts(s, type)
             g == Amounts(t, type)
             x == IF Parses(line) /\ Tx(line).status = "SUCCESS" /\ Tx(line).type = type
                  THEN line.amount ELSE 0
  <2>1. f \in Seq(Int) /\ Len(f) = n /\ g \in Seq(Int) /\ Len(g) = n + 1
    BY <1>1, <1>3, AmountsType DEF n
  <2>2. /\ n + 1 \in Parsed(t) <=> Parses(line)
        /\ n + 1 \in Unsettled(t) <=> Parses(line) /\ Tx(line).status # "SUCCESS"
    BY <1>5, <1>6, <1>7, <1>8 DEF Unsettled
  <2>3. g[n + 1] = x
    <3>1. g[n + 1] = IF n + 1 \in Parsed(t) \ Unsettled(t) /\ Tx(line).type = type
                     THEN line.amount ELSE 0
      BY <1>1, <1>4, <1>5 DEF Amounts
    <3> QED
      BY <2>2, <3>1
  <2>4. ASSUME NEW i \in 1..n
        PROVE  g[i] = f[i]
    <3>1. i # n + 1 /\ i \in Records(s) /\ i \in Records(t) /\ t[i] = s[i]
      BY <1>1, <1>4, <1>5
    <3>2. (i \in Parsed(t) <=> i \in Parsed(s)) /\ (i \in Unsettled(t) <=> i \in Unsettled(s))
      BY <1>6, <1>8, <3>1
    <3> QED
      BY <3>1, <3>2 DEF Amounts
  <2> HIDE DEF f, g, x
  <2>5. f \in [1..n -> Int] /\ g \in [1..(n + 1) -> Int]
    BY <2>1
  <2>6. g = Append(f, x)
    BY <1>1, <2>3, <2>4, <2>5, IsAppend
  <2> QED
    BY <2>6 DEF f, g, x
<1>11. Records(t) = Records(s) \cup {n + 1}
  BY <1>4, <1>5
<1> QED
  BY <1>6, <1>8, <1>9, <1>10, <1>11 DEF n, t

LEMMA TransactionsType ==
  ASSUME NEW V, NEW s \in Seq(V), Readable(s)
  PROVE  /\ Transactions(s) \in Seq({Tx(v) : v \in V}) /\ Len(Transactions(s)) = Len(s)
         /\ Parsed(s) \in SUBSET (1..Len(s)) /\ Unsettled(s) \in SUBSET (1..Len(s))
<1> DEFINE W == {Tx(v) : v \in V}
<1>1. Records(s) = 1..Len(s) /\ Len(s) \in Nat
  BY ReadableRecords
<1>2. \A i \in 1..Len(s) : Tx(s[i]) \in W
  OBVIOUS
<1> HIDE DEF W
<1>3. Transactions(s) \in [1..Len(s) -> W]
  BY <1>1, <1>2 DEF Transactions
<1>4. Transactions(s) \in Seq(W) /\ Len(Transactions(s)) = Len(s)
  BY <1>1, <1>3
<1> QED
  BY <1>1, <1>4 DEF W, Parsed, Unsettled

(* The callback takes the results of the lines before to the results with  *)
(* the line.                                                               *)
THEOREM NextLine ==
  ASSUME NEW V, NEW s \in Seq(V), NEW line \in V, Readable(s), line.quoted
  PROVE  /\ Readable(Append(s, line))
         /\ Evaluate(Append(s, line), TRUE) = ReadLine(Evaluate(s, TRUE), line)
<1> DEFINE n == Len(s)
           t == Append(s, line)
           W == {Tx(v) : v \in V}
           credit == AddUp(Amounts(s, "CREDIT"))
           debit == AddUp(Amounts(s, "DEBIT"))
           good == Parses(line)
           tx == Tx(line)
           issue == tx.status # "SUCCESS"
           Share(type) == IF good /\ ~issue /\ tx.type = type THEN line.amount ELSE 0
           before == Evaluate(s, TRUE)
           after == Evaluate(t, TRUE)
<1>1. n \in Nat /\ t \in Seq(V) /\ Len(t) = n + 1 /\ \A i \in 1..(n + 1) : t[i].quoted
  BY DEF Readable
<1>2. Readable(t)
  BY <1>1 DEF Readable
<1>3. /\ Records(s) = 1..n /\ DOMAIN s = 1..n
      /\ Records(t) = 1..(n + 1) /\ DOMAIN t = 1..(n + 1)
  <2>1. Records(s) = 1..n /\ DOMAIN s = 1..n
    BY ReadableRecords
  <2> HIDE DEF n, t
  <2>2. Records(t) = 1..Len(t) /\ DOMAIN t = 1..Len(t)
    BY <1>1, <1>2, ReadableRecords
  <2> QED
    BY <1>1, <2>1, <2>2
<1>4. /\ Parsed(t) = IF good THEN Parsed(s) \cup {n + 1} ELSE Parsed(s)
      /\ Unsettled(t) = IF good /\ issue THEN Unsettled(s) \cup {n + 1} ELSE Unsettled(s)
      /\ Transactions(t) = Append(Transactions(s), tx)
      /\ \A type : Amounts(t, type) = Append(Amounts(s, type), Share(type))
  BY OneMoreLine
<1>5. /\ Transactions(s) \in Seq(W) /\ Len(Transactions(s)) = n
      /\ Parsed(s) \in SUBSET (1..n) /\ Unsettled(s) \in SUBSET (1..n)
  BY TransactionsType
<1>6. good => tx.type \in TxTypes /\ tx.status \in TxStatuses /\ tx.amount = line.amount
              /\ line.amount \in Int
  BY MaxIntAssumption DEF Parses, Tx, IntRange, MinInt
<1>7. tx \in W
  OBVIOUS
<1>8. \A type : Amounts(s, type) \in Seq(Int) /\ Share(type) \in Int
  BY <1>6, AmountsType
<1> HIDE DEF n, t, W, good, tx, issue
<1>9. /\ before = [balance |-> Wrap(credit - debit),
                   issues |-> Pick(Transactions(s), Unsettled(s)),
                   totalLines |-> Cardinality(Records(s)),
                   parsedOK |-> Cardinality(Parsed(s)),
                   parseErr |-> Cardinality(Records(s) \ Parsed(s)) + 0]
      /\ after = [balance |-> Wrap(AddUp(Amounts(t, "CREDIT")) - AddUp(Amounts(t, "DEBIT"))),
                  issues |-> Pick(Transactions(t), Unsettled(t)),
                  totalLines |-> Cardinality(Records(t)),
                  parsedOK |-> Cardinality(Parsed(t)),
                  parseErr |-> Cardinality(Records(t) \ Parsed(t)) + 0]
  BY <1>3 DEF Evaluate, ReadsThrough
<1>10. credit \in Int /\ debit \in Int
  BY <1>8, AddUpAppend
<1>11. after.balance = Wrap(before.balance + (Share("CREDIT") - Share("DEBIT")))
  <2>1. AddUp(Amounts(t, "CREDIT")) = credit + Share("CREDIT")
    BY <1>4, <1>8, AddUpAppend
  <2>2. AddUp(Amounts(t, "DEBIT")) = debit + Share("DEBIT")
    BY <1>4, <1>8, AddUpAppend
  <2>3. Share("CREDIT") \in Int /\ Share("DEBIT") \in Int
    BY <1>8
  <2> HIDE DEF Share, credit, debit
  <2>4. /\ credit - debit \in Int /\ Share("CREDIT") - Share("DEBIT") \in Int
        /\ (credit + Share("CREDIT")) - (debit + Share("DEBIT"))
             = (credit - debit) + (Share("CREDIT") - Share("DEBIT"))
    BY <1>10, <2>3
  <2>5. Wrap(Wrap(credit - debit) + (Share("CREDIT") - Share("DEBIT")))
          = Wrap((credit - debit) + (Share("CREDIT") - Share("DEBIT")))
    BY <2>4, WrapAdd
  <2> HIDE DEF before, after
  <2>6. /\ after.balance = Wrap((credit + Share("CREDIT")) - (debit + Share("DEBIT")))
        /\ before.balance = Wrap(credit - debit)
    BY <1>9, <2>1, <2>2
  <2> QED
    BY <2>4, <2>5, <2>6
<1>12. after.issues = IF good /\ issue THEN Append(before.issues, tx) ELSE before.issues
  <2>1. /\ Pick(Transactions(t), Unsettled(s)) = Pick(Transactions(s), Unsettled(s))
        /\ Pick(Transactions(t), Unsettled(s) \cup {n + 1})
             = Append(Pick(Transactions(s), Unsettled(s)), tx)
    <3> DEFINE f == Transactions(s)
               S == Unsettled(s)
    <3>1. f \in Seq(W) /\ S \in SUBSET (1..Len(f)) /\ Len(f) = n
      BY <1>5
    <3> HIDE DEF f, S
    <3>2. /\ Pick(Append(f, tx), S) = Pick(f, S)
          /\ Pick(Append(f, tx), S \cup {n + 1}) = Append(Pick(f, S), tx)
      <4>1. f \in Seq(W) /\ tx \in W /\ S \in SUBSET (1..Len(f))
        BY <1>7, <3>1
      <4> HIDE DEF tx
      <4>2. Pick(Append(f, tx), S \cup {Len(f) + 1}) = Append(Pick(f, S), tx)
        BY <4>1, PickAppend
      <4>3. Pick(Append(f, tx), S) = Pick(f, S)
        BY <4>1, <4>2, PickAppend
      <4> QED
        BY <3>1, <4>2, <4>3
    <3> QED
      BY <1>4, <3>2 DEF f, S
  <2> HIDE DEF before, after
  <2> QED
    BY <1>4, <1>9, <2>1
<1>13. /\ after.totalLines = before.totalLines + 1
       /\ after.parsedOK = before.parsedOK + (IF good THEN 1 ELSE 0)
       /\ after.parseErr = before.parseErr + (IF good THEN 0 ELSE 1)
       /\ before.parsedOK \in Nat /\ before.parseErr \in Nat
  <2> DEFINE P == Parsed(s)
             Q == Records(s) \ P
             R == Records(t) \ Parsed(t)
  <2>1. IsFiniteSet(1..n) /\ P \subseteq 1..n /\ Q \subseteq 1..n /\ Records(s) = 1..n
    <3>1. IsFiniteSet(1..n)
      BY <1>1, FS_Interval
    <3> QED
      BY <1>3, <1>5, <3>1
  <2>2. IsFiniteSet(P) /\ IsFiniteSet(Q) /\ IsFiniteSet(Records(s))
    BY <2>1, FS_Subset
  <2>3. n + 1 \notin P /\ n + 1 \notin Q /\ n + 1 \notin Records(s)
    BY <1>1, <2>1
  <2>4. Records(t) = Records(s) \cup {n + 1}
    BY <1>1, <1>3
  <2>5. /\ Parsed(t) = IF good THEN P \cup {n + 1} ELSE P
        /\ R = IF good THEN Q ELSE Q \cup {n + 1}
    BY <1>4, <2>3, <2>4
  <2> HIDE DEF P
  <2>6. /\ Cardinality(P \cup {n + 1}) = Cardinality(P) + 1
        /\ Cardinality(Records(s) \cup {n + 1}) = Cardinality(Records(s)) + 1
        /\ Cardinality(P) \in Nat
    BY <2>2, <2>3, FS_AddElement, FS_CardinalityType
  <2> HIDE DEF Q, R
  <2>7. Cardinality(Q \cup {n + 1}) = Cardinality(Q) + 1 /\ Cardinality(Q) \in Nat
    BY <2>2, <2>3, FS_AddElement, FS_CardinalityType
  <2> HIDE DEF before, after
  <2>8. before.totalLines = Cardinality(Records(s)) /\ after.totalLines = Cardinality(Records(t))
    BY <1>9
  <2>9. before.parsedOK = Cardinality(P) /\ after.parsedOK = Cardinality(Parsed(t))
    BY <1>9 DEF P
  <2>10. before.parseErr = Cardinality(Q) + 0 /\ after.parseErr = Cardinality(R) + 0
    BY <1>9 DEF P, Q, R
  <2>11. after.totalLines = before.totalLines + 1
    BY <2>4, <2>6, <2>8
  <2>12. after.parsedOK = before.parsedOK + (IF good THEN 1 ELSE 0) /\ before.parsedOK \in Nat
    <3>1. CASE good
      BY <2>5, <2>6, <2>9, <3>1
    <3>2. CASE ~good
      BY <2>5, <2>6, <2>9, <3>2
    <3> QED
      BY <3>1, <3>2
  <2>13. after.parseErr = before.parseErr + (IF good THEN 0 ELSE 1) /\ before.parseErr \in Nat
    <3>1. CASE good
      BY <2>5, <2>7, <2>10, <3>1
    <3>2. CASE ~good
      BY <2>5, <2>7, <2>10, <3>2
    <3> QED
      BY <3>1, <3>2
  <2> QED
    BY <2>11, <2>12, <2>13
<1>14. /\ before = [balance |-> before.balance, issues |-> before.issues,
                    totalLines |-> before.totalLines, parsedOK |-> before.parsedOK,
                    parseErr |-> before.parseErr]
       /\ after = [balance |-> after.balance, issues |-> after.issues,
                   totalLines |-> after.totalLines, parsedOK |-> after.parsedOK,
                   parseErr |-> after.parseErr]
       /\ before.balance \in IntRange
  <2>1. credit - debit \in Int
    BY <1>10
  <2> HIDE DEF credit, debit
  <2>2. Wrap(credit - debit) \in IntRange
    BY <2>1, WrapType
  <2> HIDE DEF before, after
  <2>3. before.balance = Wrap(credit - debit)
    BY <1>9
  <2> QED
    BY <1>9, <2>2, <2>3
<1> HIDE DEF before, after
<1>15. after = ReadLine(before, line)
  <2> DEFINE b == before.balance
             l == before.totalLines
             i == before.issues
             ok == before.parsedOK
             err == before.parseErr
  <2>1. before = [balance |-> b, issues |-> i, totalLines |-> l, parsedOK |-> ok, parseErr |-> err]
    BY <1>14
  <2>2. b \in IntRange /\ b \in Int /\ ok \in Nat /\ err \in Nat
    BY <1>13, <1>14, MaxIntAssumption DEF IntRange, MinInt
  <2>3. /\ after.balance = Wrap(b + (Share("CREDIT") - Share("DEBIT")))
        /\ after.issues = IF good /\ issue THEN Append(i, tx) ELSE i
        /\ after.totalLines = l + 1
        /\ after.parsedOK = ok + (IF good THEN 1 ELSE 0)
        /\ after.parseErr = err + (IF good THEN 0 ELSE 1)
    BY <1>11, <1>12, <1>13
  <2> HIDE DEF b, l, i, ok, err
  <2>4. CASE ~good
    <3>1. Share("CREDIT") - Share("DEBIT") = 0
      BY <2>4
    <3> HIDE DEF Share
    <3>2. after.balance = b /\ after.parsedOK = ok
      BY <2>2, <2>3, <2>4, <3>1, WrapSmall
    <3>3. after = [balance |-> b, issues |-> i, totalLines |-> l + 1, parsedOK |-> ok, parseErr |-> err + 1]
      BY <1>14, <2>3, <2>4, <3>2
    <3> QED
      BY <2>1, <2>4, <3>3 DEF ReadLine, good
  <2>5. CASE good /\ issue
    <3>1. Share("CREDIT") - Share("DEBIT") = 0
      BY <2>5
    <3> HIDE DEF Share
    <3>2. after.balance = b /\ after.parseErr = err
      BY <2>2, <2>3, <2>5, <3>1, WrapSmall
    <3>3. after = [balance |-> b, issues |-> Append(i, tx), totalLines |-> l + 1,
                   parsedOK |-> ok + 1, parseErr |-> err]
      BY <1>14, <2>3, <2>5, <3>2
    <3> QED
      BY <2>1, <2>5, <3>3 DEF ReadLine, OnTx, good, tx, issue
  <2>6. CASE good /\ ~issue /\ tx.type = "CREDIT"
    <3>1. Share("CREDIT") - Share("DEBIT") = tx.amount
      BY <1>6, <2>6
    <3> HIDE DEF Share
    <3>2. after.balance = Wrap(b + tx.amount) /\ after.parseErr = err
      BY <2>2, <2>3, <2>6, <3>1
    <3>3. after = [balance |-> Wrap(b + tx.amount), issues |-> i, totalLines |-> l + 1,
                   parsedOK |-> ok + 1, parseErr |-> err]
      BY <1>14, <2>3, <2>6, <3>2
    <3> QED
      BY <2>1, <2>6, <3>3 DEF ReadLine, OnTx, good, tx, issue
  <2>7. CASE good /\ ~issue /\ tx.type = "DEBIT"
    <3>1. b + (Share("CREDIT") - Share("DEBIT")) = b - tx.amount
      BY <1>6, <2>2, <2>7
    <3> HIDE DEF Share
    <3>2. after.balance = Wrap(b - tx.amount) /\ after.parseErr = err
      BY <2>2, <2>3, <2>7, <3>1
    <3>3. after = [balance |-> Wrap(b - tx.amount), issues |-> i, totalLines |-> l + 1,
                   parsedOK |-> ok + 1, parseErr |-> err]
      BY <1>14, <2>3, <2>7, <3>2
    <3> QED
      BY <2>1, <2>7, <3>3 DEF ReadLine, OnTx, good, tx, issue
  <2> QED
    BY <1>6, <2>4, <2>5, <2>6, <2>7 DEF TxTypes
<1> QED
  BY <1>2, <1>15 DEF t, before, after

LEMMA EmptyBody == Readable(<<>>) /\ Evaluate(<<>>, TRUE) = NoTotals
<1>1. Len(<<>>) = 0 /\ DOMAIN <<>> = {} /\ <<>> \in Seq(Int)
  OBVIOUS
<1>2. Records(<<>>) = {} /\ Parsed(<<>>) = {} /\ Unsettled(<<>>) = {}
  BY <1>1 DEF Records, Parsed, Unsettled
<1>3. \A type : Amounts(<<>>, type) = <<>>
  BY <1>2 DEF Amounts
<1>4. Cardinality({}) = 0
  BY FS_EmptySet
<1>5. Wrap(0 - 0) = 0
  <2>1. 0 - 0 = 0 /\ 0 \in IntRange
    BY MaxIntAssumption DEF IntRange, MinInt
  <2> QED
    BY <2>1, WrapSmall
<1>6. Wrap(AddUp(Amounts(<<>>, "CREDIT")) - AddUp(Amounts(<<>>, "DEBIT"))) = 0
  BY <1>3, <1>5, AddUpEmpty
<1>7. Pick(Transactions(<<>>), Unsettled(<<>>)) = <<>>
  BY <1>2, PickNone
<1>8. Cardinality(Records(<<>>) \ Parsed(<<>>)) = 0
  <2>1. Records(<<>>) \ Parsed(<<>>) = {}
    BY <1>2
  <2> QED
    BY <1>4, <2>1
<1>9. ReadsThrough(<<>>, TRUE)
  BY <1>1, <1>2 DEF ReadsThrough
<1> DEFINE balance == Wrap(AddUp(Amounts(<<>>, "CREDIT")) - AddUp(Amounts(<<>>, "DEBIT")))
           issues == Pick(Transactions(<<>>), Unsettled(<<>>))
           lines == Cardinality(Records(<<>>))
           good == Cardinality(Parsed(<<>>))
           bad == Cardinality(Records(<<>>) \ Parsed(<<>>))
<1>10. Evaluate(<<>>, TRUE) = [balance |-> balance, issues |-> issues, totalLines |-> lines,
                              parsedOK |-> good, parseErr |-> bad + 0]
  BY <1>9 DEF Evaluate
<1>11. lines = 0 /\ good = 0
  BY <1>2, <1>4
<1> HIDE DEF balance, issues, lines, good, bad
<1>12. balance = 0 /\ issues = <<>> /\ bad + 0 = 0
  BY <1>6, <1>7, <1>8 DEF balance, issues, bad
<1>13. Evaluate(<<>>, TRUE) = NoTotals
  BY <1>10, <1>11, <1>12 DEF NoTotals
<1>14. Readable(<<>>)
  BY <1>1 DEF Readable
<1> QED
  BY <1>13, <1>14

(* A body that is not read to its end amounts to its records and one error *)
(* more, whatever follows them.                                            *)
THEOREM CutShort ==
  ASSUME NEW V, NEW s \in Seq(V), Readable(s), NEW body, NEW intact,
         Records(body) = 1..Len(s), \A i \in 1..Len(s) : body[i] = s[i],
         ~ReadsThrough(body, intact)
  PROVE  Evaluate(body, intact) = ReadFails(Evaluate(s, TRUE))
<1> DEFINE balance == Wrap(AddUp(Amounts(s, "CREDIT")) - AddUp(Amounts(s, "DEBIT")))
           issues == Pick(Transactions(s), Unsettled(s))
           lines == Cardinality(Records(s))
           good == Cardinality(Parsed(s))
           Bad == Records(s) \ Parsed(s)
           bad == Cardinality(Bad)
<1>1. Records(s) = 1..Len(s) /\ DOMAIN s = 1..Len(s) /\ Records(s) = Records(body)
  BY ReadableRecords
<1>2. /\ Parsed(s) = Parsed(body) /\ Unsettled(s) = Unsettled(body)
      /\ Transactions(s) = Transactions(body)
      /\ \A type : Amounts(s, type) = Amounts(body, type)
  <2>1. \A i \in Records(s) : s[i] = body[i]
    BY <1>1
  <2> QED
    BY <1>1, <2>1, SameRecords
<1>3. Bad = Records(body) \ Parsed(body)
  BY <1>1, <1>2
<1>4. ReadsThrough(s, TRUE)
  BY <1>1 DEF ReadsThrough
<1>5. bad \in Nat
  <2>1. Bad \subseteq 1..Len(s) /\ Len(s) \in Nat
    BY <1>1
  <2> HIDE DEF Bad
  <2>2. IsFiniteSet(1..Len(s))
    BY <2>1, FS_Interval
  <2>3. IsFiniteSet(Bad)
    BY <2>1, <2>2, FS_Subset
  <2> QED
    BY <2>3, FS_CardinalityType
<1>6. Evaluate(s, TRUE) = [balance |-> balance, issues |-> issues, totalLines |-> lines,
                           parsedOK |-> good, parseErr |-> bad + 0]
  BY <1>4 DEF Evaluate
<1>7. Evaluate(body, intact) = [balance |-> balance, issues |-> issues, totalLines |-> lines,
                                parsedOK |-> good, parseErr |-> bad + 1]
  <2> HIDE DEF Bad
  <2> QED
    BY <1>1, <1>2, <1>3 DEF Evaluate
<1> HIDE DEF balance, issues, lines, good, bad
<1>8. Evaluate(s, TRUE) = [balance |-> balance, issues |-> issues, totalLines |-> lines,
                           parsedOK |-> good, parseErr |-> bad]
  <2>1. bad + 0 = bad
    BY <1>5
  <2> QED
    BY <1>6, <2>1
<1> DEFINE totals == Evaluate(s, TRUE)
<1>9. totals = [balance |-> balance, issues |-> issues, totalLines |-> lines,
                parsedOK |-> good, parseErr |-> bad]
  BY <1>8
<1> HIDE DEF totals
<1>10. Evaluate(body, intact) = ReadFails(totals)
  BY <1>7, <1>9 DEF ReadFails
<1> QED
  BY <1>10 DEF totals
=============================================================================
