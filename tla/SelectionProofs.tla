--------------------------- MODULE SelectionProofs ---------------------------
(***************************************************************************)
(* The item picker answers with sound picks and keeps every platform.      *)
(*                                                                         *)
(* Lists are filtered and sorted by positions: InOrder puts a finite set   *)
(* in the order of its keys, and AllInOrder shows that it is a bijection   *)
(* whenever the keys differ: no two members have the same number of        *)
(* members ahead of them, and there are as many such numbers as members.   *)
(* What is drawn from a list at different positions (Drawn) therefore      *)
(* holds members of the list, and none twice unless the list had it twice. *)
(*                                                                         *)
(* From there the lists are followed through the tool: the offers that     *)
(* pass the filters are Apart, the groups made of them share no offer      *)
(* (Grouped), the ranking is the same groups in another order (SomeOf),    *)
(* and the first round of the platforms' turns (FirstRound) deals one      *)
(* group to each platform that has one, so a limit that has room for the   *)
(* platforms keeps them all (Shortlist).  SelInvariant says this of the    *)
(* three lists in every stage.                                             *)
(***************************************************************************)
EXTENDS Selection, AgentProofs, FiniteSetTheorems, FunctionTheorems, SequenceTheorems,
        WellFoundedInduction, TLAPS


-----------------------------------------------------------------------------
(***************************************************************************)
(* Orders.                                                                 *)
(***************************************************************************)
\* The tuples of n numbers are in a strict total order.
LEMMA BeforeIsOrder ==
    ASSUME NEW n \in Nat
    PROVE  /\ \A s \in [1..n -> Int] : ~Before(s, s)
           /\ \A s, t \in [1..n -> Int] : s = t \/ Before(s, t) \/ Before(t, s)
           /\ \A s, t, u \in [1..n -> Int] : Before(s, t) /\ Before(t, u) => Before(s, u)
<1>1. ASSUME NEW s \in [1..n -> Int]
      PROVE  ~Before(s, s)
    BY DEF Before
<1>2. ASSUME NEW s \in [1..n -> Int], NEW t \in [1..n -> Int], s # t
      PROVE  Before(s, t) \/ Before(t, s)
    <2> DEFINE Differ == {i \in Nat : i \in 1..n /\ s[i] # t[i]}
    <2>1. Differ \subseteq Nat /\ Differ # {}
        BY <1>2
    <2>2. IsWellFoundedOn(OpToRel(<, Nat), Nat)
        BY NatLessThanWellFounded
    <2>3. PICK i \in Differ : \A j \in Differ : <<j, i>> \notin OpToRel(<, Nat)
        <3> HIDE DEF Differ
        <3> QED BY <2>1, <2>2, WFMin
    <2>4. \A j \in 1..(i - 1) : s[j] = t[j]
        <3> SUFFICES ASSUME NEW j \in 1..(i - 1), s[j] # t[j] PROVE FALSE
            OBVIOUS
        <3>1. i \in Nat /\ i \in 1..n
            BY <2>3
        <3>2. j \in Differ /\ j < i /\ i \in Nat /\ j \in Nat
            <4>1. j \in Nat /\ j \in 1..n /\ j < i
                BY <3>1
            <4> QED BY <3>1, <4>1
        <3>3. <<j, i>> \in OpToRel(<, Nat)
            BY <3>2 DEF OpToRel
        <3> QED BY <2>3, <3>2, <3>3
    <2>5. i \in 1..n /\ s[i] # t[i] /\ s[i] \in Int /\ t[i] \in Int
        BY <2>3
    <2>6. s[i] < t[i] \/ t[i] < s[i]
        BY <2>5
    <2> HIDE DEF Differ
    <2> QED BY <2>4, <2>5, <2>6 DEF Before
<1>3. ASSUME NEW s \in [1..n -> Int], NEW t \in [1..n -> Int], NEW u \in [1..n -> Int],
             Before(s, t), Before(t, u)
      PROVE  Before(s, u)
    <2>1. PICK i \in 1..n : s[i] < t[i] /\ \A j \in 1..(i - 1) : s[j] = t[j]
        BY <1>3 DEF Before
    <2>2. PICK k \in 1..n : t[k] < u[k] /\ \A j \in 1..(k - 1) : t[j] = u[j]
        BY <1>3 DEF Before
    <2>3. /\ s[i] \in Int /\ t[i] \in Int /\ u[i] \in Int
          /\ s[k] \in Int /\ t[k] \in Int /\ u[k] \in Int
        OBVIOUS
    <2>4. CASE i < k
        <3>1. i \in 1..(k - 1) /\ \A j \in 1..(i - 1) : j \in 1..(k - 1)
            BY <2>4
        <3>2. s[i] < u[i] /\ \A j \in 1..(i - 1) : s[j] = u[j]
            BY <2>1, <2>2, <3>1
        <3> QED BY <3>2 DEF Before
    <2>5. CASE i = k
        <3>1. s[i] < u[i]
            BY <2>1, <2>2, <2>3, <2>5
        <3> QED BY <2>1, <2>2, <2>5, <3>1 DEF Before
    <2>6. CASE k < i
        <3>1. k \in 1..(i - 1) /\ \A j \in 1..(k - 1) : j \in 1..(i - 1)
            BY <2>6
        <3>2. s[k] < u[k] /\ \A j \in 1..(k - 1) : s[j] = u[j]
            BY <2>1, <2>2, <3>1
        <3> QED BY <3>2 DEF Before
    <2>7. i < k \/ i = k \/ k < i
        OBVIOUS
    <2> QED BY <2>4, <2>5, <2>6, <2>7
<1>4. \A s, t \in [1..n -> Int] : s = t \/ Before(s, t) \/ Before(t, s)
    BY <1>2
<1> QED BY <1>1, <1>3, <1>4

\* Keys that differ.
IsKey(S, key) ==
    \E n \in Nat : key \in [S -> [1..n -> Int]] /\ \A x, y \in S : key[x] = key[y] => x = y

\* Everything of a finite set is in the order, once, and by its keys.
LEMMA AllInOrder ==
    ASSUME NEW S, IsFiniteSet(S), NEW key, IsKey(S, key)
    PROVE  /\ Cardinality(S) \in Nat
           /\ InOrder(S, key) \in Bijection(1..Cardinality(S), S)
           /\ \A i, j \in 1..Cardinality(S) :
                  i < j => Before(key[InOrder(S, key)[i]], key[InOrder(S, key)[j]])
<1>1. PICK n \in Nat : key \in [S -> [1..n -> Int]] /\ \A x, y \in S : key[x] = key[y] => x = y
    BY DEF IsKey
<1> DEFINE Ahead(x) == {y \in S : Before(key[y], key[x])}
           c == Cardinality(S)
           pos == [x \in S |-> Cardinality(Ahead(x)) + 1]
<1>2. c \in Nat
    BY FS_CardinalityType
<1>3. \A x \in S : ~Before(key[x], key[x])
    BY <1>1, BeforeIsOrder
<1>4. \A x, y \in S : x = y \/ Before(key[x], key[y]) \/ Before(key[y], key[x])
    <2> SUFFICES ASSUME NEW x \in S, NEW y \in S, x # y
                 PROVE  Before(key[x], key[y]) \/ Before(key[y], key[x])
        OBVIOUS
    <2>1. key[x] \in [1..n -> Int] /\ key[y] \in [1..n -> Int] /\ key[x] # key[y]
        BY <1>1
    <2> QED BY <2>1, BeforeIsOrder
<1>5. \A x, y, z \in S : Before(key[x], key[y]) /\ Before(key[y], key[z]) => Before(key[x], key[z])
    <2> SUFFICES ASSUME NEW x \in S, NEW y \in S, NEW z \in S,
                        Before(key[x], key[y]), Before(key[y], key[z])
                 PROVE  Before(key[x], key[z])
        OBVIOUS
    <2>1. key[x] \in [1..n -> Int] /\ key[y] \in [1..n -> Int] /\ key[z] \in [1..n -> Int]
        BY <1>1
    <2> QED BY <2>1, BeforeIsOrder
<1>6. ASSUME NEW x \in S
      PROVE  /\ IsFiniteSet(Ahead(x)) /\ Cardinality(Ahead(x)) \in Nat
             /\ Cardinality(Ahead(x)) < c
    <2>1. Ahead(x) \in SUBSET S /\ x \notin Ahead(x)
        BY <1>3
    <2> HIDE DEF Ahead
    <2>2. IsFiniteSet(Ahead(x)) /\ Cardinality(Ahead(x)) <= c /\ (c = Cardinality(Ahead(x)) => S = Ahead(x))
        BY <2>1, FS_Subset
    <2>3. Cardinality(Ahead(x)) \in Nat
        BY <2>2, FS_CardinalityType
    <2> QED BY <1>2, <2>1, <2>2, <2>3
<1>7. ASSUME NEW x \in S, NEW y \in S, Before(key[x], key[y])
      PROVE  pos[x] < pos[y]
    <2>1. Ahead(x) \in SUBSET Ahead(y) /\ x \in Ahead(y) /\ x \notin Ahead(x)
        BY <1>3, <1>5, <1>7
    <2> HIDE DEF Ahead
    <2>2. /\ Cardinality(Ahead(x)) <= Cardinality(Ahead(y))
          /\ Cardinality(Ahead(y)) = Cardinality(Ahead(x)) => Ahead(y) = Ahead(x)
        BY <1>6, <2>1, FS_Subset
    <2>3. /\ Cardinality(Ahead(x)) \in Nat /\ Cardinality(Ahead(y)) \in Nat
        BY <1>6
    <2>4. Cardinality(Ahead(x)) < Cardinality(Ahead(y))
        BY <2>1, <2>2, <2>3
    <2> QED BY <2>3, <2>4
<1> HIDE DEF Ahead
<1>8. pos \in [S -> 1..c] /\ \A x \in S : pos[x] = Cardinality(Ahead(x)) + 1
    <2>1. \A x \in S : Cardinality(Ahead(x)) + 1 \in 1..c
        BY <1>2, <1>6
    <2> QED BY <2>1
<1> HIDE DEF pos
<1>9. \A x, y \in S : pos[x] = pos[y] => x = y
    <2> SUFFICES ASSUME NEW x \in S, NEW y \in S, pos[x] = pos[y], x # y PROVE FALSE
        OBVIOUS
    <2>1. pos[x] \in 1..c /\ pos[y] \in 1..c
        BY <1>8
    <2>2. pos[x] < pos[y] \/ pos[y] < pos[x]
        BY <1>4, <1>7
    <2> QED BY <1>2, <2>1, <2>2
<1>10. \A i \in 1..c : \E x \in S : pos[x] = i
    <2>1. pos \in Injection(S, 1..c)
        BY <1>8, <1>9 DEF Injection, IsInjective
    <2>2. IsFiniteSet(1..c) /\ Cardinality(1..c) = c
        BY <1>2, FS_Interval
    <2>3. pos \in Surjection(S, 1..c)
        BY <2>1, <2>2, FS_Injection
    <2> QED BY <2>3 DEF Surjection
<1> DEFINE f == InOrder(S, key)
<1>11. f = [k \in 1..c |-> CHOOSE x \in S : Cardinality(Ahead(x)) = k - 1]
    BY DEF InOrder, Ahead
<1>12. ASSUME NEW k \in 1..c
       PROVE  f[k] \in S /\ pos[f[k]] = k
    <2>1. PICK x \in S : pos[x] = k
        BY <1>10
    <2>2. Cardinality(Ahead(x)) = k - 1
        BY <1>6, <1>8, <2>1
    <2>3. f[k] = CHOOSE z \in S : Cardinality(Ahead(z)) = k - 1
        BY <1>11
    <2> HIDE DEF f
    <2>4. f[k] \in S /\ Cardinality(Ahead(f[k])) = k - 1
        BY <2>2, <2>3
    <2> QED BY <1>2, <1>8, <2>4
<1>13. f \in [1..c -> S]
    <2>1. f = [k \in 1..c |-> f[k]]
        BY <1>11
    <2> HIDE DEF f
    <2> QED BY <1>12, <2>1
<1> HIDE DEF f
<1>14. \A i, j \in 1..c : f[i] = f[j] => i = j
    BY <1>12
<1>15. \A x \in S : \E k \in 1..c : f[k] = x
    <2> SUFFICES ASSUME NEW x \in S PROVE f[pos[x]] = x /\ pos[x] \in 1..c
        OBVIOUS
    <2>1. pos[x] \in 1..c
        BY <1>8
    <2> QED BY <1>9, <1>12, <2>1
<1>16. ASSUME NEW i \in 1..c, NEW j \in 1..c, i < j
       PROVE  Before(key[f[i]], key[f[j]])
    <2>1. f[i] \in S /\ f[j] \in S /\ pos[f[i]] = i /\ pos[f[j]] = j
        BY <1>12
    <2>2. ~(j < i) /\ i # j
        BY <1>2, <1>16
    <2>3. ~Before(key[f[j]], key[f[i]])
        BY <1>7, <2>1, <2>2
    <2>4. f[i] # f[j]
        BY <2>1, <2>2
    <2> QED BY <1>4, <2>1, <2>3, <2>4
<1>17. f \in Bijection(1..c, S)
    BY <1>13, <1>14, <1>15 DEF Bijection, Injection, Surjection, IsInjective
<1> QED BY <1>2, <1>16, <1>17 DEF f


-----------------------------------------------------------------------------
(***************************************************************************)
(* Parts of sequences.                                                     *)
(***************************************************************************)
\* t is the part of s at the positions I, each once.
Drawn(t, s, I) == \E f \in Bijection(1..Cardinality(I), I) : t = Along(s, f)

\* What a sequence has at the positions I.
Picked(s, I) == {s[i] : i \in I}

\* f tells where the elements of t are in s.
Places(f, t, s, I) ==
    /\ f \in [DOMAIN t -> I] /\ \A k, l \in DOMAIN t : k # l => f[k] # f[l]
    /\ \A k \in DOMAIN t : t[k] = s[f[k]]

\* An order of positions draws them.
LEMMA OrderDraws ==
    ASSUME NEW X, NEW s \in Seq(X), NEW I \in SUBSET DOMAIN s, NEW key, IsKey(I, key)
    PROVE  Drawn(Along(s, InOrder(I, key)), s, I)
<1>1. IsFiniteSet(I)
    <2>1. DOMAIN s = 1..Len(s) /\ Len(s) \in Nat
        BY LenProperties
    <2>2. IsFiniteSet(1..Len(s))
        BY <2>1, FS_Interval
    <2> QED BY <2>1, <2>2, FS_Subset
<1> QED BY <1>1, AllInOrder DEF Drawn

\* What is drawn is a sequence of what is at the positions.
LEMMA DrawnFits ==
    ASSUME NEW X, NEW s \in Seq(X), NEW I \in SUBSET DOMAIN s, NEW t, Drawn(t, s, I)
    PROVE  /\ t \in Seq(X) /\ DOMAIN t = 1..Len(t) /\ Len(t) \in Nat
           /\ Len(t) = Cardinality(I) /\ Len(t) <= Len(s)
           /\ Range(t) = Picked(s, I)
           /\ \A k \in DOMAIN t : \E i \in I : t[k] = s[i]
           /\ \E f : Places(f, t, s, I)
<1> DEFINE c == Cardinality(I)
<1>1. DOMAIN s = 1..Len(s) /\ Len(s) \in Nat /\ \A i \in DOMAIN s : s[i] \in X
    BY LenProperties, ElementOfSeq
<1>2. IsFiniteSet(I) /\ c \in Nat /\ c <= Len(s)
    <2>1. PICK n \in Nat : n = Len(s)
        BY <1>1
    <2>2. IsFiniteSet(1..n) /\ Cardinality(1..n) = n
        <3>1. 1 \in Int /\ n \in Int /\ n - 1 + 1 = n /\ (1 > n => n = 0)
            BY <2>1
        <3>2. IsFiniteSet(1..n) /\ Cardinality(1..n) = IF 1 > n THEN 0 ELSE n - 1 + 1
            BY <3>1, FS_Interval
        <3> QED BY <3>1, <3>2
    <2>3. I \in SUBSET (1..n)
        BY <1>1, <2>1
    <2>4. IsFiniteSet(I) /\ Cardinality(I) <= Cardinality(1..n)
        BY <2>2, <2>3, FS_Subset
    <2> QED BY <2>1, <2>2, <2>4, FS_CardinalityType
<1>3. PICK f \in Bijection(1..c, I) : t = Along(s, f)
    BY DEF Drawn
<1>4. /\ f \in [1..c -> I]
      /\ \A k, l \in 1..c : f[k] = f[l] => k = l
      /\ \A i \in I : \E k \in 1..c : f[k] = i
    BY DEF Bijection, Injection, Surjection, IsInjective
<1> HIDE DEF c
<1>5. t = [k \in 1..c |-> s[f[k]]]
    BY <1>3, <1>4 DEF Along
<1>6. t \in [1..c -> X]
    BY <1>1, <1>4, <1>5
<1>7. t \in Seq(X) /\ Len(t) = c /\ DOMAIN t = 1..c
    <2>1. DOMAIN t = 1..c
        BY <1>5
    <2>2. t \in Seq(X)
        BY <1>2, <1>6, IsASeq, SeqDef
    <2>3. DOMAIN t = 1..Len(t) /\ Len(t) \in Nat
        BY <2>2, LenProperties
    <2> QED BY <1>2, <2>1, <2>2, <2>3
<1>8. Range(t) = Picked(s, I)
    BY <1>4, <1>5, <1>7 DEF Range, Picked
<1>9. \A k \in DOMAIN t : f[k] \in I /\ t[k] = s[f[k]]
    BY <1>4, <1>5, <1>7
<1>10. f \in [DOMAIN t -> I] /\ \A k, l \in DOMAIN t : k # l => f[k] # f[l]
    BY <1>4, <1>7
<1>11. Places(f, t, s, I)
    BY <1>7, <1>9, <1>10 DEF Places
<1> QED BY <1>2, <1>7, <1>8, <1>9, <1>11 DEF c

\* Positions themselves are keys, and so is what ends with them.
LEMMA PositionsAreKeys ==
    ASSUME NEW I \in SUBSET Nat
    PROVE  IsKey(I, [i \in I |-> <<i>>])
<1> DEFINE key == [i \in I |-> <<i>>]
<1>1. \A i \in I : <<i>> \in [1..1 -> Int] /\ <<i>>[1] = i
    OBVIOUS
<1>2. key \in [I -> [1..1 -> Int]]
    BY <1>1
<1>3. \A i \in I : key[i] = <<i>>
    OBVIOUS
<1> HIDE DEF key
<1>4. \A i, j \in I : key[i] = key[j] => i = j
    <2> SUFFICES ASSUME NEW i \in I, NEW j \in I, key[i] = key[j] PROVE i = j
        OBVIOUS
    <2>1. <<i>> = <<j>>
        BY <1>3
    <2> QED BY <1>1, <2>1
<1>5. IsKey(I, key)
    BY <1>2, <1>4 DEF IsKey
<1> QED BY <1>5 DEF key

\* A filter draws what it keeps.
LEMMA AtDraws ==
    ASSUME NEW X, NEW s \in Seq(X), NEW I \in SUBSET DOMAIN s
    PROVE  Drawn(At(s, I), s, I)
<1>1. I \in SUBSET Nat
    BY LenProperties
<1> QED BY <1>1, PositionsAreKeys, OrderDraws DEF At

\* A part of a sequence without repetitions has none.
LEMMA DrawnOnce ==
    ASSUME NEW X, NEW s \in Seq(X), NEW I \in SUBSET DOMAIN s, NEW t, Drawn(t, s, I),
           IsInjective(s)
    PROVE  IsInjective(t)
<1>1. PICK f : Places(f, t, s, I)
    BY DrawnFits
<1> SUFFICES ASSUME NEW k \in DOMAIN t, NEW l \in DOMAIN t, t[k] = t[l], k # l PROVE FALSE
    BY DEF IsInjective
<1>2. f[k] \in DOMAIN s /\ f[l] \in DOMAIN s /\ f[k] # f[l] /\ s[f[k]] = s[f[l]]
    BY <1>1 DEF Places
<1> QED BY <1>2 DEF IsInjective

-----------------------------------------------------------------------------
\* Sequences without repetitions that share no element.
Apart(q) ==
    /\ \A i \in 1..Len(q) : IsInjective(q[i])
    /\ \A i, j \in 1..Len(q) : i # j => Range(q[i]) \cap Range(q[j]) = {}

\* One behind the other, two sequences without repetitions and without a common element.
LEMMA BehindApart ==
    ASSUME NEW X, NEW s \in Seq(X), NEW t \in Seq(X), IsInjective(s), IsInjective(t),
           Range(s) \cap Range(t) = {}
    PROVE  s \o t \in Seq(X) /\ IsInjective(s \o t) /\ Range(s \o t) = Range(s) \cup Range(t)
<1> DEFINE u == s \o t
           m == Len(s)
           n == Len(t)
<1>1. /\ u \in Seq(X) /\ Len(u) = m + n /\ m \in Nat /\ n \in Nat /\ DOMAIN u = 1..(m + n)
      /\ \A i \in 1..(m + n) : u[i] = IF i <= m THEN s[i] ELSE t[i - m]
      /\ DOMAIN s = 1..m /\ DOMAIN t = 1..n
    BY ConcatProperties, LenProperties
<1> HIDE DEF u, m, n
<1>2. \A i \in 1..(m + n) : (i <= m => i \in 1..m) /\ (~(i <= m) => i - m \in 1..n)
    BY <1>1
<1>3. ASSUME NEW i \in DOMAIN u, NEW j \in DOMAIN u, u[i] = u[j]
      PROVE  i = j
    <2>1. CASE i <= m /\ j <= m
        BY <1>1, <1>2, <1>3, <2>1 DEF IsInjective
    <2>2. CASE ~(i <= m) /\ ~(j <= m)
        <3>1. t[i - m] = t[j - m] /\ i - m \in 1..n /\ j - m \in 1..n
            BY <1>1, <1>2, <1>3, <2>2
        <3>2. i - m = j - m
            BY <1>1, <3>1 DEF IsInjective
        <3> QED BY <1>1, <3>2
    <2>3. ASSUME NEW k \in 1..m, NEW l \in 1..n
          PROVE  s[k] # t[l]
        <3>1. s[k] \in Range(s) /\ t[l] \in Range(t)
            BY <1>1 DEF Range
        <3> QED BY <3>1
    <2>4. CASE i <= m /\ ~(j <= m)
        BY <1>1, <1>2, <1>3, <2>3, <2>4
    <2>5. CASE ~(i <= m) /\ j <= m
        BY <1>1, <1>2, <1>3, <2>3, <2>5
    <2> QED BY <2>1, <2>2, <2>4, <2>5
<1>4. Range(u) = Range(s) \cup Range(t)
    BY RangeConcatenation DEF u
<1>5. IsInjective(u)
    BY <1>3 DEF IsInjective
<1> QED BY <1>1, <1>4, <1>5 DEF u


\* A place up to the next one is that one or a place before it.
LEMMA UpToNext ==
    ASSUME NEW m \in Nat
    PROVE  \A i \in 1..(m + 1) : i \in 1..m \/ i = m + 1
OBVIOUS

\* What is behind one another: nothing twice when nothing is twice in a part or in two parts.
LEMMA FlatApart ==
    ASSUME NEW X, NEW q \in Seq(Seq(X)), Apart(q)
    PROVE  /\ FlattenSeq(q) \in Seq(X) /\ IsInjective(FlattenSeq(q))
           /\ Range(FlattenSeq(q)) = UNION {Range(q[i]) : i \in 1..Len(q)}
<1> DEFINE Good(r) == /\ FlattenSeq(r) \in Seq(X) /\ IsInjective(FlattenSeq(r))
                      /\ Range(FlattenSeq(r)) = UNION {Range(r[i]) : i \in 1..Len(r)}
           G == {r \in Seq(Seq(X)) : Apart(r) => Good(r)}
<1>1. <<>> \in G
    <2>1. <<>> \in Seq(Seq(X)) /\ Len(<<>>) = 0 /\ DOMAIN <<>> = {}
        BY EmptySeq
    <2>2. FlattenSeq(<<>>) = <<>> /\ <<>> \in Seq(X)
        BY <2>1 DEF FlattenSeq
    <2>3. IsInjective(<<>>) /\ Range(<<>>) = {}
        BY <2>1 DEF IsInjective, Range
    <2>4. UNION {Range(<<>>[i]) : i \in 1..Len(<<>>)} = {}
        BY <2>1
    <2> QED BY <2>1, <2>2, <2>3, <2>4
<1>2. ASSUME NEW n \in 0..(Len(q) - 1), SubSeq(q, 1, n) \in G
      PROVE  Append(SubSeq(q, 1, n), q[n + 1]) \in G
    <2> DEFINE r == SubSeq(q, 1, n)
               s == q[n + 1]
               t == Append(r, s)
    <2>1. r \in Seq(Seq(X)) /\ s \in Seq(X) /\ Len(r) \in Nat /\ (Apart(r) => Good(r))
        <3> HIDE DEF Good
        <3> QED BY <1>2, LenProperties, ElementOfSeq
    <2> HIDE DEF r, s
    <2>2. /\ t \in Seq(Seq(X)) /\ Len(t) = Len(r) + 1
          /\ \A i \in 1..Len(r) : t[i] = r[i]
          /\ t[Len(r) + 1] = s
        BY <2>1, AppendProperties
    <2>3. FlattenSeq(t) = FlattenSeq(r) \o s
        BY <2>1, FlatAppended
    <2> HIDE DEF t
    <2>4. ASSUME Apart(t)
          PROVE  Good(t)
        <3>1. PICK m \in Nat : m = Len(r)
            BY <2>1
        <3>2. /\ \A i \in 1..(m + 1) : IsInjective(t[i])
              /\ \A i, j \in 1..(m + 1) : i # j => Range(t[i]) \cap Range(t[j]) = {}
            BY <2>2, <2>4, <3>1 DEF Apart
        <3>3. \A i \in 1..m : i \in 1..(m + 1) /\ i # m + 1
            BY <3>1
        <3>4. m + 1 \in 1..(m + 1)
            BY <3>1
        <3>5. Apart(r)
            BY <2>2, <3>1, <3>2, <3>3 DEF Apart
        <3>6. IsInjective(s) /\ \A i \in 1..m : Range(r[i]) \cap Range(s) = {}
            BY <2>2, <3>1, <3>2, <3>3, <3>4
        <3>7. Good(r)
            BY <2>1, <3>5
        <3>8. Range(FlattenSeq(r)) \cap Range(s) = {}
            BY <3>1, <3>6, <3>7
        <3>9. /\ FlattenSeq(t) \in Seq(X) /\ IsInjective(FlattenSeq(t))
              /\ Range(FlattenSeq(t)) = Range(FlattenSeq(r)) \cup Range(s)
            BY <2>1, <2>3, <3>6, <3>7, <3>8, BehindApart
        <3>10. UNION {Range(t[i]) : i \in 1..(m + 1)}
                   = (UNION {Range(r[i]) : i \in 1..m}) \cup Range(s)
            <4>1. \A i \in 1..(m + 1) : (i \in 1..m /\ t[i] = r[i]) \/ t[i] = s
                <5>1. \A i \in 1..(m + 1) : i \in 1..m \/ i = m + 1
                    BY UpToNext
                <5> QED BY <2>2, <3>1, <5>1
            <4>2. \A i \in 1..m : i \in 1..(m + 1) /\ t[i] = r[i]
                BY <2>2, <3>1, <3>3
            <4>3. t[m + 1] = s
                BY <2>2, <3>1
            <4> QED BY <3>4, <4>1, <4>2, <4>3
        <3> QED BY <2>2, <3>1, <3>7, <3>9, <3>10
    <2>5. t \in G
        BY <2>2, <2>4
    <2> QED BY <2>5 DEF t, r, s
<1> HIDE DEF G
<1>3. q \in G
    BY <1>1, <1>2, EveryPrefix
<1> QED BY <1>3 DEF G

\* The first part comes first.
LEMMA FlatHead ==
    ASSUME NEW X, NEW q \in Seq(Seq(X)), Len(q) # 0
    PROVE  q[1] \in Seq(X) /\ \E u \in Seq(X) : FlattenSeq(q) = q[1] \o u
<1> DEFINE Headed(r) == r[1] \in Seq(X) /\ \E u \in Seq(X) : FlattenSeq(r) = r[1] \o u
           G == {r \in Seq(Seq(X)) : Len(r) # 0 => Headed(r)}
<1>0. \A a, b, c \in Seq(X) : (a \o b) \o c = a \o (b \o c)
    BY ConcatAssociative
<1>1. <<>> \in G
    BY EmptySeq
<1>2. ASSUME NEW n \in 0..(Len(q) - 1), SubSeq(q, 1, n) \in G
      PROVE  Append(SubSeq(q, 1, n), q[n + 1]) \in G
    <2> DEFINE r == SubSeq(q, 1, n)
               s == q[n + 1]
               t == Append(r, s)
    <2>1. /\ r \in Seq(Seq(X)) /\ s \in Seq(X) /\ Len(r) \in Nat
          /\ Len(r) # 0 => Headed(r)
        <3> HIDE DEF Headed
        <3> QED BY <1>2, LenProperties, ElementOfSeq
    <2> HIDE DEF r, s
    <2>2. /\ t \in Seq(Seq(X)) /\ Len(t) = Len(r) + 1
          /\ \A i \in 1..Len(r) : t[i] = r[i]
          /\ t[Len(r) + 1] = s
        BY <2>1, AppendProperties
    <2>3. FlattenSeq(t) = FlattenSeq(r) \o s
        BY <2>1, FlatAppended
    <2> HIDE DEF t
    <2>4. ASSUME Len(r) = 0
          PROVE  Headed(t)
        <3>1. r = <<>>
            BY <2>1, <2>4, EmptySeq
        <3>2. FlattenSeq(r) = <<>> /\ <<>> \in Seq(X)
            BY <2>1, <3>1, FlatAppended, EmptySeq
        <3>3. FlattenSeq(t) = s /\ s = s \o <<>>
            BY <2>1, <2>3, <3>2, ConcatEmptySeq
        <3>4. t[1] = s
            BY <2>2, <2>4
        <3>5. t[1] \in Seq(X) /\ FlattenSeq(t) = t[1] \o <<>>
            BY <2>1, <3>3, <3>4
        <3> QED BY <3>2, <3>5
    <2>5. ASSUME Len(r) # 0
          PROVE  Headed(t)
        <3>1. PICK u \in Seq(X) : FlattenSeq(r) = r[1] \o u
            BY <2>1, <2>5
        <3>2. t[1] = r[1] /\ r[1] \in Seq(X)
            <4>1. 1 \in 1..Len(r)
                BY <2>1, <2>5
            <4> QED BY <2>1, <2>2, <2>5, <4>1
        <3>3. u \o s \in Seq(X)
            BY <2>1, ConcatProperties
        <3>4. (r[1] \o u) \o s = r[1] \o (u \o s)
            <4>1. PICK a \in Seq(X) : a = r[1]
                BY <3>2
            <4>2. PICK b \in Seq(X) : b = s
                BY <2>1
            <4>3. (a \o u) \o b = a \o (u \o b)
                BY <1>0
            <4> QED BY <4>1, <4>2, <4>3
        <3>5. FlattenSeq(t) = t[1] \o (u \o s)
            BY <2>3, <3>1, <3>2, <3>4
        <3> QED BY <3>2, <3>3, <3>5
    <2>6. t \in G
        <3>1. Headed(t)
            BY <2>4, <2>5
        <3> HIDE DEF Headed
        <3> QED BY <2>2, <3>1
    <2> QED BY <2>6 DEF t, r, s
<1> HIDE DEF Headed
<1>3. q \in G
    <2> HIDE DEF G
    <2> QED BY <1>1, <1>2, EveryPrefix
<1>4. Headed(q)
    BY <1>3
<1> QED BY <1>4 DEF Headed

\* A finite set of numbers has a least one and a greatest one.
LEMMA Extremes ==
    ASSUME NEW S \in SUBSET Int, IsFiniteSet(S), S # {}
    PROVE  /\ Min(S) \in S /\ \A x \in S : Min(S) <= x
           /\ Max(S) \in S /\ \A x \in S : Max(S) >= x
<1> DEFINE key == [x \in S |-> <<x>>]
           c == Cardinality(S)
           f == InOrder(S, key)
<1>1. IsKey(S, key)
    <2>1. \A x \in S : <<x>> \in [1..1 -> Int] /\ <<x>>[1] = x
        OBVIOUS
    <2>2. key \in [S -> [1..1 -> Int]]
        BY <2>1
    <2>3. \A x \in S : key[x] = <<x>>
        OBVIOUS
    <2> HIDE DEF key
    <2>4. \A x, y \in S : key[x] = key[y] => x = y
        <3> SUFFICES ASSUME NEW x \in S, NEW y \in S, key[x] = key[y] PROVE x = y
            OBVIOUS
        <3>1. <<x>> = <<y>>
            BY <2>3
        <3> QED BY <2>1, <3>1
    <2> QED BY <2>2, <2>4 DEF IsKey
<1>2. \A x, y \in S : Before(key[x], key[y]) => x < y
    BY DEF Before
<1> HIDE DEF key
<1>3. /\ c \in Nat /\ f \in Bijection(1..c, S)
      /\ \A i, j \in 1..c : i < j => Before(key[f[i]], key[f[j]])
    BY <1>1, AllInOrder
<1> HIDE DEF f, c
<1>4. f \in [1..c -> S] /\ \A x \in S : \E i \in 1..c : f[i] = x
    BY <1>3 DEF Bijection, Injection, Surjection
<1>5. 1 \in 1..c /\ c \in 1..c
    <2>1. PICK x \in S : TRUE
        OBVIOUS
    <2>2. PICK i \in 1..c : f[i] = x
        BY <1>4
    <2> QED BY <1>3, <2>2
<1>6. \A i \in 1..c : f[1] <= f[i] /\ f[i] <= f[c]
    <2> SUFFICES ASSUME NEW i \in 1..c PROVE f[1] <= f[i] /\ f[i] <= f[c]
        OBVIOUS
    <2>1. f[1] \in S /\ f[i] \in S /\ f[c] \in S
        BY <1>4, <1>5
    <2>2. f[1] \in Int /\ f[i] \in Int /\ f[c] \in Int
        BY <2>1
    <2>3. (i = 1 \/ 1 < i) /\ (i = c \/ i < c)
        BY <1>3
    <2>4. 1 < i => f[1] < f[i]
        BY <1>2, <1>3, <1>5, <2>1
    <2>5. i < c => f[i] < f[c]
        BY <1>2, <1>3, <1>5, <2>1
    <2> QED BY <2>2, <2>3, <2>4, <2>5
<1>7. f[1] \in S /\ \A x \in S : f[1] <= x
    BY <1>4, <1>5, <1>6
<1>8. f[c] \in S /\ \A x \in S : f[c] >= x
    BY <1>4, <1>5, <1>6
<1>9. Min(S) \in S /\ \A x \in S : Min(S) <= x
    BY <1>7 DEF Min
<1>10. Max(S) \in S /\ \A x \in S : Max(S) >= x
    BY <1>8 DEF Max
<1> QED BY <1>9, <1>10

\* As many elements as positions, where none is twice.
LEMMA AsManyAsPlaces ==
    ASSUME NEW X, NEW s \in Seq(X), IsInjective(s)
    PROVE  IsFiniteSet(Range(s)) /\ Cardinality(Range(s)) = Len(s)
<1>1. PICK n \in Nat : n = Len(s)
    BY LenProperties
<1>2. DOMAIN s = 1..n
    BY <1>1, LenProperties
<1>3. IsFiniteSet(1..n) /\ Cardinality(1..n) = n
    <2>1. 1 \in Int /\ n \in Int /\ n - 1 + 1 = n /\ (1 > n => n = 0)
        OBVIOUS
    <2>2. IsFiniteSet(1..n) /\ Cardinality(1..n) = IF 1 > n THEN 0 ELSE n - 1 + 1
        BY <2>1, FS_Interval
    <2> QED BY <2>1, <2>2
<1>4. s \in Bijection(1..n, Range(s))
    <2>1. s \in [1..n -> Range(s)]
        <3>1. s = [i \in 1..n |-> s[i]]
            BY <1>1, <1>2, SeqDef
        <3>2. \A i \in 1..n : s[i] \in Range(s)
            BY <1>2 DEF Range
        <3> QED BY <3>1, <3>2
    <2>2. \A i, j \in 1..n : s[i] = s[j] => i = j
        BY <1>2 DEF IsInjective
    <2>3. \A x \in Range(s) : \E i \in 1..n : s[i] = x
        BY <1>2 DEF Range
    <2> QED BY <2>1, <2>2, <2>3 DEF Bijection, Injection, Surjection, IsInjective
<1>5. IsFiniteSet(Range(s)) /\ Cardinality(Range(s)) = Cardinality(1..n)
    <2>1. ExistsBijection(1..n, Range(s))
        BY <1>4 DEF ExistsBijection
    <2> QED BY <1>3, <2>1, FS_Bijection
<1> QED BY <1>1, <1>3, <1>5

\* The first elements of a sequence.
LEMMA PrefixFits ==
    ASSUME NEW X, NEW s \in Seq(X), NEW n \in Nat
    PROVE  /\ Prefix(s, n) \in Seq(X) /\ Len(Prefix(s, n)) <= n /\ Len(Prefix(s, n)) \in Nat
           /\ Range(Prefix(s, n)) \subseteq Range(s)
           /\ IsInjective(s) => IsInjective(Prefix(s, n))
           /\ \A i \in 1..Len(s) : i <= n => s[i] \in Range(Prefix(s, n))
<1> DEFINE m == IF n < Len(s) THEN n ELSE Len(s)
           t == Prefix(s, n)
<1>1. Len(s) \in Nat /\ DOMAIN s = 1..Len(s)
    BY LenProperties
<1>2. m \in Nat /\ m <= n /\ m <= Len(s)
    BY <1>1
<1>3. \A i \in 1..Len(s) : i <= n => i \in 1..m
    BY <1>1
<1> HIDE DEF m
<1>4. t = SubSeq(s, 1, m)
    BY DEF Prefix, m
<1>5. t \in Seq(X) /\ Len(t) = m /\ DOMAIN t = 1..m /\ \A i \in 1..m : t[i] = s[i]
    <2>1. m \in 0..Len(s)
        BY <1>1, <1>2
    <2>2. CASE m = 0
        <3>1. t = <<>>
            BY <1>4, <2>2, SubSeqEmpty
        <3> QED BY <2>2, <3>1, EmptySeq
    <2>3. CASE m # 0
        <3>1. 1 \in 1..(Len(s) + 1) /\ m \in 0..Len(s)
            BY <1>1, <2>1
        <3>2. /\ t \in Seq(X) /\ Len(t) = IF 1 <= m THEN m - 1 + 1 ELSE 0
              /\ \A i \in 1..(m - 1 + 1) : t[i] = s[1 + i - 1]
            BY <1>4, <3>1, SubSeqProperties
        <3>3. Len(t) = m /\ \A i \in 1..m : t[i] = s[i]
            BY <1>2, <2>3, <3>2
        <3> QED BY <3>2, <3>3, LenProperties
    <2> QED BY <2>2, <2>3
<1> HIDE DEF t
<1>6. \A i \in 1..m : i \in DOMAIN s
    BY <1>1, <1>2
<1>7. Range(t) \subseteq Range(s)
    BY <1>5, <1>6 DEF Range
<1>8. IsInjective(s) => IsInjective(t)
    BY <1>5, <1>6 DEF IsInjective
<1>9. \A i \in 1..Len(s) : i <= n => s[i] \in Range(t)
    BY <1>3, <1>5 DEF Range
<1> QED BY <1>2, <1>5, <1>7, <1>8, <1>9 DEF t


-----------------------------------------------------------------------------
(***************************************************************************)
(* What is admitted.                                                       *)
(***************************************************************************)
\* What is left of a sequence when only one of each key stays.
LEMMA DrawnApart ==
    ASSUME NEW X, NEW s \in Seq(X), NEW I \in SUBSET DOMAIN s, NEW t, Drawn(t, s, I), NEW key,
           \A i, j \in I : i # j => key[s[i]] # key[s[j]]
    PROVE  \A k, l \in DOMAIN t : key[t[k]] = key[t[l]] => k = l
<1>1. PICK f : Places(f, t, s, I)
    BY DrawnFits
<1> SUFFICES ASSUME NEW k \in DOMAIN t, NEW l \in DOMAIN t, key[t[k]] = key[t[l]], k # l
             PROVE  FALSE
    OBVIOUS
<1>2. f[k] \in I /\ f[l] \in I /\ f[k] # f[l] /\ t[k] = s[f[k]] /\ t[l] = s[f[l]]
    BY <1>1 DEF Places
<1> QED BY <1>2

ValidEntry == {e \in ListEntry : e.valid}

\* The valid entries of a list.
LEMMA ParsedFits ==
    ASSUME NEW items \in Seq(ListEntry)
    PROVE  Parsed(items) \in Seq(ValidEntry) /\ Range(Parsed(items)) \subseteq Range(items)
<1> DEFINE I == {i \in DOMAIN items : items[i].valid}
           t == At(items, I)
<1>1. I \in SUBSET DOMAIN items
    OBVIOUS
<1>2. \A i \in I : items[i] \in ValidEntry /\ items[i] \in Range(items)
    BY ElementOfSeq, LenProperties DEF ValidEntry, Range
<1>3. t = Parsed(items)
    BY DEF Parsed
<1> HIDE DEF I, t
<1>4. t \in Seq(ListEntry) /\ DOMAIN t = 1..Len(t) /\ Len(t) \in Nat
      /\ Range(t) = Picked(items, I) /\ \A k \in DOMAIN t : \E i \in I : t[k] = items[i]
    <2>1. Drawn(t, items, I)
        BY <1>1, AtDraws DEF t
    <2> QED BY <1>1, <2>1, DrawnFits
<1>5. Range(t) \subseteq Range(items)
    BY <1>2, <1>4 DEF Picked
<1>6. \A k \in 1..Len(t) : t[k] \in ValidEntry
    BY <1>2, <1>4
<1>7. t \in Seq(ValidEntry)
    <2>1. t = [k \in 1..Len(t) |-> t[k]]
        BY <1>4, SeqDef
    <2>2. t \in [1..Len(t) -> ValidEntry]
        BY <1>6, <2>1
    <2> QED BY <1>4, <2>2, IsASeq
<1> QED BY <1>3, <1>5, <1>7

\* What a sequence of offers has when it may be grouped: no id twice.
Distinct(offers) ==
    /\ offers \in Seq(ValidEntry)
    /\ \A i, j \in DOMAIN offers : OfferId(offers[i]) = OfferId(offers[j]) => i = j

\* The filters leave valid offers that pass, none twice.
LEMMA AdmittedFits ==
    ASSUME NEW items \in Seq(ValidEntry), NEW con, NEW relaxed, NEW linked
    PROVE  /\ Distinct(Admitted(items, con, relaxed, linked))
           /\ \A e \in Range(Admitted(items, con, relaxed, linked)) :
                  e \in Range(items) /\ Passes(e, con, relaxed, linked)
<1> DEFINE I == {i \in DOMAIN items : Passes(items[i], con, relaxed, linked)}
           passing == At(items, I)
           J == {i \in DOMAIN passing :
                    \A j \in 1..(i - 1) : OfferId(passing[j]) # OfferId(passing[i])}
           t == At(passing, J)
           key == [e \in ValidEntry |-> OfferId(e)]
<1>1. t = Admitted(items, con, relaxed, linked)
    BY DEF Admitted
<1>2. I \in SUBSET DOMAIN items
    OBVIOUS
<1>a. \A i \in I : items[i] \in Range(items) /\ Passes(items[i], con, relaxed, linked)
    BY DEF Range
<1> HIDE DEF I
<1>3. passing \in Seq(ValidEntry) /\ Range(passing) = Picked(items, I)
    <2>1. Drawn(passing, items, I)
        BY <1>2, AtDraws
    <2> HIDE DEF passing, J, t, key
    <2> QED BY <1>2, <2>1, DrawnFits
<1> HIDE DEF passing
<1>4. DOMAIN passing = 1..Len(passing) /\ Len(passing) \in Nat
      /\ \A i \in DOMAIN passing : passing[i] \in ValidEntry /\ passing[i] \in Range(passing)
    BY <1>3, LenProperties, ElementOfSeq DEF Range
<1>5. J \in SUBSET DOMAIN passing
    OBVIOUS
<1>6. \A i, j \in J : i # j => key[passing[i]] # key[passing[j]]
    <2>1. \A i, j \in J : i < j => OfferId(passing[i]) # OfferId(passing[j])
        <3> SUFFICES ASSUME NEW i \in J, NEW j \in J, i < j
                     PROVE  OfferId(passing[i]) # OfferId(passing[j])
            OBVIOUS
        <3>1. i \in 1..(j - 1)
            BY <1>4
        <3> QED BY <3>1
    <2>2. \A i \in J : i \in Nat /\ key[passing[i]] = OfferId(passing[i])
        BY <1>4
    <2> HIDE DEF J, key
    <2>3. \A i, j \in J : i = j \/ i < j \/ j < i
        BY <2>2
    <2> QED BY <2>1, <2>2, <2>3
<1> HIDE DEF J, key
<1>7. Drawn(t, passing, J)
    BY <1>3, <1>5, AtDraws
<1> HIDE DEF t
<1>8. t \in Seq(ValidEntry) /\ Range(t) = Picked(passing, J)
    <2>1. passing \in Seq(ValidEntry)
        BY <1>3
    <2> QED BY <1>5, <1>7, <2>1, DrawnFits
<1>9. \A k, l \in DOMAIN t : key[t[k]] = key[t[l]] => k = l
    BY <1>3, <1>5, <1>6, <1>7, DrawnApart
<1>10. \A k, l \in DOMAIN t : OfferId(t[k]) = OfferId(t[l]) => k = l
    <2>1. \A k \in DOMAIN t : t[k] \in ValidEntry
        BY <1>8, LenProperties, ElementOfSeq
    <2>2. \A k \in DOMAIN t : key[t[k]] = OfferId(t[k])
        BY <2>1 DEF key
    <2> QED BY <1>9, <2>2
<1>11. \A e \in Range(t) : e \in Range(items) /\ Passes(e, con, relaxed, linked)
    <2>1. \A i \in J : passing[i] \in Range(passing)
        BY <1>4, <1>5
    <2> QED BY <1>a, <1>3, <1>8, <2>1 DEF Picked
<1> QED BY <1>1, <1>8, <1>10, <1>11 DEF Distinct


-----------------------------------------------------------------------------
(***************************************************************************)
(* Groups.                                                                 *)
(***************************************************************************)
\* Groups with offers of A, which share neither an id nor an offer.
GroupIs(g, A) ==
    /\ g.offers \in Seq(ValidEntry) /\ g.offers # <<>> /\ IsInjective(g.offers)
    /\ Range(g.offers) \subseteq A

Grouped(G, A) ==
    /\ \A g \in G : GroupIs(g, A)
    /\ \A g, h \in G : g # h => g.id # h.id /\ Range(g.offers) \cap Range(h.offers) = {}

Ordered(G) == \A g \in G : g.order \in Nat

Values(f, S) == {f[x] : x \in S}

\* The numbers of the elements of a sequence are finitely many.
LEMMA FinitelyMany ==
    ASSUME NEW X, NEW s \in Seq(X), NEW f \in [X -> Int]
    PROVE  /\ IsFiniteSet(Values(f, Range(s))) /\ Values(f, Range(s)) \in SUBSET Int
           /\ s # <<>> => Values(f, Range(s)) # {}
<1> DEFINE S == {f[x] : x \in Range(s)}
<1>1. PICK n \in Nat : n = Len(s)
    BY LenProperties
<1>2. DOMAIN s = 1..n /\ \A i \in 1..n : s[i] \in X
    BY <1>1, LenProperties, ElementOfSeq
<1> DEFINE g == [i \in 1..n |-> f[s[i]]]
<1>3. \A i \in 1..n : f[s[i]] \in S
    BY <1>2 DEF Range
<1>4. \A y \in S : \E i \in 1..n : y = f[s[i]]
    BY <1>2 DEF Range
<1>5. S \subseteq Int
    BY <1>2, <1>4
<1> HIDE DEF S
<1>6. g \in Surjection(1..n, S)
    BY <1>3, <1>4 DEF Surjection
<1>7. IsFiniteSet(1..n)
    BY FS_Interval
<1>8. IsFiniteSet(S)
    BY <1>6, <1>7, FS_Surjection
<1>9. s # <<>> => S # {}
    <2> SUFFICES ASSUME s # <<>> PROVE S # {}
        OBVIOUS
    <2>1. n # 0
        BY <1>1, EmptySeq
    <2>2. 1 \in 1..n
        BY <2>1
    <2> QED BY <1>3, <2>2
<1> QED BY <1>5, <1>8, <1>9 DEF S, Values

\* The numbers an order of offers goes by.
LEMMA ValidNumbers ==
    ASSUME NEW e \in ValidEntry
    PROVE  e.price \in Int /\ Rank(e) \in Int /\ RatingSignal(e.rating) \in Int
<1>1. e.price \in Int /\ e.rank \in Int /\ e.rating \in Int
    BY SelAssumption DEF ValidEntry
<1>2. Rank(e) \in Int
    BY <1>1 DEF Rank, Unranked
<1>3. RatingSignal(e.rating) \in Int
    BY <1>1 DEF RatingSignal
<1> QED BY <1>1, <1>2, <1>3

\* The offers at some positions, by price.
LEMMA ByPriceDraws ==
    ASSUME NEW offers \in Seq(ValidEntry), NEW at \in SUBSET DOMAIN offers
    PROVE  Drawn(ByPrice(offers, at), offers, at)
<1> DEFINE key == [i \in at |-> <<offers[i].price, Rank(offers[i]), i>>]
<1>1. \A i \in at : offers[i] \in ValidEntry /\ i \in Int
    BY LenProperties, ElementOfSeq
<1>2. ASSUME NEW a \in Int, NEW b \in Int, NEW c \in Int
      PROVE  <<a, b, c>> \in [1..3 -> Int] /\ <<a, b, c>>[3] = c
    OBVIOUS
<1>3. \A i \in at : key[i] \in [1..3 -> Int] /\ key[i][3] = i
    <2> SUFFICES ASSUME NEW i \in at PROVE key[i] \in [1..3 -> Int] /\ key[i][3] = i
        OBVIOUS
    <2>1. offers[i].price \in Int /\ Rank(offers[i]) \in Int /\ i \in Int
        BY <1>1, ValidNumbers
    <2> QED BY <1>2, <2>1
<1>4. DOMAIN key = at /\ key = [i \in at |-> key[i]]
    OBVIOUS
<1> HIDE DEF key
<1>5. key \in [at -> [1..3 -> Int]]
    BY <1>3, <1>4
<1>6. \A i, j \in at : key[i] = key[j] => i = j
    BY <1>3
<1>7. IsKey(at, key)
    BY <1>5, <1>6 DEF IsKey
<1>8. Drawn(Along(offers, InOrder(at, key)), offers, at)
    BY <1>7, OrderDraws
<1> QED BY <1>8 DEF ByPrice, key

\* A group has the offers of its identity.
LEMMA GroupOfFits ==
    ASSUME NEW offers, Distinct(offers), NEW id,
           NEW k \in DOMAIN offers, ProductIdentity(offers[k]) = id
    PROVE  LET g == GroupOf(id, offers) IN
           /\ g.id = id /\ GroupIs(g, Range(offers)) /\ g.order \in Nat
           /\ g.order \in DOMAIN offers /\ ProductIdentity(offers[g.order]) = id
           /\ \A e \in Range(g.offers) : ProductIdentity(e) = id
<1> DEFINE at == {i \in DOMAIN offers : ProductIdentity(offers[i]) = id}
           t == ByPrice(offers, at)
<1>1. /\ GroupOf(id, offers).id = id /\ GroupOf(id, offers).offers = t
      /\ GroupOf(id, offers).order = Min(at)
    BY DEF GroupOf
<1>2. offers \in Seq(ValidEntry) /\ at \in SUBSET DOMAIN offers /\ at # {}
    BY DEF Distinct
<1>3. IsInjective(offers)
    BY DEF Distinct, IsInjective
<1>4. PICK n \in Nat : n = Len(offers) /\ DOMAIN offers = 1..n
    BY <1>2, LenProperties
<1>5. at \subseteq 1..n /\ at \in SUBSET Int /\ IsFiniteSet(at)
    <2>1. at \subseteq 1..n
        BY <1>2, <1>4
    <2>2. IsFiniteSet(1..n)
        BY FS_Interval
    <2> HIDE DEF at
    <2>3. at \in SUBSET (1..n)
        BY <2>1
    <2>4. IsFiniteSet(at)
        BY <2>2, <2>3, FS_Subset
    <2>5. at \in SUBSET Int
        BY <2>1
    <2> QED BY <2>1, <2>4, <2>5
<1>6. \A i \in at : ProductIdentity(offers[i]) = id
    OBVIOUS
<1> HIDE DEF at
<1>7. Min(at) \in at
    BY <1>2, <1>5, Extremes
<1>8. Drawn(t, offers, at)
    BY <1>2, ByPriceDraws
<1> HIDE DEF t
<1>9. t \in Seq(ValidEntry) /\ Len(t) = Cardinality(at) /\ Range(t) = Picked(offers, at)
    BY <1>2, <1>8, DrawnFits
<1>10. IsInjective(t)
    BY <1>2, <1>3, <1>8, DrawnOnce
<1>11. t # <<>>
    <2>1. Cardinality(at) # 0
        BY <1>2, <1>5, FS_EmptySet
    <2> QED BY <1>9, <2>1, EmptySeq
<1>12. Range(t) \subseteq Range(offers) /\ \A e \in Range(t) : ProductIdentity(e) = id
    <2>1. \A e \in Range(t) : \E i \in at : e = offers[i]
        BY <1>9 DEF Picked
    <2>2. \A i \in at : offers[i] \in Range(offers)
        BY <1>2 DEF Range
    <2> QED BY <1>6, <2>1, <2>2
<1>13. Min(at) \in Nat /\ Min(at) \in DOMAIN offers /\ ProductIdentity(offers[Min(at)]) = id
    <2>1. Min(at) \in 1..n
        BY <1>5, <1>7
    <2> QED BY <1>4, <1>6, <1>7, <2>1
<1> QED BY <1>1, <1>9, <1>10, <1>11, <1>12, <1>13 DEF GroupIs

\* The best rank in a group is a number, and so is the best rating.
LEMMA GroupNumbers ==
    ASSUME NEW g, NEW A, GroupIs(g, A)
    PROVE  /\ BestRank(g) \in Int
           /\ Max({RatingSignal(e.rating) : e \in Range(g.offers)}) \in Int
           /\ g.offers[1] \in ValidEntry
<1> DEFINE rank == [e \in ValidEntry |-> Rank(e)]
           rating == [e \in ValidEntry |-> RatingSignal(e.rating)]
<1>1. g.offers \in Seq(ValidEntry) /\ g.offers # <<>>
    BY DEF GroupIs
<1>2. \A e \in Range(g.offers) : e \in ValidEntry
    <2>1. \A i \in DOMAIN g.offers : g.offers[i] \in ValidEntry
        BY <1>1, LenProperties, ElementOfSeq
    <2> QED BY <2>1 DEF Range
<1>3. rank \in [ValidEntry -> Int] /\ rating \in [ValidEntry -> Int]
    BY ValidNumbers
<1>4. Values(rank, Range(g.offers)) = {Rank(e) : e \in Range(g.offers)}
    BY <1>2 DEF Values
<1>5. Values(rating, Range(g.offers)) = {RatingSignal(e.rating) : e \in Range(g.offers)}
    BY <1>2 DEF Values
<1> HIDE DEF rank, rating
<1>6. ASSUME NEW f \in [ValidEntry -> Int]
      PROVE  /\ Min(Values(f, Range(g.offers))) \in Int
             /\ Max(Values(f, Range(g.offers))) \in Int
    <2>1. PICK S : S = Values(f, Range(g.offers))
        OBVIOUS
    <2>2. S \in SUBSET Int /\ IsFiniteSet(S) /\ S # {}
        BY <1>1, <2>1, FinitelyMany
    <2>3. Min(S) \in S /\ Max(S) \in S
        BY <2>2, Extremes
    <2> QED BY <2>1, <2>2, <2>3
<1>8. BestRank(g) \in Int
    BY <1>3, <1>4, <1>6 DEF BestRank
<1>9. Max({RatingSignal(e.rating) : e \in Range(g.offers)}) \in Int
    BY <1>3, <1>5, <1>6
<1>10. g.offers[1] \in ValidEntry
    <2>1. Len(g.offers) \in Nat /\ Len(g.offers) # 0
        BY <1>1, EmptySeq, LenProperties
    <2>2. 1 \in 1..Len(g.offers)
        BY <2>1
    <2> QED BY <1>1, <2>2, ElementOfSeq
<1> QED BY <1>8, <1>9, <1>10


\* The groups of the offers that were admitted.
LEMMA CandidatesFit ==
    ASSUME NEW offers, Distinct(offers)
    PROVE  LET gs == GroupCandidates(offers)
               G == Range(gs) IN
           gs \in Seq(G) /\ IsInjective(gs) /\ Grouped(G, Range(offers)) /\ Ordered(G)
<1> DEFINE group(i) == GroupOf(ProductIdentity(offers[i]), offers)
           first == {i \in DOMAIN offers : group(i).order = i}
           key == [i \in first |-> <<BestRank(group(i)), i>>]
           order == InOrder(first, key)
           gs == [k \in DOMAIN order |-> group(order[k])]
<1>1. GroupCandidates(offers) = gs
    BY DEF GroupCandidates
<1>2. offers \in Seq(ValidEntry)
    BY DEF Distinct
<1>3. PICK n \in Nat : n = Len(offers) /\ DOMAIN offers = 1..n
    BY <1>2, LenProperties
<1>4. ASSUME NEW i \in DOMAIN offers
      PROVE  /\ group(i).id = ProductIdentity(offers[i])
             /\ GroupIs(group(i), Range(offers)) /\ group(i).order \in Nat
             /\ \A e \in Range(group(i).offers) : ProductIdentity(e) = ProductIdentity(offers[i])
    BY GroupOfFits
<1>5. \A i, j \in DOMAIN offers :
          ProductIdentity(offers[i]) = ProductIdentity(offers[j]) => group(i) = group(j)
    OBVIOUS
<1> HIDE DEF group
<1>6. first \subseteq 1..n /\ first \in SUBSET DOMAIN offers /\ \A i \in first : group(i).order = i
    BY <1>3
<1> HIDE DEF first
<1>7. IsFiniteSet(first)
    <2>1. first \in SUBSET (1..n) /\ IsFiniteSet(1..n)
        BY <1>6, FS_Interval
    <2> QED BY <2>1, FS_Subset
<1>8. IsKey(first, key)
    <2>1. ASSUME NEW a \in Int, NEW b \in Int
          PROVE  <<a, b>> \in [1..2 -> Int] /\ <<a, b>>[2] = b
        OBVIOUS
    <2>2. \A i \in first : key[i] \in [1..2 -> Int] /\ key[i][2] = i
        <3> SUFFICES ASSUME NEW i \in first PROVE key[i] \in [1..2 -> Int] /\ key[i][2] = i
            OBVIOUS
        <3>1. i \in Int /\ i \in DOMAIN offers
            BY <1>6
        <3>2. BestRank(group(i)) \in Int
            BY <1>4, <3>1, GroupNumbers
        <3> QED BY <2>1, <3>1, <3>2
    <2>3. DOMAIN key = first /\ key = [i \in first |-> key[i]]
        OBVIOUS
    <2> HIDE DEF key
    <2>4. key \in [first -> [1..2 -> Int]]
        BY <2>2, <2>3
    <2>5. \A i, j \in first : key[i] = key[j] => i = j
        BY <2>2
    <2> QED BY <2>4, <2>5 DEF IsKey
<1> HIDE DEF key
<1>9. PICK c \in Nat : c = Cardinality(first) /\ order \in Bijection(1..c, first)
    BY <1>7, <1>8, AllInOrder
<1> HIDE DEF order
<1>10. order \in [1..c -> first] /\ \A k, l \in 1..c : order[k] = order[l] => k = l
    BY <1>9 DEF Bijection, Injection, IsInjective
<1>11. DOMAIN gs = 1..c /\ \A k \in 1..c : gs[k] = group(order[k]) /\ order[k] \in DOMAIN offers
    BY <1>6, <1>10
<1>a. gs = [k \in 1..c |-> gs[k]]
    BY <1>11
<1> HIDE DEF gs
<1> DEFINE G == Range(gs)
<1>12. gs \in Seq(G)
    <2>1. \A k \in 1..c : gs[k] \in G
        BY <1>11 DEF Range
    <2>2. gs \in [1..c -> G]
        BY <1>a, <2>1
    <2> QED BY <2>2, IsASeq
<1>13. ASSUME NEW k \in 1..c, NEW l \in 1..c, k # l
       PROVE  ProductIdentity(offers[order[k]]) # ProductIdentity(offers[order[l]])
    <2>1. order[k] \in first /\ order[l] \in first /\ order[k] # order[l]
        BY <1>10, <1>13
    <2>2. group(order[k]).order = order[k] /\ group(order[l]).order = order[l]
        BY <1>6, <2>1
    <2> QED BY <1>5, <1>6, <2>1, <2>2
<1>14. ASSUME NEW k \in 1..c, NEW l \in 1..c, k # l
       PROVE  gs[k].id # gs[l].id /\ Range(gs[k].offers) \cap Range(gs[l].offers) = {}
    <2>1. gs[k] = group(order[k]) /\ gs[l] = group(order[l])
          /\ order[k] \in DOMAIN offers /\ order[l] \in DOMAIN offers
        BY <1>11
    <2>2. ProductIdentity(offers[order[k]]) # ProductIdentity(offers[order[l]])
        BY <1>13, <1>14
    <2>3. gs[k].id # gs[l].id
        BY <1>4, <2>1, <2>2
    <2>4. \A e \in Range(gs[k].offers) : ProductIdentity(e) = ProductIdentity(offers[order[k]])
        BY <1>4, <2>1
    <2>5. \A e \in Range(gs[l].offers) : ProductIdentity(e) = ProductIdentity(offers[order[l]])
        BY <1>4, <2>1
    <2> QED BY <2>2, <2>3, <2>4, <2>5
<1>15. IsInjective(gs)
    BY <1>11, <1>14 DEF IsInjective
<1>16. \A g \in G : \E k \in 1..c : g = gs[k]
    BY <1>11 DEF Range
<1>17. Grouped(G, Range(offers)) /\ Ordered(G)
    <2>1. \A k \in 1..c : GroupIs(gs[k], Range(offers)) /\ gs[k].order \in Nat
        BY <1>4, <1>11
    <2> HIDE DEF G
    <2>2. \A g \in G : GroupIs(g, Range(offers)) /\ g.order \in Nat
        BY <1>16, <2>1
    <2>3. ASSUME NEW g \in G, NEW h \in G, g # h
          PROVE  g.id # h.id /\ Range(g.offers) \cap Range(h.offers) = {}
        <3>1. PICK k \in 1..c : g = gs[k]
            BY <1>16
        <3>2. PICK l \in 1..c : h = gs[l]
            BY <1>16
        <3> QED BY <1>14, <2>3, <3>1, <3>2
    <2> QED BY <2>2, <2>3 DEF Grouped, Ordered
<1> QED BY <1>1, <1>12, <1>15, <1>17

\* The offers of groups, one behind the other.
LEMMA OffersOfGroups ==
    ASSUME NEW G, NEW A, Grouped(G, A), NEW gs \in Seq(G), IsInjective(gs)
    PROVE  LET offers == FlattenSeq([i \in DOMAIN gs |-> gs[i].offers]) IN
           offers \in Seq(ValidEntry) /\ IsInjective(offers) /\ Range(offers) \subseteq A
<1> DEFINE q == [i \in DOMAIN gs |-> gs[i].offers]
<1>1. PICK n \in Nat : n = Len(gs) /\ DOMAIN gs = 1..n /\ \A i \in 1..n : gs[i] \in G
    BY LenProperties, ElementOfSeq
<1>2. \A i \in 1..n : q[i] = gs[i].offers
    BY <1>1
<1>3. \A i \in 1..n : GroupIs(gs[i], A)
    BY <1>1 DEF Grouped
<1>4. \A i \in 1..n : q[i] \in Seq(ValidEntry) /\ IsInjective(q[i]) /\ Range(q[i]) \subseteq A
    BY <1>2, <1>3 DEF GroupIs
<1>5. DOMAIN q = 1..n /\ q = [i \in 1..n |-> q[i]]
    BY <1>1
<1> HIDE DEF q
<1>6. q \in Seq(Seq(ValidEntry)) /\ Len(q) = n
    <2>1. q \in [1..n -> Seq(ValidEntry)]
        BY <1>4, <1>5
    <2>2. q \in Seq(Seq(ValidEntry))
        BY <2>1, IsASeq
    <2>3. DOMAIN q = 1..Len(q) /\ Len(q) \in Nat
        BY <2>2, LenProperties
    <2> QED BY <1>5, <2>2, <2>3
<1>7. ASSUME NEW i \in 1..n, NEW j \in 1..n, i # j
      PROVE  Range(q[i]) \cap Range(q[j]) = {}
    <2>1. gs[i] \in G /\ gs[j] \in G /\ gs[i] # gs[j]
        BY <1>1, <1>7 DEF IsInjective
    <2> QED BY <1>2, <2>1 DEF Grouped
<1>8. Apart(q)
    BY <1>4, <1>6, <1>7 DEF Apart
<1>9. FlattenSeq(q) \in Seq(ValidEntry) /\ IsInjective(FlattenSeq(q))
      /\ Range(FlattenSeq(q)) = UNION {Range(q[i]) : i \in 1..Len(q)}
    BY <1>6, <1>8, FlatApart
<1>10. Range(FlattenSeq(q)) \subseteq A
    BY <1>4, <1>6, <1>9
<1> QED BY <1>9, <1>10 DEF q

\* One group of the offers asked for.
LEMMA ExactGroupFits ==
    ASSUME NEW G, NEW A, Grouped(G, A), NEW gs \in Seq(G), IsInjective(gs), NEW identity
    PROVE  LET t == ExactGroup(gs, identity) IN
           t \in Seq(Range(t)) /\ IsInjective(t) /\ Grouped(Range(t), A)
<1> DEFINE offers == FlattenSeq([i \in DOMAIN gs |-> gs[i].offers])
           at == {i \in DOMAIN offers : Requested(offers[i], identity)}
           least == Min({gs[i].order : i \in DOMAIN gs})
           b == ByPrice(offers, at)
           g == [id |-> <<"exact">>, offers |-> b, order |-> least]
           t == IF at = {} THEN <<>> ELSE <<g>>
<1>1. ExactGroup(gs, identity) = t
    BY DEF ExactGroup
<1>2. offers \in Seq(ValidEntry) /\ IsInjective(offers) /\ Range(offers) \subseteq A
    BY OffersOfGroups
<1> HIDE DEF offers
<1>3. at \in SUBSET DOMAIN offers
    OBVIOUS
<1> HIDE DEF at
<1>4. CASE at = {}
    <2>1. t = <<>>
        BY <1>4
    <2>2. <<>> \in Seq(Range(<<>>)) /\ Range(<<>>) = {} /\ IsInjective(<<>>)
        BY EmptySeq DEF Range, IsInjective
    <2>3. Grouped(Range(<<>>), A)
        BY <2>2 DEF Grouped
    <2> QED BY <1>1, <2>1, <2>2, <2>3
<1>5. CASE at # {}
    <2>1. t = <<g>> /\ g.offers = b
        BY <1>5
    <2>2. Drawn(b, offers, at)
        BY <1>2, <1>3, ByPriceDraws
    <2> HIDE DEF g, b
    <2>3. b \in Seq(ValidEntry) /\ Len(b) = Cardinality(at) /\ Range(b) = Picked(offers, at)
        BY <1>2, <1>3, <2>2, DrawnFits
    <2>4. IsInjective(b)
        BY <1>2, <1>3, <2>2, DrawnOnce
    <2>5. b # <<>>
        <3>1. IsFiniteSet(DOMAIN offers)
            <4>1. DOMAIN offers = 1..Len(offers) /\ Len(offers) \in Nat
                BY <1>2, LenProperties
            <4>2. IsFiniteSet(1..Len(offers))
                BY <4>1, FS_Interval
            <4> QED BY <4>1, <4>2
        <3>2. IsFiniteSet(at)
            BY <1>3, <3>1, FS_Subset
        <3>3. Cardinality(at) # 0
            BY <1>5, <3>2, FS_EmptySet
        <3> QED BY <2>3, <3>3, EmptySeq
    <2>6. Range(b) \subseteq Range(offers)
        BY <1>3, <2>3 DEF Picked, Range
    <2>7. GroupIs(g, A)
        BY <1>2, <2>1, <2>3, <2>4, <2>5, <2>6 DEF GroupIs
    <2>8. <<g>> \in Seq(Range(<<g>>)) /\ Range(<<g>>) = {g} /\ IsInjective(<<g>>)
        BY DEF Range, IsInjective
    <2>9. Grouped(Range(<<g>>), A)
        BY <2>7, <2>8 DEF Grouped
    <2> QED BY <1>1, <2>1, <2>8, <2>9
<1> QED BY <1>4, <1>5


-----------------------------------------------------------------------------
(***************************************************************************)
(* Selections from groups.                                                 *)
(***************************************************************************)
\* Some of the elements of s, none twice.
SomeOf(t, s) == t \in Seq(Range(s)) /\ IsInjective(t) /\ Range(t) \subseteq Range(s)

\* A sequence is one of what it has.
LEMMA InItsRange ==
    ASSUME NEW X, NEW s \in Seq(X)
    PROVE  /\ s \in Seq(Range(s)) /\ Range(s) \subseteq X
           /\ \A Y : Range(s) \subseteq Y => s \in Seq(Y)
<1>1. DOMAIN s = 1..Len(s) /\ Len(s) \in Nat /\ s = [i \in 1..Len(s) |-> s[i]]
      /\ \A i \in 1..Len(s) : s[i] \in X
    BY LenProperties, ElementOfSeq, SeqDef
<1>2. \A i \in 1..Len(s) : s[i] \in Range(s)
    BY <1>1 DEF Range
<1>3. Range(s) \subseteq X
    BY <1>1 DEF Range
<1>4. ASSUME NEW Y, Range(s) \subseteq Y
      PROVE  s \in Seq(Y)
    <2>1. s \in [1..Len(s) -> Y]
        BY <1>1, <1>2, <1>4
    <2> QED BY <1>1, <2>1, IsASeq
<1>5. s \in Seq(Range(s))
    BY <1>4
<1> QED BY <1>3, <1>4, <1>5

\* What is drawn from a sequence without repetitions is some of it.
LEMMA DrawnIsSome ==
    ASSUME NEW X, NEW s \in Seq(X), IsInjective(s), NEW I \in SUBSET DOMAIN s, NEW t,
           Drawn(t, s, I)
    PROVE  SomeOf(t, s)
<1>1. t \in Seq(X) /\ Range(t) = Picked(s, I)
    BY DrawnFits
<1>2. IsInjective(t)
    BY DrawnOnce
<1>3. Range(t) \subseteq Range(s)
    BY <1>1 DEF Picked, Range
<1>4. t \in Seq(Range(s))
    BY <1>1, <1>3, InItsRange
<1> QED BY <1>2, <1>3, <1>4 DEF SomeOf

\* The ranking has every group once.
LEMMA RankedFits ==
    ASSUME NEW G, NEW A, Grouped(G, A), Ordered(G), NEW gs \in Seq(G), IsInjective(gs)
    PROVE  SomeOf(Ranked(gs), gs)
<1> DEFINE key == [i \in DOMAIN gs |-> Append(GroupRank(gs[i]), i)]
           t == Along(gs, InOrder(DOMAIN gs, key))
<1>1. \A i \in DOMAIN gs : gs[i] \in G /\ i \in Int
    BY LenProperties, ElementOfSeq
<1>2. \A i \in DOMAIN gs : GroupRank(gs[i]) \in Seq(Int) /\ Len(GroupRank(gs[i])) = 4
    <2> SUFFICES ASSUME NEW i \in DOMAIN gs
                 PROVE  GroupRank(gs[i]) \in Seq(Int) /\ Len(GroupRank(gs[i])) = 4
        OBVIOUS
    <2>1. GroupIs(gs[i], A) /\ gs[i].order \in Int
        BY <1>1 DEF Grouped, Ordered
    <2> DEFINE rating == Max({RatingSignal(e.rating) : e \in Range(gs[i].offers)})
    <2>2. BestRank(gs[i]) \in Int /\ rating \in Int /\ gs[i].offers[1] \in ValidEntry
        BY <2>1, GroupNumbers
    <2>3. gs[i].offers[1].price \in Int
        BY <2>2, ValidNumbers
    <2> HIDE DEF rating
    <2>4. -rating \in Int
        BY <2>2
    <2>5. GroupRank(gs[i]) = <<BestRank(gs[i]), -rating, gs[i].offers[1].price, gs[i].order>>
        BY DEF GroupRank, rating
    <2> QED BY <2>1, <2>2, <2>3, <2>4, <2>5
<1>3. ASSUME NEW i \in DOMAIN gs
      PROVE  key[i] \in [1..5 -> Int] /\ key[i][5] = i
    <2>1. PICK r \in Seq(Int) : r = GroupRank(gs[i]) /\ Len(r) = 4
        BY <1>2
    <2>2. key[i] = Append(r, i) /\ i \in Int
        BY <1>1, <2>1
    <2>3. Append(r, i) \in Seq(Int) /\ Len(Append(r, i)) = 5 /\ Append(r, i)[5] = i
        <3>1. PICK a \in Int : a = i
            BY <2>2
        <3>2. /\ Append(r, a) \in Seq(Int) /\ Len(Append(r, a)) = Len(r) + 1
              /\ Append(r, a)[Len(r) + 1] = a
            BY AppendProperties
        <3> QED BY <2>1, <3>1, <3>2
    <2>4. Append(r, i) \in [1..5 -> Int]
        BY <2>3, LenProperties, ElementOfSeq, SeqDef
    <2> QED BY <2>2, <2>3, <2>4
<1>4. DOMAIN key = DOMAIN gs /\ key = [i \in DOMAIN gs |-> key[i]]
    OBVIOUS
<1>5. t = Ranked(gs)
    BY DEF Ranked
<1> HIDE DEF key
<1>6. key \in [DOMAIN gs -> [1..5 -> Int]]
    BY <1>3, <1>4
<1>7. \A i, j \in DOMAIN gs : key[i] = key[j] => i = j
    BY <1>3
<1>8. IsKey(DOMAIN gs, key)
    BY <1>6, <1>7 DEF IsKey
<1>9. DOMAIN gs \in SUBSET DOMAIN gs
    OBVIOUS
<1>10. Drawn(t, gs, DOMAIN gs)
    BY <1>8, <1>9, OrderDraws
<1> HIDE DEF t
<1>11. SomeOf(t, gs)
    BY <1>9, <1>10, DrawnIsSome
<1> QED BY <1>5, <1>11

\* The groups a list of ids names, each once.
LEMMA UsableFits ==
    ASSUME NEW X, NEW ids \in Seq(X), NEW Y, NEW gs \in Seq(Y)
    PROVE  SomeOf(Usable(ids, gs), gs)
<1> DEFINE I == {k \in DOMAIN ids : /\ \E g \in Range(gs) : g.id = ids[k]
                                    /\ \A j \in 1..(k - 1) : ids[j] # ids[k]}
           known == At(ids, I)
           t == [k \in DOMAIN known |-> CHOOSE g \in Range(gs) : g.id = known[k]]
<1>1. t = Usable(ids, gs)
    BY DEF Usable
<1>2. I \in SUBSET DOMAIN ids
    OBVIOUS
<1>3. \A k \in I : \E g \in Range(gs) : g.id = ids[k]
    OBVIOUS
<1>4. \A k \in DOMAIN ids : k \in Nat /\ ids[k] \in X
    BY LenProperties, ElementOfSeq
<1>5. \A i, j \in I : i # j => ids[i] # ids[j]
    <2>1. \A i, j \in I : i < j => ids[i] # ids[j]
        <3> SUFFICES ASSUME NEW i \in I, NEW j \in I, i < j PROVE ids[i] # ids[j]
            OBVIOUS
        <3>1. i \in 1..(j - 1)
            BY <1>4, LenProperties
        <3> QED BY <3>1
    <2>2. \A i \in I : i \in Nat
        BY <1>2, <1>4
    <2> HIDE DEF I
    <2>3. \A i, j \in I : i = j \/ i < j \/ j < i
        BY <2>2
    <2> QED BY <2>1, <2>2, <2>3
<1> HIDE DEF I
<1>6. Drawn(known, ids, I)
    BY <1>2, AtDraws
<1> HIDE DEF known, t
<1>a. known \in Seq(X) /\ DOMAIN known = 1..Len(known) /\ Len(known) \in Nat
      /\ Range(known) = Picked(ids, I)
    <2>1. I \in SUBSET DOMAIN ids /\ ids \in Seq(X)
        BY <1>2
    <2> QED BY <1>6, <2>1, DrawnFits
<1>b. \A k \in DOMAIN known : \E i \in I : known[k] = ids[i]
    BY <1>a DEF Picked, Range
<1>7. \E f : Places(f, known, ids, I)
    <2>1. I \in SUBSET DOMAIN ids /\ ids \in Seq(X)
        BY <1>2
    <2> QED BY <1>6, <2>1, DrawnFits
<1>8. \A k, l \in DOMAIN known : known[k] = known[l] => k = l
    <2>1. PICK f : Places(f, known, ids, I)
        BY <1>7
    <2> QED BY <1>5, <2>1 DEF Places
<1>9. \A k \in DOMAIN known : t[k] \in Range(gs) /\ t[k].id = known[k]
    <2> SUFFICES ASSUME NEW k \in DOMAIN known PROVE t[k] \in Range(gs) /\ t[k].id = known[k]
        OBVIOUS
    <2>1. \E g \in Range(gs) : g.id = known[k]
        BY <1>3, <1>b
    <2>2. t[k] = CHOOSE g \in Range(gs) : g.id = known[k]
        BY DEF t
    <2> QED BY <2>1, <2>2
<1>10. DOMAIN t = DOMAIN known /\ t = [k \in DOMAIN known |-> t[k]]
    BY DEF t
<1>11. t \in Seq(Range(gs))
    <2>1. t \in [1..Len(known) -> Range(gs)]
        BY <1>9, <1>10, <1>a
    <2> QED BY <1>a, <2>1, IsASeq
<1>12. IsInjective(t)
    BY <1>8, <1>9, <1>10 DEF IsInjective
<1>13. Range(t) \subseteq Range(gs)
    BY <1>9, <1>10 DEF Range
<1>14. SomeOf(t, gs)
    BY <1>11, <1>12, <1>13 DEF SomeOf
<1> QED BY <1>1, <1>14

\* What comes first, and behind it what it left out.
LEMMA LeftOutBehind ==
    ASSUME NEW X, NEW s \in Seq(X), NEW a, SomeOf(a, s), NEW b, SomeOf(b, s)
    PROVE  LET t == a \o At(b, {i \in DOMAIN b : b[i] \notin Range(a)}) IN
           /\ SomeOf(t, s) /\ Len(a) <= Len(t) /\ Len(a) \in Nat /\ Len(t) \in Nat
           /\ \A i \in 1..Len(a) : t[i] = a[i]
<1> DEFINE I == {i \in DOMAIN b : b[i] \notin Range(a)}
           c == At(b, I)
           t == a \o c
<1>1. /\ a \in Seq(Range(s)) /\ IsInjective(a) /\ Range(a) \subseteq Range(s)
      /\ b \in Seq(Range(s)) /\ IsInjective(b) /\ Range(b) \subseteq Range(s)
    BY DEF SomeOf
<1>2. I \in SUBSET DOMAIN b /\ \A i \in I : b[i] \notin Range(a)
    OBVIOUS
<1> HIDE DEF I
<1>3. Drawn(c, b, I)
    <2>1. I \in SUBSET DOMAIN b
        BY <1>2
    <2> QED BY <1>1, <2>1, AtDraws
<1> HIDE DEF c
<1>4. c \in Seq(Range(s)) /\ Range(c) = Picked(b, I)
    <2>1. I \in SUBSET DOMAIN b /\ b \in Seq(Range(s))
        BY <1>1, <1>2
    <2> QED BY <1>3, <2>1, DrawnFits
<1>5. IsInjective(c)
    <2>1. I \in SUBSET DOMAIN b /\ b \in Seq(Range(s)) /\ IsInjective(b)
        BY <1>1, <1>2
    <2> QED BY <1>3, <2>1, DrawnOnce
<1>6. Range(a) \cap Range(c) = {} /\ Range(c) \subseteq Range(s)
    <2>1. \A x \in Range(c) : \E i \in I : x = b[i]
        BY <1>4 DEF Picked
    <2>2. \A i \in I : b[i] \in Range(b)
        BY <1>2 DEF Range
    <2> QED BY <1>1, <1>2, <2>1, <2>2
<1>7. t \in Seq(Range(s)) /\ IsInjective(t) /\ Range(t) = Range(a) \cup Range(c)
    BY <1>1, <1>4, <1>5, <1>6, BehindApart
<1>8. Len(t) = Len(a) + Len(c) /\ Len(a) \in Nat /\ Len(c) \in Nat
      /\ \A i \in 1..(Len(a) + Len(c)) : t[i] = IF i <= Len(a) THEN a[i] ELSE c[i - Len(a)]
    BY <1>1, <1>4, ConcatProperties, LenProperties
<1> HIDE DEF t
<1>9. SomeOf(t, s)
    BY <1>1, <1>6, <1>7 DEF SomeOf
<1>10. Len(a) <= Len(t) /\ Len(t) \in Nat /\ \A i \in 1..Len(a) : t[i] = a[i]
    <2>1. PICK m \in Nat, n \in Nat : m = Len(a) /\ n = Len(c)
        BY <1>8
    <2>2. \A i \in 1..m : i \in 1..(m + n) /\ i <= m
        BY <2>1
    <2> QED BY <1>8, <2>1, <2>2
<1> QED BY <1>8, <1>9, <1>10 DEF t, c, I

\* The first ones of them.
LEMMA PrefixIsSome ==
    ASSUME NEW X, NEW s \in Seq(X), NEW t, SomeOf(t, s), NEW n \in Nat
    PROVE  SomeOf(Prefix(t, n), s) /\ Len(Prefix(t, n)) <= n /\ Len(Prefix(t, n)) \in Nat
<1>1. t \in Seq(Range(s)) /\ IsInjective(t) /\ Range(t) \subseteq Range(s)
    BY DEF SomeOf
<1>2. /\ Prefix(t, n) \in Seq(Range(s)) /\ Len(Prefix(t, n)) <= n /\ Len(Prefix(t, n)) \in Nat
      /\ Range(Prefix(t, n)) \subseteq Range(t)
      /\ IsInjective(t) => IsInjective(Prefix(t, n))
    BY <1>1, PrefixFits
<1> QED BY <1>1, <1>2 DEF SomeOf


-----------------------------------------------------------------------------
(***************************************************************************)
(* Platforms.                                                              *)
(***************************************************************************)
\* The platforms are three.
LEMMA ThreePlatforms ==
    /\ PlatformOrder \in Seq({"taobao", "jingdong", "douyin"}) /\ DOMAIN PlatformOrder = 1..3
    /\ \A k, l \in 1..3 : PlatformOrder[k] = PlatformOrder[l] => k = l
<1>1. PlatformOrder = <<"taobao", "jingdong", "douyin">>
    BY DEF PlatformOrder
<1>2. \A k \in 1..3 : k = 1 \/ k = 2 \/ k = 3
    OBVIOUS
<1>3. PlatformOrder \in Seq({"taobao", "jingdong", "douyin"}) /\ Len(PlatformOrder) = 3
    BY <1>1
<1>4. \A k, l \in 1..3 : PlatformOrder[k] = PlatformOrder[l] => k = l
    BY <1>1, <1>2
<1> QED BY <1>3, <1>4, LenProperties

\* Those that have a group.
Active(gs) == {k \in 1..3 : Bucket(gs, PlatformOrder[k]) # <<>>}

\* The groups of a platform.
LEMMA BucketFits ==
    ASSUME NEW G, NEW gs \in Seq(G), IsInjective(gs), NEW p
    PROVE  LET b == Bucket(gs, p) IN
           /\ SomeOf(b, gs) /\ Len(b) \in Nat /\ Len(b) <= Len(gs)
           /\ \A i \in 1..Len(b) : b[i] \in Range(gs) /\ PlatformOf(b[i]) = p
           /\ \A g \in Range(gs) : PlatformOf(g) = p => b # <<>>
<1> DEFINE I == {i \in DOMAIN gs : PlatformOf(gs[i]) = p}
           b == At(gs, I)
<1>1. b = Bucket(gs, p)
    BY DEF Bucket
<1>2. I \in SUBSET DOMAIN gs
    OBVIOUS
<1>3. \A i \in I : PlatformOf(gs[i]) = p
    OBVIOUS
<1>4. \A g \in Range(gs) : PlatformOf(g) = p => \E i \in I : g = gs[i]
    BY DEF Range
<1> HIDE DEF I
<1>5. Drawn(b, gs, I)
    BY <1>2, AtDraws
<1> HIDE DEF b
<1>6. SomeOf(b, gs)
    BY <1>2, <1>5, DrawnIsSome
<1>7. b \in Seq(G) /\ DOMAIN b = 1..Len(b) /\ Len(b) \in Nat /\ Len(b) <= Len(gs)
      /\ Range(b) = Picked(gs, I)
    BY <1>2, <1>5, DrawnFits
<1>8. \A i \in 1..Len(b) : b[i] \in Range(gs) /\ PlatformOf(b[i]) = p
    <2>1. \A i \in 1..Len(b) : \E j \in I : b[i] = gs[j]
        BY <1>7 DEF Picked, Range
    <2>2. \A j \in I : gs[j] \in Range(gs)
        BY <1>2 DEF Range
    <2> QED BY <1>3, <2>1, <2>2
<1>9. \A g \in Range(gs) : PlatformOf(g) = p => b # <<>>
    <2> SUFFICES ASSUME NEW g \in Range(gs), PlatformOf(g) = p, b = <<>> PROVE FALSE
        OBVIOUS
    <2>1. g \in Range(b)
        BY <1>4, <1>7 DEF Picked
    <2> QED BY <2>1, EmptySeq DEF Range
<1> QED BY <1>1, <1>6, <1>7, <1>8, <1>9

\* A platform is active when one of the groups is on it.
LEMMA ActiveIs ==
    ASSUME NEW G, NEW gs \in Seq(G), IsInjective(gs), NEW k \in 1..3
    PROVE  k \in Active(gs) <=> \E g \in Range(gs) : PlatformOf(g) = PlatformOrder[k]
<1> DEFINE b == Bucket(gs, PlatformOrder[k])
<1>1. /\ SomeOf(b, gs) /\ Len(b) \in Nat
      /\ \A i \in 1..Len(b) : b[i] \in Range(gs) /\ PlatformOf(b[i]) = PlatformOrder[k]
      /\ \A g \in Range(gs) : PlatformOf(g) = PlatformOrder[k] => b # <<>>
    BY BucketFits
<1>2. k \in Active(gs) <=> b # <<>>
    BY DEF Active
<1> HIDE DEF b
<1>3. ASSUME b # <<>>
      PROVE  \E g \in Range(gs) : PlatformOf(g) = PlatformOrder[k]
    <2>1. Len(b) # 0
        BY <1>1, <1>3, EmptySeq DEF SomeOf
    <2>2. 1 \in 1..Len(b)
        BY <1>1, <2>1
    <2> QED BY <1>1, <2>2
<1> QED BY <1>1, <1>2, <1>3

\* ActiveIn lists them.
LEMMA ActiveListed ==
    ASSUME NEW gs
    PROVE  /\ IsFiniteSet(Active(gs))
           /\ Len(ActiveIn(gs)) = Cardinality(Active(gs)) /\ Len(ActiveIn(gs)) \in Nat
           /\ ActiveIn(gs) = At(PlatformOrder, Active(gs))
<1>1. ActiveIn(gs) = At(PlatformOrder, Active(gs))
    BY ThreePlatforms DEF ActiveIn, Active
<1>2. Active(gs) \in SUBSET DOMAIN PlatformOrder /\ Active(gs) \in SUBSET (1..3)
    BY ThreePlatforms DEF Active
<1>3. IsFiniteSet(Active(gs))
    <2>1. IsFiniteSet(1..3)
        <3>1. PICK n \in Int : n = 3
            OBVIOUS
        <3>2. IsFiniteSet(1..n)
            BY FS_Interval
        <3> QED BY <3>1, <3>2
    <2> QED BY <1>2, <2>1, FS_Subset
<1>4. Drawn(ActiveIn(gs), PlatformOrder, Active(gs))
    BY <1>1, <1>2, ThreePlatforms, AtDraws
<1>5. Len(ActiveIn(gs)) = Cardinality(Active(gs)) /\ Len(ActiveIn(gs)) \in Nat
    BY <1>2, <1>4, ThreePlatforms, DrawnFits
<1> QED BY <1>1, <1>3, <1>5

\* One round: a group of every platform that has one left.
Dealt(gs, k, r) ==
    LET b == Bucket(gs, PlatformOrder[k]) IN IF r <= Len(b) THEN <<b[r]>> ELSE <<>>

Turn(gs, r) == FlattenSeq([k \in 1..3 |-> Dealt(gs, k, r)])

\* Bucket k has an r-th group.
Has(gs, k, r) == r <= Len(Bucket(gs, PlatformOrder[k]))

Nth(gs, k, r) == Bucket(gs, PlatformOrder[k])[r]

\* The groups are in one place of the buckets each.
LEMMA NthFits ==
    ASSUME NEW G, NEW gs \in Seq(G), IsInjective(gs)
    PROVE  /\ \A k \in 1..3, r \in Nat \ {0} : Has(gs, k, r) =>
                  Nth(gs, k, r) \in Range(gs) /\ PlatformOf(Nth(gs, k, r)) = PlatformOrder[k]
           /\ \A k, l \in 1..3, r, h \in Nat \ {0} :
                  Has(gs, k, r) /\ Has(gs, l, h) /\ Nth(gs, k, r) = Nth(gs, l, h) => k = l /\ r = h
<1> DEFINE b(k) == Bucket(gs, PlatformOrder[k])
<1>1. ASSUME NEW k \in 1..3
      PROVE  /\ SomeOf(b(k), gs) /\ Len(b(k)) \in Nat
             /\ \A i \in 1..Len(b(k)) : b(k)[i] \in Range(gs) /\ PlatformOf(b(k)[i]) = PlatformOrder[k]
    BY BucketFits
<1>2. \A k, r : (Has(gs, k, r) <=> r <= Len(b(k))) /\ Nth(gs, k, r) = b(k)[r]
    BY DEF Has, Nth
<1> HIDE DEF b
<1>3. ASSUME NEW k \in 1..3, NEW r \in Nat \ {0}, Has(gs, k, r)
      PROVE  /\ Nth(gs, k, r) \in Range(gs) /\ PlatformOf(Nth(gs, k, r)) = PlatformOrder[k]
             /\ r \in 1..Len(b(k))
    <2>1. r \in 1..Len(b(k))
        BY <1>1, <1>2, <1>3
    <2> QED BY <1>1, <1>2, <2>1
<1>4. ASSUME NEW k \in 1..3, NEW l \in 1..3, NEW r \in Nat \ {0}, NEW h \in Nat \ {0},
             Has(gs, k, r), Has(gs, l, h), Nth(gs, k, r) = Nth(gs, l, h)
      PROVE  k = l /\ r = h
    <2>1. PlatformOrder[k] = PlatformOrder[l]
        BY <1>3, <1>4
    <2>2. k = l
        BY <2>1, ThreePlatforms
    <2>3. r \in 1..Len(b(k)) /\ h \in 1..Len(b(k)) /\ b(k)[r] = b(k)[h]
        BY <1>2, <1>3, <1>4, <2>2
    <2>4. DOMAIN b(k) = 1..Len(b(k)) /\ IsInjective(b(k))
        BY <1>1, LenProperties DEF SomeOf
    <2> QED BY <2>2, <2>3, <2>4 DEF IsInjective
<1> QED BY <1>3, <1>4

\* A round deals the r-th groups.
LEMMA EveryTurn ==
    ASSUME NEW G, NEW gs \in Seq(G), IsInjective(gs), NEW r \in Nat \ {0}
    PROVE  /\ Turn(gs, r) \in Seq(Range(gs)) /\ IsInjective(Turn(gs, r))
           /\ \A g \in Range(Turn(gs, r)) : \E k \in 1..3 : Has(gs, k, r) /\ g = Nth(gs, k, r)
           /\ \A k \in 1..3 : Has(gs, k, r) => Nth(gs, k, r) \in Range(Turn(gs, r))
<1> DEFINE q == [k \in 1..3 |-> Dealt(gs, k, r)]
<1>1. ASSUME NEW k \in 1..3
      PROVE  \/ Has(gs, k, r) /\ q[k] = <<Nth(gs, k, r)>> /\ Nth(gs, k, r) \in Range(gs)
             \/ ~Has(gs, k, r) /\ q[k] = <<>>
    <2>1. q[k] = Dealt(gs, k, r)
        OBVIOUS
    <2>2. Dealt(gs, k, r) = IF Has(gs, k, r) THEN <<Nth(gs, k, r)>> ELSE <<>>
        BY DEF Dealt, Has, Nth
    <2>3. Has(gs, k, r) => Nth(gs, k, r) \in Range(gs)
        BY NthFits
    <2> HIDE DEF q
    <2> QED BY <2>1, <2>2, <2>3
<1>2. DOMAIN q = 1..3 /\ q = [k \in 1..3 |-> q[k]] /\ Turn(gs, r) = FlattenSeq(q)
    BY DEF Turn
<1> HIDE DEF q
<1>3. ASSUME NEW k \in 1..3
      PROVE  /\ q[k] \in Seq(Range(gs)) /\ IsInjective(q[k])
             /\ Range(q[k]) = IF Has(gs, k, r) THEN {Nth(gs, k, r)} ELSE {}
    <2>1. CASE Has(gs, k, r)
        <3>1. q[k] = <<Nth(gs, k, r)>> /\ Nth(gs, k, r) \in Range(gs)
            BY <1>1, <2>1
        <3> QED BY <2>1, <3>1 DEF Range, IsInjective
    <2>2. CASE ~Has(gs, k, r)
        <3>1. q[k] = <<>>
            BY <1>1, <2>2
        <3> QED BY <2>2, <3>1, EmptySeq DEF Range, IsInjective
    <2> QED BY <2>1, <2>2
<1>4. q \in Seq(Seq(Range(gs))) /\ Len(q) = 3
    <2>1. q \in [1..3 -> Seq(Range(gs))]
        BY <1>2, <1>3
    <2>2. q \in Seq(Seq(Range(gs)))
        <3>1. PICK n \in Nat : n = 3
            OBVIOUS
        <3>2. q \in [1..n -> Seq(Range(gs))]
            BY <2>1, <3>1
        <3> QED BY <3>2, IsASeq
    <2>3. DOMAIN q = 1..Len(q) /\ Len(q) \in Nat
        BY <2>2, LenProperties
    <2> QED BY <1>2, <2>2, <2>3
<1>5. ASSUME NEW k \in 1..3, NEW l \in 1..3, k # l
      PROVE  Range(q[k]) \cap Range(q[l]) = {}
    <2> SUFFICES ASSUME NEW g \in Range(q[k]), g \in Range(q[l]) PROVE FALSE
        OBVIOUS
    <2>1. Has(gs, k, r) /\ g = Nth(gs, k, r) /\ Has(gs, l, r) /\ g = Nth(gs, l, r)
        BY <1>3
    <2>2. k = l
        BY <2>1, NthFits
    <2> QED BY <1>5, <2>2
<1>6. Apart(q)
    BY <1>3, <1>4, <1>5 DEF Apart
<1>7. /\ FlattenSeq(q) \in Seq(Range(gs)) /\ IsInjective(FlattenSeq(q))
      /\ Range(FlattenSeq(q)) = UNION {Range(q[i]) : i \in 1..3}
    BY <1>4, <1>6, FlatApart
<1>8. \A g \in Range(FlattenSeq(q)) : \E k \in 1..3 : g \in Range(q[k])
    BY <1>7
<1>9. \A k \in 1..3 : Range(q[k]) \subseteq Range(FlattenSeq(q))
    BY <1>7
<1>10. \A g \in Range(FlattenSeq(q)) : \E k \in 1..3 : Has(gs, k, r) /\ g = Nth(gs, k, r)
    BY <1>3, <1>8
<1>11. \A k \in 1..3 : Has(gs, k, r) => Nth(gs, k, r) \in Range(FlattenSeq(q))
    BY <1>3, <1>9
<1> QED BY <1>2, <1>7, <1>10, <1>11


\* In the first round every active platform is dealt one group, and no other group is dealt.
LEMMA FirstRound ==
    ASSUME NEW G, NEW gs \in Seq(G), IsInjective(gs)
    PROVE  /\ Len(Turn(gs, 1)) \in Nat /\ Len(Turn(gs, 1)) <= Cardinality(Active(gs))
           /\ \A k \in Active(gs) : \E i \in 1..Len(Turn(gs, 1)) :
                  PlatformOf(Turn(gs, 1)[i]) = PlatformOrder[k]
<1> DEFINE t == Turn(gs, 1)
<1>1. 1 \in Nat \ {0}
    OBVIOUS
<1>2. /\ t \in Seq(Range(gs)) /\ IsInjective(t)
      /\ \A g \in Range(t) : \E k \in 1..3 : Has(gs, k, 1) /\ g = Nth(gs, k, 1)
      /\ \A k \in 1..3 : Has(gs, k, 1) => Nth(gs, k, 1) \in Range(t)
    BY <1>1, EveryTurn
<1>3. \A k \in 1..3 : Has(gs, k, 1) => PlatformOf(Nth(gs, k, 1)) = PlatformOrder[k]
    BY <1>1, NthFits
<1>4. ASSUME NEW k \in 1..3
      PROVE  k \in Active(gs) <=> Has(gs, k, 1)
    <2> DEFINE b == Bucket(gs, PlatformOrder[k])
    <2>1. b \in Seq(Range(gs)) /\ Len(b) \in Nat
        BY BucketFits DEF SomeOf
    <2>2. (k \in Active(gs) <=> b # <<>>) /\ (Has(gs, k, 1) <=> 1 <= Len(b))
        BY DEF Active, Has
    <2> HIDE DEF b
    <2>3. b = <<>> <=> Len(b) = 0
        BY <2>1, EmptySeq
    <2> QED BY <2>1, <2>2, <2>3
<1> HIDE DEF t
<1>5. PICK n \in Nat : n = Len(t) /\ DOMAIN t = 1..n
    BY <1>2, LenProperties
<1> DEFINE dealt(i) == CHOOSE k \in Active(gs) : t[i] = Nth(gs, k, 1)
           f == [i \in 1..n |-> dealt(i)]
<1>6. ASSUME NEW i \in 1..n
      PROVE  dealt(i) \in Active(gs) /\ t[i] = Nth(gs, dealt(i), 1)
    <2>1. t[i] \in Range(t)
        BY <1>5 DEF Range
    <2>2. PICK k \in 1..3 : Has(gs, k, 1) /\ t[i] = Nth(gs, k, 1)
        BY <1>2, <2>1
    <2>3. k \in Active(gs)
        BY <1>4, <2>2
    <2> QED BY <2>2, <2>3
<1> HIDE DEF dealt
<1>7. f \in [1..n -> Active(gs)]
    BY <1>6
<1>8. \A i, j \in 1..n : f[i] = f[j] => i = j
    BY <1>2, <1>5, <1>6 DEF IsInjective
<1> HIDE DEF f
<1>9. f \in Injection(1..n, Active(gs))
    BY <1>7, <1>8 DEF Injection, IsInjective
<1>10. Cardinality(1..n) <= Cardinality(Active(gs))
    <2>1. IsFiniteSet(Active(gs))
        BY ActiveListed
    <2> QED BY <1>9, <2>1, FS_Injection
<1>11. Cardinality(1..n) = n
    <2>1. 1 \in Int /\ n \in Int /\ n - 1 + 1 = n /\ (1 > n => n = 0)
        OBVIOUS
    <2>2. Cardinality(1..n) = IF 1 > n THEN 0 ELSE n - 1 + 1
        BY <2>1, FS_Interval
    <2> QED BY <2>1, <2>2
<1>12. ASSUME NEW k \in Active(gs)
       PROVE  \E i \in 1..n : PlatformOf(t[i]) = PlatformOrder[k]
    <2>1. k \in 1..3
        BY DEF Active
    <2>2. Nth(gs, k, 1) \in Range(t) /\ PlatformOf(Nth(gs, k, 1)) = PlatformOrder[k]
        BY <1>2, <1>3, <1>4, <2>1
    <2>3. PICK i \in 1..n : t[i] = Nth(gs, k, 1)
        BY <1>5, <2>2 DEF Range
    <2> QED BY <2>2, <2>3
<1> QED BY <1>5, <1>10, <1>11, <1>12 DEF t

\* The rounds deal groups, none twice, and the first of them reaches every platform.
LEMMA RoundRobinFits ==
    ASSUME NEW G, NEW gs \in Seq(G), IsInjective(gs), NEW rounds \in Nat \ {0}
    PROVE  /\ SomeOf(RoundRobin(gs, rounds), gs)
           /\ \A k \in Active(gs) : \E i \in 1..Len(RoundRobin(gs, rounds)) :
                  /\ i <= Cardinality(Active(gs))
                  /\ PlatformOf(RoundRobin(gs, rounds)[i]) = PlatformOrder[k]
<1> DEFINE q == [r \in 1..rounds |-> Turn(gs, r)]
           t == FlattenSeq(q)
<1>1. t = RoundRobin(gs, rounds)
    <2>1. DOMAIN PlatformOrder = 1..3
        BY ThreePlatforms
    <2> QED BY <2>1 DEF RoundRobin, Turn, Dealt
<1>2. ASSUME NEW r \in 1..rounds
      PROVE  /\ q[r] = Turn(gs, r) /\ q[r] \in Seq(Range(gs)) /\ IsInjective(q[r])
             /\ \A g \in Range(q[r]) : \E k \in 1..3 : Has(gs, k, r) /\ g = Nth(gs, k, r)
    <2>1. r \in Nat \ {0} /\ q[r] = Turn(gs, r)
        OBVIOUS
    <2> HIDE DEF q
    <2> QED BY <2>1, EveryTurn
<1>3. DOMAIN q = 1..rounds /\ q = [r \in 1..rounds |-> q[r]]
    OBVIOUS
<1> HIDE DEF q
<1>4. q \in Seq(Seq(Range(gs))) /\ Len(q) = rounds
    <2>1. q \in [1..rounds -> Seq(Range(gs))]
        BY <1>2, <1>3
    <2>2. q \in Seq(Seq(Range(gs)))
        BY <2>1, IsASeq
    <2>3. DOMAIN q = 1..Len(q) /\ Len(q) \in Nat
        BY <2>2, LenProperties
    <2> QED BY <1>3, <2>2, <2>3
<1>5. ASSUME NEW r \in 1..rounds, NEW h \in 1..rounds, r # h
      PROVE  Range(q[r]) \cap Range(q[h]) = {}
    <2> SUFFICES ASSUME NEW g \in Range(q[r]), g \in Range(q[h]) PROVE FALSE
        OBVIOUS
    <2>1. PICK k \in 1..3 : Has(gs, k, r) /\ g = Nth(gs, k, r)
        BY <1>2
    <2>2. PICK l \in 1..3 : Has(gs, l, h) /\ g = Nth(gs, l, h)
        BY <1>2
    <2>3. r \in Nat \ {0} /\ h \in Nat \ {0}
        OBVIOUS
    <2>4. r = h
        BY <2>1, <2>2, <2>3, NthFits
    <2> QED BY <1>5, <2>4
<1>6. Apart(q)
    BY <1>2, <1>4, <1>5 DEF Apart
<1>7. t \in Seq(Range(gs)) /\ IsInjective(t)
    BY <1>4, <1>6, FlatApart
<1>8. q[1] \in Seq(Range(gs)) /\ \E u \in Seq(Range(gs)) : t = q[1] \o u
    <2>1. Len(q) # 0
        BY <1>4
    <2> QED BY <1>4, <2>1, FlatHead
<1> HIDE DEF t
<1>9. SomeOf(t, gs)
    <2>1. Range(t) \subseteq Range(gs)
        BY <1>7, InItsRange
    <2> QED BY <1>7, <2>1 DEF SomeOf
<1>10. q[1] = Turn(gs, 1)
    <2>1. 1 \in 1..rounds
        OBVIOUS
    <2> QED BY <1>2, <2>1
<1>11. ASSUME NEW k \in Active(gs)
       PROVE  \E i \in 1..Len(t) : /\ i <= Cardinality(Active(gs))
                                   /\ PlatformOf(t[i]) = PlatformOrder[k]
    <2>1. PICK a \in Seq(Range(gs)) : a = Turn(gs, 1)
        BY <1>8, <1>10
    <2>2. PICK u \in Seq(Range(gs)) : t = a \o u
        BY <1>8, <1>10, <2>1
    <2>3. Len(a) \in Nat /\ Len(a) <= Cardinality(Active(gs))
        BY <2>1, FirstRound
    <2>4. PICK i \in 1..Len(a) : PlatformOf(a[i]) = PlatformOrder[k]
        BY <2>1, FirstRound
    <2>5. /\ Len(t) = Len(a) + Len(u) /\ Len(u) \in Nat
          /\ \A j \in 1..(Len(a) + Len(u)) : t[j] = IF j <= Len(a) THEN a[j] ELSE u[j - Len(a)]
        BY <2>2, ConcatProperties, LenProperties
    <2>6. i \in 1..(Len(a) + Len(u)) /\ i <= Len(a)
        BY <2>3, <2>5
    <2>7. t[i] = a[i] /\ i \in 1..Len(t)
        BY <2>5, <2>6
    <2>8. i <= Cardinality(Active(gs))
        <3>1. Cardinality(Active(gs)) \in Nat
            BY ActiveListed, FS_CardinalityType
        <3> QED BY <2>3, <2>6, <3>1
    <2> QED BY <2>4, <2>7, <2>8
<1> QED BY <1>1, <1>9, <1>11

\* What a shortlist of the groups keeps: every platform, when there is room for all.
Shortlist(t, gs, limit) ==
    /\ SomeOf(t, gs)
    /\ Cardinality(Active(gs)) <= limit =>
           \A k \in Active(gs) : \E g \in Range(t) : PlatformOf(g) = PlatformOrder[k]

\* The rounds up to a limit.
LEMMA RoundsFit ==
    ASSUME NEW G, NEW gs \in Seq(G), IsInjective(gs), NEW rounds \in Nat \ {0}, NEW limit \in Nat
    PROVE  /\ Shortlist(Prefix(RoundRobin(gs, rounds), limit), gs, limit)
           /\ Len(Prefix(RoundRobin(gs, rounds), limit)) <= limit
           /\ Len(Prefix(RoundRobin(gs, rounds), limit)) \in Nat
<1>1. PICK t : t = RoundRobin(gs, rounds)
    OBVIOUS
<1>2. /\ SomeOf(t, gs)
      /\ \A k \in Active(gs) : \E i \in 1..Len(t) :
             i <= Cardinality(Active(gs)) /\ PlatformOf(t[i]) = PlatformOrder[k]
    BY <1>1, RoundRobinFits
<1>3. SomeOf(Prefix(t, limit), gs) /\ Len(Prefix(t, limit)) <= limit /\ Len(Prefix(t, limit)) \in Nat
    BY <1>2, PrefixIsSome
<1>4. ASSUME Cardinality(Active(gs)) <= limit, NEW k \in Active(gs)
      PROVE  \E g \in Range(Prefix(t, limit)) : PlatformOf(g) = PlatformOrder[k]
    <2>1. PICK i \in 1..Len(t) : /\ i <= Cardinality(Active(gs))
                                 /\ PlatformOf(t[i]) = PlatformOrder[k]
        BY <1>2
    <2>2. t \in Seq(Range(gs)) /\ Len(t) \in Nat
        BY <1>2, LenProperties DEF SomeOf
    <2>3. i <= limit
        <3>1. Cardinality(Active(gs)) \in Nat
            BY ActiveListed, FS_CardinalityType
        <3> QED BY <1>4, <2>1, <2>2, <3>1
    <2>4. t[i] \in Range(Prefix(t, limit))
        BY <2>2, <2>3, PrefixFits
    <2> QED BY <2>1, <2>4
<1> QED BY <1>1, <1>3, <1>4 DEF Shortlist

\* cap_groups_balanced
LEMMA CappedFits ==
    ASSUME NEW G, NEW gs \in Seq(G), IsInjective(gs), gs # <<>>, NEW limit \in Nat
    PROVE  Shortlist(CapBalanced(gs, limit), gs, limit)
<1>1. Len(gs) \in Nat \ {0}
    BY EmptySeq, LenProperties
<1> QED BY <1>1, RoundsFit DEF CapBalanced

\* _balanced
LEMMA BalancedFits ==
    ASSUME NEW G, NEW gs \in Seq(G), IsInjective(gs), Active(gs) # {}, NEW limit \in Nat
    PROVE  Shortlist(Balanced(gs, limit), gs, limit)
<1> DEFINE share == limit \div (2 * Len(ActiveIn(gs)))
           rounds == IF share > 1 THEN share ELSE 1
           floor == Prefix(RoundRobin(gs, rounds), limit)
           whole == floor \o At(gs, {i \in DOMAIN gs : gs[i] \notin Range(floor)})
<1>1. Balanced(gs, limit) = Prefix(whole, limit)
    BY DEF Balanced
<1>2. rounds \in Nat \ {0}
    <2>1. Len(ActiveIn(gs)) \in Nat /\ Len(ActiveIn(gs)) = Cardinality(Active(gs))
          /\ IsFiniteSet(Active(gs))
        BY ActiveListed
    <2>2. Len(ActiveIn(gs)) # 0
        BY <2>1, FS_EmptySet
    <2>3. PICK d \in Nat : d = 2 * Len(ActiveIn(gs)) /\ d > 0
        BY <2>1, <2>2
    <2>4. limit \div d \in Int
        BY <2>3
    <2>5. share \in Int
        BY <2>3, <2>4
    <2> HIDE DEF share
    <2> QED BY <2>5
<1> HIDE DEF rounds
<1>3. /\ Shortlist(floor, gs, limit) /\ Len(floor) <= limit /\ Len(floor) \in Nat
    BY <1>2, RoundsFit
<1> HIDE DEF floor
<1>4. SomeOf(floor, gs) /\ SomeOf(gs, gs)
    <2>1. gs \in Seq(Range(gs))
        BY InItsRange
    <2> QED BY <1>3, <2>1 DEF SomeOf, Shortlist
<1>5. /\ SomeOf(whole, gs) /\ Len(floor) <= Len(whole) /\ Len(whole) \in Nat
      /\ \A i \in 1..Len(floor) : whole[i] = floor[i]
    BY <1>4, LeftOutBehind
<1> HIDE DEF whole
<1>6. SomeOf(Prefix(whole, limit), gs)
    BY <1>5, PrefixIsSome
<1>7. Range(floor) \subseteq Range(Prefix(whole, limit))
    <2>1. whole \in Seq(Range(gs)) /\ floor \in Seq(Range(gs))
        BY <1>4, <1>5 DEF SomeOf
    <2>2. \A i \in 1..Len(whole) : i <= limit => whole[i] \in Range(Prefix(whole, limit))
        BY <2>1, PrefixFits
    <2>3. \A i \in 1..Len(floor) : i \in 1..Len(whole) /\ i <= limit
        BY <1>3, <1>5
    <2>4. \A i \in 1..Len(floor) : floor[i] \in Range(Prefix(whole, limit))
        BY <1>5, <2>2, <2>3
    <2>5. DOMAIN floor = 1..Len(floor)
        BY <2>1, LenProperties
    <2> QED BY <2>4, <2>5 DEF Range
<1>8. Shortlist(Prefix(whole, limit), gs, limit)
    <2>1. Cardinality(Active(gs)) <= limit =>
              \A k \in Active(gs) : \E g \in Range(floor) : PlatformOf(g) = PlatformOrder[k]
        BY <1>3 DEF Shortlist
    <2>2. PICK R : R = Range(Prefix(whole, limit))
        OBVIOUS
    <2>3. Cardinality(Active(gs)) <= limit =>
              \A k \in Active(gs) : \E g \in R : PlatformOf(g) = PlatformOrder[k]
        BY <1>7, <2>1, <2>2
    <2> QED BY <1>6, <2>2, <2>3 DEF Shortlist
<1> QED BY <1>1, <1>8

\* A shortlist has the platforms of the groups.
LEMMA PlatformsIn ==
    ASSUME NEW G, NEW gs \in Seq(G), IsInjective(gs), NEW t, NEW limit,
           Shortlist(t, gs, limit), Len(ActiveIn(gs)) <= limit
    PROVE  ActiveIn(t) = ActiveIn(gs)
<1>1. t \in Seq(Range(gs)) /\ IsInjective(t) /\ Range(t) \subseteq Range(gs)
    BY DEF Shortlist, SomeOf
<1>2. Len(ActiveIn(gs)) = Cardinality(Active(gs))
    BY ActiveListed
<1>3. \A k \in Active(gs) : \E g \in Range(t) : PlatformOf(g) = PlatformOrder[k]
    BY <1>2 DEF Shortlist
<1>4. ASSUME NEW k \in 1..3
      PROVE  k \in Active(t) <=> k \in Active(gs)
    <2>1. k \in Active(t) <=> \E g \in Range(t) : PlatformOf(g) = PlatformOrder[k]
        BY <1>1, ActiveIs
    <2>2. k \in Active(gs) <=> \E g \in Range(gs) : PlatformOf(g) = PlatformOrder[k]
        BY ActiveIs
    <2> QED BY <1>1, <1>3, <2>1, <2>2
<1>5. Active(t) \subseteq 1..3 /\ Active(gs) \subseteq 1..3
    BY DEF Active
<1>6. Active(t) = Active(gs)
    BY <1>4, <1>5
<1> QED BY <1>6, ActiveListed


-----------------------------------------------------------------------------
(***************************************************************************)
(* The invariant of the tool.                                              *)
(***************************************************************************)
\* The offers an answer to r may hold.
MayPick(r) ==
    {e \in ValidEntry :
        /\ e \in Range(r.items) /\ e.price > 0
        /\ e.platform \notin r.constraint.blockedPlatforms
        /\ e.item \notin r.constraint.blockedItems
        /\ r.constraint.max > 0 => e.price <= r.constraint.max
        /\ r.constraint.required /\ e.attribute # "match" =>
               \A d \in Range(Parsed(r.items)) : d.attribute = "absent"}

\* Offers that may be picked together.
Together(A, r) ==
    A \subseteq MayPick(r) /\ \A e, d \in A : OfferId(e) = OfferId(d) => e = d

Pickable(gs, r) ==
    /\ gs \in Seq(Range(gs)) /\ IsInjective(gs)
    /\ \E A : Together(A, r) /\ Grouped(Range(gs), A)

SelScalars ==
    /\ stage \in {"idle", "filtering", "routing", "ranking", "answered"}
    /\ stage # "idle" => /\ request.items \in Seq(ListEntry)
                         /\ request.constraint \in Constraint /\ request.mode \in Mode
    /\ status \in {"none", "ok", "degraded", "insufficient_data"}

SelInvariant ==
    /\ SelScalars
    /\ Pickable(groups, request) /\ Pickable(short, request) /\ Pickable(picks, request)
    /\ Len(picks) <= PickLimit
    /\ stage = "idle" => groups = <<>> /\ short = <<>> /\ picks = <<>>
    /\ stage \in {"routing", "ranking"} => Ordered(Range(groups))
    /\ stage = "ranking" => Shortlist(short, groups, GroupLimit)

\* Nothing may always be picked.
LEMMA NothingIsPickable ==
    ASSUME NEW r
    PROVE  Pickable(<<>>, r)
<1>1. <<>> \in Seq(Range(<<>>)) /\ Range(<<>>) = {} /\ IsInjective(<<>>)
    BY EmptySeq DEF Range, IsInjective
<1>2. Together({}, r) /\ Grouped({}, {})
    BY DEF Together, Grouped
<1> QED BY <1>1, <1>2 DEF Pickable

\* Some of what may be picked may be picked.
LEMMA SomeIsPickable ==
    ASSUME NEW gs, NEW r, Pickable(gs, r), NEW t, SomeOf(t, gs)
    PROVE  Pickable(t, r)
<1>1. PICK A : Together(A, r) /\ Grouped(Range(gs), A)
    BY DEF Pickable
<1>2. t \in Seq(Range(gs)) /\ IsInjective(t) /\ Range(t) \subseteq Range(gs)
    BY DEF SomeOf
<1>3. t \in Seq(Range(t))
    BY <1>2, InItsRange
<1>4. Grouped(Range(t), A)
    BY <1>1, <1>2 DEF Grouped
<1> QED BY <1>1, <1>2, <1>3, <1>4 DEF Pickable

\* What may be picked has the types of a group.
LEMMA PickableTyped ==
    ASSUME NEW gs, NEW r, Pickable(gs, r), NEW i \in DOMAIN gs
    PROVE  gs[i].offers # <<>> /\ Range(gs[i].offers) \subseteq ListEntry
<1>1. PICK A : Together(A, r) /\ Grouped(Range(gs), A)
    BY DEF Pickable
<1>2. gs[i] \in Range(gs)
    BY DEF Range
<1>3. GroupIs(gs[i], A)
    BY <1>1, <1>2 DEF Grouped
<1>4. MayPick(r) \subseteq ListEntry
    BY DEF MayPick, ValidEntry
<1> QED BY <1>1, <1>3, <1>4 DEF GroupIs, Together

\* What the invariant says of the types.
LEMMA SelTyped == SelInvariant => SelTypeOK
<1> SUFFICES ASSUME SelInvariant PROVE SelTypeOK
    OBVIOUS
<1>1. SelScalars /\ Pickable(groups, request) /\ Pickable(short, request) /\ Pickable(picks, request)
    BY DEF SelInvariant
<1>2. stage # "idle" => /\ Range(request.items) \subseteq ListEntry
                        /\ request.constraint \in Constraint /\ request.mode \in Mode
    <2>1. request.items \in Seq(ListEntry) => Range(request.items) \subseteq ListEntry
        BY InItsRange
    <2> QED BY <1>1, <2>1 DEF SelScalars
<1>3. \A gs \in {groups, short, picks} : \A i \in DOMAIN gs :
          gs[i].offers # <<>> /\ Range(gs[i].offers) \subseteq ListEntry
    BY <1>1, PickableTyped
<1>4. /\ stage \in {"idle", "filtering", "routing", "selecting", "ranking", "answered"}
      /\ status \in {"none", "ok", "degraded", "insufficient_data"}
    BY <1>1 DEF SelScalars
<1> QED BY <1>2, <1>3, <1>4 DEF SelTypeOK

\* What it says of the answer.
LEMMA SelAnswers == SelInvariant => PicksAreSound
<1> SUFFICES ASSUME SelInvariant PROVE PicksAreSound
    OBVIOUS
<1> DEFINE offers == FlattenSeq([i \in DOMAIN picks |-> picks[i].offers])
           con == request.constraint
<1>1. Pickable(picks, request) /\ Len(picks) <= PickLimit
    BY DEF SelInvariant
<1>2. PICK A : Together(A, request) /\ Grouped(Range(picks), A)
    BY <1>1 DEF Pickable
<1>3. picks \in Seq(Range(picks)) /\ IsInjective(picks)
    BY <1>1 DEF Pickable
<1>4. IsInjective([i \in DOMAIN picks |-> picks[i].id])
    <2>1. \A i, j \in DOMAIN picks : picks[i].id = picks[j].id => i = j
        <3> SUFFICES ASSUME NEW i \in DOMAIN picks, NEW j \in DOMAIN picks,
                            picks[i].id = picks[j].id, i # j
                     PROVE  FALSE
            OBVIOUS
        <3>1. picks[i] \in Range(picks) /\ picks[j] \in Range(picks)
            BY DEF Range
        <3>2. picks[i] # picks[j]
            BY <1>3 DEF IsInjective
        <3> QED BY <1>2, <3>1, <3>2 DEF Grouped
    <2> QED BY <2>1 DEF IsInjective
<1>5. offers \in Seq(ValidEntry) /\ IsInjective(offers) /\ Range(offers) \subseteq A
    BY <1>2, <1>3, OffersOfGroups
<1> HIDE DEF offers
<1>6. IsInjective([i \in DOMAIN offers |-> OfferId(offers[i])])
    <2>1. \A i, j \in DOMAIN offers : OfferId(offers[i]) = OfferId(offers[j]) => i = j
        <3> SUFFICES ASSUME NEW i \in DOMAIN offers, NEW j \in DOMAIN offers,
                            OfferId(offers[i]) = OfferId(offers[j])
                     PROVE  i = j
            OBVIOUS
        <3>1. offers[i] \in A /\ offers[j] \in A
            BY <1>5 DEF Range
        <3>2. offers[i] = offers[j]
            BY <1>2, <3>1 DEF Together
        <3> QED BY <1>5, <3>2 DEF IsInjective
    <2> QED BY <2>1 DEF IsInjective
<1>7. \A e \in Range(offers) :
          /\ e \in Range(request.items) /\ e.valid /\ e.price > 0
          /\ e.platform \notin con.blockedPlatforms /\ e.item \notin con.blockedItems
          /\ con.max > 0 => e.price <= con.max
          /\ con.required /\ e.attribute # "match" =>
                 \A d \in Range(Parsed(request.items)) : d.attribute = "absent"
    <2>1. \A e \in Range(offers) : e \in MayPick(request)
        BY <1>2, <1>5 DEF Together
    <2> QED BY <2>1 DEF MayPick, ValidEntry
<1> QED BY <1>1, <1>4, <1>6, <1>7 DEF PicksAreSound, offers

\* What it says of the platforms.
LEMMA SelKeeps == SelInvariant => PlatformsKept
<1> SUFFICES ASSUME SelInvariant, stage = "ranking", Len(ActiveIn(groups)) <= GroupLimit
             PROVE  ActiveIn(short) = ActiveIn(groups)
    BY DEF PlatformsKept
<1>1. Shortlist(short, groups, GroupLimit) /\ groups \in Seq(Range(groups)) /\ IsInjective(groups)
    BY DEF SelInvariant, Pickable
<1> QED BY <1>1, PlatformsIn

-----------------------------------------------------------------------------
(***************************************************************************)
(* Every step keeps it.                                                    *)
(***************************************************************************)
\* The groups of what is admitted may be picked.
LEMMA CandidatesPickable ==
    ASSUME NEW r, r.items \in Seq(ListEntry), NEW relaxed, NEW linked,
           relaxed => Relaxed(Parsed(r.items))
    PROVE  LET gs == GroupCandidates(Admitted(Parsed(r.items), r.constraint, relaxed, linked)) IN
           Pickable(gs, r) /\ Ordered(Range(gs))
<1> DEFINE items == Parsed(r.items)
           offers == Admitted(items, r.constraint, relaxed, linked)
           gs == GroupCandidates(offers)
<1>1. items \in Seq(ValidEntry) /\ Range(items) \subseteq Range(r.items)
    BY ParsedFits
<1>2. relaxed => \A e \in Range(items) : e.attribute = "absent"
    BY DEF Relaxed
<1> HIDE DEF items
<1>3. /\ Distinct(offers)
      /\ \A e \in Range(offers) : e \in Range(items) /\ Passes(e, r.constraint, relaxed, linked)
    BY <1>1, AdmittedFits
<1> HIDE DEF offers
<1>4. gs \in Seq(Range(gs)) /\ IsInjective(gs) /\ Grouped(Range(gs), Range(offers))
      /\ Ordered(Range(gs))
    BY <1>3, CandidatesFit
<1> HIDE DEF gs
<1>5. Range(offers) \subseteq ValidEntry
    BY <1>3, InItsRange DEF Distinct
<1>6. ASSUME NEW e \in Range(offers)
      PROVE  e \in MayPick(r)
    <2>1. e \in ValidEntry /\ e \in Range(r.items) /\ Passes(e, r.constraint, relaxed, linked)
        BY <1>1, <1>3, <1>5
    <2>2. /\ e.price > 0 /\ e.item \notin r.constraint.blockedItems
          /\ e.platform \notin r.constraint.blockedPlatforms
          /\ r.constraint.max > 0 => e.price <= r.constraint.max
          /\ r.constraint.required /\ ~relaxed => e.attribute = "match"
        BY <2>1 DEF Passes
    <2>3. relaxed => \A d \in Range(Parsed(r.items)) : d.attribute = "absent"
        BY <1>2 DEF items
    <2> QED BY <2>1, <2>2, <2>3 DEF MayPick
<1>7. \A e, d \in Range(offers) : OfferId(e) = OfferId(d) => e = d
    BY <1>3 DEF Distinct, Range
<1>8. Together(Range(offers), r)
    BY <1>6, <1>7 DEF Together
<1>9. Pickable(gs, r) /\ Ordered(Range(gs))
    BY <1>4, <1>8 DEF Pickable
<1> QED BY <1>9 DEF gs, offers, items

\* An answer from groups that may be picked.
LEMMA AnswerFits ==
    ASSUME NEW r, NEW gs, Pickable(gs, r), NEW n \in Nat
    PROVE  Pickable(Prefix(gs, n), r) /\ Len(Prefix(gs, n)) <= n /\ Len(Prefix(gs, n)) \in Nat
<1>1. gs \in Seq(Range(gs)) /\ SomeOf(gs, gs)
    BY DEF Pickable, SomeOf
<1>2. SomeOf(Prefix(gs, n), gs) /\ Len(Prefix(gs, n)) <= n /\ Len(Prefix(gs, n)) \in Nat
    BY <1>1, PrefixIsSome
<1> QED BY <1>2, SomeIsPickable

\* A state in which the tool has answered.
LEMMA AnsweredFits ==
    ASSUME SelScalars, stage # "idle", request' = request, stage' = "answered",
           status' \in {"ok", "degraded", "insufficient_data"},
           Pickable(groups', request), Pickable(short', request), Pickable(picks', request),
           Len(picks') <= PickLimit
    PROVE  SelInvariant'
<1>1. SelScalars'
    BY DEF SelScalars
<1> QED BY <1>1 DEF SelInvariant

\* Before the first call nothing was grouped, shortlisted or picked.
LEMMA SelStarts == SelInit => SelInvariant
<1> SUFFICES ASSUME SelInit PROVE SelInvariant
    OBVIOUS
<1>1. /\ stage = "idle" /\ groups = <<>> /\ short = <<>> /\ picks = <<>> /\ status = "none"
    BY DEF SelInit
<1>2. Pickable(<<>>, request)
    BY NothingIsPickable
<1>3. SelScalars
    BY <1>1 DEF SelScalars
<1>4. Len(picks) <= PickLimit
    BY <1>1, SelAssumption, EmptySeq
<1> QED BY <1>1, <1>2, <1>3, <1>4 DEF SelInvariant

\* A call starts from nothing, whatever the call before it picked.
LEMMA AskKeeps ==
    ASSUME SelInvariant, NEW n \in Nat, NEW items \in [1..n -> ListEntry], NEW con \in Constraint,
           NEW mode \in Mode, NEW identity, Ask(items, con, mode, identity)
    PROVE  SelInvariant'
<1>1. /\ stage = "idle" /\ stage' = "filtering" /\ status' = status
      /\ groups' = groups /\ short' = short /\ picks' = picks
      /\ request' = [items |-> items, constraint |-> con, mode |-> mode, identity |-> identity]
    BY DEF Ask
<1>2. groups = <<>> /\ short = <<>> /\ picks = <<>> /\ SelScalars /\ Len(picks) <= PickLimit
    BY <1>1 DEF SelInvariant
<1>3. items \in Seq(ListEntry)
    BY IsASeq
<1>4. SelScalars'
    BY <1>1, <1>2, <1>3 DEF SelScalars
<1>5. Pickable(<<>>, request')
    BY NothingIsPickable
<1> QED BY <1>1, <1>2, <1>4, <1>5 DEF SelInvariant

\* What passes the filters, the relaxed ones included, may be picked.
LEMMA FilterKeeps == SelInvariant /\ FilterAndGroup => SelInvariant'
<1> SUFFICES ASSUME SelInvariant, FilterAndGroup PROVE SelInvariant'
    OBVIOUS
<1> DEFINE gs == GroupCandidates(Admitted(Parsed(request.items), request.constraint,
                                          Relaxed(Parsed(request.items)), TRUE))
<1>1. /\ stage = "filtering" /\ stage' = "routing" /\ request' = request /\ short' = short
      /\ picks' = picks /\ status' = status /\ groups' = gs
    BY DEF FilterAndGroup
<1>2. SelScalars /\ Pickable(short, request) /\ Pickable(picks, request) /\ Len(picks) <= PickLimit
    BY DEF SelInvariant
<1>3. request.items \in Seq(ListEntry)
    BY <1>1, <1>2 DEF SelScalars
<1>4. Pickable(gs, request) /\ Ordered(Range(gs))
    BY <1>3, CandidatesPickable
<1> HIDE DEF gs
<1>5. SelScalars'
    BY <1>1, <1>2 DEF SelScalars
<1> QED BY <1>1, <1>2, <1>4, <1>5 DEF SelInvariant


\* None are capped to none.
LEMMA CappedNone ==
    ASSUME NEW limit \in Nat
    PROVE  CapBalanced(<<>>, limit) = <<>>
<1> DEFINE q == [i \in 1..Len(<<>>) |-> Turn(<<>>, i)]
<1>1. RoundRobin(<<>>, Len(<<>>)) = FlattenSeq(q)
    <2>1. DOMAIN PlatformOrder = 1..3
        BY ThreePlatforms
    <2> QED BY <2>1 DEF RoundRobin, Turn, Dealt
<1>2. Len(<<>>) = 0 /\ <<>> \in Seq({})
    BY EmptySeq
<1>3. q = <<>>
    BY <1>2
<1> HIDE DEF q
<1>4. FlattenSeq(q) = <<>>
    BY <1>2, <1>3 DEF FlattenSeq
<1>5. Range(Prefix(<<>>, limit)) \subseteq Range(<<>>) /\ Prefix(<<>>, limit) \in Seq({})
    BY <1>2, PrefixFits
<1>6. Prefix(<<>>, limit) = <<>>
    <2>1. Len(Prefix(<<>>, limit)) = 0
        <3>1. PICK t \in Seq({}) : t = Prefix(<<>>, limit)
            BY <1>5
        <3>2. \A i \in 1..Len(t) : t[i] \in {}
            BY ElementOfSeq
        <3>3. Len(t) \in Nat
            BY LenProperties
        <3>4. ~(1 <= Len(t))
            BY <3>2, <3>3
        <3> QED BY <3>1, <3>3, <3>4
    <2> QED BY <1>5, <2>1, EmptySeq
<1> QED BY <1>1, <1>4, <1>6 DEF CapBalanced

\* Capped groups may be picked, also when there are none.
LEMMA CappedIsPickable ==
    ASSUME NEW gs, NEW r, Pickable(gs, r), NEW limit \in Nat
    PROVE  Pickable(CapBalanced(gs, limit), r)
<1>1. gs \in Seq(Range(gs)) /\ IsInjective(gs)
    BY DEF Pickable
<1>2. CASE gs # <<>>
    <2>1. SomeOf(CapBalanced(gs, limit), gs)
        BY <1>1, <1>2, CappedFits DEF Shortlist
    <2> QED BY <2>1, SomeIsPickable
<1>3. CASE gs = <<>>
    <2>1. CapBalanced(gs, limit) = <<>>
        BY <1>3, CappedNone
    <2>2. Pickable(<<>>, r)
        BY NothingIsPickable
    <2> QED BY <2>1, <2>2
<1> QED BY <1>2, <1>3

\* The ranking of groups that may be picked.
LEMMA RankedIsPickable ==
    ASSUME NEW gs, NEW r, Pickable(gs, r), Ordered(Range(gs))
    PROVE  Pickable(Ranked(gs), r)
<1>1. PICK A : Together(A, r) /\ Grouped(Range(gs), A)
    BY DEF Pickable
<1>2. gs \in Seq(Range(gs)) /\ IsInjective(gs)
    BY DEF Pickable
<1>3. SomeOf(Ranked(gs), gs)
    BY <1>1, <1>2, RankedFits
<1> QED BY <1>3, SomeIsPickable

\* The statuses of an answer.
LEMMA AnswerStatus ==
    ASSUME NEW gs, NEW n, NEW st \in {"ok", "degraded"}, Answer(gs, n, st)
    PROVE  /\ stage' = "answered" /\ picks' = Prefix(gs, n)
           /\ status' \in {"ok", "degraded", "insufficient_data"}
BY DEF Answer

\* The picks of the local mode: capped, ranked, and the first of them.
LEMMA LocallyKeeps == SelInvariant /\ PickLocally => SelInvariant'
<1> SUFFICES ASSUME SelInvariant, PickLocally PROVE SelInvariant'
    OBVIOUS
<1> DEFINE gs == GroupCandidates(Admitted(Parsed(request.items), request.constraint, FALSE, FALSE))
           capped == CapBalanced(gs, GroupLimit)
<1>1. /\ stage = "filtering" /\ request' = request /\ short' = short /\ groups' = capped
      /\ Answer(Ranked(groups'), PickLimit, "ok")
    BY DEF PickLocally
<1>2. SelScalars /\ Pickable(short, request)
    BY DEF SelInvariant
<1>3. request.items \in Seq(ListEntry)
    BY <1>1, <1>2 DEF SelScalars
<1>4. Pickable(gs, request) /\ Ordered(Range(gs))
    BY <1>3, CandidatesPickable
<1> HIDE DEF gs
<1>5. Pickable(capped, request)
    BY <1>4, SelAssumption, CappedIsPickable
<1>6. Ordered(Range(capped))
    <2>1. CASE gs # <<>>
        <3>1. gs \in Seq(Range(gs)) /\ IsInjective(gs)
            BY <1>4 DEF Pickable
        <3>2. Range(capped) \subseteq Range(gs)
            BY <2>1, <3>1, SelAssumption, CappedFits DEF Shortlist, SomeOf
        <3> QED BY <1>4, <3>2 DEF Ordered
    <2>2. CASE gs = <<>>
        <3>1. capped = <<>>
            BY <2>2, SelAssumption, CappedNone
        <3>2. Range(<<>>) = {}
            BY EmptySeq DEF Range
        <3> QED BY <3>1, <3>2 DEF Ordered
    <2> QED BY <2>1, <2>2
<1> HIDE DEF capped
<1>7. Pickable(Ranked(capped), request)
    BY <1>5, <1>6, RankedIsPickable
<1>8. /\ stage' = "answered" /\ picks' = Prefix(Ranked(capped), PickLimit)
      /\ status' \in {"ok", "degraded", "insufficient_data"}
    BY <1>1, AnswerStatus
<1>9. Pickable(picks', request) /\ Len(picks') <= PickLimit
    BY <1>7, <1>8, SelAssumption, AnswerFits
<1> QED BY <1>1, <1>2, <1>5, <1>8, <1>9, AnsweredFits

\* No group, no pick.
LEMMA NothingKeeps == SelInvariant /\ NothingToPick => SelInvariant'
<1> SUFFICES ASSUME SelInvariant, NothingToPick PROVE SelInvariant'
    OBVIOUS
<1>1. /\ stage = "routing" /\ request' = request /\ groups' = groups /\ short' = short
      /\ Answer(<<>>, 0, "ok")
    BY DEF NothingToPick
<1>2. SelScalars /\ Pickable(groups, request) /\ Pickable(short, request)
    BY DEF SelInvariant
<1>3. /\ stage' = "answered" /\ picks' = Prefix(<<>>, 0)
      /\ status' \in {"ok", "degraded", "insufficient_data"}
    BY <1>1, AnswerStatus
<1>4. Pickable(picks', request) /\ Len(picks') <= 0 /\ Len(picks') \in Nat
    BY <1>3, NothingIsPickable, AnswerFits
<1>5. Len(picks') <= PickLimit
    BY <1>4, SelAssumption
<1> QED BY <1>1, <1>2, <1>3, <1>4, <1>5, AnsweredFits

\* The pick of an exact request is one group of the offers that carry the identity.
LEMMA ExactKeeps == SelInvariant /\ PickExact => SelInvariant'
<1> SUFFICES ASSUME SelInvariant, PickExact PROVE SelInvariant'
    OBVIOUS
<1> DEFINE t == ExactGroup(groups, request.identity)
<1>1. /\ stage = "routing" /\ request' = request /\ groups' = groups /\ short' = short
      /\ Answer(t, 1, "ok")
    BY DEF PickExact
<1>2. SelScalars /\ Pickable(groups, request) /\ Pickable(short, request)
    BY DEF SelInvariant
<1>3. PICK A : Together(A, request) /\ Grouped(Range(groups), A)
    BY <1>2 DEF Pickable
<1>4. t \in Seq(Range(t)) /\ IsInjective(t) /\ Grouped(Range(t), A)
    BY <1>2, <1>3, ExactGroupFits DEF Pickable
<1> HIDE DEF t
<1>5. Pickable(t, request)
    BY <1>3, <1>4 DEF Pickable
<1>6. /\ stage' = "answered" /\ picks' = Prefix(t, 1)
      /\ status' \in {"ok", "degraded", "insufficient_data"}
    BY <1>1, AnswerStatus
<1>7. Pickable(picks', request) /\ Len(picks') <= 1 /\ Len(picks') \in Nat
    BY <1>5, <1>6, AnswerFits
<1>8. Len(picks') <= PickLimit
    BY <1>7, SelAssumption
<1> QED BY <1>1, <1>2, <1>6, <1>7, <1>8, AnsweredFits

\* Any order of the groups is a list of them.
LEMMA AnyOrder ==
    ASSUME NEW X, NEW gs \in Seq(X), IsInjective(gs), NEW order \in SetToSeqs(Range(gs))
    PROVE  order \in Seq(Range(gs)) /\ IsInjective(order) /\ Range(order) = Range(gs)
<1> DEFINE S == Range(gs)
           c == Cardinality(S)
<1>1. IsFiniteSet(S) /\ c \in Nat
    BY AsManyAsPlaces, FS_CardinalityType
<1>2. order \in [1..c -> S] /\ \A i, j \in 1..c : i # j => order[i] # order[j]
    BY DEF SetToSeqs
<1> HIDE DEF S
<1>3. order \in Injection(1..c, S)
    BY <1>2 DEF Injection, IsInjective
<1>4. Cardinality(1..c) = c
    <2>1. PICK n \in Nat : n = c
        BY <1>1
    <2>2. 1 \in Int /\ n \in Int /\ n - 1 + 1 = n /\ (1 > n => n = 0)
        OBVIOUS
    <2>3. Cardinality(1..n) = IF 1 > n THEN 0 ELSE n - 1 + 1
        BY <2>2, FS_Interval
    <2> QED BY <2>1, <2>2, <2>3
<1>5. order \in Surjection(1..c, S)
    BY <1>1, <1>3, <1>4, FS_Injection
<1>6. Range(order) = S
    BY <1>2, <1>5 DEF Surjection, Range
<1>7. order \in Seq(S)
    BY <1>1, <1>2, IsASeq
<1>8. IsInjective(order)
    BY <1>2 DEF IsInjective
<1> QED BY <1>6, <1>7, <1>8 DEF S

\* A group is on one of the platforms.
LEMMA SomeActive ==
    ASSUME NEW gs, NEW r, Pickable(gs, r), gs # <<>>
    PROVE  Active(gs) # {}
<1>1. PICK A : Together(A, r) /\ Grouped(Range(gs), A)
    BY DEF Pickable
<1>2. gs \in Seq(Range(gs)) /\ IsInjective(gs)
    BY DEF Pickable
<1>3. gs[1] \in Range(gs)
    <2>1. DOMAIN gs = 1..Len(gs) /\ Len(gs) \in Nat /\ Len(gs) # 0
        BY <1>2, EmptySeq, LenProperties
    <2>2. 1 \in DOMAIN gs
        BY <2>1
    <2> QED BY <2>2 DEF Range
<1>4. GroupIs(gs[1], A)
    BY <1>1, <1>3 DEF Grouped
<1>5. gs[1].offers[1] \in ValidEntry
    BY <1>4, GroupNumbers
<1>6. PlatformOf(gs[1]) \in Range(PlatformOrder)
    BY <1>5, SelAssumption DEF PlatformOf, ValidEntry
<1>7. PICK k \in 1..3 : PlatformOf(gs[1]) = PlatformOrder[k]
    BY <1>6, ThreePlatforms DEF Range
<1>8. k \in Active(gs)
    BY <1>2, <1>3, <1>7, ActiveIs
<1> QED BY <1>8

\* A shortlist of an order of the groups is one of the groups.
LEMMA ShortlistOfOrder ==
    ASSUME NEW X, NEW gs \in Seq(X), IsInjective(gs), NEW order \in Seq(Range(gs)),
           IsInjective(order), Range(order) = Range(gs), NEW t, NEW limit,
           Shortlist(t, order, limit)
    PROVE  Shortlist(t, gs, limit)
<1>1. \A k \in 1..3 : k \in Active(order) <=> k \in Active(gs)
    <2> SUFFICES ASSUME NEW k \in 1..3 PROVE k \in Active(order) <=> k \in Active(gs)
        OBVIOUS
    <2>1. k \in Active(order) <=> \E g \in Range(order) : PlatformOf(g) = PlatformOrder[k]
        BY ActiveIs
    <2>2. k \in Active(gs) <=> \E g \in Range(gs) : PlatformOf(g) = PlatformOrder[k]
        BY ActiveIs
    <2> QED BY <2>1, <2>2
<1>2. Active(order) = Active(gs)
    BY <1>1 DEF Active
<1>3. SomeOf(t, gs)
    BY DEF Shortlist, SomeOf
<1> QED BY <1>2, <1>3 DEF Shortlist

\* The state in which a shortlist is ranked.
LEMMA ShortlistedFits ==
    ASSUME SelInvariant, stage = "routing", request' = request, groups' = groups, picks' = picks,
           status' = status, stage' = "ranking", Shortlist(short', groups, GroupLimit)
    PROVE  SelInvariant'
<1>1. /\ SelScalars /\ Pickable(groups, request) /\ Pickable(picks, request)
      /\ Len(picks) <= PickLimit /\ Ordered(Range(groups))
    BY DEF SelInvariant
<1>2. SelScalars'
    BY <1>1 DEF SelScalars
<1>3. Pickable(short', request)
    BY <1>1, SomeIsPickable DEF Shortlist
<1> QED BY <1>1, <1>2, <1>3 DEF SelInvariant

\* A shortlist by the order of the text index.
LEMMA ByTextKeeps == SelInvariant /\ SelectByText => SelInvariant'
<1> SUFFICES ASSUME SelInvariant, SelectByText PROVE SelInvariant'
    OBVIOUS
<1>1. /\ stage = "routing" /\ groups # <<>> /\ stage' = "ranking" /\ request' = request
      /\ groups' = groups /\ picks' = picks /\ status' = status
    BY DEF SelectByText
<1>2. PICK order \in SetToSeqs(Range(groups)) : short' = Balanced(order, GroupLimit)
    BY DEF SelectByText
<1>3. Pickable(groups, request)
    BY DEF SelInvariant
<1>4. groups \in Seq(Range(groups)) /\ IsInjective(groups)
    BY <1>3 DEF Pickable
<1>5. order \in Seq(Range(groups)) /\ IsInjective(order) /\ Range(order) = Range(groups)
    BY <1>4, AnyOrder
<1>6. Active(order) # {}
    <2>1. SomeOf(order, groups)
        BY <1>5 DEF SomeOf
    <2>2. Pickable(order, request)
        BY <1>3, <2>1, SomeIsPickable
    <2>3. order # <<>>
        <3>1. DOMAIN groups = 1..Len(groups) /\ Len(groups) \in Nat /\ Len(groups) # 0
            BY <1>1, <1>4, EmptySeq, LenProperties
        <3>2. 1 \in DOMAIN groups
            BY <3>1
        <3>3. Range(groups) # {}
            BY <3>2 DEF Range
        <3>4. Range(<<>>) = {}
            BY EmptySeq DEF Range
        <3> QED BY <1>5, <3>3, <3>4
    <2> QED BY <2>2, <2>3, SomeActive
<1>7. Shortlist(Balanced(order, GroupLimit), order, GroupLimit)
    BY <1>5, <1>6, SelAssumption, BalancedFits
<1>8. Shortlist(short', groups, GroupLimit)
    BY <1>2, <1>4, <1>5, <1>7, ShortlistOfOrder
<1> QED BY <1>1, <1>8, ShortlistedFits

\* A shortlist by the platforms alone.
LEMMA ByPlatformKeeps == SelInvariant /\ SelectByPlatform => SelInvariant'
<1> SUFFICES ASSUME SelInvariant, SelectByPlatform PROVE SelInvariant'
    OBVIOUS
<1>1. /\ stage = "routing" /\ groups # <<>> /\ stage' = "ranking" /\ request' = request
      /\ groups' = groups /\ picks' = picks /\ status' = status
      /\ short' = IF Len(groups) > GroupLimit THEN CapBalanced(groups, GroupLimit) ELSE groups
    BY DEF SelectByPlatform
<1>2. groups \in Seq(Range(groups)) /\ IsInjective(groups)
    BY DEF SelInvariant, Pickable
<1>3. Shortlist(CapBalanced(groups, GroupLimit), groups, GroupLimit)
    BY <1>1, <1>2, SelAssumption, CappedFits
<1>4. Shortlist(groups, groups, GroupLimit)
    <2>1. SomeOf(groups, groups)
        BY <1>2 DEF SomeOf
    <2>2. \A k \in Active(groups) : k \in 1..3
        BY DEF Active
    <2>3. \A k \in Active(groups) : \E g \in Range(groups) : PlatformOf(g) = PlatformOrder[k]
        BY <1>2, <2>2, ActiveIs
    <2> QED BY <2>1, <2>3 DEF Shortlist
<1>5. Shortlist(short', groups, GroupLimit)
    BY <1>1, <1>3, <1>4
<1> QED BY <1>1, <1>5, ShortlistedFits

\* The order of the model, whatever ids it names, and the rest of the shortlist behind it.
LEMMA RerankKeeps ==
    ASSUME SelInvariant, NEW X, NEW ids \in Seq(X), Rerank(ids)
    PROVE  SelInvariant'
<1> DEFINE ordered == Usable(ids, short)
           others == Ranked(short)
           t == ordered \o At(others, {i \in DOMAIN others : others[i] \notin Range(ordered)})
<1>1. /\ stage = "ranking" /\ request' = request /\ groups' = groups /\ short' = short
      /\ Answer(t, PickLimit, "ok")
    BY DEF Rerank
<1>2. /\ SelScalars /\ Pickable(groups, request) /\ Pickable(short, request)
      /\ Ordered(Range(groups)) /\ SomeOf(short, groups)
    BY <1>1 DEF SelInvariant, Shortlist
<1>3. Ordered(Range(short)) /\ short \in Seq(Range(short)) /\ IsInjective(short)
    BY <1>2 DEF Ordered, SomeOf, Pickable
<1>4. PICK A : Together(A, request) /\ Grouped(Range(short), A)
    BY <1>2 DEF Pickable
<1>5. SomeOf(others, short)
    BY <1>3, <1>4, RankedFits
<1>6. SomeOf(ordered, short)
    BY <1>3, UsableFits
<1> HIDE DEF ordered, others
<1>7. SomeOf(t, short)
    BY <1>3, <1>5, <1>6, LeftOutBehind
<1> HIDE DEF t
<1>8. Pickable(t, request)
    BY <1>2, <1>7, SomeIsPickable
<1>9. /\ stage' = "answered" /\ picks' = Prefix(t, PickLimit)
      /\ status' \in {"ok", "degraded", "insufficient_data"}
    BY <1>1, AnswerStatus
<1>10. Pickable(picks', request) /\ Len(picks') <= PickLimit
    BY <1>8, <1>9, SelAssumption, AnswerFits
<1> QED BY <1>1, <1>2, <1>9, <1>10, AnsweredFits

\* The ranking without the model.
LEMMA DeterministicallyKeeps == SelInvariant /\ RankDeterministically => SelInvariant'
<1> SUFFICES ASSUME SelInvariant, RankDeterministically PROVE SelInvariant'
    OBVIOUS
<1>1. /\ stage = "ranking" /\ request' = request /\ groups' = groups /\ short' = short
      /\ Answer(Ranked(short), PickLimit, "degraded")
    BY DEF RankDeterministically
<1>2. /\ SelScalars /\ Pickable(groups, request) /\ Pickable(short, request)
      /\ Ordered(Range(groups)) /\ SomeOf(short, groups)
    BY <1>1 DEF SelInvariant, Shortlist
<1>3. Ordered(Range(short))
    BY <1>2 DEF Ordered, SomeOf
<1>4. Pickable(Ranked(short), request)
    BY <1>2, <1>3, RankedIsPickable
<1>5. /\ stage' = "answered" /\ picks' = Prefix(Ranked(short), PickLimit)
      /\ status' \in {"ok", "degraded", "insufficient_data"}
    BY <1>1, AnswerStatus
<1>6. Pickable(picks', request) /\ Len(picks') <= PickLimit
    BY <1>4, <1>5, SelAssumption, AnswerFits
<1> QED BY <1>1, <1>2, <1>5, <1>6, AnsweredFits

\* Every step of the tool.
LEMMA SelStepKeeps == SelInvariant /\ [SelNext]_selVars => SelInvariant'
<1> SUFFICES ASSUME SelInvariant, [SelNext]_selVars PROVE SelInvariant'
    OBVIOUS
<1>1. CASE \E n \in 0..MaxEntries : \E items \in [1..n -> ListEntry] :
           \E con \in Constraint, mode \in Mode, identity \in Identity :
               Ask(items, con, mode, identity)
    <2>1. PICK n \in 0..MaxEntries : \E items \in [1..n -> ListEntry] :
               \E con \in Constraint, mode \in Mode, identity \in Identity :
                   Ask(items, con, mode, identity)
        BY <1>1
    <2>4. PICK items \in [1..n -> ListEntry] :
               \E con \in Constraint, mode \in Mode, identity \in Identity :
                   Ask(items, con, mode, identity)
        BY <2>1
    <2>2. PICK con \in Constraint, mode \in Mode, identity \in Identity :
                   Ask(items, con, mode, identity)
        BY <2>4
    <2>3. n \in Nat
        OBVIOUS
    <2> QED BY <2>2, <2>3, AskKeeps
<1>2. CASE \E n \in 1..3 : \E ids \in [1..n -> {g.id : g \in Range(short)} \cup {<<"invented">>}] :
               Rerank(ids)
    <2> DEFINE X == {g.id : g \in Range(short)} \cup {<<"invented">>}
    <2>1. PICK n \in 1..3 : \E ids \in [1..n -> X] : Rerank(ids)
        BY <1>2
    <2> HIDE DEF X
    <2>3. PICK ids \in [1..n -> X] : Rerank(ids)
        BY <2>1
    <2>2. ids \in Seq(X)
        <3>1. n \in Nat
            OBVIOUS
        <3> QED BY <3>1, IsASeq
    <2> QED BY <2>2, <2>3, RerankKeeps
<1>3. CASE FilterAndGroup
    BY <1>3, FilterKeeps
<1>4. CASE PickLocally
    BY <1>4, LocallyKeeps
<1>5. CASE NothingToPick
    BY <1>5, NothingKeeps
<1>6. CASE PickExact
    BY <1>6, ExactKeeps
<1>7. CASE SelectByText
    BY <1>7, ByTextKeeps
<1>8. CASE SelectByPlatform
    BY <1>8, ByPlatformKeeps
<1>9. CASE RankDeterministically
    BY <1>9, DeterministicallyKeeps
<1>10. CASE UNCHANGED selVars
    <2>1. /\ request' = request /\ stage' = stage /\ groups' = groups /\ short' = short
          /\ picks' = picks /\ status' = status
        BY <1>10 DEF selVars
    <2> QED BY <2>1 DEF SelInvariant, SelScalars
<1> QED BY <1>1, <1>2, <1>3, <1>4, <1>5, <1>6, <1>7, <1>8, <1>9, <1>10 DEF SelNext

\* Every list the tool keeps, the groups, the shortlist and the picks, holds groups of
\* offers of the present call that passed its filters, no group and no offer twice; the
\* shortlist has a group of every platform the groups have (item_picker.py, _prepare_groups
\* to the answer).
THEOREM SelInvariance == SelSpec => []SelInvariant
<1>1. SelInit => SelInvariant
    BY SelStarts
<1>2. SelInvariant /\ [SelNext]_selVars => SelInvariant'
    BY SelStepKeeps
<1> QED BY <1>1, <1>2, PTL DEF SelSpec

\* What is answered was among the items of the call, with a price, within its limit, not
\* blocked and, where an attribute is required, matching; no offer is picked twice, no group
\* twice and never more than the limit (ItemPicker._run and its filters), for lists of any
\* length and every answer of the model that ranks them.
THEOREM PicksStaySound == SelSpec => []PicksAreSound
<1> QED BY SelInvariance, SelAnswers, PTL

\* The cap on the groups that the model is shown drops no platform that fits it: each
\* platform of the groups has a group among those shortlisted (balanced_group_cap).
THEOREM PlatformsStay == SelSpec => []PlatformsKept
<1> QED BY SelInvariance, SelKeeps, PTL

\* The lists hold non-empty groups of entries of the call, and stage and status are among
\* the ones of the tool.
THEOREM SelectionTypes == SelSpec => []SelTypeOK
<1> QED BY SelInvariance, SelTyped, PTL
=============================================================================
