--------------------------- MODULE Nftables_proofs ---------------------------
(***************************************************************************)
(* Proofs for Nftables: what the list operators of the generator return,   *)
(* what a transaction makes of the kernel's chains, what the chains of a   *)
(* generated file look like, and which packets they accept.                *)
(*                                                                         *)
(*   lists      flattening and filtering, by induction up to an index      *)
(*   kernel     a transaction replaces the listed chains, or repeats those *)
(*              of a file that is loaded onto itself                       *)
(*   generator  all chains are there once, and jump forwards only          *)
(*   packets    level by level, from the CIDR chains up to the forward     *)
(*              chain, what each chain decides                             *)
(***************************************************************************)
EXTENDS Nftables, FiniteSetTheorems, TLAPS

(* Induction up to n over a set, by the pigeonhole principle: the          *)
(* successors of the members that it has up to n would be fewer.           *)
LEMMA InductionUpTo ==
    ASSUME NEW n \in Nat, NEW T, 0 \in T, \A k \in 0..n - 1 : k \in T => k + 1 \in T
    PROVE  n \in T
<1> SUFFICES ASSUME n \notin T PROVE FALSE
  OBVIOUS
<1> DEFINE S == T \cap 0..n
           Next1 == [k \in S |-> k + 1]
<1>1. IsFiniteSet(0..n) /\ S \subseteq 0..n
  BY FS_Interval
<1>2. IsFiniteSet(S)
  BY <1>1, FS_Subset
<1>3. 0 \in S
  OBVIOUS
<1>4. IsFiniteSet(S \ {0}) /\ Cardinality(S \ {0}) = Cardinality(S) - 1 /\ Cardinality(S) \in Nat
  BY <1>2, <1>3, FS_RemoveElement, FS_CardinalityType
<1>5. \A k \in S : k + 1 \in S \ {0}
  OBVIOUS
<1>6. Next1 \in [S -> S \ {0}]
  BY <1>5
<1>7. \A x, y \in S : x # y => Next1[x] # Next1[y]
  OBVIOUS
<1>8. Cardinality(S \ {0}) < Cardinality(S)
  BY <1>4
<1> HIDE DEF S, Next1
<1> QED BY <1>2, <1>4, <1>6, <1>7, <1>8, FS_PigeonHole

(* A set of indices that is not empty has a last one.                      *)
LEMMA HasMaximum ==
    ASSUME NEW n \in Nat, NEW S \in SUBSET (1..n), S # {}
    PROVE  \E i \in S : \A j \in S : j <= i
<1> SUFFICES ASSUME \A i \in S : \E j \in S : j > i PROVE FALSE
  OBVIOUS
<1> DEFINE T == {k \in 0..n : \A j \in S : j <= n - k}
<1>1. 0 \in T
  OBVIOUS
<1>2. ASSUME NEW k \in 0..n - 1, k \in T PROVE k + 1 \in T
  <2>1. n - k \notin S
    BY <1>2
  <2>2. \A j \in S : j <= n - (k + 1)
    BY <1>2, <2>1
  <2> QED BY <2>2
<1>3. n \in T
  <2> HIDE DEF T
  <2> QED BY <1>1, <1>2, InductionUpTo
<1>4. \A j \in S : j <= 0
  BY <1>3
<1>5. PICK j \in S : TRUE
  BY Zenon
<1>6. j \in 1..n /\ j <= 0
  BY ONLY S \in SUBSET (1..n), j \in S, <1>4
<1> HIDE DEF T
<1> QED BY <1>6

(* The recursive function of FlattenSeq exists.                            *)
LEMMA FlattenSteps ==
    ASSUME NEW S, NEW n \in Nat \ {0}, NEW ss \in [1..n -> Seq(S)]
    PROVE  \E f : /\ f = [i \in 1..n |-> IF i = 1 THEN ss[i] ELSE f[i - 1] \o ss[i]]
                  /\ FlattenSeq(ss) = f[n]
<1> DEFINE Step(f, i) == IF i = 1 THEN ss[i] ELSE f[i - 1] \o ss[i]
           Good(f, k) == f \in [1..k -> Seq(S)] /\ \A i \in 1..k : f[i] = Step(f, i)
           T == {k \in 0..n : \E f : Good(f, k)}
<1>1. 0 \in T
  <2> DEFINE f == [i \in 1..0 |-> <<>>]
  <2>1. Good(f, 0)
    OBVIOUS
  <2> HIDE DEF Good, f
  <2> QED BY <2>1
<1>2. ASSUME NEW k \in 0..n - 1, k \in T PROVE k + 1 \in T
  <2>1. PICK f : Good(f, k)
    BY <1>2
  <2> DEFINE g == [i \in 1..k + 1 |-> IF i = k + 1 THEN Step(f, i) ELSE f[i]]
  <2>2. Step(f, k + 1) \in Seq(S)
    BY <2>1
  <2>3. g \in [1..k + 1 -> Seq(S)]
    BY <2>1, <2>2
  <2>4. ASSUME NEW i \in 1..k + 1 PROVE g[i] = Step(g, i)
    <3>1. i # 1 => i - 1 \in 1..k /\ g[i - 1] = f[i - 1]
      OBVIOUS
    <3>2. i # k + 1 => f[i] = Step(f, i)
      <4>1. i # k + 1 => i \in 1..k
        OBVIOUS
      <4>2. \A j \in 1..k : f[j] = Step(f, j)
        BY <2>1
      <4> HIDE DEF Step
      <4> QED BY <4>1, <4>2
    <3>3. g[i] = Step(f, i)
      <4> HIDE DEF Step
      <4> QED BY <3>2
    <3> QED BY <3>1, <3>3
  <2>5. Good(g, k + 1)
    BY <2>3, <2>4
  <2> HIDE DEF Good, g
  <2> QED BY <2>5
<1>3. n \in T
  <2> HIDE DEF T
  <2> QED BY <1>1, <1>2, InductionUpTo
<1>4. PICK f : Good(f, n)
  BY <1>3, Zenon
<1>5. f = [i \in 1..n |-> Step(f, i)]
  BY <1>4, Zenon
<1> DEFINE chosen == CHOOSE g : g = [i \in 1..n |-> IF i = 1 THEN ss[i] ELSE g[i - 1] \o ss[i]]
<1>6. chosen = [i \in 1..n |-> IF i = 1 THEN ss[i] ELSE chosen[i - 1] \o ss[i]]
  BY <1>5, Zenon
<1>7. Len(ss) = n
  OBVIOUS
<1>8. FlattenSeq(ss) = chosen[n]
  BY <1>7, Zenon DEF FlattenSeq
<1> QED BY <1>6, <1>8, Zenon

(* Induction over a flattened list: T[i] holds of what the first i lists   *)
(* are flattened to.                                                       *)
LEMMA FlattenInduction ==
    ASSUME NEW S, NEW n \in Nat, NEW ss \in [1..n -> Seq(S)],
           NEW T \in [0..n -> SUBSET Seq(S)], <<>> \in T[0],
           \A i \in 0..n - 1 : \A a \in T[i] : a \o ss[i + 1] \in T[i + 1]
    PROVE  FlattenSeq(ss) \in T[n]
<1>1. CASE n = 0
  BY <1>1 DEF FlattenSeq
<1>2. CASE n # 0
  <2>1. PICK f : /\ f = [i \in 1..n |-> IF i = 1 THEN ss[i] ELSE f[i - 1] \o ss[i]]
                 /\ FlattenSeq(ss) = f[n]
    BY <1>2, FlattenSteps
  <2>2. f[1] \in T[1]
    <3>1. 0 \in 0..n - 1 /\ 0 + 1 = 1 /\ ss[1] \in Seq(S)
      BY <1>2
    <3>2. <<>> \o ss[1] \in T[1]
      BY <3>1
    <3>3. <<>> \o ss[1] = ss[1]
      BY <3>1
    <3>4. f[1] = ss[1]
      BY <1>2, <2>1
    <3> QED BY <3>2, <3>3, <3>4
  <2> DEFINE K == {k \in 0..n - 1 : f[k + 1] \in T[k + 1]}
  <2>3. 0 \in K
    BY <1>2, <2>2
  <2>4. ASSUME NEW k \in 0..(n - 1) - 1, k \in K PROVE k + 1 \in K
    <3>1. k + 1 \in 0..n - 1 /\ (k + 1) + 1 \in 1..n /\ (k + 1) + 1 # 1 /\ ((k + 1) + 1) - 1 = k + 1
      OBVIOUS
    <3>2. f[(k + 1) + 1] = f[k + 1] \o ss[(k + 1) + 1]
      BY <2>1, <3>1
    <3>3. f[k + 1] \in T[k + 1]
      BY <2>4
    <3>4. f[(k + 1) + 1] \in T[(k + 1) + 1]
      BY <3>1, <3>2, <3>3
    <3> QED BY <3>1, <3>4
  <2>5. n - 1 \in K
    <3> HIDE DEF K
    <3> QED BY <1>2, <2>3, <2>4, InductionUpTo
  <2> QED BY <2>1, <2>5
<1> QED BY <1>1, <1>2

(* Induction over what is kept of a list: T[i] holds of what is kept of    *)
(* its first i members.                                                    *)
LEMMA KeepInduction ==
    ASSUME NEW s, IsList(s), NEW S, NEW T \in [0..Len(s) -> SUBSET Seq(Range(s))], <<>> \in T[0],
           \A i \in 0..Len(s) - 1 : \A a \in T[i] :
               IF s[i + 1] \in S THEN Append(a, s[i + 1]) \in T[i + 1] ELSE a \in T[i + 1]
    PROVE  Keep(s, S) \in T[Len(s)]
<1> DEFINE ss == [i \in DOMAIN s |-> IF s[i] \in S THEN <<s[i]>> ELSE <<>>]
<1>1. DOMAIN s = 1..Len(s) /\ Len(s) \in Nat /\ \A i \in 1..Len(s) : s[i] \in Range(s)
  BY DEF IsList
<1>2. ss \in [1..Len(s) -> Seq(Range(s))]
  BY <1>1
<1>3. ASSUME NEW i \in 0..Len(s) - 1, NEW a \in T[i]
      PROVE  a \o ss[i + 1] \in T[i + 1]
  <2>1. i \in 0..Len(s) /\ i + 1 \in 1..Len(s)
    BY <1>1
  <2>2. a \in Seq(Range(s)) /\ s[i + 1] \in Range(s)
    BY <1>1, <2>1
  <2>3. ss[i + 1] = IF s[i + 1] \in S THEN <<s[i + 1]>> ELSE <<>>
    BY <1>1, <2>1
  <2> HIDE DEF ss
  <2>4. a \o ss[i + 1] = IF s[i + 1] \in S THEN Append(a, s[i + 1]) ELSE a
    BY <2>3, <2>2
  <2>5. IF s[i + 1] \in S THEN Append(a, s[i + 1]) \in T[i + 1] ELSE a \in T[i + 1]
    OBVIOUS
  <2> QED BY <2>4, <2>5
<1>4. Keep(s, S) = FlattenSeq(ss)
  BY DEF Keep
<1>5. \A i \in 0..Len(s) - 1 : \A a \in T[i] : a \o ss[i + 1] \in T[i + 1]
  BY <1>3
<1> HIDE DEF ss
<1>6. FlattenSeq(ss) \in T[Len(s)]
  BY <1>1, <1>2, <1>5, FlattenInduction
<1> QED BY <1>4, <1>6
(* The members of two lists in a row.                                      *)
LEMMA RangeConcat ==
    ASSUME NEW S, NEW a \in Seq(S), NEW b \in Seq(S)
    PROVE  Range(a \o b) = Range(a) \cup Range(b)
<1>1. DOMAIN a = 1..Len(a) /\ DOMAIN b = 1..Len(b) /\ DOMAIN (a \o b) = 1..Len(a) + Len(b)
  OBVIOUS
<1>2. \A i \in DOMAIN a : i \in DOMAIN (a \o b) /\ (a \o b)[i] = a[i]
  OBVIOUS
<1>3. \A i \in DOMAIN b : i + Len(a) \in DOMAIN (a \o b) /\ (a \o b)[i + Len(a)] = b[i]
  OBVIOUS
<1>4. \A i \in DOMAIN (a \o b) : i \notin DOMAIN a => i - Len(a) \in DOMAIN b /\ (a \o b)[i] = b[i - Len(a)]
  OBVIOUS
<1>5. \A x \in Range(a \o b) : x \in Range(a) \cup Range(b)
  BY <1>2, <1>4 DEF Range
<1>6. \A x \in Range(a) \cup Range(b) : x \in Range(a \o b)
  BY <1>2, <1>3 DEF Range
<1> QED BY <1>5, <1>6

(* The members of a list and one more.                                     *)
LEMMA RangeAppend ==
    ASSUME NEW S, NEW a \in Seq(S), NEW x \in S
    PROVE  Range(Append(a, x)) = Range(a) \cup {x}
<1>1. Append(a, x) = a \o <<x>>
  OBVIOUS
<1>2. <<x>> \in Seq(S)
  OBVIOUS
<1>3. Range(<<x>>) = {x}
  BY DEF Range
<1>4. Range(a \o <<x>>) = Range(a) \cup Range(<<x>>)
  BY ONLY a \in Seq(S), <1>2, RangeConcat
<1> QED BY <1>1, <1>3, <1>4

(* A sequence is a list of its own members.                                *)
LEMMA ListOfRange ==
    ASSUME NEW S, NEW a \in Seq(S)
    PROVE  IsList(a) /\ Range(a) \subseteq S /\ DOMAIN a = 1..Len(a) /\ Len(a) \in Nat
           /\ \A i \in 1..Len(a) : a[i] \in Range(a)
BY DEF IsList, Range

(* The members of a flattened list are those of its lists.                 *)
LEMMA FlattenRange ==
    ASSUME NEW S, NEW n \in Nat, NEW ss \in [1..n -> Seq(S)]
    PROVE  /\ FlattenSeq(ss) \in Seq(S)
           /\ Range(FlattenSeq(ss)) = UNION {Range(ss[i]) : i \in 1..n}
<1> DEFINE U(k) == UNION {Range(ss[i]) : i \in 1..k}
           T == [k \in 0..n |-> {a \in Seq(S) : Range(a) = U(k)}]
<1>1. T \in [0..n -> SUBSET Seq(S)]
  OBVIOUS
<1>2. <<>> \in T[0]
  BY DEF Range
<1>3. ASSUME NEW i \in 0..n - 1, NEW a \in T[i] PROVE a \o ss[i + 1] \in T[i + 1]
  <2>1. i \in 0..n /\ i + 1 \in 0..n /\ a \in Seq(S) /\ ss[i + 1] \in Seq(S) /\ Range(a) = U(i)
    OBVIOUS
  <2>2. U(i + 1) = U(i) \cup Range(ss[i + 1])
    OBVIOUS
  <2>3. Range(a \o ss[i + 1]) = U(i + 1) /\ a \o ss[i + 1] \in Seq(S)
    BY <2>1, <2>2, RangeConcat
  <2> HIDE DEF U
  <2> QED BY <2>1, <2>3
<1>4. FlattenSeq(ss) \in T[n]
  <2> HIDE DEF T
  <2> QED BY <1>1, <1>2, <1>3, FlattenInduction
<1> QED BY <1>4

(* What is kept of a list are its members in the set.                      *)
LEMMA KeepRange ==
    ASSUME NEW s, IsList(s), NEW S
    PROVE  Keep(s, S) \in Seq(Range(s)) /\ Range(Keep(s, S)) = Range(s) \cap S
<1> DEFINE U(k) == {s[i] : i \in 1..k} \cap S
           T == [k \in 0..Len(s) |-> {a \in Seq(Range(s)) : Range(a) = U(k)}]
<1>1. DOMAIN s = 1..Len(s) /\ Len(s) \in Nat /\ \A i \in 1..Len(s) : s[i] \in Range(s)
  BY ListOfRange DEF IsList
<1>2. T \in [0..Len(s) -> SUBSET Seq(Range(s))]
  OBVIOUS
<1>3. <<>> \in T[0]
  BY <1>1 DEF Range
<1>4. ASSUME NEW i \in 0..Len(s) - 1, NEW a \in T[i]
      PROVE  IF s[i + 1] \in S THEN Append(a, s[i + 1]) \in T[i + 1] ELSE a \in T[i + 1]
  <2>1. i \in 0..Len(s) /\ i + 1 \in 0..Len(s) /\ s[i + 1] \in Range(s)
        /\ a \in Seq(Range(s)) /\ Range(a) = U(i)
    BY <1>1
  <2>2. U(i + 1) = IF s[i + 1] \in S THEN U(i) \cup {s[i + 1]} ELSE U(i)
    BY <1>1
  <2>3. Range(Append(a, s[i + 1])) = U(i) \cup {s[i + 1]} /\ Append(a, s[i + 1]) \in Seq(Range(s))
    BY <2>1, RangeAppend
  <2> HIDE DEF U
  <2> QED BY <2>1, <2>2, <2>3
<1>5. Keep(s, S) \in T[Len(s)]
  <2> HIDE DEF T
  <2> QED BY <1>2, <1>3, <1>4, KeepInduction
<1>6. Range(s) = {s[i] : i \in 1..Len(s)}
  BY <1>1 DEF Range
<1> QED BY <1>1, <1>5, <1>6

(* When the first member is kept, it stays the first.                      *)
LEMMA KeepFirst ==
    ASSUME NEW s, IsList(s), s # <<>>, NEW S, s[1] \in S
    PROVE  Keep(s, S) # <<>> /\ Keep(s, S)[1] = s[1]
<1> DEFINE T == [k \in 0..Len(s) |-> {a \in Seq(Range(s)) : IF k = 0 THEN a = <<>> ELSE a # <<>> /\ a[1] = s[1]}]
<1>1. DOMAIN s = 1..Len(s) /\ Len(s) \in Nat \ {0} /\ \A i \in 1..Len(s) : s[i] \in Range(s)
  BY ListOfRange DEF IsList
<1>2. T \in [0..Len(s) -> SUBSET Seq(Range(s))]
  OBVIOUS
<1>3. <<>> \in T[0]
  BY <1>1
<1>4. ASSUME NEW i \in 0..Len(s) - 1, NEW a \in T[i]
      PROVE  IF s[i + 1] \in S THEN Append(a, s[i + 1]) \in T[i + 1] ELSE a \in T[i + 1]
  <2>1. i \in 0..Len(s) /\ i + 1 \in 0..Len(s) /\ s[i + 1] \in Range(s) /\ a \in Seq(Range(s))
    BY <1>1
  <2>2. IF i = 0 THEN a = <<>> ELSE a # <<>> /\ a[1] = s[1]
    BY <2>1
  <2>3. Append(a, s[i + 1]) \in Seq(Range(s)) /\ Append(a, s[i + 1]) # <<>>
        /\ Append(a, s[i + 1])[1] = s[1]
    <3>1. CASE i = 0
      BY <2>1, <2>2, <3>1
    <3>2. CASE i > 0
      BY <2>1, <2>2, <3>2
    <3> QED BY <3>1, <3>2
  <2> DEFINE b == Append(a, s[i + 1])
  <2>4. b \in T[i + 1]
    <3>1. b \in Seq(Range(s)) /\ b # <<>> /\ b[1] = s[1]
      BY <2>3
    <3> HIDE DEF b
    <3> QED BY <2>1, <3>1
  <2>5. ASSUME s[i + 1] \notin S PROVE a \in T[i + 1]
    <3>1. i # 0
      BY <1>1, <2>5
    <3> QED BY <2>1, <2>2, <3>1
  <2> HIDE DEF T
  <2> QED BY <2>4, <2>5
<1>5. Keep(s, S) \in T[Len(s)]
  <2> HIDE DEF T
  <2> QED BY <1>2, <1>3, <1>4, KeepInduction
<1> QED BY <1>1, <1>5

(* Only the first member is in the set.                                    *)
LEMMA KeepOnlyFirst ==
    ASSUME NEW s, IsList(s), s # <<>>, NEW S, s[1] \in S, \A i \in 2..Len(s) : s[i] \notin S
    PROVE  Keep(s, S) = <<s[1]>>
<1> DEFINE T == [k \in 0..Len(s) |-> {a \in Seq(Range(s)) : a = IF k = 0 THEN <<>> ELSE <<s[1]>>}]
<1>1. DOMAIN s = 1..Len(s) /\ Len(s) \in Nat \ {0} /\ \A i \in 1..Len(s) : s[i] \in Range(s)
  BY ListOfRange DEF IsList
<1>2. T \in [0..Len(s) -> SUBSET Seq(Range(s))]
  OBVIOUS
<1>3. <<>> \in T[0]
  BY <1>1
<1>4. ASSUME NEW i \in 0..Len(s) - 1, NEW a \in T[i]
      PROVE  IF s[i + 1] \in S THEN Append(a, s[i + 1]) \in T[i + 1] ELSE a \in T[i + 1]
  <2>1. i \in 0..Len(s) /\ i + 1 \in 0..Len(s) /\ s[1] \in Range(s)
    BY <1>1
  <2>2. a \in Seq(Range(s)) /\ a = IF i = 0 THEN <<>> ELSE <<s[1]>>
    BY <2>1
  <2>3. CASE i = 0
    BY <2>1, <2>2, <2>3
  <2>4. CASE i > 0
    <3>1. s[i + 1] \notin S
      BY <1>1, <2>4
    <3> QED BY <2>1, <2>2, <2>4, <3>1
  <2> QED BY <2>3, <2>4
<1>5. Keep(s, S) \in T[Len(s)]
  <2> HIDE DEF T
  <2> QED BY <1>2, <1>3, <1>4, KeepInduction
<1> QED BY <1>1, <1>5

(* Only the first member is not in the set.                                *)
LEMMA KeepTail ==
    ASSUME NEW s, IsList(s), s # <<>>, NEW S, s[1] \notin S, \A i \in 2..Len(s) : s[i] \in S
    PROVE  Keep(s, S) = Tail(s)
<1> DEFINE T == [k \in 0..Len(s) |-> {a \in Seq(Range(s)) :
                    /\ Len(a) = IF k = 0 THEN 0 ELSE k - 1
                    /\ \A j \in 1..Len(a) : a[j] = s[j + 1]}]
<1>1. DOMAIN s = 1..Len(s) /\ Len(s) \in Nat \ {0} /\ \A i \in 1..Len(s) : s[i] \in Range(s)
  BY ListOfRange DEF IsList
<1>2. T \in [0..Len(s) -> SUBSET Seq(Range(s))]
  OBVIOUS
<1>3. <<>> \in T[0]
  BY <1>1
<1>4. ASSUME NEW i \in 0..Len(s) - 1, NEW a \in T[i]
      PROVE  IF s[i + 1] \in S THEN Append(a, s[i + 1]) \in T[i + 1] ELSE a \in T[i + 1]
  <2>1. i \in 0..Len(s) /\ i + 1 \in 0..Len(s) /\ s[i + 1] \in Range(s)
    BY <1>1
  <2>2. /\ a \in Seq(Range(s)) /\ Len(a) = IF i = 0 THEN 0 ELSE i - 1
        /\ \A j \in 1..Len(a) : a[j] = s[j + 1]
    BY <2>1
  <2>3. CASE i = 0
    BY <2>1, <2>2, <2>3
  <2>4. CASE i > 0
    <3>1. s[i + 1] \in S
      BY <1>1, <2>4
    <3>2. Append(a, s[i + 1]) \in Seq(Range(s)) /\ Len(Append(a, s[i + 1])) = i
      BY <2>1, <2>2, <2>4
    <3>3. \A j \in 1..i : Append(a, s[i + 1])[j] = s[j + 1]
      BY <2>1, <2>2, <2>4
    <3> DEFINE b == Append(a, s[i + 1])
    <3>4. b \in Seq(Range(s)) /\ Len(b) = i /\ \A j \in 1..i : b[j] = s[j + 1]
      BY <3>2, <3>3
    <3> HIDE DEF b
    <3>5. b \in T[i + 1]
      BY <2>1, <2>4, <3>4
    <3> HIDE DEF T
    <3> QED BY <3>1, <3>5 DEF b
  <2> QED BY <2>3, <2>4
<1>5. Keep(s, S) \in T[Len(s)]
  <2> HIDE DEF T
  <2> QED BY <1>2, <1>3, <1>4, KeepInduction
<1>6. /\ Keep(s, S) \in Seq(Range(s)) /\ Len(Keep(s, S)) = Len(s) - 1
      /\ \A j \in 1..Len(s) - 1 : Keep(s, S)[j] = s[j + 1]
  <2> DEFINE kept == Keep(s, S)
  <2>1. kept \in T[Len(s)]
    BY <1>5
  <2> HIDE DEF kept
  <2>2. /\ kept \in Seq(Range(s)) /\ Len(kept) = Len(s) - 1
        /\ \A j \in 1..Len(s) - 1 : kept[j] = s[j + 1]
    <3>1. Len(s) \in 0..Len(s) /\ Len(s) # 0
      BY <1>1
    <3>2. /\ kept \in Seq(Range(s)) /\ Len(kept) = Len(s) - 1
          /\ \A j \in 1..Len(kept) : kept[j] = s[j + 1]
      BY <2>1, <3>1
    <3> QED BY <3>2
  <2> QED BY <2>2 DEF kept
<1>7. Tail(s) \in Seq(Range(s)) /\ Len(Tail(s)) = Len(s) - 1
      /\ \A j \in 1..Len(s) - 1 : Tail(s)[j] = s[j + 1]
  BY DEF IsList
<1> QED BY <1>6, <1>7

(* No two chains have the same name.                                       *)
Distinct(chains) == \A i, j \in DOMAIN chains : chains[i].name = chains[j].name => i = j

(* The names of what is kept differ as before.                             *)
LEMMA KeepDistinct ==
    ASSUME NEW s, IsList(s), Distinct(s), NEW S
    PROVE  Distinct(Keep(s, S))
<1> DEFINE T == [k \in 0..Len(s) |-> {a \in Seq(Range(s)) :
                    Distinct(a) /\ \A j \in DOMAIN a : \E i \in 1..k : a[j] = s[i]}]
<1>1. DOMAIN s = 1..Len(s) /\ Len(s) \in Nat /\ \A i \in 1..Len(s) : s[i] \in Range(s)
  BY ListOfRange DEF IsList
<1>2. T \in [0..Len(s) -> SUBSET Seq(Range(s))]
  OBVIOUS
<1>3. <<>> \in T[0]
  BY <1>1 DEF Distinct
<1>4. ASSUME NEW i \in 0..Len(s) - 1, NEW a \in T[i]
      PROVE  IF s[i + 1] \in S THEN Append(a, s[i + 1]) \in T[i + 1] ELSE a \in T[i + 1]
  <2>1. i \in 0..Len(s) /\ i + 1 \in 0..Len(s) /\ i + 1 \in 1..Len(s) /\ s[i + 1] \in Range(s)
    BY <1>1
  <2>2. /\ a \in Seq(Range(s)) /\ Distinct(a)
        /\ \A j \in DOMAIN a : \E h \in 1..i : a[j] = s[h]
    BY <2>1
  <2> DEFINE b == Append(a, s[i + 1])
  <2>3. b \in Seq(Range(s)) /\ DOMAIN a = 1..Len(a) /\ DOMAIN b = 1..Len(a) + 1 /\ Len(a) \in Nat
        /\ b[Len(a) + 1] = s[i + 1] /\ \A j \in DOMAIN a : b[j] = a[j]
    BY <2>1, <2>2
  <2> HIDE DEF b, T
  <2>4. \A j \in DOMAIN b : \E h \in 1..i + 1 : b[j] = s[h]
    BY <2>1, <2>2, <2>3
  <2>5. \A j \in DOMAIN a : a[j].name # s[i + 1].name
    <3>1. SUFFICES ASSUME NEW j \in DOMAIN a, a[j].name = s[i + 1].name PROVE FALSE
      OBVIOUS
    <3>2. PICK h \in 1..i : a[j] = s[h]
      BY <2>2
    <3>3. h \in DOMAIN s /\ i + 1 \in DOMAIN s /\ h # i + 1
      BY <1>1, <2>1
    <3> QED BY <3>1, <3>2, <3>3 DEF Distinct
  <2>6. Distinct(b)
    <3>1. SUFFICES ASSUME NEW j \in DOMAIN b, NEW k \in DOMAIN b, b[j].name = b[k].name
                   PROVE  j = k
      BY DEF Distinct
    <3>2. CASE j \in DOMAIN a /\ k \in DOMAIN a
      BY <2>2, <2>3, <3>1, <3>2 DEF Distinct
    <3>3. CASE j \notin DOMAIN a
      BY <2>3, <2>5, <3>1, <3>3
    <3>4. CASE k \notin DOMAIN a
      BY <2>3, <2>5, <3>1, <3>4
    <3> QED BY <3>2, <3>3, <3>4
  <2>7. a \in T[i + 1]
    <3>1. \A j \in DOMAIN a : \E h \in 1..i + 1 : a[j] = s[h]
      BY <2>1, <2>2
    <3> QED BY <2>1, <2>2, <3>1 DEF T
  <2>8. b \in T[i + 1]
    BY <2>1, <2>3, <2>4, <2>6 DEF T
  <2> QED BY <2>7, <2>8 DEF b
<1>5. Keep(s, S) \in T[Len(s)]
  <2> HIDE DEF T
  <2> QED BY <1>2, <1>3, <1>4, KeepInduction
<1> QED BY <1>1, <1>5

-----------------------------------------------------------------------------
(* What a chain is; <<>> is the target of rules without one.               *)
IsChain(c) == c = [name |-> c.name, rules |-> c.rules] /\ c.name # <<>> /\ IsList(c.rules)

(* The forward chain is first, and no two chains have the same name.       *)
Shaped(chains) ==
    /\ IsList(chains) /\ \A c \in Range(chains) : IsChain(c)
    /\ Distinct(chains)
    /\ chains # <<>> /\ chains[1].name = FORWARD

(* The members of a list, by their places.                                 *)
LEMMA ListIndex ==
    ASSUME NEW s, IsList(s)
    PROVE  /\ DOMAIN s = 1..Len(s) /\ Len(s) \in Nat /\ \A i \in 1..Len(s) : s[i] \in Range(s)
           /\ \A x \in Range(s) : \E i \in 1..Len(s) : x = s[i]
           /\ s # <<>> => Len(s) \in Nat \ {0} /\ 1 \in 1..Len(s)
<1>1. s \in Seq(Range(s))
  BY DEF IsList
<1>2. DOMAIN s = 1..Len(s) /\ Len(s) \in Nat
  BY <1>1
<1>3. s # <<>> => Len(s) # 0
  BY <1>1
<1> QED BY <1>2, <1>3 DEF Range

(* Names, without the list between.                                        *)
LEMMA NamesOfChains ==
    ASSUME NEW chains
    PROVE  Names(chains) = {c.name : c \in Range(chains)}
BY DEF Names, ChainNames, Range

(* A chain is found by its name.                                           *)
LEMMA RulesOfChain ==
    ASSUME NEW chains, Distinct(chains), NEW c \in Range(chains)
    PROVE  RulesOf(chains, c.name) = c.rules
<1>1. \A d \in Range(chains) : d.name = c.name => d = c
  BY DEF Range, Distinct
<1>2. (CHOOSE d \in Range(chains) : d.name = c.name) = c
  BY <1>1
<1> QED BY <1>2 DEF RulesOf

(* So are the rules before a file is loaded.                               *)
LEMMA BaseIsShaped == Shaped(BaseRules.chains)
<1> DEFINE c == [name |-> FORWARD, rules |-> <<>>]
<1>1. BaseRules.chains = <<c>> /\ Range(<<c>>) = {c}
  BY DEF BaseRules, Range
<1>2. IsList(<<>>)
  BY DEF IsList, Range
<1>3. IsChain(c)
  BY <1>2 DEF IsChain, FORWARD
<1>4. IsList(<<c>>)
  BY <1>1 DEF IsList
<1>5. Distinct(<<c>>)
  BY DEF Distinct
<1>6. <<c>> # <<>> /\ <<c>>[1].name = FORWARD
  OBVIOUS
<1> HIDE DEF c
<1> QED BY <1>1, <1>3, <1>4, <1>5, <1>6 DEF Shaped

(* Flushing the forward chain.                                             *)
LEMMA FlushedIsShaped ==
    ASSUME NEW chains, Shaped(chains)
    PROVE  LET f == Flush(chains, FORWARD)
           IN  /\ Shaped(f) /\ Len(f) = Len(chains)
               /\ f[1] = [name |-> FORWARD, rules |-> <<>>]
               /\ \A i \in 2..Len(chains) : f[i] = chains[i]
               /\ Names(f) = Names(chains)
<1> DEFINE f == Flush(chains, FORWARD)
           empty == [name |-> FORWARD, rules |-> <<>>]
<1>1. DOMAIN chains = 1..Len(chains) /\ Len(chains) \in Nat \ {0}
  BY ListIndex DEF Shaped, IsList
<1>2. f = [i \in 1..Len(chains) |-> IF chains[i].name = FORWARD
                                      THEN [chains[i] EXCEPT !.rules = <<>>] ELSE chains[i]]
  BY <1>1 DEF Flush
<1>3. \A i \in 1..Len(chains) : IsChain(chains[i])
  BY <1>1 DEF Shaped, Range
<1>4. [chains[1] EXCEPT !.rules = <<>>] = empty
  BY <1>1, <1>3 DEF Shaped, IsChain
<1>5. f[1] = empty
  BY <1>1, <1>2, <1>4 DEF Shaped
<1>6. \A i \in 2..Len(chains) : f[i] = chains[i]
  <2>1. ASSUME NEW i \in 2..Len(chains) PROVE chains[i].name # FORWARD
    BY <1>1 DEF Shaped, Distinct
  <2> QED BY <1>2, <2>1
<1>7. Len(f) = Len(chains) /\ DOMAIN f = 1..Len(chains) /\ f \in Seq(Range(f))
  BY <1>1, <1>2 DEF Range
<1>8. \A i \in 1..Len(chains) : f[i].name = chains[i].name
  BY <1>1, <1>5, <1>6 DEF Shaped
<1>9. \A i \in 1..Len(chains) : IsChain(f[i])
  <2>1. IsList(<<>>)
    BY DEF IsList, Range
  <2>2. IsChain(empty)
    BY <2>1 DEF IsChain, FORWARD
  <2> QED BY <1>1, <1>3, <1>5, <1>6, <2>2
<1> HIDE DEF f, empty
<1>10. Distinct(f)
  BY <1>1, <1>7, <1>8 DEF Shaped, Distinct
<1>11. Shaped(f)
  BY <1>1, <1>7, <1>8, <1>9, <1>10 DEF Shaped, Range, IsList
<1>12. Names(f) = Names(chains)
  BY <1>1, <1>7, <1>8 DEF Names, ChainNames, Range
<1> QED BY <1>5, <1>6, <1>7, <1>11, <1>12 DEF f, empty

(* Deleting chains other than the forward chain.                           *)
LEMMA RemainingIsShaped ==
    ASSUME NEW chains, Shaped(chains), NEW existing, FORWARD \notin Range(existing)
    PROVE  LET d == DeleteAll(chains, existing)
           IN  /\ Shaped(d) /\ d[1] = chains[1]
               /\ Range(d) = {c \in Range(chains) : c.name \notin Range(existing)}
<1> DEFINE S == {c \in Range(chains) : c.name \notin Range(existing)}
           d == Keep(chains, S)
<1>1. d \in Seq(Range(chains)) /\ Range(d) = Range(chains) \cap S
  BY KeepRange DEF Shaped
<1>2. Distinct(d)
  BY KeepDistinct DEF Shaped
<1>3. chains[1] \in S
  BY ListIndex DEF Shaped
<1>4. d # <<>> /\ d[1] = chains[1]
  BY <1>3, KeepFirst DEF Shaped
<1>5. Range(d) = S /\ \A c \in S : IsChain(c)
  BY <1>1 DEF Shaped
<1>6. IsList(d)
  BY <1>1, ListOfRange
<1> HIDE DEF d, S
<1>7. Shaped(d)
  BY <1>2, <1>4, <1>5, <1>6 DEF Shaped
<1> QED BY <1>4, <1>5, <1>7 DEF DeleteAll, d, S

(* What becomes of the chains: those that exist get the rules of the file  *)
(* in addition to theirs.                                                  *)
LEMMA AddedChains ==
    ASSUME NEW base, Shaped(base), NEW more, Shaped(more)
    PROVE  LET a == AddAll(base, more)
           IN  /\ Shaped(a) /\ Names(a) = Names(base) \cup Names(more)
               /\ \A c \in Range(a) :
                     \/ c.name \notin Names(more) /\ c \in Range(base)
                     \/ c.name \notin Names(base) /\ c \in Range(more)
                     \/ \E b \in Range(base), m \in Range(more) :
                           b.name = c.name /\ m.name = c.name /\ c.rules = b.rules \o m.rules
<1> DEFINE S == {c \in Range(more) : c.name \notin Names(base)}
           Grown(b) == IF b.name \in Names(more) THEN [b EXCEPT !.rules = @ \o RulesOf(more, b.name)] ELSE b
           grown == [i \in DOMAIN base |-> Grown(base[i])]
           fresh == Keep(more, S)
           a == grown \o fresh
<1>1. a = AddAll(base, more)
  BY DEF AddAll
<1>2. /\ DOMAIN base = 1..Len(base) /\ Len(base) \in Nat \ {0}
      /\ \A i \in 1..Len(base) : base[i] \in Range(base)
      /\ \A b \in Range(base) : \E i \in 1..Len(base) : b = base[i]
  BY ListIndex DEF Shaped
<1>3. fresh \in Seq(Range(more)) /\ Range(fresh) = S /\ Distinct(fresh)
  BY KeepRange, KeepDistinct DEF Shaped
<1>4. ASSUME NEW b \in Range(base)
      PROVE  /\ Grown(b).name = b.name /\ IsChain(Grown(b))
             /\ b.name \notin Names(more) => Grown(b) = b
             /\ b.name \in Names(more) =>
                   \E m \in Range(more) : m.name = b.name /\ Grown(b).rules = b.rules \o m.rules
  <2>1. IsChain(b)
    BY DEF Shaped
  <2>2. CASE b.name \notin Names(more)
    BY <2>1, <2>2
  <2>3. CASE b.name \in Names(more)
    <3>1. PICK m \in Range(more) : m.name = b.name
      BY <2>3, NamesOfChains
    <3>2. RulesOf(more, b.name) = m.rules /\ IsChain(m)
      BY <3>1, RulesOfChain DEF Shaped
    <3>3. Grown(b) = [name |-> b.name, rules |-> b.rules \o m.rules]
      BY <2>1, <2>3, <3>2 DEF IsChain
    <3>4. IsList(b.rules \o m.rules)
      <4>1. b.rules \in Seq(Range(b.rules) \cup Range(m.rules)) /\ m.rules \in Seq(Range(b.rules) \cup Range(m.rules))
        BY <2>1, <3>2 DEF IsChain, IsList
      <4>2. b.rules \o m.rules \in Seq(Range(b.rules) \cup Range(m.rules))
        BY <4>1
      <4> QED BY <4>2, ListOfRange
    <3>5. Grown(b).name = b.name /\ Grown(b).rules = b.rules \o m.rules
      <4> DEFINE both == b.rules \o m.rules
                 g == Grown(b)
      <4>1. g = [name |-> b.name, rules |-> both]
        BY <3>3
      <4> HIDE DEF both, g
      <4>2. g.name = b.name /\ g.rules = both
        BY <4>1
      <4> QED BY <4>2 DEF both, g
    <3> HIDE DEF Grown
    <3>6. IsChain(Grown(b))
      BY <2>1, <3>3, <3>4, <3>5 DEF IsChain
    <3> QED BY <2>3, <3>1, <3>5, <3>6
  <2> HIDE DEF Grown
  <2> QED BY <2>2, <2>3
<1> HIDE DEF Grown
<1> DEFINE X == {Grown(b) : b \in Range(base)} \cup Range(more)
<1>5. grown \in Seq(X) /\ Len(grown) = Len(base) /\ Range(grown) = {Grown(b) : b \in Range(base)}
  <2>1. \A i \in 1..Len(base) : grown[i] = Grown(base[i])
    BY <1>2
  <2>2. grown \in Seq(X)
    BY <1>2
  <2> QED BY <1>2, <2>1, <2>2 DEF Range
<1>6. fresh \in Seq(X)
  BY <1>3
<1>7. a \in Seq(X) /\ Range(a) = {Grown(b) : b \in Range(base)} \cup S
  <2> HIDE DEF grown, fresh, X
  <2>1. Range(grown \o fresh) = Range(grown) \cup Range(fresh)
    BY <1>5, <1>6, RangeConcat
  <2> QED BY <1>3, <1>5, <1>6, <2>1
<1> HIDE DEF S, fresh
<1>8. Distinct(a)
  <2>1. /\ DOMAIN a = 1..Len(grown) + Len(fresh) /\ Len(fresh) \in Nat /\ Len(grown) \in Nat
        /\ \A i \in 1..Len(grown) : a[i] = grown[i]
        /\ \A i \in DOMAIN a : i \notin 1..Len(grown) =>
              i - Len(grown) \in 1..Len(fresh) /\ a[i] = fresh[i - Len(grown)]
    BY <1>5, <1>6
  <2>2. \A i \in 1..Len(grown) : a[i].name = base[i].name /\ base[i].name \in Names(base)
    <3>1. \A i \in 1..Len(grown) : grown[i].name = base[i].name
      BY <1>2, <1>4, <1>5
    <3> QED BY <1>2, <1>5, <2>1, <3>1, NamesOfChains
  <2>3. \A i \in 1..Len(fresh) : fresh[i].name \notin Names(base) /\ i \in DOMAIN fresh
    BY <1>3, <1>6 DEF Range, S
  <2> HIDE DEF a, grown
  <2>4. SUFFICES ASSUME NEW i \in DOMAIN a, NEW j \in DOMAIN a, a[i].name = a[j].name PROVE i = j
    BY DEF Distinct
  <2>5. CASE i \in 1..Len(grown) /\ j \in 1..Len(grown)
    BY <1>2, <1>5, <2>2, <2>4, <2>5 DEF Shaped, Distinct
  <2>6. CASE i \notin 1..Len(grown) /\ j \notin 1..Len(grown)
    <3>1. i - Len(grown) = j - Len(grown)
      BY <1>3, <2>1, <2>3, <2>4, <2>6 DEF Distinct
    <3> QED BY <2>1, <3>1
  <2>7. \A k \in DOMAIN a : k \in 1..Len(grown) <=> a[k].name \in Names(base)
    BY <2>1, <2>2, <2>3
  <2>8. CASE i \in 1..Len(grown) /\ j \notin 1..Len(grown)
    BY <2>4, <2>8, <2>7
  <2>9. CASE i \notin 1..Len(grown) /\ j \in 1..Len(grown)
    BY <2>4, <2>9, <2>7
  <2> QED BY <2>5, <2>6, <2>8, <2>9
<1>9. Shaped(a)
  <2>1. \A c \in Range(a) : IsChain(c)
    BY <1>4, <1>7 DEF Shaped, S
  <2>2. a # <<>> /\ a[1] = Grown(base[1])
    <3>1. grown[1] = Grown(base[1]) /\ Len(grown) \in Nat \ {0}
      BY <1>2, <1>5
    <3> HIDE DEF grown
    <3> QED BY <1>5, <1>6, <3>1
  <2>3. a[1].name = FORWARD
    <3>1. base[1] \in Range(base)
      BY <1>2
    <3> QED BY <1>4, <2>2, <3>1 DEF Shaped
  <2> HIDE DEF a
  <2> QED BY <1>7, <1>8, <2>1, <2>2, <2>3, ListOfRange DEF Shaped
<1> HIDE DEF a, grown
<1>10. Names(a) = Names(base) \cup Names(more)
  <2>1. Names(a) = {c.name : c \in Range(a)}
    BY NamesOfChains
  <2>2. Names(base) = {c.name : c \in Range(base)} /\ Names(more) = {c.name : c \in Range(more)}
    BY NamesOfChains
  <2>3. ASSUME NEW c \in Range(a) PROVE c.name \in Names(base) \cup Names(more)
    <3>1. CASE c \in S
      BY <2>2, <3>1 DEF S
    <3>2. CASE c \notin S
      <4>1. PICK b \in Range(base) : c = Grown(b)
        BY <1>7, <3>2
      <4> QED BY <1>4, <2>2, <4>1
    <3> QED BY <3>1, <3>2
  <2>4. \A b \in Range(base) : b.name \in Names(a)
    <3>1. SUFFICES ASSUME NEW b \in Range(base) PROVE b.name \in Names(a)
      OBVIOUS
    <3>2. Grown(b) \in Range(a) /\ Grown(b).name = b.name
      BY <1>4, <1>7
    <3> QED BY <2>1, <3>2
  <2>5. \A c \in S : c.name \in Names(a)
    BY <1>7, <2>1
  <2>6. \A x \in Names(base) : x \in Names(a)
    BY <2>2, <2>4
  <2>7. \A x \in Names(more) : x \in Names(a)
    BY <2>2, <2>5, <2>6 DEF S
  <2> QED BY <2>1, <2>3, <2>6, <2>7
<1>11. ASSUME NEW c \in Range(a)
       PROVE  \/ c.name \notin Names(more) /\ c \in Range(base)
              \/ c.name \notin Names(base) /\ c \in Range(more)
              \/ \E b \in Range(base), m \in Range(more) :
                    b.name = c.name /\ m.name = c.name /\ c.rules = b.rules \o m.rules
  <2>1. CASE c \in S
    BY <2>1 DEF S
  <2>2. CASE c \notin S
    <3>1. PICK b \in Range(base) : c = Grown(b)
      BY <1>7, <2>2
    <3> QED BY <1>4, <3>1
  <2> QED BY <2>1, <2>2
<1> QED BY <1>1, <1>9, <1>10, <1>11

(* The administrator's chains.                                             *)
Base == <<[name |-> FORWARD, rules |-> <<>>]>>

(* A file that is loaded into them defines all there is.                   *)
LEMMA AddedToBase ==
    ASSUME NEW more, Shaped(more)
    PROVE  AddAll(Base, more) = more
<1> DEFINE S == {c \in Range(more) : c.name \notin Names(Base)}
<1>1. Names(Base) = {FORWARD} /\ DOMAIN Base = 1..1 /\ Base[1] = [name |-> FORWARD, rules |-> <<>>]
  BY DEF Names, ChainNames, Range, Base
<1>2. /\ DOMAIN more = 1..Len(more) /\ Len(more) \in Nat \ {0} /\ more \in Seq(Range(more))
      /\ \A i \in 1..Len(more) : more[i] \in Range(more)
  BY ListIndex DEF Shaped, IsList
<1>3. more[1] \in Range(more) /\ more[1].name = FORWARD /\ IsChain(more[1])
  BY <1>2 DEF Shaped
<1>4. FORWARD \in Names(more) /\ RulesOf(more, FORWARD) = more[1].rules
  <2>1. RulesOf(more, more[1].name) = more[1].rules
    BY <1>3, RulesOfChain DEF Shaped
  <2> QED BY <1>3, <2>1, NamesOfChains
<1>5. [Base[1] EXCEPT !.rules = @ \o RulesOf(more, Base[1].name)] = more[1]
  <2>1. <<>> \o more[1].rules = more[1].rules
    BY <1>3 DEF IsChain, IsList
  <2>2. [Base[1] EXCEPT !.rules = @ \o RulesOf(more, Base[1].name)]
          = [name |-> FORWARD, rules |-> <<>> \o more[1].rules]
    BY <1>1, <1>4
  <2> QED BY <1>3, <2>1, <2>2 DEF IsChain
<1>6. [i \in DOMAIN Base |->
          IF Base[i].name \in Names(more)
            THEN [Base[i] EXCEPT !.rules = @ \o RulesOf(more, Base[i].name)] ELSE Base[i]]
        = <<more[1]>>
  <2> DEFINE x == [Base[1] EXCEPT !.rules = @ \o RulesOf(more, Base[1].name)]
             g == [i \in DOMAIN Base |->
                     IF Base[i].name \in Names(more)
                       THEN [Base[i] EXCEPT !.rules = @ \o RulesOf(more, Base[i].name)] ELSE Base[i]]
  <2>1. Base[1].name \in Names(more) /\ 1 \in 1..1
    BY <1>1, <1>4
  <2>2. g[1] = x
    BY <1>1, <2>1
  <2>3. g[1] = x /\ g = [i \in 1..1 |-> g[i]]
    BY <1>1, <2>2
  <2> HIDE DEF g, x
  <2>4. g = <<x>>
    BY <2>3
  <2> QED BY <1>5, <2>4 DEF g, x
<1>7. Keep(more, S) = Tail(more)
  <2>1. more[1] \notin S
    BY <1>1, <1>3
  <2>2. \A i \in 2..Len(more) : more[i] \in S
    <3>1. \A i \in 2..Len(more) : more[i] \in Range(more) /\ more[i].name # FORWARD
      BY <1>2, <1>3 DEF Shaped, Distinct
    <3> QED BY <1>1, <3>1
  <2> HIDE DEF S
  <2> QED BY <2>1, <2>2, KeepTail DEF Shaped
<1>8. <<more[1]>> \o Tail(more) = more
  BY <1>2
<1> HIDE DEF S
<1> QED BY <1>6, <1>7, <1>8 DEF AddAll, S

(* All chains but the forward chain are deleted.                           *)
LEMMA OnlyForwardRemains ==
    ASSUME NEW chains, Shaped(chains), NEW existing, FORWARD \notin Range(existing),
           Names(chains) \ {FORWARD} \subseteq Range(existing)
    PROVE  DeleteAll(Flush(chains, FORWARD), existing) = Base
<1> DEFINE f == Flush(chains, FORWARD)
           S == {c \in Range(f) : c.name \notin Range(existing)}
<1>1. /\ Shaped(f) /\ Len(f) = Len(chains) /\ f[1] = [name |-> FORWARD, rules |-> <<>>]
      /\ Names(f) = Names(chains)
  BY FlushedIsShaped
<1> HIDE DEF f
<1>2. /\ DOMAIN f = 1..Len(f) /\ Len(f) \in Nat \ {0}
      /\ \A i \in 1..Len(f) : f[i] \in Range(f)
  BY <1>1, ListIndex DEF Shaped
<1>3. f[1] \in S
  BY <1>1, <1>2
<1>4. \A i \in 2..Len(f) : f[i] \notin S
  <2>1. SUFFICES ASSUME NEW i \in 2..Len(f) PROVE f[i].name \in Range(existing)
    OBVIOUS
  <2>2. f[i].name # FORWARD
    BY <1>1, <1>2 DEF Shaped, Distinct
  <2>3. f[i].name \in Names(f)
    BY <1>2, NamesOfChains
  <2> QED BY <1>1, <2>2, <2>3
<1> HIDE DEF S
<1>5. Keep(f, S) = <<f[1]>>
  BY <1>1, <1>3, <1>4, KeepOnlyFirst DEF Shaped
<1> QED BY <1>1, <1>5 DEF DeleteAll, S, f, Base

(* A file that lists all chains but the forward chain replaces them all:   *)
(* nft takes it if it parses, its jumps lead to chains of its own, and the *)
(* list is in an order that the kernel accepts (the template's `delete     *)
(* chain` lines; docs/config.md:36).                                       *)
THEOREM TransactionReplaces ==
    ASSUME NEW from, Shaped(from.chains), NEW text, Shaped(text.chains),
           FORWARD \notin Range(text.existing),
           Names(from.chains) \ {FORWARD} \subseteq Range(text.existing)
    PROVE  LET t == Transaction(from, text)
           IN  /\ t.ok <=> /\ Parses(text) /\ Linked(text.chains)
                           /\ ~Busy(Flush(from.chains, FORWARD), text.existing)
               /\ t.ok => t.rules.chains = text.chains
<1>1. AddAll(DeleteAll(Flush(from.chains, FORWARD), text.existing), text.chains) = text.chains
  BY OnlyForwardRemains, AddedToBase
<1> QED BY <1>1 DEF Transaction

(* Whether nft takes a file or not, the chains stay in shape.              *)
LEMMA TransactionShapes ==
    ASSUME NEW from, Shaped(from.chains), NEW text, Shaped(text.chains),
           FORWARD \notin Range(text.existing)
    PROVE  Shaped(Transaction(from, text).rules.chains)
<1> DEFINE d == DeleteAll(Flush(from.chains, FORWARD), text.existing)
<1>1. Shaped(Flush(from.chains, FORWARD))
  BY FlushedIsShaped
<1>2. Shaped(d)
  BY <1>1, RemainingIsShaped
<1>3. Shaped(AddAll(d, text.chains))
  BY <1>2, AddedChains
<1> QED BY <1>3 DEF Transaction

-----------------------------------------------------------------------------
(* Chains that are loaded onto themselves: their rules are repeated.       *)
Extending(r, q) ==
    /\ IsList(r) /\ Len(q) <= Len(r) /\ \A i \in DOMAIN q : r[i] = q[i]
    /\ Range(r) = Range(q)

(* The chains are those of the file, each with its rules at least once.    *)
Repeats(chains, of) ==
    /\ Names(chains) = Names(of)
    /\ \A c \in Range(chains), d \in Range(of) : c.name = d.name => Extending(c.rules, d.rules)

(* Repeating the rules once more.                                          *)
LEMMA ExtendsMore ==
    ASSUME NEW r, NEW q, IsList(q), Extending(r, q)
    PROVE  Extending(r \o q, q)
<1> DEFINE S == Range(q)
<1>1. r \in Seq(S) /\ q \in Seq(S)
  BY DEF Extending, IsList
<1>2. DOMAIN q = 1..Len(q) /\ Len(q) \in Nat /\ Len(r) \in Nat /\ DOMAIN r = 1..Len(r)
  BY <1>1
<1>3. r \o q \in Seq(S) /\ Len(r \o q) = Len(r) + Len(q) /\ \A i \in DOMAIN r : (r \o q)[i] = r[i]
  BY <1>1
<1>4. Range(r \o q) = Range(q)
  <2>1. Range(r \o q) = Range(r) \cup Range(q)
    BY <1>1, RangeConcat
  <2> QED BY <2>1 DEF Extending
<1>5. IsList(r \o q)
  BY <1>3, ListOfRange
<1>6. \A i \in DOMAIN q : (r \o q)[i] = q[i]
  BY <1>2, <1>3 DEF Extending
<1>7. Len(q) <= Len(r \o q)
  BY <1>2, <1>3
<1> HIDE DEF S
<1> QED BY <1>4, <1>5, <1>6, <1>7 DEF Extending

(* Two chains of one name are one.                                         *)
LEMMA SameChain ==
    ASSUME NEW chains, Distinct(chains), NEW c \in Range(chains), NEW d \in Range(chains),
           c.name = d.name
    PROVE  c = d
BY DEF Range, Distinct

(* Chains repeat themselves.                                               *)
LEMMA RepeatsItself ==
    ASSUME NEW chains, Shaped(chains)
    PROVE  Repeats(chains, chains)
<1>1. SUFFICES ASSUME NEW c \in Range(chains), NEW d \in Range(chains), c.name = d.name
               PROVE  Extending(c.rules, d.rules)
  BY DEF Repeats
<1>2. c = d /\ IsList(c.rules)
  BY <1>1, SameChain DEF Shaped, IsChain
<1>3. Len(c.rules) \in Nat
  BY <1>2, ListIndex
<1> QED BY <1>2, <1>3 DEF Extending

(* A file that is loaded onto its own chains, whatever it deletes first,   *)
(* repeats them: the forward chain is flushed, and the others keep their   *)
(* rules (Fix after a rollback; main of the agent).                        *)
THEOREM TransactionRepeats ==
    ASSUME NEW from, Shaped(from.chains), NEW text, Shaped(text.chains),
           FORWARD \notin Range(text.existing),
           Repeats(from.chains, text.chains)
    PROVE  Repeats(Transaction(from, text).rules.chains, text.chains)
<1> DEFINE f == Flush(from.chains, FORWARD)
           d == DeleteAll(f, text.existing)
           a == AddAll(d, text.chains)
<1>1. /\ Shaped(f) /\ Len(f) = Len(from.chains)
      /\ f[1] = [name |-> FORWARD, rules |-> <<>>]
      /\ \A i \in 2..Len(f) : f[i] = from.chains[i]
      /\ Names(f) = Names(from.chains)
  BY FlushedIsShaped
<1> HIDE DEF f
<1>2. Shaped(d) /\ Range(d) \subseteq Range(f)
  BY <1>1, RemainingIsShaped
<1> HIDE DEF d
<1>3. /\ Names(a) = Names(d) \cup Names(text.chains)
      /\ \A c \in Range(a) :
            \/ c.name \notin Names(text.chains) /\ c \in Range(d)
            \/ c.name \notin Names(d) /\ c \in Range(text.chains)
            \/ \E b \in Range(d), m \in Range(text.chains) :
                  b.name = c.name /\ m.name = c.name /\ c.rules = b.rules \o m.rules
  BY <1>2, AddedChains
<1> HIDE DEF a
<1>4. Names(a) = Names(text.chains)
  <2>1. Names(d) \subseteq Names(f)
    BY <1>2, NamesOfChains
  <2> QED BY <1>1, <1>3, <2>1 DEF Repeats
<1>5. ASSUME NEW b \in Range(d), NEW e \in Range(text.chains), b.name = e.name
      PROVE  Extending(b.rules \o e.rules, e.rules)
  <2>1. IsList(e.rules)
    BY DEF Shaped, IsChain
  <2>2. PICK i \in 1..Len(f) : b = f[i]
    BY <1>1, <1>2, ListIndex DEF Shaped
  <2>3. CASE i = 1
    <3>1. b.rules = <<>>
      BY <1>1, <2>2, <2>3
    <3>2. e.rules \in Seq(Range(e.rules))
      BY <2>1 DEF IsList
    <3>3. b.rules \o e.rules = e.rules
      BY <3>1, <3>2
    <3>4. Len(e.rules) \in Nat
      BY <2>1, ListIndex
    <3> QED BY <2>1, <3>4, <3>3 DEF Extending
  <2>4. CASE i # 1
    <3>1. Len(from.chains) \in Nat /\ i \in 2..Len(f)
      BY <1>1, <2>2, <2>4, ListIndex DEF Shaped
    <3>2. b = from.chains[i] /\ b \in Range(from.chains)
      BY <1>1, <2>2, <3>1, ListIndex DEF Shaped
    <3>3. Extending(b.rules, e.rules)
      BY <1>5, <3>2 DEF Repeats
    <3> QED BY <2>1, <3>3, ExtendsMore
  <2> QED BY <2>3, <2>4
<1>6. ASSUME NEW c \in Range(a), NEW e \in Range(text.chains), c.name = e.name
      PROVE  Extending(c.rules, e.rules)
  <2>1. e.name \in Names(text.chains)
    BY NamesOfChains
  <2>2. CASE c \in Range(text.chains)
    BY <1>6, <2>2, RepeatsItself DEF Repeats
  <2>3. CASE c \notin Range(text.chains)
    <3>1. PICK b \in Range(d), m \in Range(text.chains) :
            b.name = c.name /\ m.name = c.name /\ c.rules = b.rules \o m.rules
      BY <1>3, <1>6, <2>1, <2>3
    <3>2. m = e
      BY <1>6, <3>1, SameChain DEF Shaped
    <3> QED BY <1>5, <1>6, <3>1, <3>2
  <2> QED BY <2>2, <2>3
<1>7. Repeats(a, text.chains)
  BY <1>4, <1>6 DEF Repeats
<1> QED BY <1>7 DEF Transaction, a, d, f

-----------------------------------------------------------------------------
(* The chains are listed without the forward chain, which is the first.    *)
LEMMA ListOfPolicyChains ==
    ASSUME NEW rules, Shaped(rules.chains)
    PROVE  LET l == PolicyChainList(rules)
           IN  /\ IsList(l) /\ Range(l) = Names(rules.chains) \ {FORWARD}
               /\ Len(l) = Len(rules.chains) - 1
               /\ \A i \in 1..Len(l) : l[i] = rules.chains[i + 1].name
<1> DEFINE names == ChainNames(rules.chains)
           S == Names(rules.chains) \ {FORWARD}
<1>1. DOMAIN rules.chains = 1..Len(rules.chains) /\ Len(rules.chains) \in Nat \ {0}
  BY ListIndex DEF Shaped
<1>2. /\ names \in Seq(Range(names)) /\ Len(names) = Len(rules.chains)
      /\ \A i \in 1..Len(rules.chains) : names[i] = rules.chains[i].name
  BY <1>1 DEF ChainNames, Range
<1>3. Range(names) = Names(rules.chains)
  BY DEF Names
<1> HIDE DEF names
<1>4. names # <<>> /\ names[1] \notin S /\ IsList(names)
  BY <1>1, <1>2 DEF Shaped, IsList
<1>5. \A i \in 2..Len(names) : names[i] \in S
  <2>1. \A i \in 2..Len(names) : rules.chains[i].name # FORWARD
    BY <1>1, <1>2 DEF Shaped, Distinct
  <2>2. \A i \in 2..Len(names) : names[i] \in Range(names)
    BY <1>1, <1>2 DEF Range
  <2> QED BY <1>1, <1>2, <1>3, <2>1, <2>2
<1>6. Keep(names, S) = Tail(names)
  <2> HIDE DEF S
  <2> QED BY <1>4, <1>5, KeepTail
<1>7. Range(Keep(names, S)) = Range(names) \cap S /\ Keep(names, S) \in Seq(Range(names))
  <2> HIDE DEF S
  <2> QED BY <1>4, KeepRange
<1>8. /\ Len(Tail(names)) = Len(rules.chains) - 1
      /\ \A i \in 1..Len(rules.chains) - 1 : Tail(names)[i] = rules.chains[i + 1].name
  BY <1>1, <1>2, <1>4
<1>9. PolicyChainList(rules) = Keep(names, S)
  BY DEF PolicyChainList, names
<1>10. IsList(Keep(names, S))
  BY <1>7, ListOfRange
<1> QED BY <1>3, <1>6, <1>7, <1>8, <1>9, <1>10

(* Every jump leads to a later chain of the list, or to one of the names.  *)
Forwards(chains, names) == \A i \in DOMAIN chains : \A r \in Range(chains[i].rules) :
    \/ r.target = <<>> \/ r.target \in names
    \/ \E j \in DOMAIN chains : i < j /\ chains[j].name = r.target

(* Chains that only jump forwards, in the order of their creation, may be  *)
(* deleted in that order, which is that of getExistingPolicyChains: no     *)
(* chain that is still there jumps to the one that goes.                   *)
THEOREM DeletedInOrder ==
    ASSUME NEW rules, Shaped(rules.chains), Forwards(rules.chains, {})
    PROVE  ~Busy(Flush(rules.chains, FORWARD), PolicyChainList(rules))
<1> DEFINE chains == rules.chains
           f == Flush(rules.chains, FORWARD)
           l == PolicyChainList(rules)
<1>1. /\ Shaped(f) /\ Len(f) = Len(chains)
      /\ f[1] = [name |-> FORWARD, rules |-> <<>>]
      /\ \A i \in 2..Len(chains) : f[i] = chains[i]
  BY FlushedIsShaped
<1>2. /\ IsList(l) /\ Len(l) = Len(chains) - 1
      /\ \A i \in 1..Len(l) : l[i] = chains[i + 1].name
  BY ListOfPolicyChains
<1>3. /\ DOMAIN chains = 1..Len(chains) /\ Len(chains) \in Nat \ {0}
      /\ DOMAIN l = 1..Len(l)
      /\ \A i \in 1..Len(chains) : chains[i] \in Range(chains)
      /\ \A c \in Range(f) : \E k \in 1..Len(chains) : c = f[k]
  BY <1>1, <1>2, ListIndex DEF Shaped
<1>4. Distinct(chains) /\ \A i \in 1..Len(chains) : chains[i].name # <<>>
  BY <1>3 DEF Shaped, IsChain
<1> HIDE DEF f, l, chains
<1>5. SUFFICES ASSUME NEW i \in DOMAIN l, NEW c \in Range(f), \A j \in 1..i : c.name # l[j],
                      NEW r \in Range(c.rules), r.target = l[i]
               PROVE  FALSE
  BY DEF Busy, f, l
<1>6. PICK k \in 1..Len(chains) : c = f[k]
  BY <1>3
<1>7. k # 1
  <2>1. Range(<<>>) = {}
    BY DEF Range
  <2> QED BY <1>1, <1>5, <1>6, <2>1
<1>8. c = chains[k] /\ k \in 2..Len(chains)
  BY <1>1, <1>3, <1>6, <1>7
<1>9. i < k - 1
  <2>1. k - 1 \in 1..Len(l) /\ l[k - 1] = c.name
    BY <1>2, <1>3, <1>8
  <2> QED BY <1>3, <1>5, <2>1
<1>10. r.target = chains[i + 1].name /\ i + 1 \in 1..Len(chains)
  BY <1>2, <1>3, <1>5
<1>11. PICK j \in DOMAIN chains : k < j /\ chains[j].name = r.target
  BY <1>3, <1>4, <1>5, <1>8, <1>10 DEF Forwards, chains
<1> QED BY <1>3, <1>4, <1>9, <1>10, <1>11 DEF Distinct

(* Then no jump leads nowhere.                                             *)
LEMMA ForwardsAreLinked ==
    ASSUME NEW chains, Forwards(chains, {})
    PROVE  Linked(chains)
<1>1. SUFFICES ASSUME NEW c \in Range(chains), NEW r \in Range(c.rules), r.target # <<>>
               PROVE  r.target \in Names(chains)
  BY DEF Linked
<1>2. PICK i \in DOMAIN chains : c = chains[i]
  BY DEF Range
<1>3. PICK j \in DOMAIN chains : chains[j].name = r.target
  BY <1>1, <1>2 DEF Forwards
<1> QED BY <1>3, NamesOfChains DEF Range

(* The administrator's chains jump nowhere.                                *)
LEMMA NothingToDelete ==
    ASSUME NEW existing
    PROVE  ~Busy(Flush(BaseRules.chains, FORWARD), existing)
<1>1. Flush(BaseRules.chains, FORWARD) = Base
  BY DEF Flush, BaseRules, Base
<1>2. \A c \in Range(Base) : Range(c.rules) = {}
  BY DEF Base, Range
<1> QED BY <1>1, <1>2 DEF Busy

(* A finite set has a list, without repetition.                            *)
LEMMA SetToSeqLists ==
    ASSUME NEW S, IsFiniteSet(S)
    PROVE  LET s == SetToSeq(S)
           IN  /\ IsList(s) /\ Range(s) = S
               /\ \A i, j \in DOMAIN s : s[i] = s[j] => i = j
<1> DEFINE n == Cardinality(S)
           s == SetToSeq(S)
<1>1. n \in Nat /\ ExistsBijection(1..n, S)
  BY FS_CardinalityType
<1>2. \E f \in [1..n -> S] : IsInjective(f)
  <2>1. PICK f : f \in Bijection(1..n, S)
    BY <1>1, Zenon DEF ExistsBijection
  <2>2. f \in [1..n -> S] /\ \A a, b \in 1..n : f[a] = f[b] => a = b
    BY <2>1, Zenon DEF Bijection, Injection, Surjection, IsInjective
  <2>3. DOMAIN f = 1..n
    BY <2>2
  <2> QED BY <2>2, <2>3, Zenon DEF IsInjective
<1>3. s \in [1..n -> S] /\ IsInjective(s)
  BY <1>2, Zenon DEF SetToSeq
<1> HIDE DEF s
<1>4. s \in Injection(1..n, S)
  BY <1>3, Zenon DEF Injection
<1>5. IsFiniteSet(1..n) /\ Cardinality(1..n) = n
  BY <1>1, FS_Interval
<1>6. s \in Surjection(1..n, S)
  <2>1. Cardinality(1..n) = Cardinality(S)
    BY <1>5
  <2> QED BY <1>4, <2>1, FS_Injection
<1>7. \A x \in S : \E i \in 1..n : s[i] = x
  BY <1>6, Zenon DEF Surjection
<1>8. Range(s) = S
  BY <1>3, <1>7 DEF Range
<1>9. s \in Seq(S)
  BY <1>1, <1>3
<1> QED BY <1>3, <1>8, <1>9, ListOfRange DEF IsInjective, s

(* A function of a finite domain has finitely many values.                 *)
LEMMA FiniteRange ==
    ASSUME NEW f, IsFiniteSet(DOMAIN f)
    PROVE  IsFiniteSet({f[x] : x \in DOMAIN f})
<1> DEFINE T == {f[x] : x \in DOMAIN f}
           g == [x \in DOMAIN f |-> f[x]]
<1>1. g \in [DOMAIN f -> T] /\ \A t \in T : \E x \in DOMAIN f : g[x] = t
  OBVIOUS
<1>2. g \in Surjection(DOMAIN f, T)
  <2> HIDE DEF g, T
  <2> QED BY <1>1, Zenon DEF Surjection
<1> HIDE DEF g
<1>3. IsFiniteSet(T)
  <2> HIDE DEF T
  <2> QED BY <1>2, FS_Surjection
<1> QED BY <1>3

(* A list has finitely many members.                                       *)
LEMMA FiniteList ==
    ASSUME NEW s, IsList(s)
    PROVE  IsFiniteSet(Range(s))
<1>1. DOMAIN s = 1..Len(s) /\ Len(s) \in Nat
  BY ListIndex
<1>2. IsFiniteSet(DOMAIN s)
  BY <1>1, FS_Interval
<1> QED BY <1>2, FiniteRange DEF Range

-----------------------------------------------------------------------------
(* Parts of a list of chains.                                              *)
Part(chains) ==
    IsList(chains) /\ Distinct(chains) /\ \A c \in Range(chains) : IsChain(c)

(* Two parts in a row.                                                     *)
LEMMA PartsJoin ==
    ASSUME NEW a, Part(a), NEW b, Part(b), Names(a) \cap Names(b) = {}
    PROVE  /\ Part(a \o b) /\ Names(a \o b) = Names(a) \cup Names(b)
           /\ Range(a \o b) = Range(a) \cup Range(b)
           /\ \A names : Forwards(a, Names(b) \cup names) /\ Forwards(b, names)
                            => Forwards(a \o b, names)
<1> DEFINE S == Range(a) \cup Range(b)
           c == a \o b
<1>1. /\ DOMAIN a = 1..Len(a) /\ Len(a) \in Nat /\ DOMAIN b = 1..Len(b) /\ Len(b) \in Nat
      /\ a \in Seq(S) /\ b \in Seq(S)
      /\ \A i \in 1..Len(a) : a[i] \in Range(a)
      /\ \A i \in 1..Len(b) : b[i] \in Range(b)
  <2>1. a \in Seq(Range(a)) /\ b \in Seq(Range(b))
    BY DEF Part, IsList
  <2> QED BY <2>1, ListIndex DEF Part
<1>2. /\ c \in Seq(S) /\ DOMAIN c = 1..Len(a) + Len(b)
      /\ \A i \in 1..Len(a) : c[i] = a[i]
      /\ \A i \in 1..Len(b) : c[i + Len(a)] = b[i]
      /\ \A i \in DOMAIN c : i \notin 1..Len(a) => i - Len(a) \in 1..Len(b) /\ c[i] = b[i - Len(a)]
  BY <1>1
<1>3. Range(c) = S
  BY <1>1, RangeConcat
<1> HIDE DEF c
<1>4. Names(c) = Names(a) \cup Names(b)
  BY <1>3, NamesOfChains
<1>5. ASSUME NEW i \in DOMAIN c
      PROVE  IF i \in 1..Len(a) THEN c[i].name \in Names(a) ELSE c[i].name \in Names(b)
  BY <1>1, <1>2, NamesOfChains
<1>6. Distinct(c)
  <2>1. SUFFICES ASSUME NEW i \in DOMAIN c, NEW j \in DOMAIN c, c[i].name = c[j].name PROVE i = j
    BY DEF Distinct
  <2>2. CASE i \in 1..Len(a) /\ j \in 1..Len(a)
    BY <1>1, <1>2, <2>1, <2>2 DEF Part, Distinct
  <2>3. CASE i \notin 1..Len(a) /\ j \notin 1..Len(a)
    <3>1. i - Len(a) = j - Len(a)
      BY <1>1, <1>2, <2>1, <2>3 DEF Part, Distinct
    <3> QED BY <1>1, <1>2, <3>1
  <2>4. i \in 1..Len(a) <=> j \in 1..Len(a)
    BY <1>5, <2>1
  <2> QED BY <2>2, <2>3, <2>4
<1>7. Part(c)
  <2>1. IsList(c)
    BY <1>2, ListOfRange
  <2>2. \A x \in S : IsChain(x)
    BY DEF Part
  <2> QED BY <1>3, <1>6, <2>1, <2>2 DEF Part
<1>8. ASSUME NEW names, Forwards(a, Names(b) \cup names), Forwards(b, names)
      PROVE  Forwards(c, names)
  <2>1. SUFFICES ASSUME NEW i \in DOMAIN c, NEW r \in Range(c[i].rules),
                        r.target # <<>>, r.target \notin names
                 PROVE  \E j \in DOMAIN c : i < j /\ c[j].name = r.target
    BY DEF Forwards
  <2>2. CASE i \in 1..Len(a)
    <3>1. c[i] = a[i] /\ i \in DOMAIN a
      BY <1>1, <1>2, <2>2
    <3>2. CASE \E j \in DOMAIN a : i < j /\ a[j].name = r.target
      BY <1>1, <1>2, <3>2
    <3>3. CASE r.target \in Names(b)
      <4>1. PICK j \in DOMAIN b : b[j].name = r.target
        BY ONLY <3>3, NamesOfChains DEF Range
      <4>2. j + Len(a) \in DOMAIN c /\ c[j + Len(a)].name = r.target /\ i < j + Len(a)
        BY <1>1, <1>2, <2>2, <4>1
      <4> QED BY <4>2
    <3> QED BY <1>8, <2>1, <3>1, <3>2, <3>3 DEF Forwards
  <2>3. CASE i \notin 1..Len(a)
    <3>1. i - Len(a) \in DOMAIN b /\ c[i] = b[i - Len(a)] /\ i \in Nat
      BY <1>1, <1>2, <2>3
    <3>2. PICK j \in DOMAIN b : i - Len(a) < j /\ b[j].name = r.target
      BY <1>8, <2>1, <3>1 DEF Forwards
    <3>3. j + Len(a) \in DOMAIN c /\ c[j + Len(a)].name = r.target /\ i < j + Len(a)
      BY <1>1, <1>2, <3>1, <3>2
    <3> QED BY <3>3
  <2> QED BY <2>2, <2>3
<1> QED BY <1>3, <1>4, <1>7, <1>8 DEF c

(* No chains at all are a part.                                            *)
LEMMA EmptyPart == Part(<<>>) /\ Names(<<>>) = {} /\ Forwards(<<>>, {})
<1>1. Range(<<>>) = {} /\ DOMAIN <<>> = {}
  BY DEF Range
<1>2. IsList(<<>>)
  BY <1>1 DEF IsList
<1>3. Names(<<>>) = {}
  BY <1>1, NamesOfChains
<1> QED BY <1>1, <1>2, <1>3 DEF Part, Distinct, Forwards

(* Parts in a row, one for each of a list's members.                       *)
LEMMA PartsFlatten ==
    ASSUME NEW n \in Nat, NEW ss, DOMAIN ss = 1..n, ss = [i \in 1..n |-> ss[i]],
           \A i \in 1..n : Part(ss[i]) /\ Forwards(ss[i], {}),
           \A i, j \in 1..n : i # j => Names(ss[i]) \cap Names(ss[j]) = {}
    PROVE  LET c == FlattenSeq(ss)
           IN  /\ Part(c) /\ Forwards(c, {})
               /\ Names(c) = UNION {Names(ss[i]) : i \in 1..n}
               /\ Range(c) = UNION {Range(ss[i]) : i \in 1..n}
<1> DEFINE S == UNION {Range(ss[i]) : i \in 1..n}
           U(k) == UNION {Names(ss[i]) : i \in 1..k}
           T == [k \in 0..n |-> {a \in Seq(S) : Part(a) /\ Forwards(a, {}) /\ Names(a) = U(k)}]
<1>1. ss \in [1..n -> Seq(S)]
  <2>1. \A i \in 1..n : ss[i] \in Seq(Range(ss[i])) /\ Range(ss[i]) \subseteq S
    BY DEF Part, IsList
  <2>2. \A i \in 1..n : ss[i] \in Seq(S)
    BY <2>1
  <2> HIDE DEF S
  <2> QED BY <2>2
<1>2. T \in [0..n -> SUBSET Seq(S)]
  OBVIOUS
<1>3. <<>> \in T[0]
  <2>1. U(0) = {}
    OBVIOUS
  <2>2. <<>> \in Seq(S) /\ 0 \in 0..n
    OBVIOUS
  <2> HIDE DEF S, U
  <2> QED BY <2>1, <2>2, EmptyPart
<1>4. ASSUME NEW i \in 0..n - 1, NEW a \in T[i] PROVE a \o ss[i + 1] \in T[i + 1]
  <2>1. /\ i \in 0..n /\ i + 1 \in 0..n /\ i + 1 \in 1..n
        /\ a \in Seq(S) /\ Part(a) /\ Forwards(a, {}) /\ Names(a) = U(i)
    OBVIOUS
  <2>2. U(i + 1) = U(i) \cup Names(ss[i + 1])
    <3>1. 1..i + 1 = 1..i \cup {i + 1}
      BY <2>1
    <3>2. \A x : x \in U(i + 1) <=> \E j \in 1..i + 1 : x \in Names(ss[j])
      OBVIOUS
    <3>3. \A x : x \in U(i) <=> \E j \in 1..i : x \in Names(ss[j])
      OBVIOUS
    <3> HIDE DEF U
    <3> QED BY <3>1, <3>2, <3>3, Zenon
  <2>3. U(i) \cap Names(ss[i + 1]) = {}
    <3>1. \A j \in 1..i : j \in 1..n /\ j # i + 1
      BY <2>1
    <3> QED BY <2>1, <3>1
  <2> DEFINE b == ss[i + 1]
             c == a \o b
  <2>4. Part(b) /\ Forwards(b, {}) /\ b \in Seq(S)
    BY <1>1, <2>1
  <2> HIDE DEF b, S
  <2>5. c \in Seq(S)
    BY <2>1, <2>4
  <2>6. Forwards(a, Names(b) \cup {})
    BY <2>1 DEF Forwards
  <2>7. Names(a) \cap Names(b) = {}
    BY <2>1, <2>3 DEF b
  <2>8. Part(c) /\ Names(c) = Names(a) \cup Names(b) /\ Forwards(c, {})
    BY <2>1, <2>4, <2>6, <2>7, PartsJoin
  <2>9. Names(c) = U(i + 1)
    BY <2>1, <2>2, <2>8 DEF b
  <2> HIDE DEF c, U
  <2>10. c \in T[i + 1]
    BY <2>1, <2>5, <2>8, <2>9
  <2> QED BY <2>10 DEF c, b
<1>5. FlattenSeq(ss) \in T[n]
  <2> HIDE DEF T, S
  <2> QED BY <1>1, <1>2, <1>3, <1>4, FlattenInduction
<1>6. Range(FlattenSeq(ss)) = S
  BY ONLY n \in Nat, <1>1, FlattenRange, ZenonT(40)
<1>7. n \in 0..n
  OBVIOUS
<1> DEFINE c == FlattenSeq(ss)
<1> HIDE DEF c, S
<1>8. Part(c) /\ Forwards(c, {}) /\ Names(c) = U(n)
  BY <1>5, <1>7 DEF c
<1> QED BY <1>6, <1>8 DEF c, S

(* One chain whose rules only lead to the names.                           *)
LEMMA OneChain ==
    ASSUME NEW c, IsChain(c)
    PROVE  /\ Part(<<c>>) /\ Range(<<c>>) = {c} /\ Names(<<c>>) = {c.name}
           /\ \A names : (\A r \in Range(c.rules) : r.target \in {<<>>} \cup names)
                            => Forwards(<<c>>, names)
<1>1. Range(<<c>>) = {c}
  BY DEF Range
<1>2. IsList(<<c>>)
  BY <1>1 DEF IsList
<1>3. Distinct(<<c>>)
  BY DEF Distinct
<1>4. Names(<<c>>) = {c.name}
  BY <1>1, NamesOfChains
<1>5. ASSUME NEW names, \A r \in Range(c.rules) : r.target \in {<<>>} \cup names
      PROVE  Forwards(<<c>>, names)
  BY <1>5 DEF Forwards
<1> QED BY <1>1, <1>2, <1>3, <1>4, <1>5 DEF Part

(* What the generator relies on of a rule of a policy.                     *)
SoundRule(rule) ==
    /\ IsList(rule.ports) /\ IsList(rule.blocks)
    /\ \A b \in Range(rule.blocks) : IsList(b.except)

(* The sources: anything, or each block with its exceptions.               *)
LEMMA SAddrMatches ==
    ASSUME NEW in, IsList(in)
    PROVE  LET s == MakeSAddrMatches(in)
           IN  /\ IsList(s)
               /\ \A x : x \in Range(s) <=>
                     IF in = <<>> THEN x = [match |-> {}, except |-> <<>>]
                     ELSE \E b \in Range(in) : x = [match |-> {b.cidr}, except |-> b.except]
<1> DEFINE s == MakeSAddrMatches(in)
<1>1. CASE in = <<>>
  <2> DEFINE any == [match |-> {}, except |-> <<>>]
  <2>1. s = <<any>>
    BY <1>1 DEF MakeSAddrMatches
  <2> HIDE DEF any, s
  <2>2. Range(s) = {any} /\ s \in Seq({any})
    BY <2>1 DEF Range
  <2>3. IsList(s)
    BY <2>2 DEF IsList
  <2> QED BY <1>1, <2>2, <2>3 DEF s, any
<1>2. CASE in # <<>>
  <2> DEFINE Of(b) == [match |-> {b.cidr}, except |-> b.except]
  <2>1. s = [i \in DOMAIN in |-> Of(in[i])]
    BY <1>2 DEF MakeSAddrMatches
  <2>2. DOMAIN in = 1..Len(in) /\ Len(in) \in Nat
    BY ListIndex
  <2> HIDE DEF Of, s
  <2>3. Range(s) = {Of(b) : b \in Range(in)}
    BY <2>1 DEF Range
  <2>4. IsList(s)
    BY <2>1, <2>2 DEF IsList, Range
  <2> QED BY <1>2, <2>3, <2>4 DEF s, Of
<1> QED BY <1>1, <1>2

(* The port matches are finitely many.                                     *)
LEMMA FinitePorts ==
    ASSUME NEW in, IsList(in)
    PROVE  LET portMap == MakePortMap(in)
           IN  IsFiniteSet({portMap[proto] : proto \in DOMAIN portMap})
<1> DEFINE portMap == MakePortMap(in)
           f == [x \in Range(in) |-> x.proto]
<1>1. IsFiniteSet(DOMAIN f)
  BY FiniteList
<1>2. IsFiniteSet({f[x] : x \in DOMAIN f})
  <2> HIDE DEF f
  <2> QED BY <1>1, FiniteRange
<1>3. DOMAIN portMap = {f[x] : x \in DOMAIN f}
  BY DEF MakePortMap
<1> HIDE DEF portMap
<1> QED BY <1>2, <1>3, FiniteRange DEF portMap

(* The port matches: anything, or one of each protocol.                    *)
LEMMA PortMatchesList ==
    ASSUME NEW in, IsList(in)
    PROVE  LET s == MakePortMatches(in)
               portMap == MakePortMap(in)
           IN  /\ IsList(s)
               /\ in = <<>> => Range(s) = {{}}
               /\ in # <<>> => Range(s) = {portMap[proto] : proto \in DOMAIN portMap}
<1> DEFINE s == MakePortMatches(in)
           portMap == MakePortMap(in)
           P == {portMap[proto] : proto \in DOMAIN portMap}
<1>1. CASE in = <<>>
  <2>1. s = <<{}>>
    BY <1>1 DEF MakePortMatches
  <2> HIDE DEF s
  <2>2. Range(s) = {{}} /\ s \in Seq({{}})
    BY <2>1 DEF Range
  <2> QED BY <1>1, <2>2 DEF IsList, s
<1>2. CASE in # <<>>
  <2>1. s = SetToSeq(P)
    BY <1>2 DEF MakePortMatches
  <2>2. IsFiniteSet(P)
    BY FinitePorts
  <2> HIDE DEF s, P
  <2> QED BY <1>2, <2>1, <2>2, SetToSeqLists DEF s, P
<1> QED BY <1>1, <1>2

(* The entries of a rule: each source with each list of ports.             *)
LEMMA EntriesOfRule ==
    ASSUME NEW rule, SoundRule(rule)
    PROVE  LET es == MakeIngressRuleChain(rule)
           IN  /\ IsList(es) /\ \A e \in Range(es) : IsList(e.except)
               /\ \A e : e \in Range(es) <=>
                     \E s \in Range(MakeSAddrMatches(rule.blocks)), p \in Range(MakePortMatches(rule.ports)) :
                         e = [src |-> s.match, ports |-> p, except |-> s.except]
<1> DEFINE es == MakeIngressRuleChain(rule)
           saddrs == MakeSAddrMatches(rule.blocks)
           ports == MakePortMatches(rule.ports)
           Entry(s, p) == [src |-> s.match, ports |-> p, except |-> s.except]
           Entries(s) == [k \in DOMAIN ports |-> Entry(s, ports[k])]
           ss == [i \in DOMAIN saddrs |-> Entries(saddrs[i])]
           S == UNION {Range(Entries(s)) : s \in Range(saddrs)}
<1>1. es = FlattenSeq(ss)
  BY DEF MakeIngressRuleChain
<1>2. /\ IsList(saddrs)
      /\ \A x : x \in Range(saddrs) <=>
            IF rule.blocks = <<>> THEN x = [match |-> {}, except |-> <<>>]
            ELSE \E b \in Range(rule.blocks) : x = [match |-> {b.cidr}, except |-> b.except]
  BY SAddrMatches DEF SoundRule
<1>3. IsList(ports)
  BY PortMatchesList DEF SoundRule
<1> HIDE DEF es, saddrs, ports
<1>4. /\ DOMAIN saddrs = 1..Len(saddrs) /\ Len(saddrs) \in Nat
      /\ DOMAIN ports = 1..Len(ports) /\ Len(ports) \in Nat
      /\ \A i \in 1..Len(saddrs) : saddrs[i] \in Range(saddrs)
  BY <1>2, <1>3, ListIndex
<1>5. \A s : Range(Entries(s)) = {Entry(s, p) : p \in Range(ports)}
  BY DEF Range
<1>6. \A s \in Range(saddrs) : Entries(s) \in Seq(S)
  <2>1. SUFFICES ASSUME NEW s \in Range(saddrs) PROVE Entries(s) \in Seq(S)
    OBVIOUS
  <2>2. \A k \in 1..Len(ports) : Entries(s)[k] \in S
    <3>1. \A k \in 1..Len(ports) : Entries(s)[k] \in Range(Entries(s))
      BY <1>4 DEF Range
    <3> HIDE DEF Entries
    <3> QED BY <3>1
  <2> HIDE DEF S, Entry
  <2> QED BY <1>4, <2>2
<1> HIDE DEF Entries
<1>7. ss \in [1..Len(saddrs) -> Seq(S)]
  BY <1>4, <1>6
<1>8. /\ FlattenSeq(ss) \in Seq(S)
      /\ Range(FlattenSeq(ss)) = UNION {Range(ss[i]) : i \in 1..Len(saddrs)}
  <2> HIDE DEF ss, S
  <2> QED BY ONLY Len(saddrs) \in Nat, <1>7, FlattenRange, ZenonT(40)
<1>9. UNION {Range(ss[i]) : i \in 1..Len(saddrs)} = S
  <2>1. \A i \in 1..Len(saddrs) : ss[i] = Entries(saddrs[i])
    BY <1>4
  <2>2. \A s \in Range(saddrs) : \E i \in 1..Len(saddrs) : s = saddrs[i]
    BY <1>4 DEF Range
  <2> HIDE DEF ss
  <2> QED BY <1>4, <2>1, <2>2
<1>10. \A e : e \in Range(es) <=> \E s \in Range(saddrs), p \in Range(ports) : e = Entry(s, p)
  <2>1. Range(es) = S
    BY <1>1, <1>8, <1>9
  <2>2. \A e : e \in S <=> \E s \in Range(saddrs) : e \in Range(Entries(s))
    OBVIOUS
  <2> HIDE DEF ss, S, Entry
  <2> QED BY <1>5, <2>1, <2>2
<1>11. IsList(es)
  BY <1>1, <1>8, ListOfRange
<1>12. \A s \in Range(saddrs) : IsList(s.except)
  <2>1. IsList(<<>>)
    BY DEF IsList, Range
  <2> QED BY <1>2, <2>1 DEF SoundRule
<1>13. \A e \in Range(es) : IsList(e.except)
  BY <1>10, <1>12
<1> QED BY <1>10, <1>11, <1>13 DEF es, saddrs, ports

-----------------------------------------------------------------------------
(* The entries of a rule's chain.                                          *)
SoundEntries(es) == IsList(es) /\ \A e \in Range(es) : IsList(e.except)

(* The chain of an entry jumps nowhere.                                    *)
LEMMA CidrChainIsChain ==
    ASSUME NEW name, name # <<>>, NEW e, IsList(e.except)
    PROVE  /\ IsChain(CidrChain(name, e)) /\ CidrChain(name, e).name = name
           /\ \A r \in Range(CidrChain(name, e).rules) : r.target = <<>>
<1> DEFINE Back(x) == Rule({}, [src |-> {x}, ports |-> {}], "return", <<>>)
           a == [k \in DOMAIN e.except |-> Back(e.except[k])]
           accept == Verdict("accept")
           S == {Back(x) : x \in Range(e.except)} \cup {accept}
<1>1. CidrChain(name, e) = [name |-> name, rules |-> a \o <<accept>>]
  BY DEF CidrChain
<1>2. \A r \in S : r.target = <<>>
  BY DEF Rule, Verdict
<1>3. DOMAIN e.except = 1..Len(e.except) /\ Len(e.except) \in Nat
  BY ListIndex
<1> HIDE DEF Back, accept
<1>4. a \in Seq(S) /\ <<accept>> \in Seq(S)
  BY <1>3 DEF Range
<1> HIDE DEF S, a
<1>5. a \o <<accept>> \in Seq(S)
  BY <1>4
<1> DEFINE rules == a \o <<accept>>
<1> HIDE DEF rules
<1>6. IsList(rules) /\ Range(rules) \subseteq S
  BY <1>5, ListOfRange DEF rules
<1> QED BY <1>1, <1>2, <1>6 DEF IsChain, rules

(* The CIDR chains of a rule.                                              *)
LEMMA CidrChainsPart ==
    ASSUME NEW n, NEW i, NEW es, SoundEntries(es)
    PROVE  LET cs == CidrChains(n, i, es)
           IN  /\ Part(cs) /\ Forwards(cs, {})
               /\ \A x \in Names(cs) : x[1] = "CIDR" /\ x[2] = n /\ x[3] = i
               /\ \A j \in DOMAIN es : es[j].except # <<>> =>
                     CidrChain(<<"CIDR", n, i, j>>, es[j]) \in Range(cs)
<1> DEFINE Chain(j) == CidrChain(<<"CIDR", n, i, j>>, es[j])
           ss == [j \in DOMAIN es |-> IF es[j].except = <<>> THEN <<>> ELSE <<Chain(j)>>]
           cs == CidrChains(n, i, es)
<1>1. cs = FlattenSeq(ss)
  BY DEF CidrChains
<1>2. /\ DOMAIN es = 1..Len(es) /\ Len(es) \in Nat
      /\ \A j \in 1..Len(es) : es[j] \in Range(es)
  BY ListIndex DEF SoundEntries
<1>3. ASSUME NEW j \in 1..Len(es)
      PROVE  /\ IsChain(Chain(j)) /\ Chain(j).name = <<"CIDR", n, i, j>>
             /\ \A r \in Range(Chain(j).rules) : r.target = <<>>
  <2>1. IsList(es[j].except) /\ <<"CIDR", n, i, j>> # <<>>
    BY <1>2 DEF SoundEntries
  <2> QED BY <2>1, CidrChainIsChain
<1> HIDE DEF Chain, cs
<1>4. ASSUME NEW j \in 1..Len(es)
      PROVE  /\ Part(ss[j]) /\ Forwards(ss[j], {})
             /\ \A x \in Names(ss[j]) : x = <<"CIDR", n, i, j>>
             /\ es[j].except # <<>> => Chain(j) \in Range(ss[j])
  <2>1. CASE es[j].except = <<>>
    <3>1. ss[j] = <<>>
      BY <1>2, <2>1
    <3> HIDE DEF ss
    <3> QED BY <2>1, <3>1, EmptyPart
  <2>2. CASE es[j].except # <<>>
    <3>1. ss[j] = <<Chain(j)>>
      BY <1>2, <2>2
    <3>2. /\ Part(<<Chain(j)>>) /\ Range(<<Chain(j)>>) = {Chain(j)} /\ Names(<<Chain(j)>>) = {Chain(j).name}
          /\ Forwards(<<Chain(j)>>, {})
      BY <1>3, OneChain
    <3> HIDE DEF ss
    <3> QED BY <1>3, <3>1, <3>2
  <2> QED BY <2>1, <2>2
<1>5. \A j, k \in 1..Len(es) : j # k => Names(ss[j]) \cap Names(ss[k]) = {}
  <2>1. \A j, k \in 1..Len(es) : j # k => <<"CIDR", n, i, j>> # <<"CIDR", n, i, k>>
    OBVIOUS
  <2> HIDE DEF ss
  <2> QED BY <1>4, <2>1
<1>6. DOMAIN ss = 1..Len(es) /\ ss = [j \in 1..Len(es) |-> ss[j]]
  BY <1>2
<1> HIDE DEF ss
<1>7. /\ Part(cs) /\ Forwards(cs, {})
      /\ Names(cs) = UNION {Names(ss[j]) : j \in 1..Len(es)}
      /\ Range(cs) = UNION {Range(ss[j]) : j \in 1..Len(es)}
  BY <1>1, <1>2, <1>4, <1>5, <1>6, PartsFlatten
<1>8. \A x \in Names(cs) : x[1] = "CIDR" /\ x[2] = n /\ x[3] = i
  <2>1. SUFFICES ASSUME NEW x \in Names(cs) PROVE x[1] = "CIDR" /\ x[2] = n /\ x[3] = i
    OBVIOUS
  <2>2. PICK j \in 1..Len(es) : x \in Names(ss[j])
    BY <1>7
  <2>3. x = <<"CIDR", n, i, j>>
    BY <1>4, <2>2
  <2> QED BY <2>3
<1>9. \A j \in 1..Len(es) : es[j].except # <<>> => Chain(j) \in Range(cs)
  BY <1>4, <1>7
<1> QED BY <1>2, <1>7, <1>8, <1>9 DEF Chain, cs

(* The chains of a rule: the first one jumps to the others.                *)
LEMMA RuleChainsPart ==
    ASSUME NEW n, NEW i, NEW es, SoundEntries(es)
    PROVE  LET cs == RuleChains(n, i, es)
           IN  /\ Part(cs) /\ Forwards(cs, {})
               /\ \A x \in Names(cs) : x[1] \in {"RULE", "CIDR"} /\ x[2] = n /\ x[3] = i
               /\ RuleChain(n, i, es) \in Range(cs)
               /\ \A j \in DOMAIN es : es[j].except # <<>> =>
                     CidrChain(<<"CIDR", n, i, j>>, es[j]) \in Range(cs)
<1> DEFINE c == RuleChain(n, i, es)
           cidrs == CidrChains(n, i, es)
           Of(j) == IF es[j].except = <<>> THEN Rule({}, es[j], "accept", <<>>)
                                           ELSE Rule({}, es[j], "jump", <<"CIDR", n, i, j>>)
<1>1. /\ Part(cidrs) /\ Forwards(cidrs, {})
      /\ \A x \in Names(cidrs) : x[1] = "CIDR" /\ x[2] = n /\ x[3] = i
      /\ \A j \in DOMAIN es : es[j].except # <<>> =>
            CidrChain(<<"CIDR", n, i, j>>, es[j]) \in Range(cidrs)
  BY CidrChainsPart
<1>2. DOMAIN es = 1..Len(es) /\ Len(es) \in Nat /\ \A j \in 1..Len(es) : es[j] \in Range(es)
  BY ListIndex DEF SoundEntries
<1>3. c = [name |-> <<"RULE", n, i>>, rules |-> [j \in DOMAIN es |-> Of(j)]]
  BY DEF RuleChain
<1>4. \A j \in DOMAIN es : Of(j).target \in {<<>>} \cup Names(cidrs)
  <2>1. SUFFICES ASSUME NEW j \in DOMAIN es PROVE Of(j).target \in {<<>>} \cup Names(cidrs)
    OBVIOUS
  <2>2. CASE es[j].except = <<>>
    BY <2>2 DEF Rule
  <2>3. CASE es[j].except # <<>>
    <3>1. Of(j).target = <<"CIDR", n, i, j>>
      BY <2>3 DEF Rule
    <3>2. CidrChain(<<"CIDR", n, i, j>>, es[j]).name = <<"CIDR", n, i, j>>
      BY DEF CidrChain
    <3> HIDE DEF Of, cidrs
    <3>3. <<"CIDR", n, i, j>> \in Names(cidrs)
      BY <1>1, <2>3, <3>2, NamesOfChains
    <3> QED BY <3>1, <3>3
  <2> QED BY <2>2, <2>3
<1> HIDE DEF c, cidrs, Of
<1>5. IsList(c.rules) /\ Range(c.rules) = {Of(j) : j \in DOMAIN es}
  BY <1>2, <1>3 DEF IsList, Range
<1>6. c.name = <<"RULE", n, i>> /\ c = [name |-> c.name, rules |-> c.rules]
  BY <1>3
<1>7. IsChain(c)
  BY <1>5, <1>6 DEF IsChain
<1>8. \A r \in Range(c.rules) : r.target \in {<<>>} \cup (Names(cidrs) \cup {})
  BY <1>4, <1>5
<1>9. Part(<<c>>) /\ Range(<<c>>) = {c} /\ Names(<<c>>) = {c.name} /\ Forwards(<<c>>, Names(cidrs) \cup {})
  BY <1>7, <1>8, OneChain
<1>10. Names(<<c>>) \cap Names(cidrs) = {}
  <2>1. c.name[1] = "RULE" /\ "RULE" # "CIDR"
    BY <1>6
  <2> QED BY <1>1, <1>9, <2>1
<1>11. /\ Part(<<c>> \o cidrs) /\ Names(<<c>> \o cidrs) = Names(<<c>>) \cup Names(cidrs)
       /\ Range(<<c>> \o cidrs) = Range(<<c>>) \cup Range(cidrs)
       /\ Forwards(<<c>> \o cidrs, {})
  BY <1>1, <1>9, <1>10, PartsJoin
<1>12. RuleChains(n, i, es) = <<c>> \o cidrs
  BY DEF RuleChains, c, cidrs
<1>13. \A x \in Names(<<c>> \o cidrs) : x[1] \in {"RULE", "CIDR"} /\ x[2] = n /\ x[3] = i
  <2>1. c.name[1] = "RULE" /\ c.name[2] = n /\ c.name[3] = i
    BY <1>6
  <2> QED BY <1>1, <1>9, <1>11, <2>1
<1> QED BY <1>1, <1>9, <1>11, <1>12, <1>13 DEF c

(* What the generator relies on of a policy.                               *)
SoundPolicy(pol) == IsList(pol.ingresses) /\ \A rule \in Range(pol.ingresses) : SoundRule(rule)

(* The chains of a policy, which only jump forwards.                       *)
LEMMA PolicyChainsPart ==
    ASSUME NEW pol, SoundPolicy(pol)
    PROVE  LET cs == PolicyChains(pol)
           IN  /\ Part(cs) /\ Forwards(cs, {})
               /\ \A x \in Names(cs) : x[1] \in {"POLICY", "RULE", "CIDR"} /\ x[2] = pol.name
               /\ PolicyChain(pol) \in Range(cs)
               /\ \A i \in DOMAIN pol.ingresses :
                     Range(RuleChains(pol.name, i, MakeIngressRuleChain(pol.ingresses[i]))) \subseteq Range(cs)
<1> DEFINE n == pol.name
           m == Len(pol.ingresses)
           c == PolicyChain(pol)
           Of(i) == RuleChains(n, i, MakeIngressRuleChain(pol.ingresses[i]))
           ss == [i \in DOMAIN pol.ingresses |-> Of(i)]
           rest == FlattenSeq(ss)
<1>1. /\ DOMAIN pol.ingresses = 1..m /\ m \in Nat
      /\ \A i \in 1..m : pol.ingresses[i] \in Range(pol.ingresses)
  BY ListIndex DEF SoundPolicy
<1>2. ASSUME NEW i \in 1..m
      PROVE  /\ Part(Of(i)) /\ Forwards(Of(i), {})
             /\ \A x \in Names(Of(i)) : x[1] \in {"RULE", "CIDR"} /\ x[2] = n /\ x[3] = i
             /\ <<"RULE", n, i>> \in Names(Of(i))
  <2> DEFINE es == MakeIngressRuleChain(pol.ingresses[i])
  <2>1. SoundEntries(es)
    BY <1>1, EntriesOfRule DEF SoundPolicy, SoundEntries
  <2> HIDE DEF es
  <2> DEFINE cs == RuleChains(n, i, es)
  <2>2. /\ Part(cs) /\ Forwards(cs, {})
        /\ \A x \in Names(cs) : x[1] \in {"RULE", "CIDR"} /\ x[2] = n /\ x[3] = i
        /\ RuleChain(n, i, es) \in Range(cs)
    BY <2>1, RuleChainsPart
  <2>3. RuleChain(n, i, es).name = <<"RULE", n, i>>
    BY DEF RuleChain
  <2> HIDE DEF cs
  <2>4. <<"RULE", n, i>> \in Names(cs)
    BY <2>2, <2>3, NamesOfChains
  <2> QED BY <2>2, <2>4 DEF cs, es
<1> HIDE DEF Of, c
<1>3. ss = [i \in 1..m |-> ss[i]] /\ DOMAIN ss = 1..m /\ \A i \in 1..m : ss[i] = Of(i)
  BY <1>1
<1> HIDE DEF ss, m, n
<1>4. ASSUME NEW i \in 1..m
      PROVE  /\ Part(ss[i]) /\ Forwards(ss[i], {}) /\ <<"RULE", n, i>> \in Names(ss[i])
             /\ \A x \in Names(ss[i]) : x[1] \in {"RULE", "CIDR"} /\ x[2] = n /\ x[3] = i
  <2>1. ss[i] = Of(i)
    BY <1>3
  <2> QED BY <1>2, <2>1
<1>5. \A i, j \in 1..m : i # j => Names(ss[i]) \cap Names(ss[j]) = {}
  <2>1. SUFFICES ASSUME NEW i \in 1..m, NEW j \in 1..m, NEW x \in Names(ss[i]), x \in Names(ss[j])
                 PROVE  i = j
    OBVIOUS
  <2>2. x[3] = i
    BY <1>4
  <2>3. x[3] = j
    BY <1>4, <2>1
  <2> QED BY <2>2, <2>3
<1> HIDE DEF rest
<1>6. \A i \in 1..m : Part(ss[i]) /\ Forwards(ss[i], {})
  BY <1>4
<1>7. /\ Part(rest) /\ Forwards(rest, {})
      /\ Names(rest) = UNION {Names(ss[i]) : i \in 1..m}
      /\ Range(rest) = UNION {Range(ss[i]) : i \in 1..m}
  <2>1. m \in Nat
    BY <1>1
  <2> QED BY <1>3, <1>5, <1>6, <2>1, PartsFlatten DEF rest
<1>8. \A x \in Names(rest) : x[1] \in {"RULE", "CIDR"} /\ x[2] = n
  <2>1. SUFFICES ASSUME NEW x \in Names(rest) PROVE x[1] \in {"RULE", "CIDR"} /\ x[2] = n
    OBVIOUS
  <2>2. PICK i \in 1..m : x \in Names(ss[i])
    BY <1>7
  <2> QED BY <1>4, <2>2
<1>9. c = [name |-> <<"POLICY", n>>, rules |-> [i \in 1..m |-> Jump(<<"RULE", n, i>>)]]
  BY <1>1 DEF PolicyChain, c, n
<1>10. IsList(c.rules) /\ Range(c.rules) = {Jump(<<"RULE", n, i>>) : i \in 1..m}
  <2> DEFINE J(i) == Jump(<<"RULE", n, i>>)
  <2> HIDE DEF J
  <2>1. c.rules = [i \in 1..m |-> J(i)]
    BY <1>9 DEF J
  <2>2. Range(c.rules) = {J(i) : i \in 1..m} /\ IsList(c.rules)
    BY <1>1, <2>1 DEF IsList, Range
  <2> QED BY <2>2 DEF J
<1>11. c.name = <<"POLICY", n>> /\ c = [name |-> c.name, rules |-> c.rules]
  BY <1>9
<1>12. IsChain(c)
  BY <1>10, <1>11 DEF IsChain
<1>13. \A i \in 1..m : Jump(<<"RULE", n, i>>).target \in {<<>>} \cup (Names(rest) \cup {})
  <2>1. \A i \in 1..m : Jump(<<"RULE", n, i>>).target = <<"RULE", n, i>>
    BY DEF Jump, Rule
  <2>2. \A i \in 1..m : <<"RULE", n, i>> \in Names(rest)
    BY <1>7, <1>4
  <2> QED BY <2>1, <2>2
<1>14. \A r \in Range(c.rules) : r.target \in {<<>>} \cup (Names(rest) \cup {})
  BY <1>10, <1>13
<1>15. Part(<<c>>) /\ Range(<<c>>) = {c} /\ Names(<<c>>) = {c.name} /\ Forwards(<<c>>, Names(rest) \cup {})
  BY <1>12, <1>14, OneChain
<1>16. Names(<<c>>) \cap Names(rest) = {}
  <2>1. c.name[1] = "POLICY" /\ "POLICY" \notin {"RULE", "CIDR"}
    BY <1>11
  <2> QED BY <1>11, <1>15, <1>8, <2>1
<1>17. /\ Part(<<c>> \o rest) /\ Names(<<c>> \o rest) = Names(<<c>>) \cup Names(rest)
       /\ Range(<<c>> \o rest) = Range(<<c>>) \cup Range(rest)
       /\ Forwards(<<c>> \o rest, {})
  BY <1>7, <1>15, <1>16, PartsJoin
<1>18. PolicyChains(pol) = <<c>> \o rest
  BY DEF PolicyChains, c, rest, ss, Of, n
<1>19. \A x \in Names(<<c>> \o rest) : x[1] \in {"POLICY", "RULE", "CIDR"} /\ x[2] = n
  <2>1. c.name[1] = "POLICY" /\ c.name[2] = n
    BY <1>11
  <2> QED BY <1>15, <1>17, <1>8, <2>1
<1>20. \A i \in 1..m : Range(Of(i)) \subseteq Range(<<c>> \o rest)
  BY <1>3, <1>7, <1>17
<1> QED BY <1>1, <1>15, <1>17, <1>18, <1>19, <1>20 DEF c, Of, n

-----------------------------------------------------------------------------
(* What the agent relies on of a load balancer model.                      *)
SoundModel(m) ==
    /\ IsList(m.policies) /\ \A pol \in Range(m.policies) : SoundPolicy(pol)
    /\ IsFiniteSet(m.assignments)
    /\ \A a \in m.assignments : a.policies \subseteq {pol.name : pol \in Range(m.policies)}
    /\ \A a, b \in m.assignments : a.address = b.address => a = b

(* The names under which the policies are known to nft.                    *)
PolicyNames(m) == {pol.name : pol \in Range(m.policies)}

(* They are finitely many.                                                 *)
LEMMA FiniteNames ==
    ASSUME NEW m, SoundModel(m)
    PROVE  IsFiniteSet(PolicyNames(m))
<1> DEFINE f == [pol \in Range(m.policies) |-> pol.name]
<1>1. IsFiniteSet(DOMAIN f)
  BY FiniteList DEF SoundModel
<1>2. PolicyNames(m) = {f[x] : x \in DOMAIN f}
  BY DEF PolicyNames
<1> HIDE DEF f
<1> QED BY <1>1, <1>2, FiniteRange

(* Each of them is the name of the policy that is generated.               *)
LEMMA NamedPolicy ==
    ASSUME NEW m, SoundModel(m), NEW n \in PolicyNames(m)
    PROVE  /\ PolicyNamed(m, n) \in Range(m.policies)
           /\ PolicyNamed(m, n).name = n
<1> DEFINE I == {i \in DOMAIN m.policies : m.policies[i].name = n}
<1>1. DOMAIN m.policies = 1..Len(m.policies) /\ Len(m.policies) \in Nat
  BY ListIndex DEF SoundModel
<1>2. I # {} /\ I \in SUBSET (1..Len(m.policies))
  BY <1>1 DEF PolicyNames, Range
<1> HIDE DEF I
<1>3. \E i \in I : \A j \in I : j <= i
  BY <1>1, <1>2, HasMaximum
<1>4. Highest(I) \in I
  BY <1>3 DEF Highest
<1> QED BY <1>4 DEF PolicyNamed, I, Range

(* A pod's chain jumps to the policies that are assigned to it.            *)
LEMMA PodChainIsChain ==
    ASSUME NEW a, IsFiniteSet(a.policies)
    PROVE  /\ IsChain(PodChain(a)) /\ PodChain(a).name = <<"POD", a.address>>
           /\ \A r \in Range(PodChain(a).rules) :
                 r.target = <<>> \/ \E n \in a.policies : r.target = <<"POLICY", n>>
<1> DEFINE names == SetToSeq(a.policies)
           To(n) == Jump(<<"POLICY", n>>)
           jumps == [i \in DOMAIN names |-> To(names[i])]
           drop == Verdict("drop")
           S == {To(n) : n \in a.policies} \cup {drop}
<1>1. PodChain(a) = [name |-> <<"POD", a.address>>, rules |-> jumps \o <<drop>>]
  BY DEF PodChain
<1>2. \A r \in S : r.target = <<>> \/ \E n \in a.policies : r.target = <<"POLICY", n>>
  BY DEF Rule, Verdict, Jump
<1>3. IsList(names) /\ Range(names) = a.policies
  BY SetToSeqLists
<1> HIDE DEF names, To, drop
<1>4. DOMAIN names = 1..Len(names) /\ Len(names) \in Nat
  BY <1>3, ListIndex
<1>5. jumps \in Seq(S) /\ <<drop>> \in Seq(S)
  BY <1>3, <1>4 DEF Range
<1> HIDE DEF S, jumps
<1> DEFINE rules == jumps \o <<drop>>
<1>6. rules \in Seq(S)
  BY <1>5
<1> HIDE DEF rules
<1>7. IsList(rules) /\ Range(rules) \subseteq S
  BY <1>6, ListOfRange
<1>8. PodChain(a) = [name |-> <<"POD", a.address>>, rules |-> rules]
  BY <1>1 DEF rules
<1> QED BY <1>2, <1>7, <1>8 DEF IsChain

(* The pod chains, which jump to policy chains only.                       *)
LEMMA PodChainsPart ==
    ASSUME NEW m, SoundModel(m)
    PROVE  LET assignments == SetToSeq(m.assignments)
               cs == [i \in DOMAIN assignments |-> PodChain(assignments[i])]
           IN  /\ Part(cs) /\ Range(cs) = {PodChain(a) : a \in m.assignments}
               /\ \A x \in Names(cs) : x[1] = "POD"
               /\ Forwards(cs, {<<"POLICY", n>> : n \in PolicyNames(m)})
<1> DEFINE assignments == SetToSeq(m.assignments)
           cs == [i \in DOMAIN assignments |-> PodChain(assignments[i])]
<1>1. /\ IsList(assignments) /\ Range(assignments) = m.assignments
      /\ \A i, j \in DOMAIN assignments : assignments[i] = assignments[j] => i = j
  BY SetToSeqLists DEF SoundModel
<1> HIDE DEF assignments
<1>2. /\ DOMAIN assignments = 1..Len(assignments) /\ Len(assignments) \in Nat
      /\ \A i \in 1..Len(assignments) : assignments[i] \in m.assignments
      /\ \A a \in m.assignments : \E i \in 1..Len(assignments) : a = assignments[i]
  BY <1>1, ListIndex
<1>3. \A a \in m.assignments : IsFiniteSet(a.policies)
  <2>1. SUFFICES ASSUME NEW a \in m.assignments PROVE IsFiniteSet(a.policies)
    OBVIOUS
  <2>2. a.policies \in SUBSET PolicyNames(m)
    BY DEF SoundModel, PolicyNames
  <2> QED BY <2>2, FiniteNames, FS_Subset
<1>4. \A i \in DOMAIN cs : cs[i] = PodChain(assignments[i])
  OBVIOUS
<1>5. DOMAIN cs = 1..Len(assignments) /\ cs = [i \in 1..Len(assignments) |-> cs[i]]
  BY <1>2
<1> HIDE DEF cs
<1>6. Range(cs) = {PodChain(a) : a \in m.assignments}
  BY <1>2, <1>4, <1>5 DEF Range
<1>7. IsList(cs)
  BY <1>2, <1>5 DEF IsList, Range
<1>8. Distinct(cs)
  <2>1. SUFFICES ASSUME NEW i \in DOMAIN cs, NEW j \in DOMAIN cs, cs[i].name = cs[j].name
                 PROVE  i = j
    BY DEF Distinct
  <2>2. cs[i].name = <<"POD", assignments[i].address>> /\ cs[j].name = <<"POD", assignments[j].address>>
    BY <1>2, <1>3, <1>4, <1>5, PodChainIsChain
  <2>3. assignments[i].address = assignments[j].address
    <3>1. cs[i].name[2] = assignments[i].address /\ cs[j].name[2] = assignments[j].address
      BY <2>2
    <3> QED BY <2>1, <3>1
  <2> QED BY <1>1, <1>2, <1>5, <2>3 DEF SoundModel
<1>9. \A a \in m.assignments : IsChain(PodChain(a)) /\ PodChain(a).name = <<"POD", a.address>>
        /\ \A r \in Range(PodChain(a).rules) :
                 r.target = <<>> \/ \E n \in a.policies : r.target = <<"POLICY", n>>
  BY <1>3, PodChainIsChain
<1>10. Part(cs)
  BY <1>6, <1>7, <1>8, <1>9 DEF Part
<1>11. \A x \in Names(cs) : x[1] = "POD"
  <2>1. \A a \in m.assignments : PodChain(a).name[1] = "POD"
    BY <1>9
  <2> QED BY <1>6, <2>1, NamesOfChains
<1>12. Forwards(cs, {<<"POLICY", n>> : n \in PolicyNames(m)})
  <2>1. SUFFICES ASSUME NEW i \in DOMAIN cs, NEW r \in Range(cs[i].rules), r.target # <<>>
                 PROVE  \E n \in PolicyNames(m) : r.target = <<"POLICY", n>>
    BY DEF Forwards
  <2>2. assignments[i] \in m.assignments /\ r \in Range(PodChain(assignments[i]).rules)
    BY <1>2, <1>4, <1>5
  <2>3. PICK n \in assignments[i].policies : r.target = <<"POLICY", n>>
    BY <1>9, <2>1, <2>2
  <2>4. n \in PolicyNames(m)
    BY <2>2 DEF SoundModel, PolicyNames
  <2> QED BY <2>3, <2>4
<1> QED BY <1>6, <1>10, <1>11, <1>12 DEF cs, assignments

(* The forward chain jumps to the pod chains.                              *)
LEMMA ForwardChainIsChain ==
    ASSUME NEW m, SoundModel(m)
    PROVE  LET c == ForwardChain(SetToSeq(m.assignments))
           IN  /\ IsChain(c) /\ c.name = FORWARD
               /\ \A r \in Range(c.rules) :
                     r.target = <<>> \/ \E a \in m.assignments : r.target = <<"POD", a.address>>
<1> DEFINE assignments == SetToSeq(m.assignments)
           To(a) == Rule({a.address}, Always, "goto", <<"POD", a.address>>)
           gotos == [i \in DOMAIN assignments |-> To(assignments[i])]
           accept == Verdict("accept")
           S == {To(a) : a \in m.assignments} \cup {accept}
<1>1. ForwardChain(assignments) = [name |-> FORWARD, rules |-> gotos \o <<accept>>]
  BY DEF ForwardChain
<1>2. \A r \in S : r.target = <<>> \/ \E a \in m.assignments : r.target = <<"POD", a.address>>
  BY DEF Rule, Verdict
<1>3. IsList(assignments) /\ Range(assignments) = m.assignments
  BY SetToSeqLists DEF SoundModel
<1> HIDE DEF assignments, To, accept
<1>4. DOMAIN assignments = 1..Len(assignments) /\ Len(assignments) \in Nat
  BY <1>3, ListIndex
<1>5. gotos \in Seq(S) /\ <<accept>> \in Seq(S)
  BY <1>3, <1>4 DEF Range
<1> HIDE DEF S, gotos
<1> DEFINE rules == gotos \o <<accept>>
<1>6. rules \in Seq(S)
  BY <1>5
<1> HIDE DEF rules
<1>7. IsList(rules) /\ Range(rules) \subseteq S
  BY <1>6, ListOfRange
<1>8. ForwardChain(assignments) = [name |-> FORWARD, rules |-> rules] /\ FORWARD # <<>>
  BY <1>1 DEF rules, FORWARD
<1> QED BY <1>2, <1>7, <1>8 DEF IsChain, assignments

(* The chains of all policies.                                             *)
LEMMA PoliciesPart ==
    ASSUME NEW m, SoundModel(m)
    PROVE  LET names == SetToSeq(PolicyNames(m))
               cs == FlattenSeq([i \in DOMAIN names |-> PolicyChains(PolicyNamed(m, names[i]))])
           IN  /\ Part(cs) /\ Forwards(cs, {})
               /\ \A x \in Names(cs) : x[1] \in {"POLICY", "RULE", "CIDR"}
               /\ \A n \in PolicyNames(m) : /\ <<"POLICY", n>> \in Names(cs)
                                            /\ Range(PolicyChains(PolicyNamed(m, n))) \subseteq Range(cs)
<1> DEFINE names == SetToSeq(PolicyNames(m))
           Of(n) == PolicyChains(PolicyNamed(m, n))
           ss == [i \in DOMAIN names |-> Of(names[i])]
           cs == FlattenSeq(ss)
<1>1. /\ IsList(names) /\ Range(names) = PolicyNames(m)
      /\ \A i, j \in DOMAIN names : names[i] = names[j] => i = j
  BY SetToSeqLists, FiniteNames
<1> HIDE DEF names
<1>2. /\ DOMAIN names = 1..Len(names) /\ Len(names) \in Nat
      /\ \A i \in 1..Len(names) : names[i] \in PolicyNames(m)
      /\ \A n \in PolicyNames(m) : \E i \in 1..Len(names) : n = names[i]
  BY <1>1, ListIndex
<1>3. ASSUME NEW n \in PolicyNames(m)
      PROVE  /\ Part(Of(n)) /\ Forwards(Of(n), {})
             /\ \A x \in Names(Of(n)) : x[1] \in {"POLICY", "RULE", "CIDR"} /\ x[2] = n
             /\ <<"POLICY", n>> \in Names(Of(n))
  <2> DEFINE pol == PolicyNamed(m, n)
  <2>1. SoundPolicy(pol) /\ pol.name = n
    BY NamedPolicy DEF SoundModel
  <2> HIDE DEF pol
  <2> DEFINE ps == PolicyChains(pol)
  <2>2. /\ Part(ps) /\ Forwards(ps, {})
        /\ \A x \in Names(ps) : x[1] \in {"POLICY", "RULE", "CIDR"} /\ x[2] = pol.name
        /\ PolicyChain(pol) \in Range(ps)
    BY <2>1, PolicyChainsPart
  <2>3. PolicyChain(pol).name = <<"POLICY", n>>
    BY <2>1 DEF PolicyChain
  <2> HIDE DEF ps
  <2>4. <<"POLICY", n>> \in Names(ps)
    BY <2>2, <2>3, NamesOfChains
  <2> QED BY <2>1, <2>2, <2>4 DEF ps, pol
<1> HIDE DEF Of
<1>4. ss = [i \in 1..Len(names) |-> ss[i]] /\ DOMAIN ss = 1..Len(names)
      /\ \A i \in 1..Len(names) : ss[i] = Of(names[i])
  BY <1>2
<1> HIDE DEF ss
<1>5. ASSUME NEW i \in 1..Len(names)
      PROVE  /\ Part(ss[i]) /\ Forwards(ss[i], {})
             /\ \A x \in Names(ss[i]) : x[1] \in {"POLICY", "RULE", "CIDR"} /\ x[2] = names[i]
  <2>1. ss[i] = Of(names[i]) /\ names[i] \in PolicyNames(m)
    BY <1>2, <1>4
  <2> QED BY <1>3, <2>1
<1>6. \A i, j \in 1..Len(names) : i # j => Names(ss[i]) \cap Names(ss[j]) = {}
  <2>1. SUFFICES ASSUME NEW i \in 1..Len(names), NEW j \in 1..Len(names),
                        NEW x \in Names(ss[i]), x \in Names(ss[j])
                 PROVE  i = j
    OBVIOUS
  <2>2. x[2] = names[i]
    BY <1>5
  <2>3. x[2] = names[j]
    BY <1>5, <2>1
  <2> QED BY <1>1, <1>2, <2>2, <2>3
<1>7. \A i \in 1..Len(names) : Part(ss[i]) /\ Forwards(ss[i], {})
  BY <1>5
<1>8. /\ Part(cs) /\ Forwards(cs, {})
      /\ Names(cs) = UNION {Names(ss[i]) : i \in 1..Len(names)}
      /\ Range(cs) = UNION {Range(ss[i]) : i \in 1..Len(names)}
  <2>1. Len(names) \in Nat
    BY <1>2
  <2> QED BY <1>4, <1>6, <1>7, <2>1, PartsFlatten
<1> HIDE DEF cs
<1>9. \A x \in Names(cs) : x[1] \in {"POLICY", "RULE", "CIDR"}
  <2>1. SUFFICES ASSUME NEW x \in Names(cs) PROVE x[1] \in {"POLICY", "RULE", "CIDR"}
    OBVIOUS
  <2>2. PICK i \in 1..Len(names) : x \in Names(ss[i])
    BY <1>8
  <2> QED BY <1>5, <2>2
<1>10. ASSUME NEW n \in PolicyNames(m)
       PROVE  <<"POLICY", n>> \in Names(cs) /\ Range(Of(n)) \subseteq Range(cs)
  <2>1. PICK i \in 1..Len(names) : n = names[i]
    BY <1>2
  <2>2. ss[i] = Of(n) /\ <<"POLICY", n>> \in Names(Of(n))
    BY <1>3, <1>4, <2>1
  <2> QED BY <1>8, <2>2
<1> QED BY <1>8, <1>9, <1>10 DEF cs, ss, names, Of

(* The chains of a generated file, in the template's order: each one is    *)
(* there, no name comes twice, and every jump leads further on in the      *)
(* file.                                                                   *)
THEOREM GeneratedChains ==
    ASSUME NEW m, SoundModel(m), NEW existing
    PROVE  LET cs == Generate(m, existing).chains
           IN  /\ Shaped(cs) /\ Forwards(cs, {})
               /\ ForwardChain(SetToSeq(m.assignments)) \in Range(cs)
               /\ \A a \in m.assignments : PodChain(a) \in Range(cs)
               /\ \A n \in PolicyNames(m) : Range(PolicyChains(PolicyNamed(m, n))) \subseteq Range(cs)
<1> DEFINE assignments == SetToSeq(m.assignments)
           names == SetToSeq(PolicyNames(m))
           c == ForwardChain(assignments)
           pods == [i \in DOMAIN assignments |-> PodChain(assignments[i])]
           pols == FlattenSeq([i \in DOMAIN names |-> PolicyChains(PolicyNamed(m, names[i]))])
<1>1. Generate(m, existing).chains = (<<c>> \o pods) \o pols
  BY DEF Generate, PolicyNames
<1>2. /\ Part(pods) /\ Range(pods) = {PodChain(a) : a \in m.assignments}
      /\ \A x \in Names(pods) : x[1] = "POD"
      /\ Forwards(pods, {<<"POLICY", n>> : n \in PolicyNames(m)})
  BY PodChainsPart
<1>3. /\ Part(pols) /\ Forwards(pols, {})
      /\ \A x \in Names(pols) : x[1] \in {"POLICY", "RULE", "CIDR"}
      /\ \A n \in PolicyNames(m) : /\ <<"POLICY", n>> \in Names(pols)
                                   /\ Range(PolicyChains(PolicyNamed(m, n))) \subseteq Range(pols)
  BY PoliciesPart
<1>4. /\ IsChain(c) /\ c.name = FORWARD
      /\ \A r \in Range(c.rules) :
            r.target = <<>> \/ \E a \in m.assignments : r.target = <<"POD", a.address>>
  BY ForwardChainIsChain
<1> HIDE DEF c, pods, pols
<1>5. \A a \in m.assignments : <<"POD", a.address>> \in Names(pods)
  <2>1. SUFFICES ASSUME NEW a \in m.assignments PROVE <<"POD", a.address>> \in Names(pods)
    OBVIOUS
  <2>2. PodChain(a).name = <<"POD", a.address>>
    BY DEF PodChain
  <2> QED BY <1>2, <2>2, NamesOfChains
<1>6. \A r \in Range(c.rules) : r.target \in {<<>>} \cup (Names(pods) \cup Names(pols))
  BY <1>4, <1>5
<1>7. /\ Part(<<c>>) /\ Range(<<c>>) = {c} /\ Names(<<c>>) = {c.name}
      /\ Forwards(<<c>>, Names(pods) \cup Names(pols))
  BY <1>4, <1>6, OneChain
<1>8. FORWARD[1] = "forward" /\ "forward" # "POD" /\ "forward" \notin {"POLICY", "RULE", "CIDR"}
  BY DEF FORWARD
<1>9. Names(<<c>>) \cap Names(pods) = {}
  BY <1>2, <1>4, <1>7, <1>8
<1>10. Forwards(pods, Names(pols))
  BY <1>2, <1>3 DEF Forwards
<1> DEFINE head == <<c>> \o pods
<1>11. /\ Part(head) /\ Names(head) = Names(<<c>>) \cup Names(pods)
       /\ Range(head) = Range(<<c>>) \cup Range(pods) /\ Forwards(head, Names(pols))
  BY <1>2, <1>7, <1>9, <1>10, PartsJoin
<1>12. head # <<>> /\ head[1] = c
  <2>1. pods \in Seq(Range(pods))
    BY <1>2 DEF Part, IsList
  <2> QED BY <2>1
<1> HIDE DEF head
<1>13. Names(head) \cap Names(pols) = {}
  <2>1. \A x \in Names(pods) : x \notin Names(pols)
    BY <1>2, <1>3
  <2> QED BY <1>3, <1>4, <1>7, <1>8, <1>11, <2>1
<1>14. Forwards(head, Names(pols) \cup {})
  BY <1>11
<1> DEFINE cs == head \o pols
<1>15. /\ Part(cs) /\ Names(cs) = Names(head) \cup Names(pols)
       /\ Range(cs) = Range(head) \cup Range(pols) /\ Forwards(cs, {})
  BY <1>3, <1>11, <1>13, <1>14, PartsJoin
<1>16. cs # <<>> /\ cs[1] = c
  <2>1. head \in Seq(Range(head) \cup Range(pols)) /\ pols \in Seq(Range(head) \cup Range(pols))
    <3>1. head \in Seq(Range(head)) /\ pols \in Seq(Range(pols))
      BY <1>3, <1>11 DEF Part, IsList
    <3> QED BY <3>1
  <2>2. Len(head) \in Nat \ {0}
    BY <1>12, <2>1
  <2> QED BY <1>12, <2>1, <2>2
<1> HIDE DEF cs
<1>17. Shaped(cs)
  BY <1>4, <1>15, <1>16 DEF Shaped, Part
<1> QED BY <1>1, <1>2, <1>3, <1>7, <1>11, <1>15, <1>17 DEF cs, head, c

(* What Kubernetes sees to in an ingress rule of a policy.                 *)
SoundIngress(rule) ==
    /\ IsList(rule.from) /\ \A peer \in Range(rule.from) : IsList(peer.except)
    /\ IsList(rule.ports)

(* The rules that are for traffic from outside of the cluster.             *)
IsExternal(rule) == rule.from = <<>> \/ \E peer \in Range(rule.from) : peer.block

(* A rule of the Pod model: the blocks among its peers, and its ports.     *)
LEMMA BuiltRule ==
    ASSUME NEW rule, SoundIngress(rule)
    PROVE  LET b == BuildAllowedIngress(rule)
           IN  /\ SoundRule(b) /\ b.ports = rule.ports
               /\ Range(b.blocks) = {peer \in Range(rule.from) : peer.block}
               /\ b.blocks = <<>> <=> Range(b.blocks) = {}
<1> DEFINE S == {peer \in Range(rule.from) : peer.block}
           blocks == Keep(rule.from, S)
<1>1. blocks \in Seq(Range(rule.from)) /\ Range(blocks) = Range(rule.from) \cap S
  <2> HIDE DEF S
  <2> QED BY KeepRange DEF SoundIngress
<1>2. BuildAllowedIngress(rule) = [blocks |-> blocks, ports |-> rule.ports]
  BY DEF BuildAllowedIngress
<1> HIDE DEF blocks
<1>3. IsList(blocks) /\ Range(blocks) = S
  BY <1>1, ListOfRange
<1>4. blocks = <<>> <=> Range(blocks) = {}
  <2>1. DOMAIN blocks = 1..Len(blocks) /\ Len(blocks) \in Nat
    BY <1>3, ListIndex
  <2>2. blocks # <<>> => blocks[1] \in Range(blocks)
    BY <1>3, ListIndex
  <2>3. Range(<<>>) = {}
    BY DEF Range
  <2> QED BY <2>2, <2>3
<1> QED BY <1>2, <1>3, <1>4 DEF SoundRule, SoundIngress

(* A policy of the Pod model: its rules for traffic from outside.          *)
LEMMA BuiltPolicy ==
    ASSUME NEW pol, IsList(pol.ingress), \A rule \in Range(pol.ingress) : SoundIngress(rule)
    PROVE  LET b == BuildNetworkPolicy(pol)
           IN  /\ SoundPolicy(b) /\ b.name = pol.name
               /\ Range(b.ingresses) = {BuildAllowedIngress(rule) :
                                           rule \in {r \in Range(pol.ingress) : IsExternal(r)}}
<1> DEFINE S == {rule \in Range(pol.ingress) : IsExternal(rule)}
           rules == Keep(pol.ingress, S)
           ings == [i \in DOMAIN rules |-> BuildAllowedIngress(rules[i])]
<1>1. rules \in Seq(Range(pol.ingress)) /\ Range(rules) = Range(pol.ingress) \cap S
  <2> HIDE DEF S
  <2> QED BY KeepRange
<1>2. BuildNetworkPolicy(pol) = [name |-> pol.name, ingresses |-> ings]
  BY DEF BuildNetworkPolicy, IsExternal
<1> HIDE DEF rules
<1>3. IsList(rules) /\ Range(rules) = S
  BY <1>1, ListOfRange
<1>4. DOMAIN rules = 1..Len(rules) /\ Len(rules) \in Nat
  BY <1>3, ListIndex
<1>5. Range(ings) = {BuildAllowedIngress(rule) : rule \in S}
  BY <1>3 DEF Range
<1>6. IsList(ings)
  BY <1>4 DEF IsList, Range
<1> HIDE DEF ings
<1>7. \A rule \in S : SoundRule(BuildAllowedIngress(rule))
  BY BuiltRule
<1> QED BY <1>2, <1>5, <1>6, <1>7 DEF SoundPolicy

(* The policies that the Pod model is made from.                           *)
Ingresses(C) == {pol \in Range(C.policies) : pol.isIngress}

(* The policies of the Pod model, and the addresses they are assigned to.  *)
LEMMA PodModelPolicies ==
    ASSUME NEW C, SoundPolicies(C)
    PROVE  LET m == PodModel(C)
           IN  /\ SoundModel(m)
               /\ Range(m.policies) = {BuildNetworkPolicy(pol) : pol \in Ingresses(C)}
               /\ \A pol \in Ingresses(C) : BuildNetworkPolicy(pol).name = pol.name
               /\ \A a \in m.assignments :
                     /\ \E pol \in Ingresses(C) : a.address \in pol.pods
                     /\ a.policies = {pol.name : pol \in {q \in Ingresses(C) : a.address \in q.pods}}
               /\ \A pol \in Ingresses(C) : \A x \in pol.pods : \E a \in m.assignments : a.address = x
<1> DEFINE m == PodModel(C)
           S == {pol \in Range(C.policies) : pol.isIngress}
           kept == Keep(C.policies, S)
           pols == [i \in DOMAIN kept |-> BuildNetworkPolicy(kept[i])]
           On(x) == {pol.name : pol \in {q \in Range(kept) : x \in q.pods}}
           Pods == UNION {pol.pods : pol \in Range(kept)}
           A == {[address |-> x, policies |-> On(x)] : x \in Pods}
<1>1. m.policies = pols /\ m.assignments = A
  BY DEF PodModel
<1>2. kept \in Seq(Range(C.policies)) /\ Range(kept) = Range(C.policies) \cap S
  <2> HIDE DEF S
  <2> QED BY KeepRange DEF SoundPolicies
<1> HIDE DEF kept, m
<1>3. IsList(kept) /\ Range(kept) = Ingresses(C)
  BY <1>2, ListOfRange DEF Ingresses
<1>4. DOMAIN kept = 1..Len(kept) /\ Len(kept) \in Nat
  BY <1>3, ListIndex
<1>5. Range(pols) = {BuildNetworkPolicy(pol) : pol \in Ingresses(C)}
  BY <1>3 DEF Range
<1>6. IsList(pols)
  BY <1>4 DEF IsList, Range
<1> HIDE DEF pols
<1>7. \A pol \in Ingresses(C) : SoundPolicy(BuildNetworkPolicy(pol)) /\ BuildNetworkPolicy(pol).name = pol.name
  <2>1. SUFFICES ASSUME NEW pol \in Ingresses(C)
                 PROVE  SoundPolicy(BuildNetworkPolicy(pol)) /\ BuildNetworkPolicy(pol).name = pol.name
    OBVIOUS
  <2>2. IsList(pol.ingress) /\ \A rule \in Range(pol.ingress) : SoundIngress(rule)
    BY DEF Ingresses, SoundPolicies, SoundIngress
  <2> QED BY <2>2, BuiltPolicy
<1>8. IsFiniteSet(Pods)
  <2> DEFINE f == [pol \in Range(kept) |-> pol.pods]
             T == {f[x] : x \in DOMAIN f}
  <2>1. IsFiniteSet(DOMAIN f)
    BY <1>3, FiniteList
  <2>2. \A X \in T : IsFiniteSet(X)
    BY <1>3 DEF Ingresses, SoundPolicies
  <2>3. T = {pol.pods : pol \in Range(kept)}
    OBVIOUS
  <2> HIDE DEF f
  <2>4. IsFiniteSet(T)
    BY <2>1, FiniteRange
  <2> HIDE DEF T
  <2>5. IsFiniteSet(UNION T)
    BY <2>2, <2>4, FS_UNION
  <2> QED BY <2>3, <2>5
<1>9. IsFiniteSet(A)
  <2> DEFINE f == [x \in Pods |-> [address |-> x, policies |-> On(x)]]
  <2>1. A = {f[x] : x \in DOMAIN f} /\ IsFiniteSet(DOMAIN f)
    BY <1>8
  <2> HIDE DEF f, A
  <2> QED BY <2>1, FiniteRange
<1>10. \A a \in A : a.address \in Pods /\ a.policies = On(a.address)
                    /\ a = [address |-> a.address, policies |-> On(a.address)]
  OBVIOUS
<1>11. ASSUME NEW x \in Pods PROVE \E a \in A : a.address = x
  <2> DEFINE a == [address |-> x, policies |-> On(x)]
  <2>1. a \in A /\ a.address = x
    OBVIOUS
  <2> QED BY <2>1
<1> HIDE DEF A
<1>12. \A a, b \in A : a.address = b.address => a = b
  <2> HIDE DEF On, Pods
  <2> QED BY <1>10
<1>13. \A x : On(x) = {pol.name : pol \in {q \in Ingresses(C) : x \in q.pods}}
  BY <1>3
<1>14. \A x : On(x) \subseteq {pol.name : pol \in Range(pols)}
  BY <1>5, <1>7, <1>13
<1>15. SoundModel(m)
  <2>1. \A a \in A : a.policies \subseteq {pol.name : pol \in Range(pols)}
    <3> HIDE DEF On
    <3> QED BY <1>10, <1>14
  <2> QED BY <1>1, <1>5, <1>6, <1>7, <1>9, <1>12, <2>1 DEF SoundModel
<1>16. \A a \in A : /\ \E pol \in Ingresses(C) : a.address \in pol.pods
                    /\ a.policies = {pol.name : pol \in {q \in Ingresses(C) : a.address \in q.pods}}
  <2>1. \A a \in A : \E pol \in Ingresses(C) : a.address \in pol.pods
    BY <1>3, <1>10
  <2> HIDE DEF On
  <2> QED BY <1>10, <1>13, <2>1
<1>17. \A pol \in Ingresses(C) : \A x \in pol.pods : \E a \in A : a.address = x
  BY <1>3, <1>11
<1> QED BY <1>1, <1>5, <1>7, <1>15, <1>16, <1>17 DEF m

(* The models of all layers are as the agent relies on.                    *)
LEMMA GeneratedModelIsSound ==
    ASSUME NEW l \in Layers, NEW C, WellFormed(C)
    PROVE  SoundModel(GenerateModel(l, C))
<1>1. CASE l = "Pod"
  BY <1>1, PodModelPolicies DEF WellFormed, GenerateModel
<1>2. CASE l # "Pod"
  <2> DEFINE m == GenerateModel(l, C)
  <2>1. m.policies = <<>> /\ m.assignments = {}
    BY <1>2 DEF GenerateModel, NodePortModel, ClusterIPModel, Layers
  <2> HIDE DEF m
  <2>2. Range(<<>>) = {} /\ IsFiniteSet({})
    BY FS_EmptySet DEF Range
  <2>3. IsList(<<>>)
    BY <2>2 DEF IsList
  <2> QED BY <2>1, <2>2, <2>3 DEF SoundModel, m
<1> QED BY <1>1, <1>2

(* What a rule that ends the packet's way through the rules decides.       *)
Decision(r, called) ==
    CASE r.verdict \in {"accept", "drop"} -> r.verdict
      [] r.verdict = "return" -> "continue"
      [] r.verdict \in {"goto", "jump"} -> called[r.target]

(* A set of indices that is not empty has a first one.                     *)
LEMMA HasMinimum ==
    ASSUME NEW n \in Nat, NEW S \in SUBSET (1..n), S # {}
    PROVE  \E i \in S : \A j \in S : i <= j
<1> DEFINE T == {n + 1 - i : i \in S}
<1>1. T \in SUBSET (1..n) /\ T # {}
  <2>1. \A i \in S : n + 1 - i \in 1..n
    OBVIOUS
  <2>2. PICK i \in S : TRUE
    BY Zenon
  <2>3. n + 1 - i \in T
    OBVIOUS
  <2> QED BY <2>1, <2>3
<1>2. PICK t \in T : \A u \in T : u <= t
  <2> HIDE DEF T
  <2> QED BY <1>1, HasMaximum
<1>3. PICK i \in S : t = n + 1 - i
  BY <1>2
<1>4. \A j \in S : n + 1 - j <= n + 1 - i
  BY <1>2, <1>3
<1> QED BY <1>4

(* The first rule that ends it decides.                                    *)
LEMMA FirstDecides ==
    ASSUME NEW rules, IsList(rules), NEW called, NEW pkt
    PROVE  \/ /\ \A r \in Range(rules) : ~Ends(r, called, pkt)
              /\ Outcome(rules, called, pkt) = "continue"
           \/ \E k \in DOMAIN rules :
                 /\ Ends(rules[k], called, pkt)
                 /\ \A j \in DOMAIN rules : j < k => ~Ends(rules[j], called, pkt)
                 /\ Outcome(rules, called, pkt) = Decision(rules[k], called)
<1> DEFINE ends == {i \in DOMAIN rules : Ends(rules[i], called, pkt)}
           k == CHOOSE i \in ends : \A j \in ends : i <= j
<1>1. DOMAIN rules = 1..Len(rules) /\ Len(rules) \in Nat
  BY ListIndex
<1>2. CASE ends = {}
  <2>1. \A r \in Range(rules) : ~Ends(r, called, pkt)
    BY <1>2 DEF Range
  <2>2. Outcome(rules, called, pkt) = "continue"
    BY <1>2 DEF Outcome
  <2> QED BY <2>1, <2>2
<1>3. CASE ends # {}
  <2>1. ends \in SUBSET (1..Len(rules))
    BY <1>1
  <2> HIDE DEF ends
  <2>2. \E i \in ends : \A j \in ends : i <= j
    BY <1>1, <1>3, <2>1, HasMinimum
  <2>3. k \in ends /\ \A j \in ends : k <= j
    BY <2>2
  <2>4. Outcome(rules, called, pkt) = Decision(rules[k], called)
    BY <1>3 DEF Outcome, Decision, ends
  <2> HIDE DEF k
  <2>5. k \in DOMAIN rules /\ Ends(rules[k], called, pkt)
    BY <2>3 DEF ends
  <2>6. \A j \in DOMAIN rules : j < k => ~Ends(rules[j], called, pkt)
    <3>1. SUFFICES ASSUME NEW j \in DOMAIN rules, j < k, Ends(rules[j], called, pkt) PROVE FALSE
      OBVIOUS
    <3>2. j \in ends
      BY <3>1 DEF ends
    <3> QED BY <1>1, <2>3, <2>5, <3>1, <3>2
  <2> QED BY <2>4, <2>5, <2>6
<1> QED BY <1>2, <1>3

(* Rules that end the packet's way all in the same way.                    *)
LEMMA SameDecision ==
    ASSUME NEW rules, IsList(rules), NEW called, NEW pkt, NEW d,
           \A r \in Range(rules) : Ends(r, called, pkt) => Decision(r, called) = d,
           \E r \in Range(rules) : Ends(r, called, pkt)
    PROVE  Outcome(rules, called, pkt) = d
<1>1. PICK k \in DOMAIN rules :
        /\ Ends(rules[k], called, pkt) /\ Outcome(rules, called, pkt) = Decision(rules[k], called)
  BY FirstDecides
<1>2. rules[k] \in Range(rules)
  BY DEF Range
<1> QED BY <1>1, <1>2

(* Rules that all decide the same, and a last one for all other packets.   *)
LEMMA LastDecides ==
    ASSUME NEW a, IsList(a), NEW called, NEW pkt, NEW d, NEW v \in {"accept", "drop"},
           \A r \in Range(a) : Ends(r, called, pkt) => Decision(r, called) = d
    PROVE  Outcome(a \o <<Verdict(v)>>, called, pkt)
             = IF \E r \in Range(a) : Ends(r, called, pkt) THEN d ELSE v
<1> DEFINE last == Verdict(v)
           S == Range(a) \cup {last}
           rules == a \o <<last>>
<1>1. Ends(last, called, pkt) /\ Decision(last, called) = v
  BY DEF Ends, RuleMatches, Verdict, Rule, Always, Decision
<1> HIDE DEF last
<1>2. a \in Seq(Range(a)) /\ DOMAIN a = 1..Len(a) /\ Len(a) \in Nat
  BY ListIndex DEF IsList
<1>3. a \in Seq(S) /\ <<last>> \in Seq(S)
  BY <1>2
<1> HIDE DEF S
<1>4. /\ rules \in Seq(S) /\ DOMAIN rules = 1..Len(a) + 1
      /\ \A i \in 1..Len(a) : rules[i] = a[i] /\ a[i] \in Range(a)
      /\ rules[Len(a) + 1] = last
  BY <1>2, <1>3 DEF Range
<1> HIDE DEF rules
<1>5. IsList(rules)
  BY <1>4, ListOfRange
<1>6. PICK k \in DOMAIN rules :
        /\ Ends(rules[k], called, pkt)
        /\ \A j \in DOMAIN rules : j < k => ~Ends(rules[j], called, pkt)
        /\ Outcome(rules, called, pkt) = Decision(rules[k], called)
  <2>1. last \in Range(rules)
    BY <1>2, <1>4 DEF Range
  <2> QED BY <1>1, <1>5, <2>1, FirstDecides
<1>7. CASE \E r \in Range(a) : Ends(r, called, pkt)
  <2>1. PICK i \in 1..Len(a) : Ends(a[i], called, pkt)
    BY <1>2, <1>7 DEF Range
  <2>2. i \in DOMAIN rules /\ Ends(rules[i], called, pkt)
    BY <1>2, <1>4, <2>1
  <2>3. k \in 1..Len(a)
    BY <1>2, <1>4, <1>6, <2>1, <2>2
  <2>4. rules[k] \in Range(a)
    BY <1>4, <2>3
  <2>5. Outcome(rules, called, pkt) = d
    BY <1>6, <2>4
  <2> QED BY <1>7, <2>5 DEF rules, last
<1>8. CASE ~\E r \in Range(a) : Ends(r, called, pkt)
  <2>1. k \notin 1..Len(a)
    BY <1>4, <1>6, <1>8
  <2>2. k = Len(a) + 1
    BY <1>2, <1>4, <2>1
  <2>3. Outcome(rules, called, pkt) = v
    BY <1>1, <1>4, <1>6, <2>2
  <2> QED BY <1>8, <2>3 DEF rules, last
<1> QED BY <1>7, <1>8

(* The decision of a chain that accepts or lets the packet continue.       *)
Says(b) == IF b THEN "accept" ELSE "continue"

(* Rules that accept, or do not end the packet's way.                      *)
LEMMA Accepting ==
    ASSUME NEW rules, IsList(rules), NEW called, NEW pkt,
           \A r \in Range(rules) : Ends(r, called, pkt) => Decision(r, called) = "accept"
    PROVE  Outcome(rules, called, pkt) = Says(\E r \in Range(rules) : Ends(r, called, pkt))
<1>1. CASE \E r \in Range(rules) : Ends(r, called, pkt)
  BY <1>1, SameDecision DEF Says
<1>2. CASE ~\E r \in Range(rules) : Ends(r, called, pkt)
  <2>1. \A k \in DOMAIN rules : rules[k] \in Range(rules)
    BY DEF Range
  <2> QED BY <1>2, <2>1, FirstDecides DEF Says
<1> QED BY <1>1, <1>2

-----------------------------------------------------------------------------
(* Repeated rules decide what the rules do.                                *)
LEMMA ExtendingDecides ==
    ASSUME NEW r, NEW q, IsList(q), Extending(r, q), NEW called, NEW pkt
    PROVE  Outcome(r, called, pkt) = Outcome(q, called, pkt)
<1>1. /\ IsList(r) /\ Range(r) = Range(q) /\ Len(q) <= Len(r)
      /\ \A i \in DOMAIN q : r[i] = q[i]
  BY DEF Extending
<1>2. /\ DOMAIN r = 1..Len(r) /\ Len(r) \in Nat /\ DOMAIN q = 1..Len(q) /\ Len(q) \in Nat
      /\ \A i \in 1..Len(q) : q[i] \in Range(q)
      /\ \A i \in 1..Len(r) : r[i] \in Range(r)
  BY <1>1, ListIndex
<1>3. CASE \A x \in Range(q) : ~Ends(x, called, pkt)
  <2>1. Outcome(q, called, pkt) = "continue"
    BY <1>2, <1>3, FirstDecides
  <2>2. Outcome(r, called, pkt) = "continue"
    BY <1>1, <1>2, <1>3, FirstDecides
  <2> QED BY <2>1, <2>2
<1>4. CASE \E x \in Range(q) : Ends(x, called, pkt)
  <2>1. PICK k \in DOMAIN q :
          /\ Ends(q[k], called, pkt)
          /\ \A j \in DOMAIN q : j < k => ~Ends(q[j], called, pkt)
          /\ Outcome(q, called, pkt) = Decision(q[k], called)
    BY <1>4, FirstDecides
  <2>2. PICK l \in DOMAIN r :
          /\ Ends(r[l], called, pkt)
          /\ \A j \in DOMAIN r : j < l => ~Ends(r[j], called, pkt)
          /\ Outcome(r, called, pkt) = Decision(r[l], called)
    BY <1>1, <1>4, FirstDecides
  <2>3. k \in DOMAIN r /\ r[k] = q[k]
    BY <1>1, <1>2, <2>1
  <2>4. ~(k < l)
    BY <2>1, <2>2, <2>3
  <2>5. ~(l < k)
    <3>1. SUFFICES ASSUME l < k PROVE FALSE
      OBVIOUS
    <3>2. l \in DOMAIN q /\ r[l] = q[l]
      BY <1>1, <1>2, <2>1, <2>2, <3>1
    <3> QED BY <2>1, <2>2, <3>1, <3>2
  <2>6. k = l
    BY <1>2, <2>1, <2>2, <2>4, <2>5
  <2> QED BY <2>1, <2>2, <2>3, <2>6
<1> QED BY <1>3, <1>4

(* The same for all chains.                                                *)
LEMMA RepeatedDecide ==
    ASSUME NEW chains, Shaped(chains), NEW of, Shaped(of), Repeats(chains, of),
           NEW called, NEW pkt
    PROVE  Decided(chains, called, pkt) = Decided(of, called, pkt)
<1>1. Names(chains) = Names(of)
  BY DEF Repeats
<1>2. ASSUME NEW n \in Names(of)
      PROVE  Outcome(RulesOf(chains, n), called, pkt) = Outcome(RulesOf(of, n), called, pkt)
  <2>1. PICK c \in Range(chains) : c.name = n
    BY <1>1, NamesOfChains
  <2>2. PICK d \in Range(of) : d.name = n
    BY NamesOfChains
  <2>3. RulesOf(chains, c.name) = c.rules /\ RulesOf(of, d.name) = d.rules
    BY RulesOfChain DEF Shaped
  <2>4. Extending(c.rules, d.rules) /\ IsList(d.rules)
    BY <2>1, <2>2 DEF Repeats, Shaped, IsChain
  <2> QED BY <2>1, <2>2, <2>3, <2>4, ExtendingDecides
<1> QED BY <1>1, <1>2 DEF Decided

(* A packet's fate is the same in repeated chains.                         *)
LEMMA RepeatedAccept ==
    ASSUME NEW chains, Shaped(chains), NEW of, Shaped(of), Repeats(chains, of), NEW pkt
    PROVE  Accepted(chains, pkt) <=> Accepted(of, pkt)
<1>1. Names(chains) = Names(of)
  BY DEF Repeats
<1>2. \A called : Decided(chains, called, pkt) = Decided(of, called, pkt)
  BY RepeatedDecide
<1> QED BY <1>1, <1>2, ZenonT(40) DEF Accepted

(* The decision that is looked up under a chain's name is the chain's.     *)
LEMMA ChainDecides ==
    ASSUME NEW chains, Shaped(chains), NEW c \in Range(chains), NEW called, NEW pkt
    PROVE  Decided(chains, called, pkt)[c.name] = Outcome(c.rules, called, pkt)
<1>1. c.name \in Names(chains)
  BY NamesOfChains
<1>2. RulesOf(chains, c.name) = c.rules
  BY RulesOfChain DEF Shaped
<1> QED BY <1>1, <1>2 DEF Decided

(* What the entries of a rule, the rule and the policy are meant to admit. *)
EntryMatches(e, pkt) ==
    /\ e.src = {} \/ pkt.src \in UNION e.src
    /\ e.ports = {} \/ \E q \in e.ports : /\ q.proto = pkt.proto
                                          /\ q.low <= pkt.port /\ pkt.port <= q.high

Excepted(e, pkt) == \E x \in Range(e.except) : pkt.src \in x

RuleAdmits(rule, pkt) ==
    \E e \in Range(MakeIngressRuleChain(rule)) : EntryMatches(e, pkt) /\ ~Excepted(e, pkt)

PolicyAdmits(pol, pkt) == \E rule \in Range(pol.ingresses) : RuleAdmits(rule, pkt)

(* A function on 1..n is a list.                                           *)
LEMMA FunctionIsList ==
    ASSUME NEW n \in Nat, NEW f, f = [i \in 1..n |-> f[i]]
    PROVE  IsList(f)
<1>1. \A i \in 1..n : f[i] \in Range(f)
  BY DEF Range
<1>2. f \in Seq(Range(f))
  BY <1>1
<1> QED BY <1>2 DEF IsList

(* A CIDR chain accepts all but the exceptions.                            *)
LEMMA CidrDecides ==
    ASSUME NEW name, NEW e, IsList(e.except), NEW called, NEW pkt
    PROVE  Outcome(CidrChain(name, e).rules, called, pkt) = Says(~Excepted(e, pkt))
<1> DEFINE Back(x) == Rule({}, [src |-> {x}, ports |-> {}], "return", <<>>)
           a == [k \in DOMAIN e.except |-> Back(e.except[k])]
<1>1. CidrChain(name, e).rules = a \o <<Verdict("accept")>>
  BY DEF CidrChain
<1>2. \A x : /\ Ends(Back(x), called, pkt) <=> pkt.src \in x
             /\ Decision(Back(x), called) = "continue"
  BY DEF Ends, RuleMatches, Rule, Decision
<1> HIDE DEF Back
<1>3. DOMAIN e.except = 1..Len(e.except) /\ Len(e.except) \in Nat
  BY ListIndex
<1>4. Range(a) = {Back(x) : x \in Range(e.except)}
  BY DEF Range
<1>5. IsList(a)
  BY <1>3 DEF IsList, Range
<1> HIDE DEF a
<1>6. \A r \in Range(a) : Ends(r, called, pkt) => Decision(r, called) = "continue"
  BY <1>2, <1>4
<1>7. Outcome(a \o <<Verdict("accept")>>, called, pkt)
        = IF \E r \in Range(a) : Ends(r, called, pkt) THEN "continue" ELSE "accept"
  BY <1>5, <1>6, LastDecides
<1>8. (\E r \in Range(a) : Ends(r, called, pkt)) <=> Excepted(e, pkt)
  BY <1>2, <1>4 DEF Excepted
<1> QED BY <1>1, <1>7, <1>8 DEF Says

(* A rule's chain accepts what an entry admits.                            *)
LEMMA RuleDecides ==
    ASSUME NEW n, NEW i, NEW es, SoundEntries(es), NEW called, NEW pkt,
           \A j \in DOMAIN es : es[j].except # <<>> =>
               called[<<"CIDR", n, i, j>>] = Says(~Excepted(es[j], pkt))
    PROVE  Outcome(RuleChain(n, i, es).rules, called, pkt)
             = Says(\E e \in Range(es) : EntryMatches(e, pkt) /\ ~Excepted(e, pkt))
<1> DEFINE Of(j) == IF es[j].except = <<>> THEN Rule({}, es[j], "accept", <<>>)
                                           ELSE Rule({}, es[j], "jump", <<"CIDR", n, i, j>>)
           rules == [j \in DOMAIN es |-> Of(j)]
<1>1. RuleChain(n, i, es).rules = rules
  BY DEF RuleChain
<1>2. DOMAIN es = 1..Len(es) /\ Len(es) \in Nat
  BY ListIndex DEF SoundEntries
<1>3. ASSUME NEW j \in DOMAIN es
      PROVE  /\ Ends(Of(j), called, pkt) <=> EntryMatches(es[j], pkt) /\ ~Excepted(es[j], pkt)
             /\ Ends(Of(j), called, pkt) => Decision(Of(j), called) = "accept"
  <2>1. \A v, t : LET r == Rule({}, es[j], v, t)
                  IN  /\ RuleMatches(r, pkt) <=> EntryMatches(es[j], pkt)
                      /\ r.verdict = v /\ r.target = t
    BY DEF RuleMatches, Rule, EntryMatches
  <2>2. CASE es[j].except = <<>>
    <3>1. ~Excepted(es[j], pkt)
      BY <2>2 DEF Excepted, Range
    <3>2. Of(j) = Rule({}, es[j], "accept", <<>>)
      BY <2>2
    <3> QED BY <2>1, <3>1, <3>2 DEF Ends, Decision
  <2>3. CASE es[j].except # <<>>
    <3>1. Of(j) = Rule({}, es[j], "jump", <<"CIDR", n, i, j>>)
      BY <2>3
    <3>2. called[<<"CIDR", n, i, j>>] = Says(~Excepted(es[j], pkt))
      BY <2>3
    <3> HIDE DEF Of
    <3> QED BY <2>1, <3>1, <3>2 DEF Ends, Decision, Says
  <2> QED BY <2>2, <2>3
<1> HIDE DEF Of
<1>4. Range(rules) = {Of(j) : j \in DOMAIN es} /\ Range(es) = {es[j] : j \in DOMAIN es}
  BY DEF Range
<1>5. IsList(rules)
  BY <1>2 DEF IsList, Range
<1> HIDE DEF rules
<1>6. \A r \in Range(rules) : Ends(r, called, pkt) => Decision(r, called) = "accept"
  BY <1>3, <1>4
<1>7. (\E r \in Range(rules) : Ends(r, called, pkt))
        <=> \E e \in Range(es) : EntryMatches(e, pkt) /\ ~Excepted(e, pkt)
  BY <1>3, <1>4
<1>8. Outcome(rules, called, pkt) = Says(\E r \in Range(rules) : Ends(r, called, pkt))
  BY <1>5, <1>6, Accepting
<1> QED BY <1>1, <1>7, <1>8 DEF Says

(* A jump to a chain that accepts or lets the packet continue.             *)
LEMMA JumpDecides ==
    ASSUME NEW target, NEW called, NEW pkt, NEW b \in BOOLEAN, called[target] = Says(b)
    PROVE  /\ Ends(Jump(target), called, pkt) <=> b
           /\ Ends(Jump(target), called, pkt) => Decision(Jump(target), called) = "accept"
<1> DEFINE r == Jump(target)
<1>1. RuleMatches(r, pkt) /\ r.verdict = "jump" /\ r.target = target
  BY DEF RuleMatches, Jump, Rule, Always
<1> HIDE DEF r
<1>2. Ends(r, called, pkt) <=> called[target] # "continue"
  BY <1>1 DEF Ends
<1>3. Decision(r, called) = called[target]
  BY <1>1 DEF Decision
<1> QED BY <1>2, <1>3 DEF Says, r

(* A policy's chain accepts what a rule of it admits.                      *)
LEMMA PolicyDecides ==
    ASSUME NEW pol, IsList(pol.ingresses), NEW called, NEW pkt,
           \A i \in DOMAIN pol.ingresses :
               called[<<"RULE", pol.name, i>>] = Says(RuleAdmits(pol.ingresses[i], pkt))
    PROVE  Outcome(PolicyChain(pol).rules, called, pkt) = Says(PolicyAdmits(pol, pkt))
<1> DEFINE Of(i) == Jump(<<"RULE", pol.name, i>>)
           rules == [i \in DOMAIN pol.ingresses |-> Of(i)]
<1>1. PolicyChain(pol).rules = rules
  BY DEF PolicyChain
<1>2. DOMAIN pol.ingresses = 1..Len(pol.ingresses) /\ Len(pol.ingresses) \in Nat
  BY ListIndex
<1>3. ASSUME NEW i \in DOMAIN pol.ingresses
      PROVE  /\ Ends(Of(i), called, pkt) <=> RuleAdmits(pol.ingresses[i], pkt)
             /\ Ends(Of(i), called, pkt) => Decision(Of(i), called) = "accept"
  <2>1. RuleAdmits(pol.ingresses[i], pkt) \in BOOLEAN
    BY DEF RuleAdmits
  <2> QED BY <2>1, JumpDecides
<1> HIDE DEF Of
<1>4. Range(rules) = {Of(i) : i \in DOMAIN pol.ingresses}
      /\ Range(pol.ingresses) = {pol.ingresses[i] : i \in DOMAIN pol.ingresses}
  BY DEF Range
<1>5. IsList(rules)
  BY <1>2 DEF IsList, Range
<1> HIDE DEF rules
<1>6. \A r \in Range(rules) : Ends(r, called, pkt) => Decision(r, called) = "accept"
  BY <1>3, <1>4
<1>7. (\E r \in Range(rules) : Ends(r, called, pkt)) <=> PolicyAdmits(pol, pkt)
  BY <1>3, <1>4 DEF PolicyAdmits
<1>8. Outcome(rules, called, pkt) = Says(\E r \in Range(rules) : Ends(r, called, pkt))
  BY <1>5, <1>6, Accepting
<1> QED BY <1>1, <1>7, <1>8 DEF Says

(* A pod's chain accepts what one of its policies admits, and drops the    *)
(* rest.                                                                   *)
LEMMA PodDecides ==
    ASSUME NEW a, IsFiniteSet(a.policies), NEW called, NEW pkt, NEW Admitting,
           \A n \in a.policies : called[<<"POLICY", n>>] = Says(n \in Admitting)
    PROVE  Outcome(PodChain(a).rules, called, pkt)
             = IF a.policies \cap Admitting # {} THEN "accept" ELSE "drop"
<1> DEFINE names == SetToSeq(a.policies)
           To(n) == Jump(<<"POLICY", n>>)
           jumps == [i \in DOMAIN names |-> To(names[i])]
<1>1. PodChain(a).rules = jumps \o <<Verdict("drop")>>
  BY DEF PodChain
<1>2. IsList(names) /\ Range(names) = a.policies
  BY SetToSeqLists
<1> HIDE DEF names
<1>3. DOMAIN names = 1..Len(names) /\ Len(names) \in Nat
  BY <1>2, ListIndex
<1>4. ASSUME NEW n \in a.policies
      PROVE  /\ Ends(To(n), called, pkt) <=> n \in Admitting
             /\ Ends(To(n), called, pkt) => Decision(To(n), called) = "accept"
  <2>1. (n \in Admitting) \in BOOLEAN
    OBVIOUS
  <2> QED BY <2>1, JumpDecides
<1> HIDE DEF To
<1>5. Range(jumps) = {To(n) : n \in a.policies}
  BY <1>2 DEF Range
<1>6. IsList(jumps)
  BY <1>3 DEF IsList, Range
<1> HIDE DEF jumps
<1>7. \A r \in Range(jumps) : Ends(r, called, pkt) => Decision(r, called) = "accept"
  BY <1>4, <1>5
<1>8. (\E r \in Range(jumps) : Ends(r, called, pkt)) <=> a.policies \cap Admitting # {}
  BY <1>4, <1>5
<1>9. Outcome(jumps \o <<Verdict("drop")>>, called, pkt)
        = IF \E r \in Range(jumps) : Ends(r, called, pkt) THEN "accept" ELSE "drop"
  BY <1>6, <1>7, LastDecides
<1> QED BY <1>1, <1>8, <1>9

(* The forward chain leaves it to the pod's chain, if there is one.        *)
LEMMA ForwardDecides ==
    ASSUME NEW m, SoundModel(m), NEW called, NEW pkt
    PROVE  Outcome(ForwardChain(SetToSeq(m.assignments)).rules, called, pkt)
             = IF \E a \in m.assignments : a.address = pkt.dst
                 THEN called[<<"POD", pkt.dst>>] ELSE "accept"
<1> DEFINE assigned == SetToSeq(m.assignments)
           To(a) == Rule({a.address}, Always, "goto", <<"POD", a.address>>)
           gotos == [i \in DOMAIN assigned |-> To(assigned[i])]
<1>1. ForwardChain(assigned).rules = gotos \o <<Verdict("accept")>>
  BY DEF ForwardChain
<1>2. IsList(assigned) /\ Range(assigned) = m.assignments
  BY SetToSeqLists DEF SoundModel
<1> HIDE DEF assigned
<1>3. DOMAIN assigned = 1..Len(assigned) /\ Len(assigned) \in Nat
  BY <1>2, ListIndex
<1>4. \A a : /\ Ends(To(a), called, pkt) <=> pkt.dst = a.address
             /\ Decision(To(a), called) = called[<<"POD", a.address>>]
  <2>1. SUFFICES ASSUME NEW a
                 PROVE  /\ Ends(To(a), called, pkt) <=> pkt.dst = a.address
                        /\ Decision(To(a), called) = called[<<"POD", a.address>>]
    OBVIOUS
  <2> DEFINE r == To(a)
  <2>2. r.dst = {a.address} /\ r.src = {} /\ r.ports = {} /\ r.verdict = "goto"
        /\ r.target = <<"POD", a.address>>
    BY DEF Rule, Always
  <2> HIDE DEF r
  <2>3. Ends(r, called, pkt) <=> pkt.dst = a.address
    BY <2>2 DEF Ends, RuleMatches
  <2>4. Decision(r, called) = called[<<"POD", a.address>>]
    BY <2>2 DEF Decision
  <2> QED BY <2>3, <2>4 DEF r
<1> HIDE DEF To
<1>5. Range(gotos) = {To(a) : a \in m.assignments}
  BY <1>2 DEF Range
<1>6. IsList(gotos)
  <2>1. DOMAIN gotos = 1..Len(assigned) /\ gotos = [i \in 1..Len(assigned) |-> gotos[i]]
    BY <1>3
  <2> HIDE DEF gotos
  <2> QED BY <1>3, <2>1, FunctionIsList
<1> HIDE DEF gotos
<1>7. \A r \in Range(gotos) : Ends(r, called, pkt) => Decision(r, called) = called[<<"POD", pkt.dst>>]
  BY <1>4, <1>5
<1>8. (\E r \in Range(gotos) : Ends(r, called, pkt)) <=> \E a \in m.assignments : a.address = pkt.dst
  BY <1>4, <1>5
<1>9. Outcome(gotos \o <<Verdict("accept")>>, called, pkt)
        = IF \E r \in Range(gotos) : Ends(r, called, pkt) THEN called[<<"POD", pkt.dst>>] ELSE "accept"
  BY <1>6, <1>7, LastDecides
<1> QED BY <1>1, <1>8, <1>9 DEF assigned

(* What each kind of chain decides, when it is right.                      *)
CidrsRight(m, called, pkt) ==
    \A n \in PolicyNames(m) : \A i \in DOMAIN PolicyNamed(m, n).ingresses :
        LET es == MakeIngressRuleChain(PolicyNamed(m, n).ingresses[i])
        IN  \A j \in DOMAIN es : es[j].except # <<>> =>
                called[<<"CIDR", n, i, j>>] = Says(~Excepted(es[j], pkt))

RulesRight(m, called, pkt) ==
    \A n \in PolicyNames(m) : \A i \in DOMAIN PolicyNamed(m, n).ingresses :
        called[<<"RULE", n, i>>] = Says(RuleAdmits(PolicyNamed(m, n).ingresses[i], pkt))

PoliciesRight(m, called, pkt) ==
    \A n \in PolicyNames(m) : called[<<"POLICY", n>>] = Says(PolicyAdmits(PolicyNamed(m, n), pkt))

Admitting(m, pkt) == {n \in PolicyNames(m) : PolicyAdmits(PolicyNamed(m, n), pkt)}

PodsRight(m, called, pkt) ==
    \A a \in m.assignments : called[<<"POD", a.address>>]
        = IF a.policies \cap Admitting(m, pkt) # {} THEN "accept" ELSE "drop"

(* The chains of a policy in the generated file.                           *)
LEMMA GeneratedPolicy ==
    ASSUME NEW m, SoundModel(m), NEW existing, NEW n \in PolicyNames(m)
    PROVE  LET cs == Generate(m, existing).chains
               pol == PolicyNamed(m, n)
           IN  /\ SoundPolicy(pol) /\ pol.name = n
               /\ PolicyChain(pol) \in Range(cs)
               /\ \A i \in DOMAIN pol.ingresses :
                     LET es == MakeIngressRuleChain(pol.ingresses[i])
                     IN  /\ SoundEntries(es)
                         /\ RuleChain(n, i, es) \in Range(cs)
                         /\ \A j \in DOMAIN es : es[j].except # <<>> =>
                               CidrChain(<<"CIDR", n, i, j>>, es[j]) \in Range(cs)
<1> DEFINE cs == Generate(m, existing).chains
           pol == PolicyNamed(m, n)
<1>1. Range(PolicyChains(pol)) \subseteq Range(cs)
  BY GeneratedChains
<1> HIDE DEF cs
<1>2. SoundPolicy(pol) /\ pol.name = n
  BY NamedPolicy DEF SoundModel
<1> HIDE DEF pol
<1>3. /\ PolicyChain(pol) \in Range(PolicyChains(pol))
      /\ \A i \in DOMAIN pol.ingresses :
            Range(RuleChains(pol.name, i, MakeIngressRuleChain(pol.ingresses[i])))
              \subseteq Range(PolicyChains(pol))
  BY <1>2, PolicyChainsPart
<1>4. ASSUME NEW i \in DOMAIN pol.ingresses
      PROVE  LET es == MakeIngressRuleChain(pol.ingresses[i])
             IN  /\ SoundEntries(es)
                 /\ RuleChain(n, i, es) \in Range(cs)
                 /\ \A j \in DOMAIN es : es[j].except # <<>> =>
                       CidrChain(<<"CIDR", n, i, j>>, es[j]) \in Range(cs)
  <2> DEFINE es == MakeIngressRuleChain(pol.ingresses[i])
  <2>1. pol.ingresses[i] \in Range(pol.ingresses)
    BY DEF Range
  <2>2. SoundRule(pol.ingresses[i])
    BY <1>2, <2>1 DEF SoundPolicy
  <2>3. SoundEntries(es)
    BY <2>2, EntriesOfRule DEF SoundEntries
  <2>4. Range(RuleChains(n, i, es)) \subseteq Range(cs)
    BY <1>1, <1>2, <1>3
  <2> HIDE DEF es
  <2>5. /\ RuleChain(n, i, es) \in Range(RuleChains(n, i, es))
        /\ \A j \in DOMAIN es : es[j].except # <<>> =>
              CidrChain(<<"CIDR", n, i, j>>, es[j]) \in Range(RuleChains(n, i, es))
    BY <2>3, RuleChainsPart
  <2>6. /\ SoundEntries(es) /\ RuleChain(n, i, es) \in Range(cs)
        /\ \A j \in DOMAIN es : es[j].except # <<>> =>
              CidrChain(<<"CIDR", n, i, j>>, es[j]) \in Range(cs)
    BY <2>3, <2>4, <2>5
  <2> QED BY <2>6 DEF es
<1> QED BY <1>1, <1>2, <1>3, <1>4 DEF pol, cs

(* One level of calls after the other: the CIDR chains need no call.       *)
LEMMA CidrsComeRight ==
    ASSUME NEW m, SoundModel(m), NEW existing, NEW called, NEW pkt
    PROVE  CidrsRight(m, Decided(Generate(m, existing).chains, called, pkt), pkt)
<1> DEFINE cs == Generate(m, existing).chains
<1>1. SUFFICES ASSUME NEW n \in PolicyNames(m), NEW i \in DOMAIN PolicyNamed(m, n).ingresses,
                      NEW j \in DOMAIN MakeIngressRuleChain(PolicyNamed(m, n).ingresses[i]),
                      MakeIngressRuleChain(PolicyNamed(m, n).ingresses[i])[j].except # <<>>
               PROVE  Decided(cs, called, pkt)[<<"CIDR", n, i, j>>]
                        = Says(~Excepted(MakeIngressRuleChain(PolicyNamed(m, n).ingresses[i])[j], pkt))
  BY DEF CidrsRight
<1> DEFINE es == MakeIngressRuleChain(PolicyNamed(m, n).ingresses[i])
           c == CidrChain(<<"CIDR", n, i, j>>, es[j])
<1>2. SoundEntries(es) /\ c \in Range(cs)
  BY <1>1, GeneratedPolicy
<1>3. Shaped(cs)
  BY GeneratedChains
<1>4. c.name = <<"CIDR", n, i, j>>
  BY DEF CidrChain
<1> HIDE DEF cs
<1>5. es[j] \in Range(es)
  BY DEF Range
<1>6. Outcome(c.rules, called, pkt) = Says(~Excepted(es[j], pkt))
  BY <1>2, <1>5, CidrDecides DEF SoundEntries
<1> HIDE DEF c, es
<1>7. Decided(cs, called, pkt)[c.name] = Outcome(c.rules, called, pkt)
  BY <1>2, <1>3, ChainDecides
<1> QED BY <1>4, <1>6, <1>7 DEF es

(* The chains of rules call CIDR chains.                                   *)
LEMMA RulesComeRight ==
    ASSUME NEW m, SoundModel(m), NEW existing, NEW called, NEW pkt, CidrsRight(m, called, pkt)
    PROVE  RulesRight(m, Decided(Generate(m, existing).chains, called, pkt), pkt)
<1> DEFINE cs == Generate(m, existing).chains
<1>1. SUFFICES ASSUME NEW n \in PolicyNames(m), NEW i \in DOMAIN PolicyNamed(m, n).ingresses
               PROVE  Decided(cs, called, pkt)[<<"RULE", n, i>>]
                        = Says(RuleAdmits(PolicyNamed(m, n).ingresses[i], pkt))
  BY DEF RulesRight
<1> DEFINE es == MakeIngressRuleChain(PolicyNamed(m, n).ingresses[i])
           c == RuleChain(n, i, es)
<1>2. SoundEntries(es) /\ c \in Range(cs)
  BY GeneratedPolicy
<1>3. Shaped(cs)
  BY GeneratedChains
<1>4. c.name = <<"RULE", n, i>>
  BY DEF RuleChain
<1> HIDE DEF cs
<1>5. \A j \in DOMAIN es : es[j].except # <<>> =>
          called[<<"CIDR", n, i, j>>] = Says(~Excepted(es[j], pkt))
  BY DEF CidrsRight
<1>6. RuleAdmits(PolicyNamed(m, n).ingresses[i], pkt)
        <=> \E e \in Range(es) : EntryMatches(e, pkt) /\ ~Excepted(e, pkt)
  BY DEF RuleAdmits
<1> HIDE DEF es
<1>7. Outcome(c.rules, called, pkt)
        = Says(\E e \in Range(es) : EntryMatches(e, pkt) /\ ~Excepted(e, pkt))
  BY <1>2, <1>5, RuleDecides
<1> HIDE DEF c
<1>8. Decided(cs, called, pkt)[c.name] = Outcome(c.rules, called, pkt)
  BY <1>2, <1>3, ChainDecides
<1> QED BY <1>4, <1>6, <1>7, <1>8 DEF Says

(* The chains of policies call those of rules.                             *)
LEMMA PoliciesComeRight ==
    ASSUME NEW m, SoundModel(m), NEW existing, NEW called, NEW pkt, RulesRight(m, called, pkt)
    PROVE  PoliciesRight(m, Decided(Generate(m, existing).chains, called, pkt), pkt)
<1> DEFINE cs == Generate(m, existing).chains
<1>1. SUFFICES ASSUME NEW n \in PolicyNames(m)
               PROVE  Decided(cs, called, pkt)[<<"POLICY", n>>]
                        = Says(PolicyAdmits(PolicyNamed(m, n), pkt))
  BY DEF PoliciesRight
<1> DEFINE pol == PolicyNamed(m, n)
           c == PolicyChain(pol)
<1>2. SoundPolicy(pol) /\ pol.name = n /\ c \in Range(cs)
  BY GeneratedPolicy
<1>3. Shaped(cs)
  BY GeneratedChains
<1> HIDE DEF cs
<1>4. \A i \in DOMAIN pol.ingresses : called[<<"RULE", n, i>>] = Says(RuleAdmits(pol.ingresses[i], pkt))
  BY DEF RulesRight
<1> HIDE DEF pol
<1>5. c.name = <<"POLICY", n>>
  BY <1>2 DEF PolicyChain
<1>6. Outcome(c.rules, called, pkt) = Says(PolicyAdmits(pol, pkt))
  BY <1>2, <1>4, PolicyDecides DEF SoundPolicy
<1> HIDE DEF c
<1>7. Decided(cs, called, pkt)[c.name] = Outcome(c.rules, called, pkt)
  BY <1>2, <1>3, ChainDecides
<1> QED BY <1>5, <1>6, <1>7 DEF pol

(* The chains of pods call those of policies.                              *)
LEMMA PodsComeRight ==
    ASSUME NEW m, SoundModel(m), NEW existing, NEW called, NEW pkt, PoliciesRight(m, called, pkt)
    PROVE  PodsRight(m, Decided(Generate(m, existing).chains, called, pkt), pkt)
<1> DEFINE cs == Generate(m, existing).chains
<1>1. SUFFICES ASSUME NEW a \in m.assignments
               PROVE  Decided(cs, called, pkt)[<<"POD", a.address>>]
                        = IF a.policies \cap Admitting(m, pkt) # {} THEN "accept" ELSE "drop"
  BY DEF PodsRight
<1> DEFINE c == PodChain(a)
<1>2. Shaped(cs) /\ c \in Range(cs)
  BY GeneratedChains
<1> HIDE DEF cs
<1>3. a.policies \in SUBSET PolicyNames(m)
  BY DEF SoundModel, PolicyNames
<1>4. IsFiniteSet(a.policies)
  BY <1>3, FiniteNames, FS_Subset
<1>5. \A n \in a.policies : called[<<"POLICY", n>>] = Says(n \in Admitting(m, pkt))
  BY <1>3 DEF PoliciesRight, Admitting, Says
<1>6. c.name = <<"POD", a.address>>
  BY DEF PodChain
<1>7. Outcome(c.rules, called, pkt)
        = IF a.policies \cap Admitting(m, pkt) # {} THEN "accept" ELSE "drop"
  BY <1>4, <1>5, PodDecides
<1> HIDE DEF c
<1>8. Decided(cs, called, pkt)[c.name] = Outcome(c.rules, called, pkt)
  BY <1>2, ChainDecides
<1> QED BY <1>6, <1>7, <1>8

(* What a generated file accepts, by the walk of a packet from the forward *)
(* chain down to the CIDR chains: what goes to no assigned pod, and what a *)
(* policy that is assigned to the pod admits.                              *)
THEOREM GeneratedAccepts ==
    ASSUME NEW m, SoundModel(m), NEW existing, NEW pkt
    PROVE  Accepted(Generate(m, existing).chains, pkt)
             <=> \A a \in m.assignments : a.address = pkt.dst =>
                     \E n \in a.policies : PolicyAdmits(PolicyNamed(m, n), pkt)
<1> DEFINE cs == Generate(m, existing).chains
           D(called) == Decided(cs, called, pkt)
           none == [n \in Names(cs) |-> "continue"]
           c == ForwardChain(SetToSeq(m.assignments))
           d4 == D(D(D(D(none))))
<1>1. Shaped(cs) /\ c \in Range(cs)
  BY GeneratedChains
<1>2. CidrsRight(m, D(none), pkt)
  BY CidrsComeRight
<1>3. RulesRight(m, D(D(none)), pkt)
  BY <1>2, RulesComeRight
<1>4. PoliciesRight(m, D(D(D(none))), pkt)
  BY <1>3, PoliciesComeRight
<1>5. PodsRight(m, d4, pkt)
  BY <1>4, PodsComeRight
<1>6. Accepted(cs, pkt) <=> D(d4)[FORWARD] # "drop"
  BY Zenon DEF Accepted
<1> HIDE DEF cs, d4
<1>7. c.name = FORWARD
  BY DEF ForwardChain
<1>8. D(d4)[FORWARD] = Outcome(c.rules, d4, pkt)
  <2> HIDE DEF c
  <2> QED BY <1>1, <1>7, ChainDecides
<1>9. Outcome(c.rules, d4, pkt)
        = IF \E a \in m.assignments : a.address = pkt.dst THEN d4[<<"POD", pkt.dst>>] ELSE "accept"
  BY ForwardDecides
<1> HIDE DEF D, c
<1>10. \A a \in m.assignments :
          a.policies \cap Admitting(m, pkt) # {}
            <=> \E n \in a.policies : PolicyAdmits(PolicyNamed(m, n), pkt)
  BY DEF Admitting, SoundModel, PolicyNames
<1>11. CASE \E a \in m.assignments : a.address = pkt.dst
  <2>1. PICK a \in m.assignments : a.address = pkt.dst
    BY <1>11
  <2>2. \A b \in m.assignments : b.address = pkt.dst => b = a
    BY <2>1 DEF SoundModel
  <2>3. d4[<<"POD", pkt.dst>>] = IF a.policies \cap Admitting(m, pkt) # {} THEN "accept" ELSE "drop"
    BY <1>5, <2>1 DEF PodsRight
  <2>4. Accepted(cs, pkt) <=> a.policies \cap Admitting(m, pkt) # {}
    BY <1>6, <1>8, <1>9, <1>11, <2>3
  <2> QED BY <1>10, <2>1, <2>2, <2>4 DEF cs
<1>12. CASE ~\E a \in m.assignments : a.address = pkt.dst
  <2>1. Accepted(cs, pkt)
    BY <1>6, <1>8, <1>9, <1>12
  <2> QED BY <1>12, <2>1 DEF cs
<1> QED BY <1>11, <1>12

(* A port match of the generated file.                                     *)
PortsMatch(ports, pkt) ==
    ports = {} \/ \E q \in ports : q.proto = pkt.proto /\ q.low <= pkt.port /\ pkt.port <= q.high

(* What Kubernetes sees to in a port of an ingress rule.                   *)
SoundFilter(f) ==
    /\ {f.port, f.end} \subseteq Nat \cup {Unset}
    /\ f.port = Named => f.end = Unset

(* The filter admits the packet, unless it gives the port by name.         *)
FilterMatches(f, pkt) ==
    /\ f.proto = pkt.proto
    /\ f.port = Unset \/ /\ f.port > 0 /\ f.port <= pkt.port
                         /\ pkt.port <= (IF f.end = Unset THEN f.port ELSE f.end)

(* The port map admits what one of the filters admits.                     *)
LEMMA PortMapAdmits ==
    ASSUME NEW in, \A f \in Range(in) : SoundFilter(f),
           NEW pkt, pkt.port \in Nat \ {0}, pkt.port <= 65535
    PROVE  LET portMap == MakePortMap(in)
           IN  (\E proto \in DOMAIN portMap : PortsMatch(portMap[proto], pkt))
                 <=> \E f \in Range(in) : FilterMatches(f, pkt)
<1> DEFINE portMap == MakePortMap(in)
           Of(proto) == {f \in Range(in) : f.proto = proto}
           Hi(f) == IF f.end = Unset THEN f.port ELSE f.end
           Span(proto, f) == [proto |-> proto, low |-> f.port, high |-> Hi(f)]
           All(proto) == [proto |-> proto, low |-> 0, high |-> 65535]
<1>1. DOMAIN portMap = {f.proto : f \in Range(in)}
  BY DEF MakePortMap
<1>2. ASSUME NEW proto \in DOMAIN portMap
      PROVE  portMap[proto] = IF \E f \in Of(proto) : f.port = Unset THEN {All(proto)}
                              ELSE {Span(proto, f) : f \in Of(proto)}
  BY <1>1 DEF MakePortMap
<1>3. \A proto : All(proto).proto = proto /\ All(proto).low = 0 /\ All(proto).high = 65535
  OBVIOUS
<1>4. \A proto, f : Span(proto, f).proto = proto /\ Span(proto, f).low = f.port /\ Span(proto, f).high = Hi(f)
  OBVIOUS
<1> HIDE DEF portMap, Span, All
<1>5. ASSUME NEW proto \in DOMAIN portMap, PortsMatch(portMap[proto], pkt)
      PROVE  \E f \in Range(in) : FilterMatches(f, pkt)
  <2>1. CASE \E f \in Of(proto) : f.port = Unset
    <3>1. PICK f \in Range(in) : f.proto = proto /\ f.port = Unset
      BY <2>1
    <3>2. portMap[proto] = {All(proto)}
      BY <1>2, <2>1
    <3>3. proto = pkt.proto
      BY <1>3, <1>5, <3>2 DEF PortsMatch
    <3> QED BY <3>1, <3>3 DEF FilterMatches
  <2>2. CASE ~\E f \in Of(proto) : f.port = Unset
    <3>1. portMap[proto] = {Span(proto, f) : f \in Of(proto)}
      BY <1>2, <2>2
    <3>2. portMap[proto] # {}
      BY <1>1, <3>1
    <3>3. PICK q \in portMap[proto] : q.proto = pkt.proto /\ q.low <= pkt.port /\ pkt.port <= q.high
      BY <1>5, <3>2 DEF PortsMatch
    <3>4. PICK f \in Of(proto) : q = Span(proto, f)
      BY <3>1
    <3>5. f.proto = pkt.proto /\ f.port <= pkt.port /\ pkt.port <= Hi(f) /\ f.port # Unset
      BY <1>4, <2>2, <3>3, <3>4
    <3>6. SoundFilter(f)
      OBVIOUS
    <3>7. f.port # 0
      BY <3>5, <3>6 DEF SoundFilter, Named, Unset
    <3>8. f.port > 0
      BY <3>5, <3>6, <3>7 DEF SoundFilter, Unset
    <3> QED BY <3>5, <3>8 DEF FilterMatches
  <2> QED BY <2>1, <2>2
<1>6. ASSUME NEW f \in Range(in), FilterMatches(f, pkt)
      PROVE  \E proto \in DOMAIN portMap : PortsMatch(portMap[proto], pkt)
  <2>1. f.proto \in DOMAIN portMap /\ f \in Of(f.proto) /\ f.proto = pkt.proto
    BY <1>1, <1>6 DEF FilterMatches
  <2>2. CASE \E g \in Of(f.proto) : g.port = Unset
    <3>1. portMap[f.proto] = {All(f.proto)}
      BY <1>2, <2>1, <2>2
    <3>2. PortsMatch({All(f.proto)}, pkt)
      BY <1>3, <2>1 DEF PortsMatch
    <3> QED BY <2>1, <3>1, <3>2
  <2>3. CASE ~\E g \in Of(f.proto) : g.port = Unset
    <3>1. Span(f.proto, f) \in portMap[f.proto]
      BY <1>2, <2>1, <2>3
    <3>2. f.port <= pkt.port /\ pkt.port <= Hi(f)
      BY <1>6, <2>1, <2>3 DEF FilterMatches
    <3>3. PortsMatch(portMap[f.proto], pkt)
      BY <1>4, <2>1, <3>1, <3>2 DEF PortsMatch
    <3> QED BY <2>1, <3>3
  <2> QED BY <2>2, <2>3
<1> QED BY <1>5, <1>6 DEF portMap

(* The same of the list of port matches.                                   *)
LEMMA PortMatchesAdmit ==
    ASSUME NEW in, IsList(in), \A f \in Range(in) : SoundFilter(f),
           NEW pkt, pkt.port \in Nat \ {0}, pkt.port <= 65535
    PROVE  (\E p \in Range(MakePortMatches(in)) : PortsMatch(p, pkt))
             <=> in = <<>> \/ \E f \in Range(in) : FilterMatches(f, pkt)
<1>1. CASE in = <<>>
  <2>1. Range(MakePortMatches(in)) = {{}}
    BY ONLY IsList(in), <1>1, PortMatchesList
  <2>2. PortsMatch({}, pkt)
    BY ONLY DEF PortsMatch
  <2> QED BY ONLY <1>1, <2>1, <2>2
<1>2. CASE in # <<>>
  <2> DEFINE portMap == MakePortMap(in)
  <2>1. Range(MakePortMatches(in)) = {portMap[proto] : proto \in DOMAIN portMap}
    BY ONLY IsList(in), <1>2, PortMatchesList
  <2>2. (\E proto \in DOMAIN portMap : PortsMatch(portMap[proto], pkt))
          <=> \E f \in Range(in) : FilterMatches(f, pkt)
    BY PortMapAdmits
  <2> HIDE DEF portMap
  <2> QED BY <1>2, <2>1, <2>2
<1> QED BY <1>1, <1>2

(* A rule of a policy, as it was before it went through the model and the  *)
(* generator.                                                              *)
LEMMA BuiltRuleAdmits ==
    ASSUME NEW rule, SoundIngress(rule), IsExternal(rule),
           \A f \in Range(rule.ports) : SoundFilter(f),
           NEW pkt, pkt.port \in Nat \ {0}, pkt.port <= 65535
    PROVE  RuleAdmits(BuildAllowedIngress(rule), pkt)
             <=> /\ rule.from = <<>> \/ \E peer \in Range(rule.from) : PeerMatches(peer, pkt.src)
                 /\ rule.ports = <<>> \/ \E f \in Range(rule.ports) : FilterMatches(f, pkt)
<1> DEFINE b == BuildAllowedIngress(rule)
           saddrs == MakeSAddrMatches(b.blocks)
           ports == MakePortMatches(b.ports)
           SrcMatches(s) == /\ s.match = {} \/ pkt.src \in UNION s.match
                            /\ ~\E x \in Range(s.except) : pkt.src \in x
<1>1. /\ SoundRule(b) /\ b.ports = rule.ports
      /\ Range(b.blocks) = {peer \in Range(rule.from) : peer.block}
      /\ (b.blocks = <<>> <=> Range(b.blocks) = {})
  <2>1. SoundRule(b) /\ b.ports = rule.ports
    BY ONLY SoundIngress(rule), BuiltRule
  <2>2. Range(b.blocks) = {peer \in Range(rule.from) : peer.block}
    BY ONLY SoundIngress(rule), BuiltRule
  <2>3. b.blocks = <<>> <=> Range(b.blocks) = {}
    BY ONLY SoundIngress(rule), BuiltRule
  <2> QED BY <2>1, <2>2, <2>3
<1> HIDE DEF b
<1>2. \A e : e \in Range(MakeIngressRuleChain(b)) <=>
          \E s \in Range(saddrs), p \in Range(ports) :
              e = [src |-> s.match, ports |-> p, except |-> s.except]
  BY <1>1, EntriesOfRule
<1>3. \A x : x \in Range(saddrs) <=>
          IF b.blocks = <<>> THEN x = [match |-> {}, except |-> <<>>]
          ELSE \E k \in Range(b.blocks) : x = [match |-> {k.cidr}, except |-> k.except]
  BY <1>1, SAddrMatches DEF SoundRule
<1>4. (\E p \in Range(ports) : PortsMatch(p, pkt))
        <=> rule.ports = <<>> \/ \E f \in Range(rule.ports) : FilterMatches(f, pkt)
  BY <1>1, PortMatchesAdmit DEF SoundRule
<1> HIDE DEF saddrs, ports
<1>5. \A s, p : LET e == [src |-> s.match, ports |-> p, except |-> s.except]
                IN  EntryMatches(e, pkt) /\ ~Excepted(e, pkt) <=> SrcMatches(s) /\ PortsMatch(p, pkt)
  BY DEF EntryMatches, Excepted, PortsMatch
<1> HIDE DEF SrcMatches
<1>6. RuleAdmits(b, pkt) <=> /\ \E s \in Range(saddrs) : SrcMatches(s)
                             /\ \E p \in Range(ports) : PortsMatch(p, pkt)
  <2>1. ASSUME RuleAdmits(b, pkt)
        PROVE  (\E s \in Range(saddrs) : SrcMatches(s)) /\ \E p \in Range(ports) : PortsMatch(p, pkt)
    <3>1. PICK e \in Range(MakeIngressRuleChain(b)) : EntryMatches(e, pkt) /\ ~Excepted(e, pkt)
      BY <2>1 DEF RuleAdmits
    <3>2. PICK s \in Range(saddrs), p \in Range(ports) :
            e = [src |-> s.match, ports |-> p, except |-> s.except]
      BY <1>2
    <3>3. SrcMatches(s) /\ PortsMatch(p, pkt)
      BY <1>5, <3>1, <3>2
    <3> QED BY <3>3
  <2>2. ASSUME NEW s \in Range(saddrs), SrcMatches(s), NEW p \in Range(ports), PortsMatch(p, pkt)
        PROVE  RuleAdmits(b, pkt)
    <3> DEFINE e == [src |-> s.match, ports |-> p, except |-> s.except]
    <3>1. e \in Range(MakeIngressRuleChain(b))
      BY <1>2
    <3>2. EntryMatches(e, pkt) /\ ~Excepted(e, pkt)
      BY <1>5, <2>2
    <3> HIDE DEF e
    <3> QED BY <3>1, <3>2 DEF RuleAdmits
  <2> QED BY <2>1, <2>2
<1>7. (\E s \in Range(saddrs) : SrcMatches(s))
        <=> rule.from = <<>> \/ \E peer \in Range(rule.from) : PeerMatches(peer, pkt.src)
  <2>1. CASE b.blocks = <<>>
    <3>1. rule.from = <<>>
      BY <1>1, <2>1 DEF IsExternal
    <3>2. SrcMatches([match |-> {}, except |-> <<>>])
      BY DEF SrcMatches, Range
    <3> QED BY <1>3, <2>1, <3>1, <3>2
  <2>2. CASE b.blocks # <<>>
    <3>1. rule.from # <<>>
      <4>1. Range(<<>>) = {}
        BY DEF Range
      <4> QED BY <1>1, <2>2, <4>1
    <3>2. \A k : SrcMatches([match |-> {k.cidr}, except |-> k.except])
                   <=> pkt.src \in k.cidr /\ \A x \in Range(k.except) : pkt.src \notin x
      BY DEF SrcMatches
    <3>3. ASSUME NEW s \in Range(saddrs), SrcMatches(s)
          PROVE  \E peer \in Range(rule.from) : PeerMatches(peer, pkt.src)
      <4>1. PICK k \in Range(b.blocks) : s = [match |-> {k.cidr}, except |-> k.except]
        BY <1>3, <2>2
      <4>2. k \in Range(rule.from) /\ k.block /\ SrcMatches([match |-> {k.cidr}, except |-> k.except])
        BY <1>1, <3>3, <4>1
      <4> QED BY <3>2, <4>2 DEF PeerMatches
    <3>4. ASSUME NEW peer \in Range(rule.from), PeerMatches(peer, pkt.src)
          PROVE  \E s \in Range(saddrs) : SrcMatches(s)
      <4> DEFINE s == [match |-> {peer.cidr}, except |-> peer.except]
      <4>1. peer \in Range(b.blocks)
        BY <1>1, <3>4 DEF PeerMatches
      <4>2. s \in Range(saddrs)
        BY <1>3, <2>2, <4>1
      <4>3. SrcMatches(s)
        BY <3>2, <3>4 DEF PeerMatches
      <4> HIDE DEF s
      <4> QED BY <4>2, <4>3
    <3> QED BY <3>1, <3>3, <3>4
  <2> QED BY <2>1, <2>2
<1> QED BY <1>4, <1>6, <1>7 DEF b

(* The network policies hold in the generated file (buildNetworkPolicy and *)
(* getPolicyAssignments of the Pod model; the generator and the template   *)
(* of the agent): a packet that is accepted is one that the policies of    *)
(* the cluster admit, and what they admit is accepted, unless a policy     *)
(* gives ports by name. The policies' names are to differ over all         *)
(* namespaces.                                                             *)
THEOREM PoliciesAreServed ==
    ASSUME NEW C, SoundPolicies(C), UniqueNames(C), NEW existing, NEW named,
           NEW pkt, pkt.port \in Nat \ {0}, pkt.port <= 65535
    PROVE  LET accepted == Accepted(Generate(PodModel(C), existing).chains, pkt)
               admitted == Admits(C, pkt, named)
           IN  /\ accepted => admitted
               /\ admitted => accepted \/ HasNamedPorts(C)
<1> DEFINE m == PodModel(C)
           accepted == Accepted(Generate(m, existing).chains, pkt)
           selecting == {pol \in Ingresses(C) : pkt.dst \in pol.pods}
           RuleOk(rule) == /\ rule.from = <<>> \/ \E peer \in Range(rule.from) : PeerMatches(peer, pkt.src)
                           /\ rule.ports = <<>> \/ \E f \in Range(rule.ports) : FilterMatches(f, pkt)
           RuleAd(rule) == /\ rule.from = <<>> \/ \E peer \in Range(rule.from) : PeerMatches(peer, pkt.src)
                           /\ rule.ports = <<>> \/ \E f \in Range(rule.ports) :
                                                       PortMatches(f, pkt.proto, pkt.port, named)
<1>1. /\ SoundModel(m)
      /\ Range(m.policies) = {BuildNetworkPolicy(pol) : pol \in Ingresses(C)}
      /\ \A pol \in Ingresses(C) : BuildNetworkPolicy(pol).name = pol.name
      /\ \A a \in m.assignments :
            /\ \E pol \in Ingresses(C) : a.address \in pol.pods
            /\ a.policies = {pol.name : pol \in {q \in Ingresses(C) : a.address \in q.pods}}
      /\ \A pol \in Ingresses(C) : \A x \in pol.pods : \E a \in m.assignments : a.address = x
  BY PodModelPolicies
<1>2. accepted <=> \A a \in m.assignments : a.address = pkt.dst =>
                       \E n \in a.policies : PolicyAdmits(PolicyNamed(m, n), pkt)
  BY <1>1, GeneratedAccepts
<1> HIDE DEF m, accepted
<1>3. ASSUME NEW pol \in Ingresses(C)
      PROVE  PolicyNamed(m, pol.name) = BuildNetworkPolicy(pol)
  <2>1. pol.name \in PolicyNames(m)
    BY <1>1 DEF PolicyNames
  <2>2. PolicyNamed(m, pol.name) \in Range(m.policies) /\ PolicyNamed(m, pol.name).name = pol.name
    BY <1>1, <2>1, NamedPolicy
  <2>3. PICK q \in Ingresses(C) : PolicyNamed(m, pol.name) = BuildNetworkPolicy(q)
    BY <1>1, <2>2
  <2>4. q.name = pol.name
    BY <1>1, <2>2, <2>3
  <2>5. q = pol
    BY <2>4 DEF UniqueNames, Ingresses, Range
  <2> QED BY <2>3, <2>5
<1>4. ASSUME NEW pol \in Ingresses(C)
      PROVE  PolicyAdmits(BuildNetworkPolicy(pol), pkt) <=> \E rule \in Range(pol.ingress) : RuleOk(rule)
  <2>1. /\ IsList(pol.ingress)
        /\ \A rule \in Range(pol.ingress) : SoundIngress(rule) /\ \A f \in Range(rule.ports) : SoundFilter(f)
    BY DEF Ingresses, SoundPolicies, SoundIngress, SoundFilter
  <2>2. Range(BuildNetworkPolicy(pol).ingresses)
          = {BuildAllowedIngress(rule) : rule \in {r \in Range(pol.ingress) : IsExternal(r)}}
    BY <2>1, BuiltPolicy
  <2>3. \A rule \in Range(pol.ingress) : IsExternal(rule) =>
            (RuleAdmits(BuildAllowedIngress(rule), pkt) <=> RuleOk(rule))
    BY <2>1, BuiltRuleAdmits
  <2>4. \A rule \in Range(pol.ingress) : RuleOk(rule) => IsExternal(rule)
    BY DEF PeerMatches, IsExternal
  <2> HIDE DEF RuleOk
  <2> QED BY <2>2, <2>3, <2>4 DEF PolicyAdmits
<1>5. accepted <=> selecting = {} \/ \E pol \in selecting : \E rule \in Range(pol.ingress) : RuleOk(rule)
  <2> HIDE DEF RuleOk
  <2>1. CASE selecting = {}
    <3>1. \A a \in m.assignments : a.address # pkt.dst
      BY <1>1, <2>1
    <3> QED BY <1>2, <2>1, <3>1
  <2>2. CASE selecting # {}
    <3>1. PICK a \in m.assignments : a.address = pkt.dst
      BY <1>1, <2>2
    <3>2. a.policies = {pol.name : pol \in selecting}
      BY <1>1, <3>1
    <3>3. \A b \in m.assignments : b.address = pkt.dst => b = a
      BY <1>1, <3>1 DEF SoundModel
    <3>4. accepted <=> \E n \in a.policies : PolicyAdmits(PolicyNamed(m, n), pkt)
      BY <1>2, <3>1, <3>3
    <3>5. accepted <=> \E pol \in selecting : PolicyAdmits(PolicyNamed(m, pol.name), pkt)
      BY <3>2, <3>4
    <3>6. \A pol \in selecting : PolicyAdmits(PolicyNamed(m, pol.name), pkt)
                                   <=> \E rule \in Range(pol.ingress) : RuleOk(rule)
      BY <1>3, <1>4
    <3> QED BY <2>2, <3>5, <3>6
  <2> QED BY <2>1, <2>2
<1>6. Admits(C, pkt, named)
        <=> selecting = {} \/ \E pol \in selecting : \E rule \in Range(pol.ingress) : RuleAd(rule)
  <2>1. selecting = {pol \in Range(C.policies) : pol.isIngress /\ pkt.dst \in pol.pods}
    BY DEF Ingresses
  <2> HIDE DEF selecting
  <2> QED BY <2>1 DEF Admits
<1>7. ASSUME NEW pol \in selecting, NEW rule \in Range(pol.ingress)
      PROVE  /\ RuleOk(rule) => RuleAd(rule)
             /\ RuleAd(rule) => RuleOk(rule) \/ HasNamedPorts(C)
  <2>1. \A f \in Range(rule.ports) : /\ FilterMatches(f, pkt) => PortMatches(f, pkt.proto, pkt.port, named)
                                     /\ PortMatches(f, pkt.proto, pkt.port, named)
                                          => FilterMatches(f, pkt) \/ f.port = Named
    BY DEF FilterMatches, PortMatches
  <2>2. (\E f \in Range(rule.ports) : f.port = Named) => HasNamedPorts(C)
    BY DEF HasNamedPorts, Ingresses
  <2> QED BY <2>1, <2>2
<1> HIDE DEF RuleOk, RuleAd
<1>8. accepted => Admits(C, pkt, named)
  BY <1>5, <1>6, <1>7
<1>9. Admits(C, pkt, named) => accepted \/ HasNamedPorts(C)
  BY <1>5, <1>6, <1>7
<1> QED BY <1>8, <1>9 DEF accepted, m
=============================================================================
