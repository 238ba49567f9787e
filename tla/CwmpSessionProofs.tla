------------------------- MODULE CwmpSessionProofs -------------------------
(***************************************************************************)
(* Theorems about CwmpSession, on two inductive invariants: IInv says      *)
(* which session a request meets and which tasks it may hold; Attentive,   *)
(* which needs IInv, what the CPE has of them and what it has accepted.    *)
(***************************************************************************)
EXTENDS CwmpSession, FiniteSetTheorems, SequenceTheorems, WellFoundedInduction, TLAPS

-----------------------------------------------------------------------------
(* Facts about numbers and lists.  The library's induction theorems take an *)
(* operator; here induction is over a set of numbers, or of lists, which    *)
(* any first-order prover can be given.                                     *)

Smaller == {pair \in Nat \X Nat : pair[1] < pair[2]}

LEMMA SmallerIsLess == OpToRel(<, Nat) = Smaller
BY Zenon DEF OpToRel, Smaller

LEMMA SmallerIsWellFounded == IsWellFoundedOn(Smaller, Nat)
BY SmallerIsLess, NatLessThanWellFounded, Zenon

LEMMA SmallerIntro ==
    ASSUME NEW x \in Nat, NEW y \in Nat, y < x
    PROVE  <<y, x>> \in Smaller
BY DEF Smaller

\* A set of natural numbers has a least element.
LEMMA LeastNatural ==
    ASSUME NEW T \in SUBSET Nat, T # {}
    PROVE  \E x \in T : \A y \in T : x <= y
<1>1. PICK x \in T : \A y \in T : <<y, x>> \notin Smaller
  BY SmallerIsWellFounded, WFMin, Zenon
<1>2. ASSUME NEW y \in T
      PROVE  x <= y
  <2>1. x \in Nat /\ y \in Nat
    OBVIOUS
  <2>2. ~ (y < x)
    BY <1>1, <2>1, SmallerIntro, Zenon
  <2> QED BY <2>1, <2>2
<1> QED BY <1>2, Zenon

\* A bounded set of natural numbers has a greatest element.
LEMMA GreatestNatural ==
    ASSUME NEW T \in SUBSET Nat, T # {}, NEW m \in Nat, \A y \in T : y <= m
    PROVE  \E x \in T : \A y \in T : x >= y
<1> DEFINE U == {n \in Nat : m - n \in T}
<1>1. \A y \in T : m - y \in U
  <2> SUFFICES ASSUME NEW y \in T PROVE m - y \in Nat /\ m - (m - y) \in T
    BY Zenon DEF U
  <2>1. y \in Nat /\ m - y \in Nat /\ m - (m - y) = y
    OBVIOUS
  <2> QED BY <2>1
<1>2. PICK n \in U : \A k \in U : n <= k
  <2>1. U \in SUBSET Nat /\ U # {}
    BY <1>1
  <2> HIDE DEF U
  <2> QED BY <2>1, LeastNatural
<1>3. m - n \in T /\ n \in Nat
  BY <1>2
<1>4. ASSUME NEW y \in T
      PROVE  m - n >= y
  <2>1. y \in Nat /\ m - y \in Nat
    OBVIOUS
  <2>2. n <= m - y
    BY <1>1, <1>2
  <2> QED BY <2>1, <2>2, <1>3
<1> QED BY <1>3, <1>4

\* Induction over a set of numbers.
LEMMA NatSetInduction ==
    ASSUME NEW S, 0 \in S, \A n \in Nat : n \in S => n + 1 \in S
    PROVE  Nat \subseteq S
<1> SUFFICES ASSUME Nat \ S # {} PROVE FALSE
  OBVIOUS
<1>1. PICK x \in Nat \ S : \A y \in Nat \ S : x <= y
  BY LeastNatural
<1>2. x # 0 /\ x - 1 \in Nat
  OBVIOUS
<1>3. x - 1 \in S
  BY <1>1, <1>2
<1>4. (x - 1) + 1 \in S
  BY <1>2, <1>3
<1> QED BY <1>4, <1>2

-----------------------------------------------------------------------------
(* Keep                                                                    *)

\* A set with the empty list and closed under Append has every list.
LEMMA SeqSetInduction ==
    ASSUME NEW T, NEW P, <<>> \in P,
           \A l \in Seq(T), x \in T : l \in P => Append(l, x) \in P
    PROVE  Seq(T) \subseteq P
<1> DEFINE S == {n \in Nat : \A l \in Seq(T) : Len(l) = n => l \in P}
<1>1. 0 \in S
  <2>1. ASSUME NEW l \in Seq(T), Len(l) = 0 PROVE l = <<>>
    BY <2>1, EmptySeq
  <2> QED BY <2>1
<1>2. \A n \in Nat : n \in S => n + 1 \in S
  <2> SUFFICES ASSUME NEW n \in Nat, n \in S PROVE n + 1 \in S
    OBVIOUS
  <2>0. \A l \in Seq(T) : Len(l) = n => l \in P
    OBVIOUS
  <2>1. ASSUME NEW l \in Seq(T), Len(l) = n + 1
        PROVE  l \in P
    <3>1. l # <<>>
      BY <2>1, EmptySeq
    <3>2. PICK k \in Seq(T), x \in T : l = Append(k, x)
      BY <3>1, SequenceEmptyOrAppend
    <3>3. Len(k) \in Nat /\ Len(l) = Len(k) + 1
      BY <3>2, AppendProperties, LenProperties
    <3>4. Len(k) = n
      BY ONLY <3>3, <2>1, n \in Nat
    <3> QED BY <3>2, <3>4, <2>0
  <2> QED BY <2>1
<1>3. Nat \subseteq S
  <2> HIDE DEF S
  <2> QED BY ONLY <1>1, <1>2, NatSetInduction, ZenonT(30)
<1> QED BY <1>3, LenProperties

LEMMA KeepUnfold ==
    ASSUME NEW T, NEW q \in Seq(T), NEW S
    PROVE  \E kept :
             /\ kept = [n \in 0 .. Len(q) |->
                         IF n = 0 THEN <<>>
                         ELSE IF q[n] \in S THEN Append(kept[n - 1], q[n]) ELSE kept[n - 1]]
             /\ Keep(q, S) = kept[Len(q)]
<1> DEFINE Body(f, n) == IF n = 0 THEN <<>>
                         ELSE IF q[n] \in S THEN Append(f[n - 1], q[n]) ELSE f[n - 1]
           D == {m \in Nat : \E f : f = [n \in 0 .. m |-> Body(f, n)]}
<1>1. 0 \in D
  <2> DEFINE f == [n \in 0 .. 0 |-> <<>>]
  <2>1. f = [n \in 0 .. 0 |-> Body(f, n)]
    OBVIOUS
  <2> QED BY <2>1
<1>2. \A m \in Nat : m \in D => m + 1 \in D
  <2> SUFFICES ASSUME NEW m \in Nat, m \in D PROVE m + 1 \in D
    OBVIOUS
  <2>0. PICK f : f = [n \in 0 .. m |-> Body(f, n)]
    OBVIOUS
  <2>1. \A n \in 0 .. m : f[n] = Body(f, n)
    <3> HIDE DEF Body
    <3> QED BY ONLY <2>0, Zenon
  <2> DEFINE g == [n \in 0 .. m + 1 |-> IF n = m + 1 THEN Body(f, n) ELSE f[n]]
  <2>2. ASSUME NEW n \in 0 .. m + 1
        PROVE  g[n] = Body(g, n)
    <3>1. n # 0 => n - 1 \in 0 .. m /\ g[n - 1] = f[n - 1]
      OBVIOUS
    <3>2. Body(g, n) = Body(f, n)
      BY <3>1
    <3>3. n # m + 1 => n \in 0 .. m /\ f[n] = Body(f, n)
      <4>1. n # m + 1 => n \in 0 .. m
        OBVIOUS
      <4> HIDE DEF Body
      <4> QED BY ONLY <2>1, <4>1
    <3>4. g[n] = Body(f, n)
      <4> HIDE DEF Body
      <4> QED BY <3>3
    <3> QED BY <3>2, <3>4
  <2>3. g = [n \in 0 .. m + 1 |-> Body(g, n)]
    <3>1. g = [n \in 0 .. m + 1 |-> g[n]]
      OBVIOUS
    <3> HIDE DEF g, Body
    <3> QED BY ONLY <2>2, <3>1
  <2> HIDE DEF g, Body
  <2> QED BY <2>3
<1>3. Len(q) \in D
  <2> HIDE DEF D
  <2>1. Nat \subseteq D
    BY ONLY <1>1, <1>2, NatSetInduction, ZenonT(30)
  <2> QED BY <2>1, LenProperties
<1> DEFINE k == CHOOSE f : f = [n \in 0 .. Len(q) |-> Body(f, n)]
<1>4. k = [n \in 0 .. Len(q) |-> Body(k, n)]
  <2> HIDE DEF Body
  <2>1. \E f : f = [n \in 0 .. Len(q) |-> Body(f, n)]
    BY <1>3
  <2> QED BY ONLY <2>1, Zenon
<1>5. Keep(q, S) = k[Len(q)]
  BY DEF Keep
<1> HIDE DEF k, D
<1> QED BY ONLY <1>4, <1>5

LEMMA KeepEmpty ==
    ASSUME NEW S
    PROVE  Keep(<<>>, S) = <<>>
<1>1. <<>> \in Seq({}) /\ Len(<<>>) = 0
  BY EmptySeq
<1>2. PICK k : /\ k = [n \in 0 .. Len(<<>>) |->
                        IF n = 0 THEN <<>>
                        ELSE IF <<>>[n] \in S THEN Append(k[n - 1], <<>>[n]) ELSE k[n - 1]]
              /\ Keep(<<>>, S) = k[Len(<<>>)]
  BY <1>1, KeepUnfold
<1>3. k[0] = <<>>
  BY <1>1, <1>2
<1> QED BY <1>1, <1>2, <1>3

LEMMA KeepAppend ==
    ASSUME NEW T, NEW q \in Seq(T), NEW x \in T, NEW S
    PROVE  Keep(Append(q, x), S) = IF x \in S THEN Append(Keep(q, S), x) ELSE Keep(q, S)
<1> DEFINE r == Append(q, x)
<1>1. /\ r \in Seq(T) /\ Len(q) \in Nat /\ Len(r) = Len(q) + 1
      /\ \A n \in 1 .. Len(q) : r[n] = q[n]
      /\ r[Len(q) + 1] = x
  BY AppendProperties, LenProperties
<1> HIDE DEF r
<1>2. PICK k : /\ k = [n \in 0 .. Len(q) |->
                        IF n = 0 THEN <<>>
                        ELSE IF q[n] \in S THEN Append(k[n - 1], q[n]) ELSE k[n - 1]]
              /\ Keep(q, S) = k[Len(q)]
  BY KeepUnfold
<1>3. PICK m : /\ m = [n \in 0 .. Len(r) |->
                        IF n = 0 THEN <<>>
                        ELSE IF r[n] \in S THEN Append(m[n - 1], r[n]) ELSE m[n - 1]]
              /\ Keep(r, S) = m[Len(r)]
  BY <1>1, KeepUnfold
<1> DEFINE E == {n \in Nat : n <= Len(q) => m[n] = k[n]}
<1>4. 0 \in E
  BY <1>1, <1>2, <1>3
<1>5. ASSUME NEW n \in Nat, n \in E
      PROVE  n + 1 \in E
  <2> SUFFICES ASSUME n + 1 <= Len(q) PROVE m[n + 1] = k[n + 1]
    OBVIOUS
  <2>1. n + 1 \in 1 .. Len(q) /\ n + 1 # 0 /\ (n + 1) - 1 = n /\ m[n] = k[n]
    BY <1>1, <1>5
  <2>2. n + 1 \in 0 .. Len(q) /\ n + 1 \in 0 .. Len(r) /\ r[n + 1] = q[n + 1]
    BY <1>1, <2>1
  <2>3. k[n + 1] = IF q[n + 1] \in S THEN Append(k[n], q[n + 1]) ELSE k[n]
    BY <1>2, <2>1, <2>2
  <2>4. m[n + 1] = IF r[n + 1] \in S THEN Append(m[n], r[n + 1]) ELSE m[n]
    BY <1>3, <2>1, <2>2
  <2> QED BY <2>1, <2>2, <2>3, <2>4
<1>6. Nat \subseteq E
  <2> HIDE DEF E
  <2> QED BY <1>4, <1>5, NatSetInduction
<1>7. m[Len(q)] = k[Len(q)]
  BY <1>1, <1>6
<1>8. m[Len(r)] = IF x \in S THEN Append(m[Len(q)], x) ELSE m[Len(q)]
  <2>1. Len(r) \in 0 .. Len(r) /\ Len(r) # 0 /\ Len(r) - 1 = Len(q) /\ r[Len(r)] = x
    BY <1>1
  <2> QED BY <1>3, <2>1
<1> QED BY <1>2, <1>3, <1>7, <1>8 DEF r

LEMMA RangeEmpty == Range(<<>>) = {}
BY EmptySeq, RangeOfSeq DEF Range

LEMMA RangeAppend ==
    ASSUME NEW T, NEW q \in Seq(T), NEW x \in T
    PROVE  Range(Append(q, x)) = Range(q) \cup {x}
<1>1. /\ Append(q, x) \in Seq(T) /\ Len(q) \in Nat /\ Len(Append(q, x)) = Len(q) + 1
      /\ \A n \in 1 .. Len(q) : Append(q, x)[n] = q[n]
      /\ Append(q, x)[Len(q) + 1] = x
      /\ DOMAIN q = 1 .. Len(q) /\ DOMAIN Append(q, x) = 1 .. Len(Append(q, x))
  BY AppendProperties, LenProperties
<1>2. 1 .. Len(q) + 1 = (1 .. Len(q)) \cup {Len(q) + 1}
  BY <1>1
<1> QED BY <1>1, <1>2 DEF Range

LEMMA InjectiveAppend ==
    ASSUME NEW T, NEW q \in Seq(T), NEW x \in T
    PROVE  IsInjective(Append(q, x)) <=> IsInjective(q) /\ x \notin Range(q)
<1>1. /\ Append(q, x) \in Seq(T) /\ Len(q) \in Nat /\ Len(Append(q, x)) = Len(q) + 1
      /\ \A n \in 1 .. Len(q) : Append(q, x)[n] = q[n]
      /\ Append(q, x)[Len(q) + 1] = x
      /\ DOMAIN q = 1 .. Len(q) /\ DOMAIN Append(q, x) = 1 .. Len(Append(q, x))
  BY AppendProperties, LenProperties
<1>2. 1 .. Len(q) + 1 = (1 .. Len(q)) \cup {Len(q) + 1} /\ Len(q) + 1 \notin 1 .. Len(q)
  BY <1>1
<1> DEFINE r == Append(q, x)
<1> HIDE DEF r
<1>3. /\ DOMAIN r = (DOMAIN q) \cup {Len(q) + 1} /\ Len(q) + 1 \notin DOMAIN q
      /\ \A n \in DOMAIN q : r[n] = q[n]
      /\ r[Len(q) + 1] = x
  BY <1>1, <1>2 DEF r
<1>4. IsInjective(r) <=> IsInjective(q) /\ x \notin Range(q)
  BY <1>3, Zenon DEF IsInjective, Range
<1> QED BY <1>4 DEF r

LEMMA KeepType ==
    ASSUME NEW T, NEW q \in Seq(T), NEW S
    PROVE  Keep(q, S) \in Seq(T \cap S) /\ Range(Keep(q, S)) = Range(q) \cap S
<1> DEFINE P == {l \in Seq(T) : Keep(l, S) \in Seq(T \cap S)
                                  /\ Range(Keep(l, S)) = Range(l) \cap S}
<1>1. <<>> \in P
  BY KeepEmpty, RangeEmpty, EmptySeq
<1>2. ASSUME NEW l \in Seq(T), NEW x \in T, l \in P
      PROVE  Append(l, x) \in P
  <2>1. Append(l, x) \in Seq(T) /\ Range(Append(l, x)) = Range(l) \cup {x}
    BY AppendProperties, RangeAppend
  <2>2. CASE x \in S
    <3>1. Keep(Append(l, x), S) = Append(Keep(l, S), x)
      BY <2>2, KeepAppend
    <3>2. Append(Keep(l, S), x) \in Seq(T \cap S)
      BY <1>2, <2>2, AppendProperties
    <3>3. Range(Append(Keep(l, S), x)) = Range(Keep(l, S)) \cup {x}
      BY <1>2, <2>2, RangeAppend
    <3> QED BY <1>2, <2>1, <2>2, <3>1, <3>2, <3>3
  <2>3. CASE x \notin S
    <3>1. Keep(Append(l, x), S) = Keep(l, S)
      BY <2>3, KeepAppend
    <3> QED BY <1>2, <2>1, <2>3, <3>1
  <2> QED BY <2>2, <2>3
<1>3. Seq(T) \subseteq P
  <2> HIDE DEF P
  <2> QED BY <1>1, <1>2, SeqSetInduction
<1> QED BY <1>3

LEMMA KeepIsList ==
    ASSUME NEW T, NEW q \in Seq(T), NEW S
    PROVE  Keep(q, S) \in Seq(T)
<1> DEFINE k == Keep(q, S)
<1>1. k \in Seq(T \cap S)
  BY KeepType
<1> HIDE DEF k
<1>2. T \cap S \subseteq T
  OBVIOUS
<1>3. k \in Seq(T)
  BY <1>1, <1>2, SeqMonotonic
<1> QED BY <1>3 DEF k

\* What is kept depends on the list's own elements only.
LEMMA KeepSame ==
    ASSUME NEW T, NEW q \in Seq(T), NEW S, NEW U, Range(q) \cap S = Range(q) \cap U
    PROVE  Keep(q, S) = Keep(q, U)
<1> DEFINE P == {l \in Seq(T) : Range(l) \cap S = Range(l) \cap U => Keep(l, S) = Keep(l, U)}
<1>1. <<>> \in P
  BY KeepEmpty, EmptySeq
<1>2. ASSUME NEW l \in Seq(T), NEW x \in T, l \in P
      PROVE  Append(l, x) \in P
  <2>1. Append(l, x) \in Seq(T) /\ Range(Append(l, x)) = Range(l) \cup {x}
    BY AppendProperties, RangeAppend
  <2>2. SUFFICES ASSUME Range(Append(l, x)) \cap S = Range(Append(l, x)) \cap U
                 PROVE  Keep(Append(l, x), S) = Keep(Append(l, x), U)
    BY <2>1
  <2>3. Range(l) \cap S = Range(l) \cap U /\ (x \in S <=> x \in U)
    BY <2>1, <2>2
  <2>4. Keep(l, S) = Keep(l, U)
    BY <1>2, <2>3
  <2>5. /\ Keep(Append(l, x), S) = IF x \in S THEN Append(Keep(l, S), x) ELSE Keep(l, S)
        /\ Keep(Append(l, x), U) = IF x \in U THEN Append(Keep(l, U), x) ELSE Keep(l, U)
    BY KeepAppend
  <2> QED BY <2>3, <2>4, <2>5
<1>3. Seq(T) \subseteq P
  <2> HIDE DEF P
  <2> QED BY <1>1, <1>2, SeqSetInduction
<1> QED BY <1>3

LEMMA KeepAll ==
    ASSUME NEW T, NEW q \in Seq(T), NEW S, Range(q) \subseteq S
    PROVE  Keep(q, S) = q
<1> DEFINE P == {l \in Seq(T) : Range(l) \subseteq S => Keep(l, S) = l}
<1>1. <<>> \in P
  BY KeepEmpty, EmptySeq
<1>2. ASSUME NEW l \in Seq(T), NEW x \in T, l \in P
      PROVE  Append(l, x) \in P
  <2>1. Append(l, x) \in Seq(T) /\ Range(Append(l, x)) = Range(l) \cup {x}
    BY AppendProperties, RangeAppend
  <2> QED BY <1>2, <2>1, KeepAppend
<1>3. Seq(T) \subseteq P
  <2> HIDE DEF P
  <2> QED BY <1>1, <1>2, SeqSetInduction
<1> QED BY <1>3

LEMMA KeepNone ==
    ASSUME NEW T, NEW q \in Seq(T), NEW S, Range(q) \cap S = {}
    PROVE  Keep(q, S) = <<>>
<1> DEFINE k == Keep(q, S)
<1>1. k \in Seq(T \cap S) /\ Range(k) = {}
  BY KeepType
<1> HIDE DEF k
<1>2. k \in Seq({})
  BY <1>1, SeqOfRange
<1>3. k = <<>>
  <2> SUFFICES ASSUME k # <<>> PROVE FALSE
    OBVIOUS
  <2>1. PICK s \in Seq({}), e \in {} : k = Append(s, e)
    BY <1>2, SequenceEmptyOrAppend
  <2> QED BY <2>1
<1> QED BY <1>3 DEF k

LEMMA KeepKeep ==
    ASSUME NEW T, NEW q \in Seq(T), NEW S, NEW U
    PROVE  Keep(Keep(q, S), U) = Keep(q, S \cap U)
<1> DEFINE P == {l \in Seq(T) : Keep(Keep(l, S), U) = Keep(l, S \cap U)}
<1>1. <<>> \in P
  BY KeepEmpty, EmptySeq
<1>2. ASSUME NEW l \in Seq(T), NEW x \in T, l \in P
      PROVE  Append(l, x) \in P
  <2>1. Append(l, x) \in Seq(T) /\ Keep(l, S) \in Seq(T)
    BY AppendProperties, KeepIsList
  <2>2. Keep(Append(Keep(l, S), x), U)
          = IF x \in U THEN Append(Keep(Keep(l, S), U), x) ELSE Keep(Keep(l, S), U)
    BY <2>1, KeepAppend
  <2>3. Keep(Append(l, x), S) = IF x \in S THEN Append(Keep(l, S), x) ELSE Keep(l, S)
    BY KeepAppend
  <2>4. Keep(Append(l, x), S \cap U)
          = IF x \in S \cap U THEN Append(Keep(l, S \cap U), x) ELSE Keep(l, S \cap U)
    BY KeepAppend
  <2>5. Keep(Keep(l, S), U) = Keep(l, S \cap U)
    BY <1>2
  <2>6. Keep(Keep(Append(l, x), S), U) = Keep(Append(l, x), S \cap U)
    <3>1. CASE x \in S
      <4>1. Keep(Append(l, x), S) = Append(Keep(l, S), x)
        BY <3>1, <2>3
      <4>2. x \in S \cap U <=> x \in U
        BY <3>1
      <4> QED BY <4>1, <4>2, <2>2, <2>4, <2>5
    <3>2. CASE x \notin S
      BY <3>2, <2>3, <2>4, <2>5
    <3> QED BY <3>1, <3>2
  <2> QED BY <2>1, <2>6
<1>3. Seq(T) \subseteq P
  <2> HIDE DEF P
  <2> QED BY <1>1, <1>2, SeqSetInduction
<1> QED BY <1>3

\* Appending to the second of two lists appends to their concatenation.
LEMMA AppendAhead ==
    ASSUME NEW T, NEW k \in Seq(T), NEW rest \in Seq(T), NEW t \in T
    PROVE  Append(k \o rest, t) = k \o Append(rest, t) /\ Append(rest, t) \in Seq(T)
<1> DEFINE e == <<t>>
<1>1. e \in Seq(T) /\ k \o rest \in Seq(T)
  BY ConcatProperties
<1>2. Append(k \o rest, t) = (k \o rest) \o e /\ Append(rest, t) = rest \o e
  BY <1>1, AppendIsConcat
<1> HIDE DEF e
<1>3. (k \o rest) \o e = k \o (rest \o e)
  BY <1>1, ConcatAssociative
<1>4. Append(rest, t) \in Seq(T)
  BY AppendProperties
<1> QED BY ONLY <1>2, <1>3, <1>4

LEMMA KeepConcat ==
    ASSUME NEW T, NEW p \in Seq(T), NEW q \in Seq(T), NEW S
    PROVE  Keep(p \o q, S) = Keep(p, S) \o Keep(q, S)
<1> DEFINE P == {l \in Seq(T) : Keep(p \o l, S) = Keep(p, S) \o Keep(l, S)}
<1>0. Keep(p, S) \in Seq(T)
  BY KeepIsList
<1>1. <<>> \in P
  <2>1. p \o <<>> = p /\ Keep(p, S) \o <<>> = Keep(p, S)
    BY <1>0, ConcatEmptySeq
  <2> QED BY <2>1, KeepEmpty, EmptySeq
<1>2. ASSUME NEW l \in Seq(T), NEW x \in T, l \in P
      PROVE  Append(l, x) \in P
  <2>1. /\ Append(l, x) \in Seq(T) /\ Keep(l, S) \in Seq(T) /\ p \o l \in Seq(T)
        /\ <<x>> \in Seq(T)
    BY AppendProperties, KeepIsList, ConcatProperties
  <2>2. p \o Append(l, x) = Append(p \o l, x)
    BY AppendAhead
  <2>3. Append(Keep(p, S) \o Keep(l, S), x) = Keep(p, S) \o Append(Keep(l, S), x)
    <3> DEFINE K == Keep(p, S)
               L == Keep(l, S)
               e == <<x>>
    <3>1. K \in Seq(T) /\ L \in Seq(T) /\ e \in Seq(T) /\ K \o L \in Seq(T)
      BY <1>0, <2>1, ConcatProperties
    <3>2. Append(K \o L, x) = (K \o L) \o e /\ Append(L, x) = L \o e
      BY <3>1, AppendIsConcat
    <3> HIDE DEF K, L, e
    <3>3. (K \o L) \o e = K \o (L \o e)
      BY ONLY <3>1, ConcatAssociative, SMTT(30)
    <3>4. Append(K \o L, x) = K \o Append(L, x)
      BY ONLY <3>2, <3>3
    <3> QED BY <3>4 DEF K, L
  <2>4. Keep(Append(p \o l, x), S)
          = IF x \in S THEN Append(Keep(p \o l, S), x) ELSE Keep(p \o l, S)
    BY <2>1, KeepAppend
  <2>5. Keep(Append(l, x), S) = IF x \in S THEN Append(Keep(l, S), x) ELSE Keep(l, S)
    BY KeepAppend
  <2> QED BY <1>2, <2>1, <2>2, <2>3, <2>4, <2>5
<1>3. Seq(T) \subseteq P
  <2> HIDE DEF P
  <2> QED BY <1>1, <1>2, SeqSetInduction
<1> QED BY <1>3

LEMMA KeepInjective ==
    ASSUME NEW T, NEW q \in Seq(T), NEW S, IsInjective(q)
    PROVE  IsInjective(Keep(q, S))
<1> DEFINE P == {l \in Seq(T) : IsInjective(l) => IsInjective(Keep(l, S))}
<1>1. <<>> \in P
  BY KeepEmpty, EmptySeq
<1>2. ASSUME NEW l \in Seq(T), NEW x \in T, l \in P
      PROVE  Append(l, x) \in P
  <2>1. /\ Append(l, x) \in Seq(T) /\ Keep(l, S) \in Seq(T)
        /\ Range(Keep(l, S)) = Range(l) \cap S
    BY AppendProperties, KeepType, KeepIsList
  <2>2. IsInjective(Append(l, x)) <=> IsInjective(l) /\ x \notin Range(l)
    BY InjectiveAppend
  <2>3. IsInjective(Append(Keep(l, S), x))
          <=> IsInjective(Keep(l, S)) /\ x \notin Range(Keep(l, S))
    BY <2>1, InjectiveAppend
  <2>4. Keep(Append(l, x), S) = IF x \in S THEN Append(Keep(l, S), x) ELSE Keep(l, S)
    BY KeepAppend
  <2> QED BY <1>2, <2>1, <2>2, <2>3, <2>4
<1>3. Seq(T) \subseteq P
  <2> HIDE DEF P
  <2> QED BY <1>1, <1>2, SeqSetInduction
<1> QED BY <1>3

\* Kept elements stay in their order.
LEMMA KeepOrder ==
    ASSUME NEW T, NEW q \in Seq(T), NEW S,
           NEW j \in DOMAIN q, NEW k \in DOMAIN q, j < k, q[j] \in S, q[k] \in S
    PROVE  \E a, b \in DOMAIN Keep(q, S) :
               a < b /\ Keep(q, S)[a] = q[j] /\ Keep(q, S)[b] = q[k]
<1> DEFINE Ordered(l) ==
             \A m, n \in DOMAIN l : m < n /\ l[m] \in S /\ l[n] \in S
                => \E a, b \in DOMAIN Keep(l, S) :
                     a < b /\ Keep(l, S)[a] = l[m] /\ Keep(l, S)[b] = l[n]
           P == {l \in Seq(T) : Ordered(l)}
<1>1. <<>> \in P
  BY EmptySeq
<1>2. ASSUME NEW l \in Seq(T), NEW x \in T, l \in P
      PROVE  Append(l, x) \in P
  <2> DEFINE r == Append(l, x)
             h == Keep(l, S)
  <2>1. /\ r \in Seq(T) /\ DOMAIN r = 1 .. Len(l) + 1 /\ DOMAIN l = 1 .. Len(l)
        /\ Len(l) \in Nat
        /\ \A n \in 1 .. Len(l) : r[n] = l[n]
        /\ r[Len(l) + 1] = x
    BY AppendProperties, LenProperties
  <2>2. /\ h \in Seq(T) /\ Range(h) = Range(l) \cap S
        /\ Len(h) \in Nat /\ DOMAIN h = 1 .. Len(h)
    <3>1. h \in Seq(T) /\ Range(h) = Range(l) \cap S
      BY KeepType, KeepIsList
    <3> QED BY <3>1, LenProperties
  <2>3. Keep(r, S) = IF x \in S THEN Append(h, x) ELSE h
    BY KeepAppend
  <2>4. /\ DOMAIN Append(h, x) = 1 .. Len(h) + 1
        /\ \A n \in 1 .. Len(h) : Append(h, x)[n] = h[n]
        /\ Append(h, x)[Len(h) + 1] = x
    BY <2>2, AppendProperties, LenProperties
  <2>5. Ordered(l)
    BY <1>2
  <2> HIDE DEF r, h
  <2>6. ASSUME NEW m \in DOMAIN r, NEW n \in DOMAIN r, m < n, r[m] \in S, r[n] \in S
        PROVE  \E a, b \in DOMAIN Keep(r, S) :
                 a < b /\ Keep(r, S)[a] = r[m] /\ Keep(r, S)[b] = r[n]
    <3>1. m \in 1 .. Len(l) /\ m \in Nat /\ n \in Nat
      BY <2>1, <2>6
    <3>2. r[m] = l[m]
      BY <2>1, <3>1
    <3>3. CASE n \in 1 .. Len(l)
      <4>1. PICK a \in DOMAIN h, b \in DOMAIN h : a < b /\ h[a] = l[m] /\ h[b] = l[n]
        BY <2>1, <2>5, <2>6, <3>1, <3>3 DEF h
      <4>2. a \in DOMAIN Keep(r, S) /\ b \in DOMAIN Keep(r, S)
        BY <2>2, <2>3, <2>4, <4>1
      <4>3. Keep(r, S)[a] = h[a] /\ Keep(r, S)[b] = h[b]
        BY <2>2, <2>3, <2>4, <4>1
      <4> QED BY <2>1, <3>2, <3>3, <4>1, <4>2, <4>3
    <3>4. CASE n = Len(l) + 1
      <4>1. r[n] = x /\ x \in S
        BY <2>1, <2>6, <3>4
      <4>2. l[m] \in Range(h)
        BY <2>1, <2>2, <2>6, <3>1, <3>2 DEF Range
      <4>3. PICK a \in DOMAIN h : h[a] = l[m]
        BY <4>2 DEF Range
      <4>4. /\ a \in DOMAIN Keep(r, S) /\ Len(h) + 1 \in DOMAIN Keep(r, S)
            /\ a < Len(h) + 1
        BY <2>2, <2>3, <2>4, <4>1, <4>3
      <4>5. Keep(r, S)[a] = h[a] /\ Keep(r, S)[Len(h) + 1] = x
        BY <2>2, <2>3, <2>4, <4>1, <4>3
      <4> QED BY <3>2, <4>1, <4>3, <4>4, <4>5
    <3> QED BY <2>1, <3>3, <3>4
  <2> QED BY <2>1, <2>6 DEF r
<1>3. Seq(T) \subseteq P
  <2> HIDE DEF P
  <2> QED BY <1>1, <1>2, SeqSetInduction
<1>4. Ordered(q)
  BY <1>3
<1> QED BY <1>4

LEMMA InjectiveConcat ==
    ASSUME NEW T, NEW p \in Seq(T), NEW q \in Seq(T), IsInjective(p \o q)
    PROVE  Range(p) \cap Range(q) = {}
<1> DEFINE r == p \o q
<1>1. /\ Len(p) \in Nat /\ Len(q) \in Nat
      /\ DOMAIN p = 1 .. Len(p) /\ DOMAIN q = 1 .. Len(q)
      /\ DOMAIN r = 1 .. Len(p) + Len(q)
      /\ \A n \in 1 .. Len(p) + Len(q) : r[n] = IF n <= Len(p) THEN p[n] ELSE q[n - Len(p)]
  BY ConcatProperties, LenProperties
<1> HIDE DEF r
<1> SUFFICES ASSUME NEW j \in DOMAIN p, NEW k \in DOMAIN q, p[j] = q[k]
             PROVE  FALSE
  BY DEF Range
<1>2. j \in Nat /\ k \in Nat /\ j <= Len(p) /\ k >= 1 /\ (k + Len(p)) - Len(p) = k
      /\ j \in 1 .. Len(p) + Len(q) /\ k + Len(p) \in 1 .. Len(p) + Len(q)
      /\ ~ (k + Len(p) <= Len(p))
  BY <1>1
<1>3. r[j] = p[j] /\ r[k + Len(p)] = q[k]
  BY <1>1, <1>2
<1>4. j = k + Len(p)
  BY <1>1, <1>2, <1>3 DEF IsInjective, r
<1> QED BY <1>2, <1>4

\* Without the elements of its first part a list is its second part.
LEMMA KeepSecond ==
    ASSUME NEW T, NEW p \in Seq(T), NEW q \in Seq(T), IsInjective(p \o q)
    PROVE  Keep(p \o q, T \ Range(p)) = q
<1>1. Keep(p \o q, T \ Range(p)) = Keep(p, T \ Range(p)) \o Keep(q, T \ Range(p))
  BY KeepConcat
<1>2. Keep(p, T \ Range(p)) = <<>>
  BY KeepNone
<1>3. Range(q) \subseteq T \ Range(p)
  BY InjectiveConcat, RangeOfSeq
<1>4. Keep(q, T \ Range(p)) = q
  BY <1>3, KeepAll
<1> QED BY <1>1, <1>2, <1>4, ConcatEmptySeq

LEMMA SingletonList ==
    ASSUME NEW T, NEW x \in T
    PROVE  /\ <<x>> \in Seq(T) /\ Len(<<x>>) = 1 /\ Range(<<x>>) = {x}
           /\ \A S : Keep(<<x>>, S) = IF x \in S THEN <<x>> ELSE <<>>
<1> DEFINE e == <<>>
<1>1. e \in Seq(T) /\ Append(e, x) = <<x>> /\ Range(e) = {} /\ \A S : Keep(e, S) = <<>>
  BY EmptySeq, RangeEmpty, KeepEmpty
<1> HIDE DEF e
<1>2. Range(Append(e, x)) = Range(e) \cup {x}
  <2>1. \A l \in Seq(T), y \in T : Range(Append(l, y)) = Range(l) \cup {y}
    BY RangeAppend
  <2>2. e \in Seq(T) /\ x \in T
    BY <1>1
  <2> QED BY ONLY <2>1, <2>2
<1>3. ASSUME NEW S PROVE Keep(Append(e, x), S) = IF x \in S THEN Append(e, x) ELSE <<>>
  <2>1. Keep(Append(e, x), S) = IF x \in S THEN Append(Keep(e, S), x) ELSE Keep(e, S)
    BY <1>1, KeepAppend
  <2>2. Keep(e, S) = <<>> /\ e = <<>>
    BY <1>1 DEF e
  <2> QED BY <2>1, <2>2, Zenon
<1>4. <<x>> \in Seq(T) /\ Len(<<x>>) = 1
  OBVIOUS
<1> QED BY <1>1, <1>2, <1>3, <1>4

\* A list is its first n elements and the rest.
LEMMA SplitList ==
    ASSUME NEW T, NEW q \in Seq(T), NEW n \in 0 .. Len(q)
    PROVE  /\ SubSeq(q, 1, n) \in Seq(T) /\ SubSeq(q, n + 1, Len(q)) \in Seq(T)
           /\ q = SubSeq(q, 1, n) \o SubSeq(q, n + 1, Len(q))
           /\ Len(SubSeq(q, n + 1, Len(q))) = Len(q) - n
           /\ \A k \in 1 .. Len(q) - n : SubSeq(q, n + 1, Len(q))[k] = q[n + k]
           /\ Range(SubSeq(q, 1, n)) = {q[k] : k \in 1 .. n}
<1>1. Len(q) \in Nat /\ n \in Nat /\ n <= Len(q) /\ \A i \in 1 .. Len(q) : q[i] \in T
  BY LenProperties, ElementOfSeq
<1>2. /\ SubSeq(q, 1, n) \in Seq(T)
      /\ Len(SubSeq(q, 1, n)) = n
      /\ \A i \in 1 .. n : SubSeq(q, 1, n)[i] = q[i]
  <2>1. \A i \in 1 .. n : q[i] \in T
    BY <1>1
  <2>2. /\ SubSeq(q, 1, n) \in Seq(T)
        /\ Len(SubSeq(q, 1, n)) = IF 1 <= n THEN n - 1 + 1 ELSE 0
        /\ \A i \in 1 .. n - 1 + 1 : SubSeq(q, 1, n)[i] = q[1 + i - 1]
    BY <1>1, <2>1, SubSeqProperties
  <2>3. n - 1 + 1 = n /\ \A i \in 1 .. n : 1 + i - 1 = i
    BY <1>1
  <2> QED BY <1>1, <2>2, <2>3
<1>3. /\ SubSeq(q, n + 1, Len(q)) \in Seq(T)
      /\ Len(SubSeq(q, n + 1, Len(q))) = Len(q) - n
      /\ \A k \in 1 .. Len(q) - n : SubSeq(q, n + 1, Len(q))[k] = q[n + k]
  <2>1. \A i \in n + 1 .. Len(q) : q[i] \in T
    BY <1>1
  <2>2. /\ SubSeq(q, n + 1, Len(q)) \in Seq(T)
        /\ Len(SubSeq(q, n + 1, Len(q)))
             = IF n + 1 <= Len(q) THEN Len(q) - (n + 1) + 1 ELSE 0
        /\ \A i \in 1 .. Len(q) - (n + 1) + 1 :
              SubSeq(q, n + 1, Len(q))[i] = q[(n + 1) + i - 1]
    BY <1>1, <2>1, SubSeqProperties
  <2>3. Len(q) - (n + 1) + 1 = Len(q) - n /\ \A i \in Int : (n + 1) + i - 1 = n + i
    BY <1>1
  <2>4. ASSUME NEW k \in 1 .. Len(q) - n
        PROVE  SubSeq(q, n + 1, Len(q))[k] = q[n + k]
    <3>1. k \in 1 .. Len(q) - (n + 1) + 1 /\ (n + 1) + k - 1 = n + k
      BY <1>1
    <3> QED BY <2>2, <3>1
  <2>5. Len(SubSeq(q, n + 1, Len(q))) = Len(q) - n
    BY <1>1, <2>2
  <2> QED BY <2>2, <2>4, <2>5
<1>4. q = SubSeq(q, 1, n) \o SubSeq(q, n + 1, Len(q))
  <2>1. SubSeq(q, 1, n) \o SubSeq(q, n + 1, Len(q)) = SubSeq(q, 1, Len(q))
    <3>1. 1 \in 1 .. Len(q) + 1 /\ n \in 1 - 1 .. Len(q) /\ Len(q) \in n .. Len(q)
      BY <1>1
    <3> QED BY <3>1, ConcatAdjacentSubSeq
  <2> QED BY <2>1, SubSeqFull
<1>5. Range(SubSeq(q, 1, n)) = {q[k] : k \in 1 .. n}
  <2>1. DOMAIN SubSeq(q, 1, n) = 1 .. n
    BY <1>2, LenProperties
  <2> QED BY <1>2, <2>1 DEF Range
<1> QED BY <1>2, <1>3, <1>4, <1>5

-----------------------------------------------------------------------------
(* What belongs to a device.                                               *)

Own(d) == {t \in Task : Owner[t] = d}
Mine(d) == Own(d) \cup {Defaults(d), DriverSet(d)}
              \cup {Collect(t) : t \in Own(d) \cap Diagnostics}

LEMMA NoItemIsNoItem ==
    /\ NoItem \notin Item /\ Summon \notin Item /\ NoItem # Summon
    /\ NoItem \notin Task /\ Summon \notin Task
    /\ Task \subseteq Item
    /\ \A i \in Item : i \in Task \/ i \in Synthetic
<1>1. NoItem # Summon
  BY DEF NoItem, Summon
<1>2. NoItem \notin Task /\ Summon \notin Task
  BY IdAssumption
<1>3. NoItem \notin Synthetic /\ Summon \notin Synthetic
  BY DEF Synthetic, NoItem, Summon, Defaults, DriverSet, Collect
<1> QED BY <1>1, <1>2, <1>3 DEF Item

LEMMA OwnItems ==
    ASSUME NEW d \in Device
    PROVE  /\ Own(d) \subseteq Mine(d) /\ Own(d) \subseteq Task
           /\ Mine(d) \subseteq Item
           /\ Mine(d) \cap Task = Own(d)
           /\ Defaults(d) \in Mine(d) /\ DriverSet(d) \in Mine(d)
           /\ Defaults(d) \notin Task /\ DriverSet(d) \notin Task
           /\ ~IsCollect(Defaults(d)) /\ ~IsCollect(DriverSet(d))
<1>1. /\ Defaults(d) \in Synthetic /\ DriverSet(d) \in Synthetic
      /\ {Collect(t) : t \in Own(d) \cap Diagnostics} \subseteq Synthetic
  BY DEF Synthetic
<1>2. Synthetic \cap Task = {}
  BY IdAssumption
<1>3. Own(d) \subseteq Task
  BY DEF Own
<1>4. ~IsCollect(Defaults(d)) /\ ~IsCollect(DriverSet(d))
  BY DEF IsCollect, Defaults, DriverSet, Collect
<1> QED BY <1>1, <1>2, <1>3, <1>4 DEF Mine, Item

LEMMA CollectItems ==
    ASSUME NEW t \in Diagnostics
    PROVE  /\ Collect(t) \in Item /\ Collect(t) \notin Task /\ IsCollect(Collect(t))
           /\ t \in Task
           /\ \A u : Collect(t) = Collect(u) => t = u
           /\ \A d \in Device : Collect(t) # Defaults(d) /\ Collect(t) # DriverSet(d)
           /\ \A d \in Device : Collect(t) \in Mine(d) <=> Owner[t] = d
<1>1. Collect(t) \in Synthetic /\ t \in Task
  BY DEF Synthetic, Diagnostics
<1>2. Synthetic \cap Task = {}
  BY IdAssumption
<1>3. \A u : Collect(t) = Collect(u) => t = u
  BY DEF Collect
<1>4. \A d \in Device : Collect(t) # Defaults(d) /\ Collect(t) # DriverSet(d)
  BY DEF Collect, Defaults, DriverSet
<1>5. IsCollect(Collect(t))
  BY DEF IsCollect
<1>6. ASSUME NEW d \in Device PROVE Collect(t) \in Mine(d) <=> Owner[t] = d
  <2>1. Collect(t) \in Mine(d) => t \in Own(d)
    BY <1>1, <1>2, <1>3, <1>4 DEF Mine, Own
  <2>2. t \in Own(d) => Collect(t) \in Mine(d)
    BY DEF Mine
  <2> QED BY <1>1, <2>1, <2>2 DEF Own
<1> QED BY <1>1, <1>2, <1>3, <1>4, <1>5, <1>6 DEF Item

LEMMA MineApart ==
    ASSUME NEW d \in Device, NEW e \in Device, d # e
    PROVE  Mine(d) \cap Mine(e) = {}
<1> SUFFICES ASSUME NEW i \in Mine(d), i \in Mine(e) PROVE FALSE
  OBVIOUS
<1>1. CASE i \in Task
  BY <1>1, OwnItems DEF Own
<1>2. CASE \E t \in Diagnostics : i = Collect(t)
  BY <1>2, CollectItems
<1>3. CASE i = Defaults(d) \/ i = DriverSet(d)
  <2>1. i # Defaults(e) /\ i # DriverSet(e)
    BY <1>3 DEF Defaults, DriverSet
  <2>2. i \in Own(e) \/ \E t \in Diagnostics : i = Collect(t)
    BY <2>1 DEF Mine
  <2> QED BY <1>3, <2>2, OwnItems, CollectItems
<1> QED BY <1>1, <1>2, <1>3, OwnItems DEF Mine

LEMMA KindsOfItems ==
    ASSUME NEW i \in Item
    PROVE  /\ i \in Task => KindOf(i) = Kind[i] /\ KindOf(i) \in Kinds /\ ~IsCollect(i)
           /\ i \notin Task => KindOf(i) \in {"collect", "set"}
           /\ IsCollect(i) => \E t \in Diagnostics : i = Collect(t)
           /\ KindOf(i) = "collect" <=> IsCollect(i)
<1>1. IsCollect(i) => \E t \in Diagnostics : i = Collect(t)
  BY DEF IsCollect
<1>2. i \in Task => ~IsCollect(i)
  BY <1>1, CollectItems
<1>3. "collect" \notin Kinds
  BY DEF Kinds
<1> QED BY <1>1, <1>2, <1>3, TaskAssumption DEF KindOf

LEMMA RpcOfItems ==
    ASSUME NEW i \in Item, KindOf(i) # "wan"
    PROVE  /\ RpcOf(i) \in Ops /\ RpcOf(i) \notin {"204", "InformResponse"}
           /\ RpcOf(i) = "Download" <=> KindOf(i) = "firmware"
           /\ RpcOf(i) = "GetParameterValues" <=> KindOf(i) \in {"get", "collect"}
           /\ RpcOf(i) = "AddObject" <=> KindOf(i) = "pfadd"
           /\ RpcOf(i) = "SetParameterValues"
                <=> KindOf(i) \in {"set", "wifi", "lan", "diag", "wanset"}
<1>1. KindOf(i) \in (Kinds \cup {"collect"}) \ {"wan"}
  BY KindsOfItems DEF Kinds
<1> QED BY <1>1 DEF RpcOf, Ops, Kinds, StepKinds

-----------------------------------------------------------------------------
(* What each handler leaves of the world it is given.                      *)

WorldType ==
    [s : SessionType, queue : QueueType, db : DbType, fresh : SUBSET Device,
     transfers : SUBSET Task, applied : SUBSET (Item \X Nat),
     out : ReplyType \cup {Silent}]

\* One field of a session changes and the others stay.
LEMMA SetPend ==
    ASSUME NEW s \in SessionType, NEW R \in Seq(Item), NEW t, t = [s EXCEPT !.pend = R]
    PROVE  /\ t \in SessionType /\ t.pend = R
           /\ t.dev = s.dev /\ t.mark = s.mark /\ t.cur = s.cur /\ t.wp = s.wp
           /\ t.step = s.step /\ t.follow = s.follow /\ t.creds = s.creds
           /\ t.phase = s.phase
BY DEF SessionType

LEMMA SetDone ==
    ASSUME NEW s \in SessionType, NEW t, t = [s EXCEPT !.state = "done"]
    PROVE  /\ t \in SessionType
           /\ t.dev = s.dev /\ t.mark = s.mark /\ t.cur = s.cur /\ t.wp = s.wp
           /\ t.step = s.step /\ t.follow = s.follow /\ t.creds = s.creds /\ t.pend = s.pend
           /\ t.phase = s.phase
BY DEF SessionType

LEMMA FirstStep ==
    /\ Len(WanSteps) \in Nat \ {0}
    /\ 0 \in 0 .. Len(WanSteps) /\ 1 \in 0 .. Len(WanSteps)
    /\ \A n \in 1 .. Len(WanSteps) : WanSteps[n] \in StepKinds
<1>1. WanSteps \in Seq(StepKinds) /\ WanSteps # <<>>
  BY FlowAssumption
<1>2. Len(WanSteps) \in Nat \ {0}
  BY <1>1, EmptySeq
<1> QED BY <1>1, <1>2, ElementOfSeq

LEMMA ReleasedFields ==
    ASSUME NEW s \in SessionType
    PROVE  /\ Released(s) \in SessionType
           /\ Released(s).cur = NoItem
           /\ Released(s).pend = s.pend /\ Released(s).dev = s.dev /\ Released(s).wp = s.wp
           /\ Released(s).step = s.step /\ Released(s).follow = s.follow
           /\ Released(s).mark = s.mark /\ Released(s).creds = s.creds
           /\ Released(s).phase = s.phase
BY DEF Released, SessionType

LEMMA DroppedFields ==
    ASSUME NEW s \in SessionType
    PROVE  /\ ProvisionDropped(s) \in SessionType
           /\ ProvisionDropped(s).wp = NoItem /\ ProvisionDropped(s).step = 0
           /\ ProvisionDropped(s).pend = s.pend /\ ProvisionDropped(s).dev = s.dev
           /\ ProvisionDropped(s).cur = s.cur /\ ProvisionDropped(s).follow = s.follow
           /\ ProvisionDropped(s).mark = s.mark /\ ProvisionDropped(s).creds = s.creds
           /\ ProvisionDropped(s).phase = s.phase
BY FirstStep DEF ProvisionDropped, SessionType

LEMMA UpdateStatusFields ==
    ASSUME NEW w \in WorldType, NEW i \in Item, NEW st \in Statuses
    PROVE  /\ UpdateStatus(w, i, st) \in WorldType
           /\ UpdateStatus(w, i, st).s = w.s
           /\ UpdateStatus(w, i, st).queue.status = [w.queue.status EXCEPT ![i] = st]
           /\ UpdateStatus(w, i, st).queue.fifo =
                IF st \in Terminal /\ i \in Task
                THEN [w.queue.fifo EXCEPT ![Owner[i]] = Keep(@, Task \ {i})]
                ELSE w.queue.fifo
           /\ UpdateStatus(w, i, st).db = w.db
           /\ UpdateStatus(w, i, st).fresh = w.fresh
           /\ UpdateStatus(w, i, st).transfers = w.transfers
           /\ UpdateStatus(w, i, st).applied = w.applied
           /\ UpdateStatus(w, i, st).out = w.out
<1>1. i \in Task => Keep(w.queue.fifo[Owner[i]], Task \ {i}) \in Seq(Task)
  BY KeepIsList, TaskAssumption DEF WorldType, QueueType
<1> QED BY <1>1, TaskAssumption DEF UpdateStatus, Without, WorldType, QueueType

LEMMA StepMsgFields ==
    ASSUME NEW s \in SessionType, s.wp # NoItem, s.step >= 1
    PROVE  /\ StepMsg(s) \in ReplyType
           /\ StepMsg(s).op = WanSteps[s.step] /\ StepMsg(s).op \in StepKinds
           /\ StepMsg(s).item = s.wp
           /\ StepMsg(s).step = s.step /\ StepMsg(s).via = NoObj
<1>1. s.step \in 1 .. Len(WanSteps) /\ s.step \in Nat /\ s.wp \in Task
  <2>1. s.step \in 0 .. Len(WanSteps) /\ s.wp \in Task
    BY DEF SessionType
  <2>2. Len(WanSteps) \in Nat
    BY FirstStep
  <2> QED BY <2>1, <2>2
<1>2. WanSteps[s.step] \in StepKinds
  BY <1>1, FirstStep
<1> QED BY <1>1, <1>2, NoItemIsNoItem DEF StepMsg, Msg, ReplyType, Ops

LEMMA ExecuteTaskFields ==
    ASSUME NEW w \in WorldType, NEW i \in Item
    PROVE  /\ ExecuteTask(w, i) \in WorldType
           /\ ExecuteTask(w, i).s.cur = i
           /\ ExecuteTask(w, i).s.creds = IF KindOf(i) \in {"wan", "wanset"} THEN i ELSE w.s.creds
           /\ ExecuteTask(w, i).s.follow = IF KindOf(i) = "pfadd" THEN i ELSE w.s.follow
           /\ ExecuteTask(w, i).s.wp = IF KindOf(i) = "wan" THEN i ELSE w.s.wp
           /\ ExecuteTask(w, i).s.step = IF KindOf(i) = "wan" THEN 1 ELSE w.s.step
           /\ ExecuteTask(w, i).s.pend = w.s.pend
           /\ ExecuteTask(w, i).s.dev = w.s.dev
           /\ ExecuteTask(w, i).s.mark = w.s.mark
           /\ ExecuteTask(w, i).s.phase = w.s.phase
           /\ ExecuteTask(w, i).queue = w.queue
           /\ ExecuteTask(w, i).db = w.db
           /\ ExecuteTask(w, i).fresh = w.fresh
           /\ ExecuteTask(w, i).transfers = w.transfers
           /\ ExecuteTask(w, i).applied = w.applied
           /\ ExecuteTask(w, i).out =
                IF KindOf(i) = "wan" THEN Msg(WanSteps[1], i, 1) ELSE Msg(RpcOf(i), i, 1)
           /\ ExecuteTask(w, i).out \in ReplyType
<1> DEFINE s == [w.s EXCEPT !.cur = i,
                    !.creds = IF KindOf(i) \in {"wan", "wanset"} THEN i ELSE @,
                    !.follow = IF KindOf(i) = "pfadd" THEN i ELSE @,
                    !.wp = IF KindOf(i) = "wan" THEN i ELSE @,
                    !.step = IF KindOf(i) = "wan" THEN 1 ELSE @]
<1>1. KindOf(i) \in {"wan", "wanset", "pfadd"} => i \in Task
  BY KindsOfItems
<1>2. w.s \in SessionType
  BY DEF WorldType
<1> DEFINE c == IF KindOf(i) \in {"wan", "wanset"} THEN i ELSE w.s.creds
           f == IF KindOf(i) = "pfadd" THEN i ELSE w.s.follow
           p == IF KindOf(i) = "wan" THEN i ELSE w.s.wp
           n == IF KindOf(i) = "wan" THEN 1 ELSE w.s.step
<1>3. /\ s \in SessionType /\ s.cur = i /\ s.creds = c /\ s.follow = f /\ s.wp = p /\ s.step = n
      /\ s.pend = w.s.pend /\ s.dev = w.s.dev /\ s.mark = w.s.mark /\ s.phase = w.s.phase
  <2>1. /\ c \in Task \cup {NoItem} /\ f \in Task \cup {NoItem} /\ p \in Task \cup {NoItem}
        /\ n \in 0 .. Len(WanSteps)
    BY <1>1, <1>2, FirstStep DEF SessionType
  <2> DEFINE o == w.s
  <2>2. /\ s = [o EXCEPT !.cur = i, !.creds = c, !.follow = f, !.wp = p, !.step = n]
        /\ o \in SessionType /\ i \in Item
    BY <1>2
  <2> HIDE DEF s, c, f, p, n, o
  <2>3. /\ s \in SessionType /\ s.cur = i /\ s.creds = c /\ s.follow = f /\ s.wp = p
        /\ s.step = n /\ s.pend = o.pend /\ s.dev = o.dev /\ s.mark = o.mark /\ s.phase = o.phase
    BY ONLY <2>1, <2>2 DEF SessionType
  <2> QED BY <2>3 DEF o
<1>4. /\ s.cur = i
      /\ s.creds = IF KindOf(i) \in {"wan", "wanset"} THEN i ELSE w.s.creds
      /\ s.follow = IF KindOf(i) = "pfadd" THEN i ELSE w.s.follow
      /\ s.wp = IF KindOf(i) = "wan" THEN i ELSE w.s.wp
      /\ s.step = IF KindOf(i) = "wan" THEN 1 ELSE w.s.step
      /\ s.pend = w.s.pend /\ s.dev = w.s.dev /\ s.mark = w.s.mark /\ s.phase = w.s.phase
  BY <1>3 DEF c, f, p, n
<1> DEFINE m == IF KindOf(i) = "wan" THEN StepMsg(s) ELSE Msg(RpcOf(i), i, 1)
<1>5. m = IF KindOf(i) = "wan" THEN Msg(WanSteps[1], i, 1) ELSE Msg(RpcOf(i), i, 1)
  BY <1>4 DEF StepMsg
<1>6. m \in ReplyType
  <2>1. CASE KindOf(i) = "wan"
    <3>1. s.wp = i /\ i # NoItem /\ s.step = 1 /\ s.step >= 1
      BY <1>1, <1>4, <2>1, NoItemIsNoItem
    <3> HIDE DEF s
    <3> QED BY <1>3, <2>1, <3>1, StepMsgFields
  <2>2. CASE KindOf(i) # "wan"
    BY <2>2, RpcOfItems DEF Msg, ReplyType
  <2> QED BY <2>1, <2>2
<1>7. ExecuteTask(w, i) = [w EXCEPT !.s = s, !.out = m]
  BY DEF ExecuteTask
<1> HIDE DEF s, m
<1>8. /\ ExecuteTask(w, i) \in WorldType
      /\ ExecuteTask(w, i).s = s /\ ExecuteTask(w, i).out = m
      /\ ExecuteTask(w, i).queue = w.queue
      /\ ExecuteTask(w, i).db = w.db
      /\ ExecuteTask(w, i).fresh = w.fresh
      /\ ExecuteTask(w, i).transfers = w.transfers
      /\ ExecuteTask(w, i).applied = w.applied
  BY <1>3, <1>6, <1>7 DEF WorldType
<1> QED BY <1>4, <1>5, <1>6, <1>8

LEMMA FailAllFields ==
    ASSUME NEW w \in WorldType, NEW S \in SUBSET Task
    PROVE  /\ FailAll(w, S) \in WorldType
           /\ FailAll(w, S).s = w.s
           /\ FailAll(w, S).queue.status
                = [i \in Item |-> IF i \in S THEN "failed" ELSE w.queue.status[i]]
           /\ FailAll(w, S).queue.fifo = [d \in Device |-> Keep(w.queue.fifo[d], Task \ S)]
           /\ FailAll(w, S).db = w.db
           /\ FailAll(w, S).fresh = w.fresh
           /\ FailAll(w, S).transfers = w.transfers
           /\ FailAll(w, S).applied = w.applied
           /\ FailAll(w, S).out = w.out
<1>1. \A d \in Device : Keep(w.queue.fifo[d], Task \ S) \in Seq(Task)
  BY KeepIsList DEF WorldType, QueueType
<1> DEFINE q == [status |-> [i \in Item |-> IF i \in S THEN "failed" ELSE w.queue.status[i]],
                 fifo |-> [d \in Device |-> Keep(w.queue.fifo[d], Task \ S)]]
<1>2. q \in QueueType
  BY <1>1 DEF WorldType, QueueType, Statuses
<1>3. FailAll(w, S) = [w EXCEPT !.queue = q]
  BY DEF FailAll
<1>4. q.status = [i \in Item |-> IF i \in S THEN "failed" ELSE w.queue.status[i]]
      /\ q.fifo = [d \in Device |-> Keep(w.queue.fifo[d], Task \ S)]
  OBVIOUS
<1> HIDE DEF q
<1>5. /\ FailAll(w, S) \in WorldType /\ FailAll(w, S).queue = q
      /\ FailAll(w, S).s = w.s
      /\ FailAll(w, S).db = w.db
      /\ FailAll(w, S).fresh = w.fresh
      /\ FailAll(w, S).transfers = w.transfers
      /\ FailAll(w, S).applied = w.applied
      /\ FailAll(w, S).out = w.out
  BY <1>2, <1>3 DEF WorldType
<1> QED BY <1>4, <1>5

-----------------------------------------------------------------------------
(* The queue, and what a session and a reply may refer to.                 *)

Pending(q) == {t \in Task : q.status[t] = "pending"}
Waiting(q, d) == Keep(q.fifo[d], Pending(q))
Settled(q, t) == q.status[t] \notin {"absent", "pending"}

FifoOK(q, d) ==
    /\ q.fifo[d] \in Seq(Own(d))
    /\ IsInjective(q.fifo[d])
    /\ \A t \in Range(q.fifo[d]) : q.status[t] # "absent"

\* The session's tasks are the first of those waiting.
AheadOK(s, d, q) ==
    \E rest \in Seq(Task) : Waiting(q, d) = Keep(s.pend, Task) \o rest

CurrentOK(s, q) ==
    /\ s.cur \in Task => Settled(q, s.cur)
    /\ s.cur \in Task /\ Kind[s.cur] # "firmware" => q.status[s.cur] = "executing"

CollectsOK(s, q) ==
    \A t \in Diagnostics : Collect(t) \in Range(s.pend) \cup {s.cur} => Settled(q, t)

SessionOK(s, d, q) ==
    /\ s.dev \in {d, NoItem}
    /\ s.pend # <<>> \/ s.mark => s.dev = d
    /\ s.pend \in Seq(Mine(d))
    /\ {s.cur, s.wp, s.follow, s.creds} \subseteq Mine(d) \cup {NoItem}
    /\ s.wp # NoItem => s.step >= 1
    /\ CurrentOK(s, q)
    /\ CollectsOK(s, q)
    /\ AheadOK(s, d, q)

ReplyOK(m, d, q) ==
    /\ m.item \in Mine(d) \cup {NoItem, Summon}
    /\ m.op = "204" => m = Close
    /\ m.op \notin {"204", "InformResponse"} => m.item # NoItem
    /\ m.op = "Download" => m.item \in Task /\ Kind[m.item] = "firmware"
                                            /\ Settled(q, m.item)

DueOK(transferred, q) ==
    \A t \in transferred : Kind[t] = "firmware" /\ Settled(q, t)

-----------------------------------------------------------------------------
(* What a handler for d may do to the queue.                               *)

Others(q, r, d) ==
    /\ \A e \in Device : e # d => r.fifo[e] = q.fifo[e]
    /\ \A i \in Item : i \notin Mine(d) => r.status[i] = q.status[i]

Lasting(q, r) ==
    \A t \in Task : /\ Settled(q, t) => Settled(r, t)
                    /\ q.status[t] \in Terminal /\ Kind[t] # "firmware"
                         => r.status[t] \in Terminal

\* A task that was waiting goes out only before those behind it.
InOrder(q, r, d) ==
    \A j, k \in DOMAIN Waiting(q, d) :
        j < k /\ r.status[Waiting(q, d)[k]] = "executing"
            => r.status[Waiting(q, d)[j]] # "pending"

Moves(q, r, d) == Others(q, r, d) /\ Lasting(q, r) /\ InOrder(q, r, d)

\* A task that has been sent is finished: nothing that waits is touched.
Settles(q, r, d) ==
    /\ Others(q, r, d) /\ Lasting(q, r)
    /\ Waiting(r, d) = Waiting(q, d) /\ Pending(r) = Pending(q)

LEMMA WaitingFacts ==
    ASSUME NEW d \in Device, NEW q \in QueueType, FifoOK(q, d)
    PROVE  /\ Waiting(q, d) \in Seq(Own(d)) /\ Waiting(q, d) \in Seq(Task)
           /\ IsInjective(Waiting(q, d))
           /\ Range(Waiting(q, d)) = Range(q.fifo[d]) \cap Pending(q)
           /\ \A n \in DOMAIN Waiting(q, d) : q.status[Waiting(q, d)[n]] = "pending"
<1>1. Waiting(q, d) \in Seq(Own(d)) /\ q.fifo[d] \in Seq(Own(d))
  BY KeepIsList DEF FifoOK, Waiting
<1>2. Waiting(q, d) \in Seq(Task)
  BY KeepIsList DEF QueueType, Waiting
<1>3. IsInjective(Waiting(q, d))
  BY <1>1, KeepInjective DEF FifoOK, Waiting
<1>4. Range(Waiting(q, d)) = Range(q.fifo[d]) \cap Pending(q)
  BY <1>1, KeepType DEF Waiting
<1>5. \A n \in DOMAIN Waiting(q, d) : Waiting(q, d)[n] \in Range(Waiting(q, d))
  BY DEF Range
<1>6. \A t \in Pending(q) : q.status[t] = "pending"
  BY DEF Pending
<1> QED BY <1>1, <1>2, <1>3, <1>4, <1>5, <1>6

LEMMA SettlesIsMove ==
    ASSUME NEW d \in Device, NEW q \in QueueType, FifoOK(q, d), NEW r, Settles(q, r, d)
    PROVE  Moves(q, r, d)
<1>1. InOrder(q, r, d)
  <2> SUFFICES ASSUME NEW j \in DOMAIN Waiting(q, d), NEW k \in DOMAIN Waiting(q, d),
                      r.status[Waiting(q, d)[k]] = "executing"
               PROVE  FALSE
    BY DEF InOrder
  <2> DEFINE t == Waiting(q, d)[k]
  <2>1. t \in Pending(q)
    BY WaitingFacts DEF Range
  <2>2. t \in Pending(r)
    BY <2>1 DEF Settles
  <2> QED BY <2>2 DEF Pending
<1> QED BY <1>1 DEF Settles, Moves

LEMMA NothingMoves ==
    ASSUME NEW d \in Device, NEW q \in QueueType, FifoOK(q, d)
    PROVE  Moves(q, q, d) /\ Settles(q, q, d)
<1>1. Settles(q, q, d)
  BY DEF Settles, Others, Lasting
<1> QED BY <1>1, SettlesIsMove

LEMMA SettlesThenMoves ==
    ASSUME NEW d \in Device, NEW q, NEW r, NEW u, Settles(q, r, d), Moves(r, u, d)
    PROVE  Moves(q, u, d)
<1>1. Others(q, u, d)
  BY DEF Settles, Moves, Others
<1>2. Lasting(q, u)
  BY DEF Settles, Moves, Lasting
<1>3. InOrder(q, u, d)
  BY DEF Settles, Moves, InOrder
<1> QED BY <1>1, <1>2, <1>3 DEF Moves

\* The other devices' sessions, replies and lists are as they were.
LEMMA OthersKeep ==
    ASSUME NEW d \in Device, NEW e \in Device, d # e,
           NEW q \in QueueType, NEW r \in QueueType, FifoOK(q, e), Others(q, r, d)
    PROVE  /\ FifoOK(r, e) /\ r.fifo[e] = q.fifo[e]
           /\ Waiting(r, e) = Waiting(q, e)
           /\ \A i \in Mine(e) : r.status[i] = q.status[i]
<1>1. \A i \in Mine(e) : r.status[i] = q.status[i]
  BY MineApart, OwnItems DEF Others
<1>2. r.fifo[e] = q.fifo[e]
  BY DEF Others
<1>3. q.fifo[e] \in Seq(Own(e)) /\ Range(q.fifo[e]) \subseteq Own(e)
  BY RangeOfSeq DEF FifoOK
<1>4. FifoOK(r, e)
  BY <1>1, <1>2, <1>3, OwnItems DEF FifoOK
<1>5. Range(q.fifo[e]) \cap Pending(q) = Range(q.fifo[e]) \cap Pending(r)
  BY <1>1, <1>3, OwnItems DEF Pending
<1>6. Keep(q.fifo[e], Pending(q)) = Keep(q.fifo[e], Pending(r))
  BY <1>3, <1>5, KeepSame
<1> QED BY <1>1, <1>2, <1>4, <1>6 DEF Waiting

LEMMA OthersKeepSession ==
    ASSUME NEW d \in Device, NEW e \in Device, d # e,
           NEW q \in QueueType, NEW r \in QueueType, FifoOK(q, e), Others(q, r, d),
           NEW s \in SessionType, SessionOK(s, e, q)
    PROVE  SessionOK(s, e, r)
<1>1. Waiting(r, e) = Waiting(q, e) /\ \A i \in Mine(e) : r.status[i] = q.status[i]
  BY OthersKeep
<1>2. CurrentOK(s, r)
  BY <1>1, NoItemIsNoItem DEF SessionOK, CurrentOK, Settled
<1>3. CollectsOK(s, r)
  <2> SUFFICES ASSUME NEW t \in Diagnostics, Collect(t) \in Range(s.pend) \cup {s.cur}
               PROVE  Settled(r, t)
    BY DEF CollectsOK
  <2>1. Range(s.pend) \subseteq Mine(e)
    BY RangeOfSeq DEF SessionOK
  <2>2. Collect(t) \in Mine(e)
    BY <2>1, CollectItems, NoItemIsNoItem DEF SessionOK
  <2>3. t \in Mine(e)
    BY <2>2, CollectItems, OwnItems DEF Own
  <2> QED BY <1>1, <2>3 DEF SessionOK, CollectsOK, Settled
<1>4. AheadOK(s, e, r)
  BY <1>1 DEF SessionOK, AheadOK
<1> QED BY <1>2, <1>3, <1>4 DEF SessionOK

LEMMA OthersKeepReply ==
    ASSUME NEW d \in Device, NEW e \in Device, d # e,
           NEW q \in QueueType, NEW r \in QueueType, FifoOK(q, e), Others(q, r, d),
           NEW m, ReplyOK(m, e, q)
    PROVE  ReplyOK(m, e, r)
<1>1. \A i \in Mine(e) : r.status[i] = q.status[i]
  BY OthersKeep
<1>2. m.item \in Task => m.item \in Mine(e)
  BY NoItemIsNoItem DEF ReplyOK
<1> QED BY <1>1, <1>2 DEF ReplyOK, Settled

FifosOK(q) == \A e \in Device : FifoOK(q, e)

WorldOK(w, d) ==
    /\ w \in WorldType
    /\ FifosOK(w.queue)
    /\ SessionOK(w.s, d, w.queue)
    /\ DueOK(w.transfers, w.queue)

LEMMA WorldParts ==
    ASSUME NEW d \in Device, NEW w, WorldOK(w, d)
    PROVE  /\ w.s \in SessionType /\ w.queue \in QueueType /\ w.db \in DbType
           /\ w.transfers \in SUBSET Task /\ w.applied \in SUBSET (Item \X Nat)
           /\ w.fresh \in SUBSET Device
           /\ w.queue.status \in [Item -> Statuses]
           /\ w.queue.fifo \in [Device -> Seq(Task)]
           /\ w.s.pend \in Seq(Item) /\ w.s.cur \in Item \cup {NoItem}
BY DEF WorldOK, WorldType, QueueType, SessionType

\* A sent task is given a final status.
LEMMA SettleOK ==
    ASSUME NEW d \in Device, NEW w, WorldOK(w, d), NEW i \in Mine(d), NEW st \in Terminal,
           i \in Task => Settled(w.queue, i) /\ (w.s.cur # i \/ Kind[i] = "firmware")
    PROVE  /\ WorldOK(UpdateStatus(w, i, st), d)
           /\ Settles(w.queue, UpdateStatus(w, i, st).queue, d)
<1> DEFINE v == UpdateStatus(w, i, st)
           q == w.queue
           r == v.queue
<1>0. i \in Item /\ st \in Statuses
  BY OwnItems DEF Terminal, Statuses
<1>1. /\ v \in WorldType /\ v.s = w.s /\ v.transfers = w.transfers
      /\ r.status = [q.status EXCEPT ![i] = st]
      /\ r.fifo = IF i \in Task THEN [q.fifo EXCEPT ![Owner[i]] = Keep(@, Task \ {i})]
                                ELSE q.fifo
  BY <1>0, UpdateStatusFields DEF WorldOK
<1>2. /\ q.status \in [Item -> Statuses] /\ q.fifo \in [Device -> Seq(Task)]
      /\ q \in QueueType /\ r \in QueueType
  BY <1>1, WorldParts DEF WorldType
<1>3. i \in Task => Owner[i] = d
  BY OwnItems DEF Own
<1> HIDE DEF v, q, r
<1>4. \A u \in Item : r.status[u] = IF u = i THEN st ELSE q.status[u]
  BY <1>0, <1>1, <1>2
<1>5. i \in Task => Settled(q, i) /\ i \notin Pending(q)
  BY DEF q, Settled, Pending
<1>6. Pending(r) = Pending(q)
  <2>1. st # "pending"
    BY DEF Terminal
  <2>2. \A u \in Task : r.status[u] = "pending" <=> q.status[u] = "pending"
    BY <1>4, <1>5, <2>1, NoItemIsNoItem DEF Pending
  <2> QED BY <2>2 DEF Pending
<1>7. Others(q, r, d)
  BY <1>1, <1>2, <1>3, <1>4 DEF Others
<1>8. st \notin {"absent", "pending", "executing"}
  BY DEF Terminal
<1>9. Lasting(q, r)
  BY <1>4, <1>8, NoItemIsNoItem DEF Lasting, Settled
<1>10. r.fifo[d] = IF i \in Task THEN Keep(q.fifo[d], Task \ {i}) ELSE q.fifo[d]
  BY <1>1, <1>2, <1>3
<1>11. q.fifo[d] \in Seq(Own(d)) /\ IsInjective(q.fifo[d]) /\ FifoOK(q, d)
  BY DEF WorldOK, FifosOK, FifoOK, q
<1>12. Waiting(r, d) = Waiting(q, d)
  <2>1. CASE i \in Task
    <3>1. Waiting(r, d) = Keep(q.fifo[d], (Task \ {i}) \cap Pending(q))
      BY <1>6, <1>10, <1>11, <2>1, KeepKeep DEF Waiting
    <3>2. (Task \ {i}) \cap Pending(q) = Pending(q)
      BY <1>5, <2>1 DEF Pending
    <3> QED BY <3>1, <3>2 DEF Waiting
  <2>2. CASE i \notin Task
    BY <1>6, <1>10, <2>2 DEF Waiting
  <2> QED BY <2>1, <2>2
<1>13. Settles(q, r, d)
  BY <1>6, <1>7, <1>9, <1>12 DEF Settles
<1>14. FifosOK(r)
  <2>1. FifoOK(r, d)
    <3>1. r.fifo[d] \in Seq(Own(d)) /\ IsInjective(r.fifo[d])
      BY <1>10, <1>11, KeepIsList, KeepInjective
    <3>2. Range(r.fifo[d]) \subseteq Range(q.fifo[d])
      <4>1. Range(Keep(q.fifo[d], Task \ {i})) = Range(q.fifo[d]) \cap (Task \ {i})
        BY <1>11, KeepType
      <4> QED BY <1>10, <4>1
    <3>3. Range(q.fifo[d]) \subseteq Item
      BY <1>11, RangeOfSeq, OwnItems
    <3>4. \A u \in Range(r.fifo[d]) : r.status[u] # "absent"
      BY <1>4, <1>8, <1>11, <3>2, <3>3 DEF FifoOK
    <3> QED BY <3>1, <3>4 DEF FifoOK
  <2>2. ASSUME NEW e \in Device, e # d PROVE FifoOK(r, e)
    <3>1. FifoOK(q, e)
      BY DEF WorldOK, FifosOK, q
    <3> QED BY <1>2, <1>7, <2>2, <3>1, OthersKeep
  <2> QED BY <2>1, <2>2 DEF FifosOK
<1>15. SessionOK(w.s, d, r)
  <2>1. SessionOK(w.s, d, q)
    BY DEF WorldOK, q
  <2>2. CurrentOK(w.s, r)
    <3>1. CurrentOK(w.s, q)
      BY <2>1 DEF SessionOK
    <3>2. w.s.cur \in Task => w.s.cur \in Item /\ (w.s.cur = i => Kind[i] = "firmware")
      BY NoItemIsNoItem
    <3> QED BY <1>4, <1>8, <3>1, <3>2 DEF CurrentOK, Settled
  <2>3. CollectsOK(w.s, r)
    <3>1. \A u \in Diagnostics : u \in Task
      BY DEF Diagnostics
    <3> QED BY <2>1, <3>1, <1>9 DEF SessionOK, CollectsOK, Lasting
  <2>4. AheadOK(w.s, d, r)
    BY <2>1, <1>12 DEF SessionOK, AheadOK
  <2> QED BY <2>1, <2>2, <2>3, <2>4 DEF SessionOK
<1>16. DueOK(w.transfers, r)
  <2>1. DueOK(w.transfers, q) /\ w.transfers \subseteq Task
    BY WorldParts DEF WorldOK, q
  <2> QED BY <2>1, <1>9 DEF DueOK, Lasting
<1>17. WorldOK(v, d)
  BY <1>1, <1>14, <1>15, <1>16 DEF WorldOK, r
<1> QED BY <1>13, <1>17 DEF v, q, r

-----------------------------------------------------------------------------
(* dispatchNextOrClose                                                     *)

\* The session whose first n tasks have been popped.
Popped(w, S, n) == [FailAll(w, S) EXCEPT !.s.pend = Rest(w.s.pend, n)]

LEMMA RestFacts ==
    ASSUME NEW T, NEW pend \in Seq(T), NEW n \in 0 .. Len(pend)
    PROVE  /\ Rest(pend, n) \in Seq(T) /\ Len(Rest(pend, n)) = Len(pend) - n
           /\ \A k \in 1 .. Len(pend) - n : Rest(pend, n)[k] = pend[n + k]
           /\ pend = SubSeq(pend, 1, n) \o Rest(pend, n)
           /\ SubSeq(pend, 1, n) \in Seq(T)
           /\ Range(SubSeq(pend, 1, n)) = {pend[k] : k \in 1 .. n}
           /\ Range(Rest(pend, n)) \subseteq Range(pend)
<1>1. /\ Rest(pend, n) \in Seq(T) /\ SubSeq(pend, 1, n) \in Seq(T)
      /\ pend = SubSeq(pend, 1, n) \o Rest(pend, n)
  BY SplitList DEF Rest
<1>2. Range(SubSeq(pend, 1, n) \o Rest(pend, n))
        = Range(SubSeq(pend, 1, n)) \cup Range(Rest(pend, n))
  BY ONLY <1>1, RangeConcatenation, ZenonT(40)
<1>3. Range(Rest(pend, n)) \subseteq Range(pend)
  BY <1>1, <1>2
<1>4. /\ Len(Rest(pend, n)) = Len(pend) - n
      /\ \A k \in 1 .. Len(pend) - n : Rest(pend, n)[k] = pend[n + k]
      /\ Range(SubSeq(pend, 1, n)) = {pend[k] : k \in 1 .. n}
  BY SplitList DEF Rest
<1> QED BY <1>1, <1>3, <1>4, Zenon

Pops(w, v, d, S, n) ==
    /\ WorldOK(v, d)
    /\ v.s = [w.s EXCEPT !.pend = Rest(w.s.pend, n)]
    /\ v.queue = FailAll(w, S).queue
    /\ v.db = w.db /\ v.fresh = w.fresh
    /\ v.transfers = w.transfers /\ v.applied = w.applied
    /\ v.queue.status = [i \in Item |-> IF i \in S THEN "failed" ELSE w.queue.status[i]]
    /\ Waiting(w.queue, d) = SubSeq(w.s.pend, 1, n) \o Waiting(v.queue, d)
    /\ S \subseteq Pending(w.queue) /\ S \subseteq Own(d)
    /\ Others(w.queue, v.queue, d) /\ Lasting(w.queue, v.queue)

\* Its unbuildable tasks fail, and those behind them are the first waiting.
LEMMA PopOK ==
    ASSUME NEW d \in Device, NEW w, WorldOK(w, d),
           NEW n \in 0 .. Len(w.s.pend), NEW S, S = {w.s.pend[k] : k \in 1 .. n},
           S \subseteq Unbuildable
    PROVE  Pops(w, Popped(w, S, n), d, S, n)
<1> DEFINE q == w.queue
           v == Popped(w, S, n)
           r == v.queue
           pend == w.s.pend
           H == SubSeq(pend, 1, n)
           R == Rest(pend, n)
<1>1. /\ w \in WorldType /\ SessionOK(w.s, d, q) /\ FifosOK(q) /\ DueOK(w.transfers, q)
      /\ q \in QueueType /\ q.status \in [Item -> Statuses] /\ q.fifo \in [Device -> Seq(Task)]
      /\ pend \in Seq(Item) /\ w.s \in SessionType
  BY WorldParts DEF WorldOK
<1>2. S \in SUBSET Task
  BY TaskAssumption
<1>3. /\ R \in Seq(Item) /\ pend = H \o R /\ H \in Seq(Item) /\ Range(H) = S
      /\ Range(R) \subseteq Range(pend) /\ (R # <<>> => pend # <<>>)
  <2>1. /\ R \in Seq(Item) /\ pend = H \o R /\ H \in Seq(Item)
        /\ Range(H) = {pend[k] : k \in 1 .. n} /\ Range(R) \subseteq Range(pend)
    <3> HIDE DEF q, v, r
    <3>1. pend \in Seq(Item) /\ n \in 0 .. Len(pend)
      BY <1>1
    <3> HIDE DEF pend
    <3> QED BY <3>1, RestFacts DEF H, R
  <2>2. pend = <<>> => R = <<>>
    BY <2>1, ConcatSimplifications
  <2>3. Range(H) = S
    BY <2>1, Zenon
  <2> QED BY <2>1, <2>2, <2>3, Zenon
<1>4. H \in Seq(Task) /\ Keep(H, Task) = H
  BY <1>2, <1>3, SeqOfRange, SeqMonotonic, KeepAll, ZenonT(40)
<1>5. PICK rest \in Seq(Task) : Waiting(q, d) = Keep(pend, Task) \o rest
  BY <1>1 DEF SessionOK, AheadOK
<1> DEFINE K == Keep(R, Task)
<1>6. K \in Seq(Task)
  <2>1. K \in Seq(Item \cap Task)
    BY <1>3, KeepType
  <2>2. Item \cap Task = Task
    BY NoItemIsNoItem
  <2> QED BY <2>1, <2>2
<1>7. Keep(pend, Task) = H \o K
  <2>1. Keep(H \o R, Task) = Keep(H, Task) \o K
    <3> HIDE DEF H, R
    <3> QED BY <1>3, KeepConcat
  <2> QED BY <1>3, <1>4, <2>1
<1>8. Waiting(q, d) = H \o (K \o rest) /\ K \o rest \in Seq(Task)
  <2>1. (H \o K) \o rest = H \o (K \o rest) /\ K \o rest \in Seq(Task)
    <3>1. H \in Seq(Task) /\ K \in Seq(Task) /\ rest \in Seq(Task)
      BY <1>4, <1>6
    <3> HIDE DEF H, K
    <3>2. (H \o K) \o rest = H \o (K \o rest)
      BY ONLY <3>1, ConcatAssociative, SMTT(30)
    <3>3. K \o rest \in Seq(Task)
      BY ONLY <3>1, ConcatProperties
    <3> QED BY <3>2, <3>3
  <2> QED BY <1>5, <1>7, <2>1
<1>9. /\ Waiting(q, d) \in Seq(Own(d)) /\ IsInjective(Waiting(q, d)) /\ FifoOK(q, d)
      /\ Range(Waiting(q, d)) = Range(q.fifo[d]) \cap Pending(q)
  BY <1>1, WaitingFacts DEF FifosOK
<1>10. S \subseteq Pending(q) /\ S \subseteq Own(d)
  <2>1. Range(H \o (K \o rest)) = Range(H) \cup Range(K \o rest)
    <3> DEFINE M == K \o rest
    <3>1. H \in Seq(Task) /\ M \in Seq(Task)
      BY <1>4, <1>8
    <3> HIDE DEF H, R, K, M
    <3>2. Range(H \o M) = Range(H) \cup Range(M)
      BY <3>1, RangeConcatenation
    <3> QED BY <3>2 DEF M
  <2>2. Range(Waiting(q, d)) \subseteq Own(d)
    BY <1>9, RangeOfSeq
  <2> QED BY <1>3, <1>8, <1>9, <2>1, <2>2
<1>11. /\ FailAll(w, S) \in WorldType /\ FailAll(w, S).s = w.s
       /\ FailAll(w, S).db = w.db /\ FailAll(w, S).fresh = w.fresh
       /\ FailAll(w, S).transfers = w.transfers /\ FailAll(w, S).applied = w.applied
       /\ FailAll(w, S).queue.status
             = [i \in Item |-> IF i \in S THEN "failed" ELSE q.status[i]]
       /\ FailAll(w, S).queue.fifo = [e \in Device |-> Keep(q.fifo[e], Task \ S)]
  BY <1>1, <1>2, FailAllFields
<1>12. /\ v \in WorldType /\ v.s = [w.s EXCEPT !.pend = R]
       /\ v.db = w.db /\ v.fresh = w.fresh
       /\ v.transfers = w.transfers /\ v.applied = w.applied
       /\ v.queue = FailAll(w, S).queue
  <2>1. [w.s EXCEPT !.pend = R] \in SessionType
    <3> HIDE DEF R
    <3> QED BY <1>1, <1>3, SetPend
  <2> DEFINE F == FailAll(w, S)
  <2>2. v = [F EXCEPT !.s.pend = R]
    BY DEF Popped
  <2>3. /\ F \in WorldType /\ F.s = w.s /\ F.db = w.db /\ F.fresh = w.fresh
        /\ F.transfers = w.transfers /\ F.applied = w.applied
    BY <1>11
  <2> HIDE DEF F, R, v
  <2>4. v \in WorldType /\ v.s = [w.s EXCEPT !.pend = R] /\ v.queue = F.queue
    BY <2>1, <2>2, <2>3 DEF WorldType
  <2>5. /\ v.db = w.db /\ v.fresh = w.fresh
        /\ v.transfers = w.transfers /\ v.applied = w.applied
    BY <2>2, <2>3 DEF WorldType
  <2> QED BY <2>4, <2>5 DEF F
<1>13. /\ r \in QueueType
       /\ r.status = [i \in Item |-> IF i \in S THEN "failed" ELSE q.status[i]]
       /\ r.fifo = [e \in Device |-> Keep(q.fifo[e], Task \ S)]
  <2>1. r = FailAll(w, S).queue
    BY <1>12
  <2>2. FailAll(w, S).queue \in QueueType
    <3> DEFINE F == FailAll(w, S)
    <3>1. F \in WorldType
      BY <1>11
    <3> HIDE DEF F
    <3>2. F.queue \in QueueType
      BY ONLY <3>1 DEF WorldType
    <3> QED BY <3>2 DEF F
  <2> QED BY <1>11, <2>1, <2>2
<1> HIDE DEF q, v, r, pend, H, R, K
<1>14. Pending(r) = Pending(q) \cap (Task \ S)
  <2>1. \A u \in Task : r.status[u] = "pending" <=> q.status[u] = "pending" /\ u \notin S
    BY <1>13, NoItemIsNoItem
  <2> QED BY <2>1 DEF Pending
<1>15. Waiting(r, d) = K \o rest
  <2>1. q.fifo[d] \in Seq(Task)
    BY <1>1
  <2>2. Waiting(r, d) = Keep(q.fifo[d], (Task \ S) \cap (Pending(q) \cap (Task \ S)))
    BY <1>13, <1>14, <2>1, KeepKeep DEF Waiting
  <2>3. (Task \ S) \cap (Pending(q) \cap (Task \ S)) = Pending(q) \cap (Task \ S)
    OBVIOUS
  <2>4. Keep(Waiting(q, d), Task \ S) = Keep(q.fifo[d], Pending(q) \cap (Task \ S))
    BY <2>1, KeepKeep DEF Waiting
  <2>5. Keep(H \o (K \o rest), Task \ Range(H)) = K \o rest
    BY <1>4, <1>8, <1>9, KeepSecond
  <2> QED BY <1>3, <1>8, <2>2, <2>3, <2>4, <2>5
<1>16. \A i \in Item : r.status[i] = IF i \in S THEN "failed" ELSE q.status[i]
  BY <1>13
<1>17. Others(q, r, d)
  <2>1. ASSUME NEW e \in Device, e # d PROVE r.fifo[e] = q.fifo[e]
    <3>1. q.fifo[e] \in Seq(Own(e)) /\ Range(q.fifo[e]) \subseteq Own(e)
      BY <1>1, RangeOfSeq DEF FifosOK, FifoOK
    <3>2. Own(e) \subseteq Task \ S
      BY <1>10, <2>1 DEF Own
    <3>3. Keep(q.fifo[e], Task \ S) = q.fifo[e]
      BY <3>1, <3>2, KeepAll
    <3> QED BY <1>13, <3>3
  <2>2. S \subseteq Mine(d)
    BY <1>10, OwnItems
  <2> QED BY <1>16, <2>1, <2>2 DEF Others
<1>18. Lasting(q, r)
  BY <1>16, NoItemIsNoItem DEF Lasting, Settled, Terminal
<1>19. FifosOK(r)
  <2>1. FifoOK(r, d)
    <3>1. /\ q.fifo[d] \in Seq(Own(d)) /\ IsInjective(q.fifo[d])
          /\ \A u \in Range(q.fifo[d]) : q.status[u] # "absent"
      BY <1>9 DEF FifoOK
    <3>2. r.fifo[d] = Keep(q.fifo[d], Task \ S)
      BY <1>13
    <3>3. r.fifo[d] \in Seq(Own(d)) /\ IsInjective(r.fifo[d])
      BY <3>1, <3>2, KeepIsList, KeepInjective
    <3>4. Range(r.fifo[d]) = Range(q.fifo[d]) \cap (Task \ S)
      <4>1. q.fifo[d] \in Seq(Own(d))
        BY <3>1
      <4> QED BY ONLY <3>2, <4>1, KeepType
    <3>5. \A u \in Range(r.fifo[d]) : r.status[u] # "absent"
      BY <1>16, <3>1, <3>4, NoItemIsNoItem
    <3> QED BY <3>3, <3>5 DEF FifoOK
  <2>2. ASSUME NEW e \in Device, e # d PROVE FifoOK(r, e)
    BY <1>1, <1>13, <1>17, <2>2, OthersKeep DEF FifosOK
  <2> QED BY <2>1, <2>2 DEF FifosOK
<1>20. SessionOK(v.s, d, r)
  <2>1. /\ v.s.dev = w.s.dev /\ v.s.mark = w.s.mark /\ v.s.cur = w.s.cur /\ v.s.wp = w.s.wp
        /\ v.s.step = w.s.step /\ v.s.follow = w.s.follow /\ v.s.creds = w.s.creds
        /\ v.s.pend = R
    BY <1>1, <1>3, <1>12, SetPend
  <2>2. R \in Seq(Mine(d))
    <3>1. pend \in Seq(Mine(d))
      BY <1>1 DEF SessionOK, pend
    <3> QED BY <3>1, RestFacts DEF R, pend
  <2>3. CurrentOK(v.s, r)
    <3>1. CurrentOK(w.s, q) /\ (w.s.cur \in Task => w.s.cur \notin S /\ w.s.cur \in Item)
      BY <1>1, <1>10, NoItemIsNoItem DEF SessionOK, CurrentOK, Settled, Pending
    <3> QED BY <1>16, <2>1, <3>1 DEF CurrentOK, Settled
  <2>4. CollectsOK(v.s, r)
    <3>1. \A u \in Diagnostics : u \in Task
      BY DEF Diagnostics
    <3>2. CollectsOK(w.s, q)
      BY <1>1 DEF SessionOK
    <3> QED BY <1>3, <1>18, <2>1, <3>1, <3>2 DEF CollectsOK, Lasting, pend
  <2>5. AheadOK(v.s, d, r)
    BY <1>15, <2>1 DEF AheadOK, K
  <2> QED BY <1>1, <1>3, <2>1, <2>2, <2>3, <2>4, <2>5 DEF SessionOK, pend
<1>21. DueOK(v.transfers, r)
  <2>1. w.transfers \subseteq Task
    BY <1>1 DEF WorldType
  <2> QED BY <1>1, <1>12, <1>18, <2>1 DEF DueOK, Lasting
<1>22. WorldOK(v, d)
  BY <1>12, <1>19, <1>20, <1>21 DEF WorldOK, r
<1>23. Waiting(q, d) = H \o Waiting(r, d)
  BY <1>8, <1>15
<1> QED BY <1>10, <1>12, <1>13, <1>17, <1>18, <1>22, <1>23, Zenon DEF Pops, q, v, r, pend, H, R

\* dispatchTask's first half: the status, unless the task only collects.
Started(w, i) == IF IsCollect(i) THEN w ELSE UpdateStatus(w, i, "executing")

LEMMA DispatchIsExecute == \A w, i : Dispatch(w, i) = ExecuteTask(Started(w, i), i)
BY DEF Dispatch, Started

LEMMA StartedFields ==
    ASSUME NEW w \in WorldType, NEW i \in Item
    PROVE  /\ Started(w, i) \in WorldType /\ Started(w, i).s = w.s
           /\ Started(w, i).db = w.db /\ Started(w, i).fresh = w.fresh
           /\ Started(w, i).transfers = w.transfers /\ Started(w, i).applied = w.applied
           /\ Started(w, i).queue.fifo = w.queue.fifo
           /\ \A u \in Item : Started(w, i).queue.status[u] =
                IF u = i /\ ~IsCollect(i) THEN "executing" ELSE w.queue.status[u]
<1>1. CASE IsCollect(i)
  BY <1>1 DEF Started
<1>2. CASE ~IsCollect(i)
  <2> DEFINE v == UpdateStatus(w, i, "executing")
  <2>1. /\ v \in WorldType /\ v.s = w.s
        /\ v.db = w.db /\ v.fresh = w.fresh
        /\ v.transfers = w.transfers /\ v.applied = w.applied
        /\ v.queue.status = [w.queue.status EXCEPT ![i] = "executing"]
        /\ v.queue.fifo = w.queue.fifo
    BY UpdateStatusFields, ZenonT(40) DEF Terminal, Statuses
  <2>2. w.queue.status \in [Item -> Statuses]
    BY DEF WorldType, QueueType
  <2> QED BY <1>2, <2>1, <2>2 DEF Started
<1> QED BY <1>1, <1>2

LEMMA ExecuteOK ==
    ASSUME NEW d \in Device, NEW w, WorldOK(w, d), NEW i \in Mine(d),
           i \in Task => w.queue.status[i] = "executing",
           \A t \in Diagnostics : i = Collect(t) => Settled(w.queue, t)
    PROVE  /\ WorldOK(ExecuteTask(w, i), d)
           /\ ReplyOK(ExecuteTask(w, i).out, d, w.queue)
           /\ ExecuteTask(w, i).out \in ReplyType
           /\ ExecuteTask(w, i).out.op \notin {"204", "InformResponse"}
           /\ ExecuteTask(w, i).queue = w.queue
<1> DEFINE v == ExecuteTask(w, i)
           q == w.queue
<1>1. i \in Item /\ w \in WorldType /\ SessionOK(w.s, d, q)
  BY OwnItems DEF WorldOK
<1>2. /\ v \in WorldType /\ v.s.cur = i /\ v.queue = q /\ v.transfers = w.transfers
      /\ v.s.creds = IF KindOf(i) \in {"wan", "wanset"} THEN i ELSE w.s.creds
      /\ v.s.follow = IF KindOf(i) = "pfadd" THEN i ELSE w.s.follow
      /\ v.s.wp = IF KindOf(i) = "wan" THEN i ELSE w.s.wp
      /\ v.s.step = IF KindOf(i) = "wan" THEN 1 ELSE w.s.step
      /\ v.s.pend = w.s.pend /\ v.s.dev = w.s.dev /\ v.s.mark = w.s.mark
      /\ v.out = IF KindOf(i) = "wan" THEN Msg(WanSteps[1], i, 1) ELSE Msg(RpcOf(i), i, 1)
      /\ v.out \in ReplyType
  BY <1>1, ExecuteTaskFields
<1> HIDE DEF v, q
<1>3. SessionOK(v.s, d, q)
  <2>1. {v.s.cur, v.s.wp, v.s.follow, v.s.creds} \subseteq Mine(d) \cup {NoItem}
    BY <1>1, <1>2 DEF SessionOK
  <2>2. v.s.wp # NoItem => v.s.step >= 1
    BY <1>1, <1>2 DEF SessionOK
  <2>3. CurrentOK(v.s, q)
    BY <1>2 DEF CurrentOK, Settled, q
  <2>4. CollectsOK(v.s, q)
    BY <1>1, <1>2 DEF SessionOK, CollectsOK, q
  <2>5. AheadOK(v.s, d, q)
    BY <1>1, <1>2 DEF SessionOK, AheadOK
  <2> QED BY <1>1, <1>2, <2>1, <2>2, <2>3, <2>4, <2>5 DEF SessionOK
<1>4. WorldOK(v, d)
  BY <1>2, <1>3 DEF WorldOK, q
<1>5. ReplyOK(v.out, d, q) /\ v.out.op \notin {"204", "InformResponse"}
  <2>1. CASE KindOf(i) = "wan"
    <3>1. 1 \in 1 .. Len(WanSteps)
      BY FirstStep
    <3>2. WanSteps[1] \in StepKinds
      BY <3>1, FirstStep
    <3>3. v.out.op = WanSteps[1] /\ v.out.item = i
      BY <1>2, <2>1 DEF Msg
    <3> QED BY <3>2, <3>3, <1>1, NoItemIsNoItem DEF ReplyOK, StepKinds
  <2>2. CASE KindOf(i) # "wan"
    <3>1. v.out.op = RpcOf(i) /\ v.out.item = i
      BY <1>2, <2>2 DEF Msg
    <3>2. RpcOf(i) \notin {"204", "InformResponse"} /\ (RpcOf(i) = "Download" <=> KindOf(i) = "firmware")
      BY <1>1, <2>2, RpcOfItems
    <3>3. KindOf(i) = "firmware" => i \in Task /\ Kind[i] = "firmware" /\ Settled(q, i)
      <4>1. KindOf(i) = "firmware" => i \in Task /\ Kind[i] = "firmware"
        BY <1>1, KindsOfItems
      <4> QED BY <4>1 DEF Settled, q
    <3> QED BY <1>1, <3>1, <3>2, <3>3, NoItemIsNoItem DEF ReplyOK
  <2> QED BY <2>1, <2>2
<1> QED BY <1>2, <1>4, <1>5 DEF v, q

LEMMA HeadOfPend ==
    ASSUME NEW d \in Device, NEW w, WorldOK(w, d), w.s.pend # <<>>
    PROVE  /\ Len(w.s.pend) \in Nat \ {0} /\ 1 \in 1 .. Len(w.s.pend) /\ 1 \in 0 .. Len(w.s.pend)
           /\ w.s.pend[1] \in Mine(d) /\ w.s.pend[1] \in Range(w.s.pend)
           /\ Rest(w.s.pend, 1) \in Seq(Mine(d)) /\ Rest(w.s.pend, 1) \in Seq(Item)
           /\ Range(Rest(w.s.pend, 1)) \subseteq Range(w.s.pend)
           /\ w.s.pend = <<w.s.pend[1]>> \o Rest(w.s.pend, 1)
<1> DEFINE p == w.s.pend
<1>1. p \in Seq(Mine(d)) /\ p \in Seq(Item) /\ p # <<>>
  BY WorldParts DEF WorldOK, SessionOK
<1> HIDE DEF p
<1>2. Len(p) \in Nat \ {0} /\ DOMAIN p = 1 .. Len(p)
  BY <1>1, EmptySeq, LenProperties
<1>3. 1 \in 1 .. Len(p) /\ 1 \in 0 .. Len(p)
  BY <1>2
<1>4. p[1] \in Mine(d) /\ p[1] \in Range(p)
  BY <1>1, <1>2, <1>3, ElementOfSeq DEF Range
<1>5. Rest(p, 1) \in Seq(Mine(d)) /\ Range(Rest(p, 1)) \subseteq Range(p)
  <2>1. p \in Seq(Mine(d)) /\ 1 \in 0 .. Len(p)
    BY <1>1, <1>3
  <2> QED BY ONLY <2>1, RestFacts
<1>6. Rest(p, 1) \in Seq(Item)
  <2>1. p \in Seq(Item) /\ 1 \in 0 .. Len(p)
    BY <1>1, <1>3
  <2> QED BY ONLY <2>1, RestFacts
<1>7. p = <<p[1]>> \o Rest(p, 1)
  <2>1. SubSeq(p, 1, Len(p)) = <<p[1]>> \o SubSeq(p, 1 + 1, Len(p))
    <3>1. Len(p) \in 1 .. Len(p)
      BY <1>2
    <3>2. p \in Seq(Item) /\ 1 \in 1 .. Len(p)
      BY <1>1, <1>3
    <3> QED BY ONLY <3>1, <3>2, SubSeqRecursiveFirst
  <2>2. SubSeq(p, 1, Len(p)) = p
    BY <1>1, SubSeqFull
  <2> QED BY <2>1, <2>2 DEF Rest
<1> QED BY <1>2, <1>3, <1>4, <1>5, <1>6, <1>7, Zenon DEF p

Beheaded(w) == [w EXCEPT !.s.pend = Rest(w.s.pend, 1)]

\* The first task of the session goes out: it was the first waiting.
LEMMA StartOK ==
    ASSUME NEW d \in Device, NEW w, WorldOK(w, d), w.s.pend # <<>>,
           NEW i, i = w.s.pend[1], NEW v, v = Started(Beheaded(w), i)
    PROVE  /\ WorldOK(v, d)
           /\ v.s = Beheaded(w).s
           /\ v.db = w.db /\ v.fresh = w.fresh
           /\ v.transfers = w.transfers /\ v.applied = w.applied
           /\ i \in Mine(d)
           /\ i \in Task => v.queue.status[i] = "executing" /\ w.queue.status[i] = "pending"
           /\ \A t \in Diagnostics : i = Collect(t) => Settled(v.queue, t)
           /\ \A u \in Item : u # i => v.queue.status[u] = w.queue.status[u]
           /\ v.queue.status[i] \in {"executing", w.queue.status[i]}
           /\ Moves(w.queue, v.queue, d)
<1> DEFINE q == w.queue
           r == v.queue
           R == Rest(w.s.pend, 1)
           x == [w EXCEPT !.s.pend = R]
<1>1. /\ w \in WorldType /\ SessionOK(w.s, d, q) /\ FifosOK(q) /\ DueOK(w.transfers, q)
      /\ q \in QueueType /\ q.status \in [Item -> Statuses] /\ q.fifo \in [Device -> Seq(Task)]
      /\ w.s \in SessionType
  BY WorldParts DEF WorldOK
<1>2. /\ i \in Mine(d) /\ i \in Range(w.s.pend) /\ i \in Item
      /\ R \in Seq(Mine(d)) /\ R \in Seq(Item)
      /\ Range(R) \subseteq Range(w.s.pend)
      /\ w.s.pend = <<i>> \o R
  BY HeadOfPend, OwnItems
<1> HIDE DEF R
<1>3. x \in WorldType /\ x.s = [w.s EXCEPT !.pend = R] /\ x.queue = q
      /\ x.db = w.db /\ x.fresh = w.fresh /\ x.transfers = w.transfers /\ x.applied = w.applied
  <2>1. [w.s EXCEPT !.pend = R] \in SessionType
    BY <1>1, <1>2, SetPend
  <2> QED BY <1>1, <2>1 DEF WorldType
<1> HIDE DEF x
<1>4. v = Started(x, i) /\ x = Beheaded(w)
  BY DEF x, R, Beheaded
<1>5. /\ v \in WorldType /\ v.s = x.s
      /\ v.db = w.db /\ v.fresh = w.fresh
      /\ v.transfers = w.transfers /\ v.applied = w.applied
      /\ r.fifo = q.fifo
      /\ \A u \in Item : r.status[u] =
            IF u = i /\ ~IsCollect(i) THEN "executing" ELSE q.status[u]
  <2>1. x \in WorldType /\ i \in Item
    BY <1>2, <1>3
  <2>2. v = Started(x, i)
    BY <1>4
  <2>3. /\ v \in WorldType /\ v.s = x.s
        /\ v.db = x.db /\ v.fresh = x.fresh
        /\ v.transfers = x.transfers /\ v.applied = x.applied
        /\ v.queue.fifo = x.queue.fifo
        /\ \A u \in Item : v.queue.status[u] =
              IF u = i /\ ~IsCollect(i) THEN "executing" ELSE x.queue.status[u]
    BY ONLY <2>1, <2>2, StartedFields
  <2> QED BY <1>3, <2>3
<1>6. r \in QueueType /\ r.status \in [Item -> Statuses]
  BY <1>5 DEF WorldType, QueueType
<1> HIDE DEF q, r
<1>7. PICK rest \in Seq(Task) : Waiting(q, d) = Keep(w.s.pend, Task) \o rest
  BY <1>1 DEF SessionOK, AheadOK
<1> DEFINE K == Keep(R, Task)
           X == K \o rest
<1>8. K \in Seq(Task) /\ X \in Seq(Task)
  <2>1. K \in Seq(Item \cap Task)
    BY <1>2, KeepType
  <2>2. Item \cap Task = Task
    BY NoItemIsNoItem
  <2>3. K \in Seq(Task)
    BY <2>1, <2>2
  <2> HIDE DEF K
  <2> QED BY <2>3, ConcatProperties
<1>9. Keep(w.s.pend, Task) = Keep(<<i>>, Task) \o K
  <2> DEFINE I == <<i>>
  <2>1. I \in Seq(Item)
    BY <1>2, SingletonList
  <2>2. w.s.pend = I \o R
    BY <1>2
  <2> HIDE DEF I
  <2>3. Keep(I \o R, Task) = Keep(I, Task) \o K
    BY <1>2, <2>1, KeepConcat
  <2> QED BY <2>2, <2>3 DEF I
<1>10. /\ FifoOK(q, d) /\ IsInjective(Waiting(q, d)) /\ Waiting(q, d) \in Seq(Task)
       /\ Range(Waiting(q, d)) = Range(q.fifo[d]) \cap Pending(q)
       /\ q.fifo[d] \in Seq(Task)
  BY <1>1, WaitingFacts DEF FifosOK
<1> HIDE DEF K, X
<1> DEFINE Goal == /\ AheadOK(v.s, d, r) /\ InOrder(q, r, d) /\ Lasting(q, r)
                   /\ i \in Task => q.status[i] = "pending" /\ ~IsCollect(i)
<1>11. ASSUME i \in Task PROVE Goal
  <2>1. Waiting(q, d) = <<i>> \o X /\ <<i>> \in Seq(Task) /\ Range(<<i>>) = {i}
    <3>1. <<i>> \in Seq(Task) /\ Keep(<<i>>, Task) = <<i>> /\ Range(<<i>>) = {i}
      BY <1>11, SingletonList
    <3>2. (<<i>> \o K) \o rest = <<i>> \o (K \o rest)
      BY <1>8, <3>1, ConcatAssociative
    <3> QED BY <1>7, <1>9, <3>1, <3>2 DEF X
  <2>2. i \in Pending(q) /\ q.status[i] = "pending"
    <3>1. Range(<<i>> \o X) = Range(<<i>>) \cup Range(X)
      <4> DEFINE I == <<i>>
      <4>1. I \in Seq(Task)
        BY <2>1
      <4> HIDE DEF I
      <4>2. Range(I \o X) = Range(I) \cup Range(X)
        BY <1>8, <4>1, RangeConcatenation
      <4> QED BY <4>2 DEF I
    <3>2. i \in Range(Waiting(q, d))
      BY <2>1, <3>1
    <3> QED BY <1>10, <3>2 DEF Pending
  <2>3. ~IsCollect(i)
    BY <1>2, <1>11, KindsOfItems
  <2>4. Pending(r) = Pending(q) \cap (Task \ {i})
    <3>1. \A u \in Task : r.status[u] = "pending" <=> q.status[u] = "pending" /\ u # i
      BY <1>5, <2>3, NoItemIsNoItem
    <3> QED BY <3>1 DEF Pending
  <2>5. Waiting(r, d) = X
    <3>1. Keep(Waiting(q, d), Task \ {i}) = Keep(q.fifo[d], Pending(q) \cap (Task \ {i}))
      BY <1>10, KeepKeep DEF Waiting
    <3>2. Keep(<<i>> \o X, Task \ Range(<<i>>)) = X
      BY <1>8, <1>10, <2>1, KeepSecond, ZenonT(40)
    <3> QED BY <1>5, <2>1, <2>4, <3>1, <3>2 DEF Waiting
  <2>6. AheadOK(v.s, d, r)
    <3>1. v.s.pend = R
      BY <1>1, <1>2, <1>3, <1>5, SetPend
    <3> QED BY <2>5, <3>1 DEF AheadOK, X, K
  <2>7. InOrder(q, r, d)
    <3> SUFFICES ASSUME NEW j \in DOMAIN Waiting(q, d), NEW k \in DOMAIN Waiting(q, d),
                        j < k, r.status[Waiting(q, d)[k]] = "executing"
                 PROVE  FALSE
      BY DEF InOrder
    <3> DEFINE W == Waiting(q, d)
    <3>1. W[k] \in Range(W) /\ W[k] \in Item /\ q.status[W[k]] = "pending"
      <4>1. W[k] \in Range(W)
        BY DEF Range
      <4> QED BY <1>10, <4>1, NoItemIsNoItem DEF Pending
    <3>2. W[k] = i
      BY <1>5, <3>1
    <3>3. W[1] = i /\ 1 \in DOMAIN W
      <4>1. Len(<<i>>) = 1 /\ Len(X) \in Nat
        BY <1>8, LenProperties
      <4>2. /\ Len(<<i>> \o X) = Len(<<i>>) + Len(X)
            /\ \A n \in 1 .. Len(<<i>>) + Len(X) : (<<i>> \o X)[n] =
                 IF n <= Len(<<i>>) THEN <<i>>[n] ELSE X[n - Len(<<i>>)]
        BY <1>8, <2>1, ConcatProperties
      <4>3. DOMAIN W = 1 .. Len(W)
        BY <1>10, LenProperties
      <4>4. 1 \in 1 .. Len(<<i>>) + Len(X) /\ 1 <= Len(<<i>>) /\ <<i>>[1] = i
        BY <4>1
      <4> QED BY <2>1, <4>2, <4>3, <4>4
    <3>4. k = 1
      BY <1>10, <3>2, <3>3 DEF IsInjective
    <3>5. j \in 1 .. Len(W)
      BY <1>10, LenProperties
    <3> QED BY <3>4, <3>5
  <2>8. Lasting(q, r)
    <3>1. \A u \in Task : u # i => r.status[u] = q.status[u]
      BY <1>5, NoItemIsNoItem
    <3> QED BY <1>5, <2>2, <3>1 DEF Lasting, Settled, Terminal
  <2> QED BY <2>2, <2>3, <2>6, <2>7, <2>8
<1>12. ASSUME i \notin Task PROVE Goal
  <2>1. Pending(r) = Pending(q)
    <3>1. \A u \in Task : r.status[u] = q.status[u]
      BY <1>5, <1>12, NoItemIsNoItem
    <3> QED BY <3>1 DEF Pending
  <2>2. Waiting(r, d) = Waiting(q, d)
    BY <1>5, <2>1 DEF Waiting
  <2>3. Keep(w.s.pend, Task) = K
    <3>1. Keep(<<i>>, Task) = <<>>
      BY <1>2, <1>12, SingletonList
    <3> QED BY <1>8, <1>9, <3>1, ConcatEmptySeq
  <2>4. AheadOK(v.s, d, r)
    <3>1. v.s.pend = R
      BY <1>1, <1>2, <1>3, <1>5, SetPend
    <3> QED BY <1>7, <2>2, <2>3, <3>1 DEF AheadOK, K
  <2>5. Lasting(q, r)
    BY <1>5, <1>12, NoItemIsNoItem DEF Lasting, Settled
  <2>6. InOrder(q, r, d)
    <3> SUFFICES ASSUME NEW j \in DOMAIN Waiting(q, d), NEW k \in DOMAIN Waiting(q, d),
                        j < k, r.status[Waiting(q, d)[k]] = "executing"
                 PROVE  FALSE
      BY DEF InOrder
    <3>1. Waiting(q, d)[k] \in Range(Waiting(q, d))
      BY DEF Range
    <3>2. Waiting(q, d)[k] \in Pending(r)
      BY <1>10, <2>1, <3>1
    <3> QED BY <3>2 DEF Pending
  <2> QED BY <1>12, <2>4, <2>5, <2>6
<1>13. Goal
  BY <1>11, <1>12
<1>14. Others(q, r, d)
  BY <1>2, <1>5 DEF Others
<1>15. Moves(q, r, d)
  BY <1>13, <1>14 DEF Moves
<1>16. FifosOK(r)
  <2>1. \A u \in Task : r.status[u] = "absent" => q.status[u] = "absent"
    BY <1>5, NoItemIsNoItem
  <2>2. ASSUME NEW e \in Device PROVE FifoOK(r, e)
    <3>1. FifoOK(q, e) /\ r.fifo[e] = q.fifo[e]
      BY <1>1, <1>5 DEF FifosOK
    <3>2. Range(q.fifo[e]) \subseteq Task
      BY <3>1, RangeOfSeq, OwnItems DEF FifoOK
    <3> QED BY <2>1, <3>1, <3>2 DEF FifoOK
  <2> QED BY <2>2 DEF FifosOK
<1>17. SessionOK(v.s, d, r)
  <2>1. /\ v.s.dev = w.s.dev /\ v.s.mark = w.s.mark /\ v.s.cur = w.s.cur /\ v.s.wp = w.s.wp
        /\ v.s.step = w.s.step /\ v.s.follow = w.s.follow /\ v.s.creds = w.s.creds
        /\ v.s.pend = R
    BY <1>1, <1>2, <1>3, <1>5, SetPend
  <2>2. CurrentOK(v.s, r)
    <3>1. CurrentOK(w.s, q)
      BY <1>1 DEF SessionOK
    <3> QED BY <1>5, <2>1, <3>1, NoItemIsNoItem DEF CurrentOK, Settled
  <2>3. CollectsOK(v.s, r)
    <3>1. CollectsOK(w.s, q) /\ \A u \in Diagnostics : u \in Task
      BY <1>1 DEF SessionOK, Diagnostics
    <3> QED BY <1>2, <1>13, <2>1, <3>1 DEF CollectsOK, Lasting
  <2>4. w.s.pend # <<>> /\ w.s.dev = d
    BY <1>1 DEF SessionOK
  <2> QED BY <1>1, <1>2, <1>13, <2>1, <2>2, <2>3, <2>4 DEF SessionOK
<1>18. DueOK(v.transfers, r)
  <2>1. w.transfers \subseteq Task
    BY <1>1 DEF WorldType
  <2> QED BY <1>1, <1>5, <1>13, <2>1 DEF DueOK, Lasting
<1>19. WorldOK(v, d)
  BY <1>5, <1>16, <1>17, <1>18 DEF WorldOK, r
<1>20. ASSUME NEW t \in Diagnostics, i = Collect(t) PROVE Settled(r, t)
  <2>1. Settled(q, t) /\ t \in Task
    BY <1>1, <1>2, <1>20 DEF SessionOK, CollectsOK, Diagnostics
  <2> QED BY <1>13, <2>1 DEF Lasting
<1>21. r.status[i] \in {"executing", q.status[i]} /\ (i \in Task => r.status[i] = "executing")
  BY <1>2, <1>5, <1>13
<1>22. v.s = Beheaded(w).s
  BY <1>4, <1>5
<1>23. \A u \in Item : u # i => r.status[u] = q.status[u]
  BY <1>5
<1> QED BY <1>2, <1>5, <1>13, <1>15, <1>19, <1>20, <1>21, <1>22, <1>23, Zenon DEF q, r, R

\* The session's current task goes out again.
LEMMA StartAgainOK ==
    ASSUME NEW d \in Device, NEW w, WorldOK(w, d), w.s.cur # NoItem,
           NEW v, v = Started(w, w.s.cur)
    PROVE  /\ WorldOK(v, d)
           /\ v.s = w.s
           /\ v.db = w.db /\ v.fresh = w.fresh
           /\ v.transfers = w.transfers /\ v.applied = w.applied
           /\ w.s.cur \in Mine(d)
           /\ w.s.cur \in Task => v.queue.status[w.s.cur] = "executing"
           /\ \A t \in Diagnostics : w.s.cur = Collect(t) => Settled(v.queue, t)
           /\ \A u \in Item : u # w.s.cur => v.queue.status[u] = w.queue.status[u]
           /\ v.queue.status[w.s.cur] \in {"executing", w.queue.status[w.s.cur]}
           /\ Moves(w.queue, v.queue, d)
<1> DEFINE q == w.queue
           r == v.queue
           i == w.s.cur
<1>1. /\ w \in WorldType /\ SessionOK(w.s, d, q) /\ FifosOK(q) /\ DueOK(w.transfers, q)
      /\ q \in QueueType /\ q.status \in [Item -> Statuses] /\ q.fifo \in [Device -> Seq(Task)]
      /\ w.s \in SessionType
  BY WorldParts DEF WorldOK
<1>2. i \in Mine(d) /\ i \in Item /\ CurrentOK(w.s, q) /\ CollectsOK(w.s, q)
  BY <1>1, OwnItems DEF SessionOK
<1>3. /\ v \in WorldType /\ v.s = w.s
      /\ v.db = w.db /\ v.fresh = w.fresh
      /\ v.transfers = w.transfers /\ v.applied = w.applied
      /\ r.fifo = q.fifo
      /\ \A u \in Item : r.status[u] =
            IF u = i /\ ~IsCollect(i) THEN "executing" ELSE q.status[u]
  BY <1>1, <1>2, StartedFields
<1> HIDE DEF q, r, i
<1>4. \A u \in Task : r.status[u] = "pending" <=> q.status[u] = "pending"
  BY <1>2, <1>3, NoItemIsNoItem DEF CurrentOK, Settled, i
<1>5. \A u \in Task : Settled(q, u) => Settled(r, u)
  BY <1>3, NoItemIsNoItem DEF Settled
<1>6. i \in Task /\ Kind[i] # "firmware" => q.status[i] = "executing"
  BY <1>2 DEF CurrentOK, i
<1>7. Lasting(q, r)
  <2>1. ASSUME NEW u \in Task, q.status[u] \in Terminal, Kind[u] # "firmware"
        PROVE  r.status[u] \in Terminal
    <3>1. u # i /\ u \in Item
      BY <1>6, <2>1, NoItemIsNoItem DEF Terminal
    <3> QED BY <1>3, <2>1, <3>1
  <2> QED BY <1>5, <2>1 DEF Lasting
<1>8. Pending(r) = Pending(q)
  BY <1>4 DEF Pending
<1>9. Others(q, r, d)
  BY <1>2, <1>3 DEF Others
<1>10. Waiting(r, d) = Waiting(q, d)
  BY <1>3, <1>8 DEF Waiting
<1>11. Settles(q, r, d)
  BY <1>7, <1>8, <1>9, <1>10 DEF Settles
<1>12. Moves(q, r, d)
  BY <1>1, <1>11, SettlesIsMove DEF FifosOK
<1>13. FifosOK(r)
  <2>1. \A u \in Task : r.status[u] = "absent" => q.status[u] = "absent"
    BY <1>3, NoItemIsNoItem
  <2>2. ASSUME NEW e \in Device PROVE FifoOK(r, e)
    <3>1. FifoOK(q, e) /\ r.fifo[e] = q.fifo[e]
      BY <1>1, <1>3 DEF FifosOK
    <3>2. Range(q.fifo[e]) \subseteq Task
      BY <3>1, RangeOfSeq, OwnItems DEF FifoOK
    <3> QED BY <2>1, <3>1, <3>2 DEF FifoOK
  <2> QED BY <2>2 DEF FifosOK
<1>14. i \in Task => r.status[i] = "executing"
  BY <1>2, <1>3, KindsOfItems
<1>15. SessionOK(w.s, d, r)
  <2>1. CurrentOK(w.s, r)
    BY <1>2, <1>5, <1>14 DEF CurrentOK, i
  <2>2. CollectsOK(w.s, r)
    BY <1>2, <1>5 DEF CollectsOK, Diagnostics
  <2>3. AheadOK(w.s, d, r)
    BY <1>1, <1>10 DEF SessionOK, AheadOK
  <2> QED BY <1>1, <2>1, <2>2, <2>3 DEF SessionOK
<1>16. DueOK(v.transfers, r)
  <2>1. w.transfers \subseteq Task
    BY <1>1 DEF WorldType
  <2> QED BY <1>1, <1>3, <1>5, <2>1 DEF DueOK
<1>17. WorldOK(v, d)
  BY <1>3, <1>13, <1>15, <1>16 DEF WorldOK, r
<1>18. ASSUME NEW t \in Diagnostics, i = Collect(t) PROVE Settled(r, t)
  BY <1>2, <1>5, <1>18 DEF CollectsOK, Diagnostics, i
<1>19. r.status[i] \in {"executing", q.status[i]}
  BY <1>2, <1>3
<1>20. \A u \in Item : u # i => r.status[u] = q.status[u]
  BY <1>3
<1> QED BY <1>2, <1>3, <1>12, <1>14, <1>17, <1>18, <1>19, <1>20 DEF q, r, i

\* dispatchNextOrClose closes the session, or executes the first task of the
\* session that can be built.
Closes(w, v) ==
    /\ Range(w.s.pend) \subseteq Unbuildable
    /\ v = [Popped(w, Range(w.s.pend), Len(w.s.pend)) EXCEPT !.s.state = "done", !.out = Close]

Failing(w, n) == {w.s.pend[k] : k \in 1 .. n - 1}
Taken(w, n) == [FailAll(w, Failing(w, n)) EXCEPT !.s.pend = Rest(w.s.pend, n)]
Executes(w, v, n) ==
    /\ n \in 1 .. Len(w.s.pend)
    /\ Failing(w, n) \subseteq Unbuildable /\ w.s.pend[n] \notin Unbuildable
    /\ v = ExecuteTask(Started(Taken(w, n), w.s.pend[n]), w.s.pend[n])

LEMMA DispatchCases ==
    ASSUME NEW w \in WorldType, w.s.pend \in Seq(Item)
    PROVE  \/ Closes(w, DispatchNextOrClose(w))
           \/ \E n \in 1 .. Len(w.s.pend) : Executes(w, DispatchNextOrClose(w), n)
<1> DEFINE pend == w.s.pend
           good == {k \in DOMAIN pend : pend[k] \notin Unbuildable}
           next == CHOOSE k \in good : \A j \in good : k <= j
<1>1. Len(pend) \in Nat /\ DOMAIN pend = 1 .. Len(pend)
  BY LenProperties
<1>2. CASE good = {}
  <2>1. Range(pend) \subseteq Unbuildable
    BY <1>2 DEF Range
  <2>2. Rest(pend, Len(pend)) = <<>>
    BY <1>1, SubSeqEmpty DEF Rest
  <2>3. DispatchNextOrClose(w)
          = [FailAll(w, Range(pend)) EXCEPT !.s.pend = <<>>, !.s.state = "done", !.out = Close]
    BY <1>2 DEF DispatchNextOrClose
  <2>4. FailAll(w, Range(pend)) \in WorldType /\ FailAll(w, Range(pend)).s \in SessionType
    BY <2>1, TaskAssumption, FailAllFields DEF WorldType
  <2>5. DispatchNextOrClose(w)
          = [Popped(w, Range(pend), Len(pend)) EXCEPT !.s.state = "done", !.out = Close]
    BY <2>2, <2>3, <2>4 DEF Popped, WorldType, SessionType
  <2> QED BY <2>1, <2>5 DEF Closes
<1>3. CASE good # {}
  <2>1. good \in SUBSET Nat
    BY <1>1
  <2>2. \E k \in good : \A j \in good : k <= j
    <3> HIDE DEF good
    <3> QED BY <1>3, <2>1, LeastNatural
  <2>3. next \in good /\ \A j \in good : next <= j
    <3> HIDE DEF good
    <3> QED BY <2>2
  <2>4. DispatchNextOrClose(w)
          = ExecuteTask(Started(Taken(w, next), pend[next]), pend[next])
    BY <1>3, DispatchIsExecute DEF DispatchNextOrClose, Taken, Failing
  <2>5. next \in 1 .. Len(pend) /\ pend[next] \notin Unbuildable
    BY <1>1, <2>3
  <2>6. ASSUME NEW k \in 1 .. next - 1 PROVE pend[k] \in Unbuildable
    <3>1. k \in good => next <= k
      BY <2>3
    <3>2. k \in DOMAIN pend /\ ~(next <= k)
      <4> HIDE DEF next
      <4> QED BY <1>1, <2>5
    <3> QED BY <3>1, <3>2
  <2>7. Executes(w, DispatchNextOrClose(w), next)
    <3> HIDE DEF next
    <3> QED BY <2>4, <2>5, <2>6 DEF Executes, Failing
  <2> QED BY <2>5, <2>7
<1> QED BY <1>2, <1>3

LEMMA OthersTwice ==
    ASSUME NEW d \in Device, NEW q, NEW r, NEW u
    PROVE  /\ Others(q, r, d) /\ Others(r, u, d) => Others(q, u, d)
           /\ Lasting(q, r) /\ Lasting(r, u) => Lasting(q, u)
BY DEF Others, Lasting

LEMMA RestRest ==
    ASSUME NEW T, NEW pend \in Seq(T), NEW n \in 1 .. Len(pend)
    PROVE  /\ Rest(pend, n - 1) # <<>> /\ Rest(pend, n - 1)[1] = pend[n]
           /\ Rest(Rest(pend, n - 1), 1) = Rest(pend, n)
           /\ SubSeq(pend, 1, n - 1) \in Seq(T) /\ Len(SubSeq(pend, 1, n - 1)) = n - 1
<1> DEFINE m == n - 1
           R == Rest(pend, m)
           RR == Rest(R, 1)
<1>1. /\ Len(pend) \in Nat /\ m \in 0 .. Len(pend) /\ n = m + 1
      /\ 1 \in 1 .. Len(pend) - m /\ n \in 0 .. Len(pend)
  BY LenProperties
<1> HIDE DEF m
<1>2. /\ R \in Seq(T) /\ Len(R) = Len(pend) - m
      /\ \A k \in 1 .. Len(pend) - m : R[k] = pend[m + k]
      /\ SubSeq(pend, 1, m) \in Seq(T)
  BY <1>1, RestFacts
<1>3. /\ Rest(pend, n) \in Seq(T) /\ Len(Rest(pend, n)) = Len(pend) - n
      /\ \A k \in 1 .. Len(pend) - n : Rest(pend, n)[k] = pend[n + k]
  BY <1>1, RestFacts
<1> HIDE DEF R
<1>4. 1 \in 0 .. Len(R) /\ R # <<>>
  BY <1>1, <1>2, EmptySeq
<1>5. /\ RR \in Seq(T) /\ Len(RR) = Len(R) - 1
      /\ \A k \in 1 .. Len(R) - 1 : RR[k] = R[1 + k]
  BY <1>2, <1>4, RestFacts
<1> HIDE DEF RR
<1>6. Len(RR) = Len(Rest(pend, n))
  <2>1. /\ Len(RR) = Len(R) - 1 /\ Len(R) = Len(pend) - m
        /\ Len(Rest(pend, n)) = Len(pend) - n /\ n = m + 1
        /\ Len(pend) \in Nat /\ m \in Nat
    <3>1. n = m + 1 /\ Len(pend) \in Nat /\ m \in Nat
      BY <1>1
    <3> QED BY <1>2, <1>3, <1>5, <3>1
  <2> QED BY ONLY <2>1
<1>7. ASSUME NEW k \in 1 .. Len(RR) PROVE RR[k] = Rest(pend, n)[k]
  <2>1. k \in 1 .. Len(R) - 1 /\ k \in 1 .. Len(pend) - n /\ 1 + k \in 1 .. Len(pend) - m
    BY <1>1, <1>2, <1>5
  <2>2. m + (1 + k) = n + k
    BY <1>1
  <2> QED BY <1>2, <1>3, <1>5, <2>1, <2>2
<1>8. RR = Rest(pend, n)
  BY <1>3, <1>5, <1>6, <1>7, SeqEqual
<1>9. R[1] = pend[n]
  BY <1>1, <1>2
<1>10. Len(SubSeq(pend, 1, m)) = m
  <2>1. SubSeq(pend, 1, m) \in Seq(T) /\ R \in Seq(T) /\ pend = SubSeq(pend, 1, m) \o R
    BY <1>1, RestFacts DEF R
  <2> DEFINE H == SubSeq(pend, 1, m)
  <2>2. H \in Seq(T) /\ pend = H \o R
    BY <2>1
  <2> HIDE DEF H
  <2>3. Len(H \o R) = Len(H) + Len(R) /\ Len(H) \in Nat
    BY <1>2, <2>2, ConcatProperties, LenProperties
  <2>4. Len(H) = m
    BY <1>1, <1>2, <2>2, <2>3
  <2> QED BY <2>4 DEF H
<1> QED BY <1>2, <1>4, <1>8, <1>9, <1>10 DEF m, R, RR

\* What is dispatched was the first task waiting that can be built: those
\* before it fail, and nothing behind it is touched.
LEMMA DispatchOK ==
    ASSUME NEW d \in Device, NEW w, WorldOK(w, d), NEW v, v = DispatchNextOrClose(w)
    PROVE  /\ WorldOK(v, d) /\ ReplyOK(v.out, d, v.queue) /\ v.out \in ReplyType
           /\ v.out # Close => v.out.op \notin {"204", "InformResponse"}
           /\ v.db = w.db /\ v.fresh = w.fresh
           /\ v.transfers = w.transfers /\ v.applied = w.applied
           /\ Moves(w.queue, v.queue, d)
<1> DEFINE pend == w.s.pend
           q == w.queue
           r == v.queue
<1>1. /\ w \in WorldType /\ SessionOK(w.s, d, q) /\ FifosOK(q) /\ FifoOK(q, d)
      /\ q \in QueueType /\ q.status \in [Item -> Statuses]
      /\ pend \in Seq(Item) /\ w.s \in SessionType
  BY WorldParts DEF WorldOK, FifosOK
<1>2. Len(pend) \in Nat /\ DOMAIN pend = 1 .. Len(pend)
  BY <1>1, LenProperties
<1>3. /\ Waiting(q, d) \in Seq(Task) /\ IsInjective(Waiting(q, d))
      /\ \A n \in DOMAIN Waiting(q, d) : q.status[Waiting(q, d)[n]] = "pending"
  BY <1>1, WaitingFacts
<1>4. CASE Closes(w, v)
  <2> DEFINE S == Range(pend)
             u == Popped(w, S, Len(pend))
  <2>1. S = {pend[k] : k \in 1 .. Len(pend)} /\ S \subseteq Unbuildable /\ Len(pend) \in 0 .. Len(pend)
    BY <1>2, <1>4 DEF Closes, Range
  <2>2. /\ WorldOK(u, d) /\ u.s = [w.s EXCEPT !.pend = Rest(pend, Len(pend))]
        /\ u.db = w.db /\ u.fresh = w.fresh
        /\ u.transfers = w.transfers /\ u.applied = w.applied
        /\ u.queue.status = [i \in Item |-> IF i \in S THEN "failed" ELSE q.status[i]]
        /\ Others(q, u.queue, d) /\ Lasting(q, u.queue)
    <3> DEFINE m == Len(pend)
    <3>1. m \in 0 .. Len(pend) /\ S = {pend[k] : k \in 1 .. m}
      BY <2>1
    <3> HIDE DEF m, S
    <3>2. Pops(w, Popped(w, S, m), d, S, m)
      BY <2>1, <3>1, PopOK
    <3> QED BY <3>2 DEF Pops, m
  <2>3. v = [u EXCEPT !.s.state = "done", !.out = Close]
    BY <1>4 DEF Closes
  <2> HIDE DEF u
  <2>4. Close \in ReplyType /\ ReplyOK(Close, d, r)
    BY DEF Close, Msg, ReplyType, ReplyOK, Ops
  <2>5. [u.s EXCEPT !.state = "done"] \in SessionType /\ u \in WorldType
    <3>1. u \in WorldType
      BY <2>2 DEF WorldOK
    <3>2. u.s \in SessionType
      BY <3>1 DEF WorldType
    <3> QED BY <3>1, <3>2, SetDone
  <2>6. /\ v \in WorldType /\ v.s = [u.s EXCEPT !.state = "done"]
        /\ v.queue = u.queue /\ v.out = Close
        /\ v.db = u.db /\ v.fresh = u.fresh
        /\ v.transfers = u.transfers /\ v.applied = u.applied
    <3> DEFINE S1 == [u.s EXCEPT !.state = "done"]
    <3>1. v = [u EXCEPT !.s = S1, !.out = Close]
      BY <2>3, <2>5 DEF WorldType
    <3>2. S1 \in SessionType
      BY <2>5
    <3> HIDE DEF S1
    <3>3. /\ v \in WorldType /\ v.s = S1 /\ v.queue = u.queue /\ v.out = Close
          /\ v.db = u.db /\ v.fresh = u.fresh
          /\ v.transfers = u.transfers /\ v.applied = u.applied
      BY <2>4, <2>5, <3>1, <3>2 DEF WorldType
    <3> QED BY <3>3 DEF S1
  <2>7. SessionOK(v.s, d, v.queue)
    <3>1. SessionOK(u.s, d, u.queue) /\ u.s \in SessionType
      BY <2>2 DEF WorldOK, WorldType
    <3>2. /\ v.s.dev = u.s.dev /\ v.s.pend = u.s.pend /\ v.s.cur = u.s.cur /\ v.s.wp = u.s.wp
          /\ v.s.step = u.s.step /\ v.s.follow = u.s.follow /\ v.s.creds = u.s.creds
          /\ v.s.mark = u.s.mark
      BY <2>6, <3>1, SetDone
    <3>3. CurrentOK(v.s, v.queue) /\ CollectsOK(v.s, v.queue)
      BY <2>6, <3>1, <3>2 DEF SessionOK, CurrentOK, CollectsOK
    <3>4. AheadOK(v.s, d, v.queue)
      <4>1. AheadOK(u.s, d, u.queue)
        BY <3>1 DEF SessionOK
      <4> QED BY <2>6, <3>2, <4>1 DEF AheadOK
    <3> QED BY <3>1, <3>2, <3>3, <3>4 DEF SessionOK
  <2>8. WorldOK(v, d)
    BY <2>2, <2>6, <2>7 DEF WorldOK
  <2>9. InOrder(q, r, d)
    <3> SUFFICES ASSUME NEW k \in DOMAIN Waiting(q, d),
                        r.status[Waiting(q, d)[k]] = "executing"
                 PROVE  FALSE
      BY DEF InOrder
    <3>1. Waiting(q, d)[k] \in Item /\ q.status[Waiting(q, d)[k]] = "pending"
      BY <1>3, ElementOfSeq, LenProperties, NoItemIsNoItem
    <3> QED BY <2>2, <2>6, <3>1
  <2>10. Moves(q, r, d)
    BY <2>2, <2>6, <2>9 DEF Moves
  <2> QED BY <2>2, <2>4, <2>6, <2>8, <2>10
<1>5. ASSUME NEW n \in 1 .. Len(pend), Executes(w, v, n)
      PROVE  /\ WorldOK(v, d) /\ ReplyOK(v.out, d, r) /\ v.out \in ReplyType
             /\ v.out.op \notin {"204", "InformResponse"}
             /\ v.db = w.db /\ v.fresh = w.fresh
             /\ v.transfers = w.transfers /\ v.applied = w.applied
             /\ Moves(q, r, d)
  <2> DEFINE S == Failing(w, n)
             u == Popped(w, S, n - 1)
             i == pend[n]
             x == Started(Taken(w, n), i)
  <2>1. S = {pend[k] : k \in 1 .. n - 1} /\ S \subseteq Unbuildable /\ n - 1 \in 0 .. Len(pend)
    BY <1>2, <1>5 DEF Executes, Failing
  <2>2. /\ WorldOK(u, d) /\ u.s = [w.s EXCEPT !.pend = Rest(pend, n - 1)]
        /\ u.db = w.db /\ u.fresh = w.fresh
        /\ u.transfers = w.transfers /\ u.applied = w.applied
        /\ u.queue.status = [j \in Item |-> IF j \in S THEN "failed" ELSE q.status[j]]
        /\ Waiting(q, d) = SubSeq(pend, 1, n - 1) \o Waiting(u.queue, d)
        /\ Others(q, u.queue, d) /\ Lasting(q, u.queue)
        /\ u.queue = FailAll(w, S).queue
    <3> HIDE DEF S
    <3> DEFINE m == n - 1
    <3>1. m \in 0 .. Len(pend) /\ S = {pend[k] : k \in 1 .. m}
      BY <2>1
    <3> HIDE DEF m
    <3>2. Pops(w, Popped(w, S, m), d, S, m)
      BY <2>1, <3>1, PopOK
    <3> QED BY <3>2 DEF Pops, m
  <2>3. /\ Rest(pend, n - 1) # <<>> /\ Rest(pend, n - 1)[1] = i
        /\ Rest(Rest(pend, n - 1), 1) = Rest(pend, n)
        /\ SubSeq(pend, 1, n - 1) \in Seq(Item) /\ Len(SubSeq(pend, 1, n - 1)) = n - 1
    <3>1. pend \in Seq(Item) /\ n \in 1 .. Len(pend)
      BY <1>1
    <3> HIDE DEF pend
    <3> QED BY <3>1, RestRest
  <2>4. FailAll(w, S) \in WorldType /\ FailAll(w, S).s = w.s
    BY <1>1, <2>1, TaskAssumption, FailAllFields
  <2>5. u.s.pend = Rest(pend, n - 1) /\ u.s.pend # <<>> /\ i = u.s.pend[1]
    <3>1. u.s.pend = Rest(pend, n - 1)
      BY <1>1, <2>2 DEF SessionType
    <3> QED BY <2>3, <3>1
  <2>6. Taken(w, n) = Beheaded(u)
    <3>1. Rest(u.s.pend, 1) = Rest(pend, n)
      BY <2>3, <2>5
    <3> HIDE DEF pend, S
    <3>2. [u EXCEPT !.s.pend = Rest(u.s.pend, 1)] = [FailAll(w, S) EXCEPT !.s.pend = Rest(pend, n)]
      BY <1>1, <2>4, <3>1 DEF Popped, WorldType, SessionType
    <3> QED BY <3>2 DEF Taken, Beheaded, S, pend
  <2> HIDE DEF u, x, i, S
  <2>7. /\ WorldOK(x, d) /\ x.s = Beheaded(u).s
        /\ x.db = u.db /\ x.fresh = u.fresh
        /\ x.transfers = u.transfers /\ x.applied = u.applied
        /\ i \in Mine(d)
        /\ i \in Task => x.queue.status[i] = "executing"
        /\ \A t \in Diagnostics : i = Collect(t) => Settled(x.queue, t)
        /\ \A y \in Item : y # i => x.queue.status[y] = u.queue.status[y]
        /\ x.queue.status[i] \in {"executing", u.queue.status[i]}
        /\ Moves(u.queue, x.queue, d)
    <3>1. x = Started(Beheaded(u), i)
      BY <2>6 DEF x
    <3>2. WorldOK(u, d) /\ u.s.pend # <<>> /\ i = u.s.pend[1]
      BY <2>2, <2>5
    <3> QED BY ONLY <3>1, <3>2, StartOK, d \in Device
  <2>8. v = ExecuteTask(x, i)
    BY <1>5 DEF Executes, x, i
  <2>9. /\ WorldOK(v, d) /\ ReplyOK(v.out, d, x.queue) /\ v.out \in ReplyType
        /\ v.out.op \notin {"204", "InformResponse"} /\ v.queue = x.queue
    BY <2>7, <2>8, ExecuteOK
  <2>10. v.db = x.db /\ v.fresh = x.fresh /\ v.transfers = x.transfers /\ v.applied = x.applied
    <3>1. x \in WorldType /\ i \in Item
      BY <2>7, OwnItems DEF WorldOK
    <3>2. /\ ExecuteTask(x, i).db = x.db /\ ExecuteTask(x, i).fresh = x.fresh
          /\ ExecuteTask(x, i).transfers = x.transfers /\ ExecuteTask(x, i).applied = x.applied
      BY ONLY <3>1, ExecuteTaskFields
    <3> QED BY ONLY <2>8, <3>2
  <2>11. Others(q, r, d) /\ Lasting(q, r)
    BY <2>2, <2>7, <2>9, OthersTwice DEF Moves
  <2>12. InOrder(q, r, d)
    <3> DEFINE W == Waiting(q, d)
               H == SubSeq(pend, 1, n - 1)
               X == Waiting(u.queue, d)
    <3> SUFFICES ASSUME NEW j \in DOMAIN W, NEW k \in DOMAIN W, j < k,
                        r.status[W[k]] = "executing"
                 PROVE  r.status[W[j]] # "pending"
      BY DEF InOrder
    <3>1. W = H \o X /\ H \in Seq(Item) /\ X \in Seq(Item) /\ Len(H) = n - 1
          /\ Range(H) = S
      <4>1. X \in Seq(Item)
        <5>1. X \in Seq(Task)
          BY <2>2, WaitingFacts DEF WorldOK, FifosOK, WorldType
        <5> QED BY <5>1, SeqMonotonic, NoItemIsNoItem
      <4>2. Range(H) = S
        <5> DEFINE m == n - 1
        <5>1. pend \in Seq(Item) /\ m \in 0 .. Len(pend) /\ S = {pend[at] : at \in 1 .. m}
          BY <1>1, <1>2 DEF S, Failing
        <5> HIDE DEF pend, m
        <5>2. Range(SubSeq(pend, 1, m)) = {pend[at] : at \in 1 .. m}
          BY <5>1, RestFacts
        <5> QED BY <5>1, <5>2 DEF H, m
      <4> QED BY <2>2, <2>3, <4>1, <4>2
    <3> HIDE DEF W, H, X
    <3>2. /\ DOMAIN W = 1 .. Len(H) + Len(X) /\ Len(H) \in Nat /\ Len(X) \in Nat
          /\ DOMAIN H = 1 .. Len(H) /\ DOMAIN X = 1 .. Len(X)
          /\ \A m \in 1 .. Len(H) + Len(X) : W[m] = IF m <= Len(H) THEN H[m] ELSE X[m - Len(H)]
      <4>1. H \in Seq(Item) /\ X \in Seq(Item)
        BY <3>1
      <4>2. /\ H \o X \in Seq(Item) /\ Len(H \o X) = Len(H) + Len(X)
            /\ \A m \in 1 .. Len(H) + Len(X) :
                 (H \o X)[m] = IF m <= Len(H) THEN H[m] ELSE X[m - Len(H)]
        BY <4>1, ConcatProperties
      <4>3. /\ DOMAIN H = 1 .. Len(H) /\ DOMAIN X = 1 .. Len(X) /\ Len(H) \in Nat /\ Len(X) \in Nat
            /\ DOMAIN (H \o X) = 1 .. Len(H \o X)
        BY <4>1, <4>2, LenProperties
      <4> QED BY <3>1, <4>2, <4>3
    <3>3. CASE j <= Len(H)
      <4>1. W[j] \in S /\ W[j] \in Item
        <5>1. j \in 1 .. Len(H) /\ W[j] = H[j]
          BY <3>2, <3>3
        <5> QED BY <3>1, <3>2, <5>1, ElementOfSeq DEF Range
      <4>2. u.queue.status[W[j]] = "failed"
        BY <2>2, <4>1
      <4> QED BY <2>7, <2>9, <4>1, <4>2
    <3>4. CASE ~(j <= Len(H))
      <4> DEFINE a == j - Len(H)
                 b == k - Len(H)
      <4>1. a \in DOMAIN X /\ b \in DOMAIN X /\ a < b /\ W[j] = X[a] /\ W[k] = X[b]
        BY <3>2, <3>4
      <4> HIDE DEF a, b
      <4> QED BY <2>7, <2>9, <4>1 DEF Moves, InOrder, X
    <3> QED BY <3>3, <3>4
  <2>13. Moves(q, r, d)
    BY <2>11, <2>12 DEF Moves
  <2> QED BY <2>2, <2>7, <2>9, <2>10, <2>13
<1> QED BY <1>1, <1>4, <1>5, DispatchCases

-----------------------------------------------------------------------------
(* The handlers of the CPE's answers.                                      *)

\* t is s with some of what it was working on given up.
Trims(s, t) ==
    /\ t.dev = s.dev /\ t.pend = s.pend
    /\ t.mark => s.mark
    /\ t.cur \in {s.cur, NoItem} /\ t.follow \in {s.follow, NoItem}
    /\ t.creds \in {s.creds, NoItem} /\ t.wp \in {s.wp, NoItem}
    /\ t.wp # NoItem => t.step >= 1

LEMMA TrimOK ==
    ASSUME NEW d \in Device, NEW w, WorldOK(w, d),
           NEW v \in WorldType, v.queue = w.queue, v.transfers = w.transfers, Trims(w.s, v.s)
    PROVE  WorldOK(v, d)
<1>1. SessionOK(w.s, d, w.queue)
  BY DEF WorldOK
<1>2. CurrentOK(v.s, w.queue)
  BY <1>1, NoItemIsNoItem DEF Trims, SessionOK, CurrentOK
<1>3. CollectsOK(v.s, w.queue)
  <2>1. \A t \in Diagnostics : Collect(t) # NoItem
    BY CollectItems, NoItemIsNoItem
  <2> QED BY <1>1, <2>1 DEF Trims, SessionOK, CollectsOK
<1>4. AheadOK(v.s, d, w.queue)
  BY <1>1 DEF Trims, SessionOK, AheadOK
<1>5. SessionOK(v.s, d, w.queue)
  BY <1>1, <1>2, <1>3, <1>4 DEF Trims, SessionOK
<1> QED BY <1>5 DEF WorldOK

\* What holds of the world a handler leaves.
Serves(w, v, d) ==
    /\ WorldOK(v, d)
    /\ ReplyOK(v.out, d, v.queue) /\ v.out \in ReplyType
    /\ v.out # Close => v.out.op \notin {"204", "InformResponse"}
    /\ Moves(w.queue, v.queue, d)

LEMMA DispatchServes ==
    ASSUME NEW d \in Device, NEW w, WorldOK(w, d), NEW x, WorldOK(x, d),
           x.queue = w.queue \/ Settles(w.queue, x.queue, d)
    PROVE  Serves(w, DispatchNextOrClose(x), d)
<1> DEFINE v == DispatchNextOrClose(x)
<1>1. /\ WorldOK(v, d) /\ ReplyOK(v.out, d, v.queue) /\ v.out \in ReplyType
      /\ v.out # Close => v.out.op \notin {"204", "InformResponse"}
      /\ Moves(x.queue, v.queue, d)
  BY DispatchOK
<1> HIDE DEF v
<1>2. Moves(w.queue, v.queue, d)
  BY <1>1, SettlesThenMoves
<1> QED BY <1>1, <1>2 DEF Serves, v

\* A reply of the handler's own, to a session that has only lost something.
LEMMA ReplyServes ==
    ASSUME NEW d \in Device, NEW w, WorldOK(w, d), NEW v, WorldOK(v, d),
           v.queue = w.queue, v.out \in ReplyType, ReplyOK(v.out, d, w.queue),
           v.out # Close => v.out.op \notin {"204", "InformResponse"}
    PROVE  Serves(w, v, d)
BY NothingMoves DEF Serves, WorldOK, FifosOK, WorldType

\* handleTaskResponse releases the session's task and gives it its status.
LEMMA TaskResponseIs ==
    ASSUME NEW w \in WorldType, NEW st
    PROVE  \E y \in WorldType :
             /\ y.s = Released(w.s) /\ y.queue = w.queue /\ y.db = w.db
             /\ y.transfers = w.transfers /\ y.applied = w.applied /\ y.fresh \subseteq w.fresh
             /\ TaskResponse(w, st)
                  = DispatchNextOrClose(IF w.s.cur = NoItem THEN y
                                        ELSE UpdateStatus(y, w.s.cur, st))
<1> DEFINE i == w.s.cur
           cleared == [w EXCEPT !.s = Released(@)]
           summonAgain == IF KindOf(i) \in {"wan", "wanset", "wifi", "lan"} /\ st = "done"
                          THEN [cleared EXCEPT !.fresh = @ \ {w.s.dev}] ELSE cleared
<1>1. Released(w.s) \in SessionType
  BY ReleasedFields DEF WorldType
<1>2. /\ cleared \in WorldType /\ cleared.s = Released(w.s) /\ cleared.queue = w.queue
      /\ cleared.db = w.db /\ cleared.transfers = w.transfers
      /\ cleared.applied = w.applied /\ cleared.fresh = w.fresh
  BY <1>1 DEF WorldType
<1> HIDE DEF cleared
<1>3. /\ summonAgain \in WorldType /\ summonAgain.s = Released(w.s)
      /\ summonAgain.queue = w.queue /\ summonAgain.db = w.db
      /\ summonAgain.transfers = w.transfers /\ summonAgain.applied = w.applied
      /\ summonAgain.fresh \subseteq w.fresh
  BY <1>2 DEF WorldType
<1>4. TaskResponse(w, st) = DispatchNextOrClose(IF i = NoItem THEN cleared
                                                ELSE UpdateStatus(summonAgain, i, st))
  BY DEF TaskResponse, cleared
<1> HIDE DEF summonAgain
<1>5. CASE i = NoItem
  BY <1>2, <1>4, <1>5
<1>6. CASE i # NoItem
  BY <1>3, <1>4, <1>6
<1> QED BY <1>5, <1>6

LEMMA TaskResponseOK ==
    ASSUME NEW d \in Device, NEW w, WorldOK(w, d), NEW st \in Terminal
    PROVE  Serves(w, TaskResponse(w, st), d)
<1>1. w \in WorldType /\ SessionOK(w.s, d, w.queue) /\ w.s \in SessionType
  BY DEF WorldOK, WorldType
<1>2. PICK y \in WorldType :
        /\ y.s = Released(w.s) /\ y.queue = w.queue /\ y.db = w.db
        /\ y.transfers = w.transfers /\ y.applied = w.applied /\ y.fresh \subseteq w.fresh
        /\ TaskResponse(w, st)
             = DispatchNextOrClose(IF w.s.cur = NoItem THEN y ELSE UpdateStatus(y, w.s.cur, st))
  BY <1>1, TaskResponseIs
<1>3. y.s.cur = NoItem /\ Trims(w.s, y.s)
  BY <1>1, <1>2, ReleasedFields DEF Trims, SessionOK
<1>4. WorldOK(y, d)
  BY <1>2, <1>3, TrimOK
<1>5. CASE w.s.cur = NoItem
  BY <1>2, <1>4, <1>5, DispatchServes
<1>6. CASE w.s.cur # NoItem
  <2>1. w.s.cur \in Mine(d) /\ (w.s.cur \in Task => Settled(y.queue, w.s.cur))
    BY <1>1, <1>2, <1>6 DEF SessionOK, CurrentOK
  <2>2. /\ WorldOK(UpdateStatus(y, w.s.cur, st), d)
        /\ Settles(y.queue, UpdateStatus(y, w.s.cur, st).queue, d)
    BY <1>3, <1>4, <1>6, <2>1, SettleOK
  <2> QED BY <1>2, <1>6, <2>2, DispatchServes
<1> QED BY <1>5, <1>6

\* StoreCredentials touches PostgreSQL and the session only.
LEMMA StoreCredentialsFields ==
    ASSUME NEW w \in WorldType
    PROVE  /\ StoreCredentials(w) \in WorldType
           /\ StoreCredentials(w).s = [w.s EXCEPT !.creds = NoItem]
           /\ StoreCredentials(w).queue = w.queue
           /\ StoreCredentials(w).fresh = w.fresh
           /\ StoreCredentials(w).transfers = w.transfers
           /\ StoreCredentials(w).applied = w.applied
           /\ StoreCredentials(w).out = w.out
           /\ StoreCredentials(w).db.provisioned = w.db.provisioned
           /\ StoreCredentials(w).db.creds = w.db.creds \cup ({w.s.creds} \ {NoItem})
<1>1. w.s \in SessionType /\ w.db \in DbType
  BY DEF WorldType
<1>2. [w.s EXCEPT !.creds = NoItem] \in SessionType /\ w.s.creds \in Task \cup {NoItem}
  BY <1>1 DEF SessionType
<1>3. /\ [w.db EXCEPT !.creds = @ \cup ({w.s.creds} \ {NoItem})] \in DbType
      /\ [w.db EXCEPT !.creds = @ \cup ({w.s.creds} \ {NoItem})].provisioned = w.db.provisioned
      /\ [w.db EXCEPT !.creds = @ \cup ({w.s.creds} \ {NoItem})].creds
            = w.db.creds \cup ({w.s.creds} \ {NoItem})
  BY <1>1, <1>2 DEF DbType
<1> DEFINE D == [w.db EXCEPT !.creds = @ \cup ({w.s.creds} \ {NoItem})]
           S == [w.s EXCEPT !.creds = NoItem]
<1>4. StoreCredentials(w) = [w EXCEPT !.db = D, !.s = S]
  BY <1>1 DEF StoreCredentials, WorldType, DbType, SessionType
<1>5. D \in DbType /\ S \in SessionType
  BY <1>2, <1>3
<1>6. /\ D.provisioned = w.db.provisioned /\ D.creds = w.db.creds \cup ({w.s.creds} \ {NoItem})
      /\ S = [w.s EXCEPT !.creds = NoItem]
  BY <1>3
<1> HIDE DEF D, S
<1>7. /\ StoreCredentials(w) \in WorldType
      /\ StoreCredentials(w).s = S /\ StoreCredentials(w).db = D
      /\ StoreCredentials(w).queue = w.queue
      /\ StoreCredentials(w).fresh = w.fresh
      /\ StoreCredentials(w).transfers = w.transfers
      /\ StoreCredentials(w).applied = w.applied
      /\ StoreCredentials(w).out = w.out
  BY <1>4, <1>5 DEF WorldType
<1> QED BY <1>6, <1>7

LEMMA StoreCredentialsOK ==
    ASSUME NEW d \in Device, NEW w, WorldOK(w, d)
    PROVE  /\ WorldOK(StoreCredentials(w), d) /\ StoreCredentials(w).queue = w.queue
           /\ StoreCredentials(w).s = [w.s EXCEPT !.creds = NoItem]
<1>1. w \in WorldType /\ w.s \in SessionType /\ SessionOK(w.s, d, w.queue)
  BY DEF WorldOK, WorldType
<1>2. Trims(w.s, StoreCredentials(w).s)
  BY <1>1, StoreCredentialsFields DEF Trims, SessionType, SessionOK
<1> QED BY <1>1, <1>2, StoreCredentialsFields, TrimOK

\* The step of a provisioning that was accepted is followed by the next one,
\* or by the end of the task.
LEMMA AdvanceCases ==
    ASSUME NEW w \in WorldType, w.s.wp # NoItem
    PROVE  \/ /\ w.s.step + 1 \in 1 .. Len(WanSteps)
              /\ \E v \in WorldType :
                   /\ Advance(w) = v
                   /\ v.s = [w.s EXCEPT !.step = w.s.step + 1]
                   /\ v.out = StepMsg(v.s)
                   /\ v.queue = w.queue /\ v.db = w.db /\ v.fresh = w.fresh
                   /\ v.transfers = w.transfers /\ v.applied = w.applied
           \/ /\ w.s.step = Len(WanSteps)
              /\ \E x \in WorldType :
                   /\ Advance(w) = TaskResponse(x, "done")
                   /\ x.s = ProvisionDropped(w.s)
                   /\ x.queue = w.queue /\ x.db = w.db /\ x.fresh = w.fresh
                   /\ x.transfers = w.transfers /\ x.applied = w.applied
<1> DEFINE n == w.s.step + 1
           s == [w.s EXCEPT !.step = n]
<1>1. w.s \in SessionType /\ w.s.step \in 0 .. Len(WanSteps) /\ Len(WanSteps) \in Nat
  BY FirstStep DEF WorldType, SessionType
<1>2. s.step = n /\ s.wp = w.s.wp
  BY <1>1 DEF SessionType
<1>3. CASE n <= Len(WanSteps)
  <2>1. n \in 1 .. Len(WanSteps) /\ n \in 0 .. Len(WanSteps) /\ n >= 1
    BY <1>1, <1>3
  <2>2. s \in SessionType
    BY <1>1, <2>1 DEF SessionType
  <2>3. StepMsg(s) \in ReplyType
    <3> HIDE DEF s, n
    <3> QED BY <1>2, <2>1, <2>2, StepMsgFields
  <2> DEFINE v == [w EXCEPT !.s = s, !.out = StepMsg(s)]
  <2>4. Advance(w) = v
    BY <1>2, <1>3 DEF Advance
  <2> HIDE DEF s, n
  <2>5. /\ v \in WorldType /\ v.s = s /\ v.out = StepMsg(s)
        /\ v.queue = w.queue /\ v.db = w.db /\ v.fresh = w.fresh
        /\ v.transfers = w.transfers /\ v.applied = w.applied
    BY <2>2, <2>3 DEF WorldType
  <2> QED BY <2>1, <2>4, <2>5 DEF s, n
<1>4. CASE ~(n <= Len(WanSteps))
  <2>1. w.s.step = Len(WanSteps)
    BY <1>1, <1>4
  <2> DEFINE x == [w EXCEPT !.s = ProvisionDropped(@)]
  <2>2. Advance(w) = TaskResponse(x, "done")
    BY <1>2, <1>4 DEF Advance
  <2>3. ProvisionDropped(w.s) \in SessionType
    BY <1>1, DroppedFields
  <2>4. /\ x \in WorldType /\ x.s = ProvisionDropped(w.s)
        /\ x.queue = w.queue /\ x.db = w.db /\ x.fresh = w.fresh
        /\ x.transfers = w.transfers /\ x.applied = w.applied
    BY <2>3 DEF WorldType
  <2> QED BY <2>1, <2>2, <2>4
<1> QED BY <1>3, <1>4

LEMMA DroppedTrims ==
    ASSUME NEW d \in Device, NEW w, WorldOK(w, d),
           NEW x \in WorldType, x.s = ProvisionDropped(w.s),
           x.queue = w.queue, x.transfers = w.transfers
    PROVE  WorldOK(x, d)
<1>1. w.s \in SessionType /\ SessionOK(w.s, d, w.queue)
  BY DEF WorldOK, WorldType
<1>2. Trims(w.s, x.s)
  BY <1>1, DroppedFields DEF Trims, SessionOK
<1> QED BY <1>2, TrimOK

LEMMA SameQueueServes ==
    ASSUME NEW d, NEW w, NEW x, NEW v, Serves(x, v, d), x.queue = w.queue
    PROVE  Serves(w, v, d)
BY DEF Serves

LEMMA AdvanceOK ==
    ASSUME NEW d \in Device, NEW w, WorldOK(w, d), w.s.wp # NoItem
    PROVE  Serves(w, Advance(w), d)
<1>1. w \in WorldType /\ w.s \in SessionType /\ SessionOK(w.s, d, w.queue)
  BY DEF WorldOK, WorldType
<1>2. ASSUME w.s.step + 1 \in 1 .. Len(WanSteps), NEW v \in WorldType,
             v.s = [w.s EXCEPT !.step = w.s.step + 1],
             v.out = StepMsg(v.s), v.queue = w.queue, v.transfers = w.transfers
      PROVE  Serves(w, v, d)
  <2> DEFINE n == w.s.step + 1
  <2>1. n >= 1 /\ v.s.step = n /\ v.s.wp = w.s.wp /\ v.s \in SessionType
    <3>1. n >= 1
      BY <1>2
    <3>2. v.s \in SessionType /\ v.s = [w.s EXCEPT !.step = n]
      BY <1>2 DEF WorldType
    <3> HIDE DEF n
    <3> QED BY <1>1, <3>1, <3>2 DEF SessionType
  <2>2. Trims(w.s, v.s)
    <3> HIDE DEF n
    <3>1. v.s = [w.s EXCEPT !.step = n]
      BY <1>2 DEF n
    <3> QED BY <1>1, <2>1, <3>1 DEF Trims, SessionOK, SessionType
  <2>3. WorldOK(v, d)
    BY <1>2, <2>2, TrimOK
  <2>4. /\ v.out.op \in StepKinds /\ v.out.item = w.s.wp /\ v.out \in ReplyType
    BY <1>2, <2>1, StepMsgFields
  <2>5. ReplyOK(v.out, d, w.queue) /\ v.out.op \notin {"204", "InformResponse"}
    BY <1>1, <2>4, NoItemIsNoItem DEF ReplyOK, SessionOK, StepKinds
  <2> QED BY <1>2, <2>3, <2>4, <2>5, ReplyServes
<1>3. ASSUME NEW x \in WorldType, x.s = ProvisionDropped(w.s),
             x.queue = w.queue, x.transfers = w.transfers
      PROVE  Serves(w, TaskResponse(x, "done"), d)
  <2>1. WorldOK(x, d) /\ "done" \in Terminal
    BY <1>3, DroppedTrims DEF Terminal
  <2> QED BY <1>3, <2>1, TaskResponseOK, SameQueueServes
<1> QED BY <1>1, <1>2, <1>3, AdvanceCases

LEMMA SetParamValuesOK ==
    ASSUME NEW d \in Device, NEW w, WorldOK(w, d)
    PROVE  Serves(w, SetParamValuesResponse(w), d)
<1>1. w \in WorldType /\ w.s \in SessionType /\ SessionOK(w.s, d, w.queue) /\ w.db \in DbType
  BY DEF WorldOK, WorldType
<1>2. CASE w.s.wp # NoItem
  <2> DEFINE x == IF LastStep(w.s) THEN StoreCredentials(w) ELSE w
  <2>1. WorldOK(x, d) /\ x.queue = w.queue /\ x.s.wp # NoItem
    <3>1. [w.s EXCEPT !.creds = NoItem].wp = w.s.wp
      BY <1>1 DEF SessionType
    <3>2. StoreCredentials(w).s.wp = w.s.wp
      BY <3>1, StoreCredentialsOK
    <3> QED BY <1>2, <3>2, StoreCredentialsOK
  <2>2. SetParamValuesResponse(w) = Advance(x)
    BY <1>2 DEF SetParamValuesResponse
  <2> HIDE DEF x
  <2> QED BY <2>1, <2>2, AdvanceOK, SameQueueServes
<1>3. CASE w.s.wp = NoItem /\ IsDiagnosticAsync(w.s.cur)
  <2> DEFINE x == [w EXCEPT !.s = Released(@)]
  <2>1. Released(w.s) \in SessionType
    BY <1>1, ReleasedFields
  <2>2. x \in WorldType /\ x.s = Released(w.s) /\ x.queue = w.queue /\ x.transfers = w.transfers
    BY <1>1, <2>1 DEF WorldType
  <2>3. SetParamValuesResponse(w) = DispatchNextOrClose(x)
    BY <1>3 DEF SetParamValuesResponse
  <2> HIDE DEF x
  <2>4. Trims(w.s, x.s)
    BY <1>1, <2>2, ReleasedFields DEF Trims, SessionOK
  <2> QED BY <2>2, <2>3, <2>4, TrimOK, DispatchServes
<1>4. CASE w.s.wp = NoItem /\ ~IsDiagnosticAsync(w.s.cur)
  <2> DEFINE x == [w EXCEPT !.s.mark = FALSE,
                     !.db.provisioned = @ \cup (IF w.s.mark THEN {w.s.dev} ELSE {})]
             S == [w.s EXCEPT !.mark = FALSE]
             D == [w.db EXCEPT !.provisioned = @ \cup (IF w.s.mark THEN {w.s.dev} ELSE {})]
  <2>1. S \in SessionType /\ Trims(w.s, S)
    BY <1>1, ZenonT(40) DEF SessionType, Trims, SessionOK
  <2>2. D \in DbType
    <3>1. w.s.mark => w.s.dev \in Device
      BY <1>1 DEF SessionOK
    <3> QED BY <1>1, <3>1 DEF DbType
  <2>3. x = [w EXCEPT !.s = S, !.db = D]
    BY <1>1 DEF WorldType, SessionType, DbType
  <2>4. SetParamValuesResponse(w) = TaskResponse(StoreCredentials(x), "done")
    BY <1>4 DEF SetParamValuesResponse
  <2> HIDE DEF S, D
  <2>5. x \in WorldType /\ x.s = S /\ x.queue = w.queue /\ x.transfers = w.transfers
    BY <1>1, <2>1, <2>2, <2>3 DEF WorldType
  <2> HIDE DEF x
  <2>6. WorldOK(x, d)
    BY <2>1, <2>5, TrimOK
  <2>7. WorldOK(StoreCredentials(x), d) /\ StoreCredentials(x).queue = w.queue /\ "done" \in Terminal
    BY <2>5, <2>6, StoreCredentialsOK DEF Terminal
  <2> QED BY <2>4, <2>7, TaskResponseOK, SameQueueServes
<1> QED BY <1>2, <1>3, <1>4

LEMMA AddObjectOK ==
    ASSUME NEW d \in Device, NEW w, WorldOK(w, d)
    PROVE  Serves(w, AddObjectResponse(w), d)
<1> DEFINE S == [w.s EXCEPT !.follow = NoItem]
           x == [w EXCEPT !.s.follow = NoItem]
           y == [x EXCEPT !.s = ProvisionDropped(@)]
           fn == w.s.follow
<1>1. /\ w \in WorldType /\ w.s \in SessionType /\ SessionOK(w.s, d, w.queue)
      /\ "done" \in Terminal /\ "failed" \in Terminal
  BY DEF WorldOK, WorldType, Terminal
<1>2. S \in SessionType /\ Trims(w.s, S) /\ S.wp = w.s.wp
  BY <1>1, ZenonT(40) DEF SessionType, Trims, SessionOK
<1>3. x = [w EXCEPT !.s = S]
  BY <1>1 DEF WorldType, SessionType
<1> HIDE DEF S
<1>4. x \in WorldType /\ x.s = S /\ x.queue = w.queue /\ x.transfers = w.transfers
  BY <1>1, <1>2, <1>3 DEF WorldType
<1>5. AddObjectResponse(w)
        = IF w.s.wp # NoItem
          THEN IF WanSteps[w.s.step] = "AddObject" THEN Advance(x) ELSE TaskResponse(y, "failed")
          ELSE IF fn = NoItem THEN TaskResponse(x, "done")
          ELSE [x EXCEPT !.out = Msg("SetParameterValues", fn, 2)]
  BY DEF AddObjectResponse
<1> HIDE DEF x
<1>6. WorldOK(x, d)
  BY <1>2, <1>4, TrimOK
<1>7. WorldOK(y, d) /\ y.queue = w.queue
  <2>1. ProvisionDropped(x.s) \in SessionType
    BY <1>2, <1>4, DroppedFields
  <2>2. y \in WorldType /\ y.s = ProvisionDropped(x.s) /\ y.queue = x.queue /\ y.transfers = x.transfers
    BY <1>4, <2>1 DEF WorldType
  <2> HIDE DEF y
  <2> QED BY <1>4, <1>6, <2>2, DroppedTrims
<1> HIDE DEF y
<1>8. Serves(w, TaskResponse(x, "done"), d) /\ Serves(w, TaskResponse(y, "failed"), d)
  BY <1>1, <1>4, <1>6, <1>7, TaskResponseOK, SameQueueServes
<1>9. w.s.wp # NoItem => Serves(w, Advance(x), d)
  BY <1>2, <1>4, <1>6, AdvanceOK, SameQueueServes
<1>10. ASSUME w.s.wp = NoItem, fn # NoItem
       PROVE  Serves(w, [x EXCEPT !.out = Msg("SetParameterValues", fn, 2)], d)
  <2> DEFINE m == Msg("SetParameterValues", fn, 2)
             v == [x EXCEPT !.out = m]
  <2>1. fn \in Task /\ fn \in Mine(d)
    BY <1>1, <1>10 DEF SessionType, SessionOK
  <2>2. m \in ReplyType /\ m.op = "SetParameterValues" /\ m.item = fn
    BY <2>1, NoItemIsNoItem DEF Msg, ReplyType, Ops, StepKinds
  <2> HIDE DEF m
  <2>3. ReplyOK(m, d, w.queue) /\ m.op \notin {"204", "InformResponse"}
    BY <2>1, <2>2, NoItemIsNoItem DEF ReplyOK
  <2>4. v \in WorldType /\ v.s = x.s /\ v.queue = w.queue /\ v.transfers = x.transfers /\ v.out = m
    BY <1>4, <2>2 DEF WorldType
  <2> HIDE DEF v
  <2>5. WorldOK(v, d)
    BY <1>4, <1>6, <2>4 DEF WorldOK
  <2>6. Serves(w, v, d)
    BY <2>2, <2>3, <2>4, <2>5, ReplyServes
  <2> QED BY <2>6 DEF v, m
<1> QED BY <1>5, <1>8, <1>9, <1>10

LEMMA DeleteObjectOK ==
    ASSUME NEW d \in Device, NEW w, WorldOK(w, d)
    PROVE  Serves(w, DeleteObjectResponse(w), d)
BY AdvanceOK, TaskResponseOK DEF DeleteObjectResponse, Terminal

LEMMA CloseIsReply ==
    ASSUME NEW d, NEW q
    PROVE  /\ Close \in ReplyType /\ ReplyOK(Close, d, q) /\ Close.op = "204"
           /\ Ack \in ReplyType /\ ReplyOK(Ack, d, q) /\ Ack.op = "InformResponse" /\ Ack # Close
BY DEF Close, Ack, Msg, ReplyType, ReplyOK, Ops

\* status 1: the task is due, and stays the session's.
LEMMA DownloadOK ==
    ASSUME NEW d \in Device, NEW w, WorldOK(w, d), NEW i \in Task, NEW status,
           Kind[i] = "firmware", Settled(w.queue, i)
    PROVE  Serves(w, DownloadResponse(w, i, status), d)
<1>1. w \in WorldType /\ w.s \in SessionType /\ SessionOK(w.s, d, w.queue)
  BY DEF WorldOK, WorldType
<1>2. CASE status = 0
  BY <1>2, TaskResponseOK DEF DownloadResponse, Terminal
<1>3. CASE status # 0
  <2> DEFINE x == [w EXCEPT !.transfers = @ \cup {i}]
             v == [x EXCEPT !.out = Close]
  <2>1. /\ x \in WorldType /\ x.s = w.s /\ x.queue = w.queue /\ x.transfers = w.transfers \cup {i}
    BY <1>1 DEF WorldType
  <2>2. DownloadResponse(w, i, status) = IF w.s.pend = <<>> THEN v ELSE DispatchNextOrClose(x)
    BY <1>3 DEF DownloadResponse
  <2> HIDE DEF x
  <2>3. WorldOK(x, d)
    BY <2>1 DEF WorldOK, DueOK
  <2>4. v \in WorldType /\ v.s = x.s /\ v.queue = w.queue /\ v.transfers = x.transfers /\ v.out = Close
    BY <2>1, CloseIsReply DEF WorldType
  <2> HIDE DEF v
  <2>5. WorldOK(v, d)
    BY <2>1, <2>3, <2>4 DEF WorldOK
  <2>6. Serves(w, v, d)
    BY <2>4, <2>5, CloseIsReply, ReplyServes
  <2>7. Serves(w, DispatchNextOrClose(x), d)
    BY <2>1, <2>3, DispatchServes
  <2> QED BY <2>2, <2>6, <2>7
<1> QED BY <1>2, <1>3

\* A summon's RPC.
LEMMA SummonIsReply ==
    ASSUME NEW d, NEW q, NEW op \in {"GetParameterNames", "GetParameterValues"}
    PROVE  /\ Msg(op, Summon, 0) \in ReplyType /\ ReplyOK(Msg(op, Summon, 0), d, q)
           /\ Msg(op, Summon, 0).op = op /\ Msg(op, Summon, 0) # Close
           /\ Msg(op, Summon, 0).item = Summon
BY NoItemIsNoItem DEF Msg, ReplyType, ReplyOK, Ops, Close

\* The summon's phase, mode and batch are no concern of these invariants.
SummonEdit(s, t) == \E p \in 0 .. 4, m \in {"", "ui_refresh", "task_discovery"}, b \in 0 .. Batches :
                       t = [s EXCEPT !.phase = p, !.mode = m, !.batch = b]

LEMMA SummonTrims ==
    ASSUME NEW d \in Device, NEW q, NEW s \in SessionType, SessionOK(s, d, q), NEW t, SummonEdit(s, t)
    PROVE  t \in SessionType /\ Trims(s, t)
<1>1. PICK p \in 0 .. 4, m \in {"", "ui_refresh", "task_discovery"}, b \in 0 .. Batches :
         t = [s EXCEPT !.phase = p, !.mode = m, !.batch = b]
  BY DEF SummonEdit
<1>2. /\ t \in SessionType /\ t.dev = s.dev /\ t.mark = s.mark /\ t.cur = s.cur /\ t.wp = s.wp
      /\ t.step = s.step /\ t.follow = s.follow /\ t.creds = s.creds /\ t.pend = s.pend
  BY ONLY s \in SessionType, <1>1 DEF SessionType
<1> QED BY <1>2 DEF Trims, SessionOK

LEMMA SummonEdits ==
    ASSUME NEW s \in SessionType
    PROVE  /\ SummonEdit(s, [s EXCEPT !.phase = 0])
           /\ SummonEdit(s, [s EXCEPT !.phase = 4])
           /\ SummonEdit(s, [s EXCEPT !.phase = 2, !.batch = 0])
           /\ SummonEdit(s, SummonOver(s))
           /\ SummonEdit(s, [SummonOver(s) EXCEPT !.mode = s.mode])
           /\ s.batch + 1 < Batches => SummonEdit(s, [s EXCEPT !.batch = s.batch + 1])
           /\ SummonEdit(s, [s EXCEPT !.phase = 1])
<1> DEFINE E(p, m, b) == [s EXCEPT !.phase = p, !.mode = m, !.batch = b]
           Modes == {"", "ui_refresh", "task_discovery"}
<1>1. s.phase \in 0 .. 4 /\ s.mode \in Modes /\ s.batch \in 0 .. Batches
  BY DEF SessionType
<1>2. Batches \in Nat
  BY FlowAssumption
<1>3. 0 \in 0 .. 4 /\ 1 \in 0 .. 4 /\ 2 \in 0 .. 4 /\ 4 \in 0 .. 4 /\ 0 \in 0 .. Batches /\ "" \in Modes
  BY <1>2
<1>4. s.batch + 1 < Batches => s.batch + 1 \in 0 .. Batches
  <2>1. ASSUME NEW b \in 0 .. Batches, b + 1 < Batches PROVE b + 1 \in 0 .. Batches
    BY <1>2, <2>1
  <2> QED BY <1>1, <2>1, Zenon
<1>5. /\ [s EXCEPT !.phase = 0] = E(0, s.mode, s.batch)
      /\ [s EXCEPT !.phase = 1] = E(1, s.mode, s.batch)
      /\ [s EXCEPT !.phase = 4] = E(4, s.mode, s.batch)
      /\ [s EXCEPT !.phase = 2, !.batch = 0] = E(2, s.mode, 0)
      /\ SummonOver(s) = E(0, "", 0)
      /\ [SummonOver(s) EXCEPT !.mode = s.mode] = E(0, s.mode, 0)
      /\ [s EXCEPT !.batch = s.batch + 1] = E(s.phase, s.mode, s.batch + 1)
  BY DEF SummonOver, SessionType
<1>6. \A p \in 0 .. 4, m \in Modes, b \in 0 .. Batches : SummonEdit(s, E(p, m, b))
  BY Zenon DEF SummonEdit
<1> HIDE DEF E, Modes
<1>7. /\ SummonEdit(s, E(0, s.mode, s.batch)) /\ SummonEdit(s, E(1, s.mode, s.batch))
      /\ SummonEdit(s, E(4, s.mode, s.batch)) /\ SummonEdit(s, E(2, s.mode, 0))
      /\ SummonEdit(s, E(0, "", 0)) /\ SummonEdit(s, E(0, s.mode, 0))
      /\ s.batch + 1 < Batches => SummonEdit(s, E(s.phase, s.mode, s.batch + 1))
  BY <1>1, <1>3, <1>4, <1>6
<1> QED BY <1>5, <1>7

LEMMA GetParamNamesOK ==
    ASSUME NEW d \in Device, NEW w, WorldOK(w, d)
    PROVE  Serves(w, GetParameterNamesResponse(w), d)
<1>1. w \in WorldType /\ w.s \in SessionType /\ SessionOK(w.s, d, w.queue)
  BY DEF WorldOK, WorldType
<1>2. CASE Batches = 0
  <2> DEFINE S == [w.s EXCEPT !.phase = 0]
             x == [w EXCEPT !.s = S]
  <2>1. S \in SessionType /\ Trims(w.s, S)
    BY <1>1, SummonEdits, SummonTrims
  <2>2. GetParameterNamesResponse(w) = DispatchNextOrClose(x)
    BY <1>1, <1>2 DEF GetParameterNamesResponse
  <2> HIDE DEF S
  <2>3. x \in WorldType /\ x.s = S /\ x.queue = w.queue /\ x.transfers = w.transfers
    BY <1>1, <2>1 DEF WorldType
  <2> HIDE DEF x
  <2> QED BY <2>1, <2>2, <2>3, TrimOK, DispatchServes
<1>3. CASE Batches # 0
  <2> DEFINE S == [w.s EXCEPT !.phase = 2, !.batch = 0]
             m == Msg("GetParameterValues", Summon, 0)
             v == [w EXCEPT !.s = S, !.out = m]
  <2>1. S \in SessionType /\ Trims(w.s, S)
    BY <1>1, SummonEdits, SummonTrims
  <2>2. GetParameterNamesResponse(w) = v
    BY <1>1, <1>3 DEF GetParameterNamesResponse, WorldType, SessionType
  <2>3. m \in ReplyType /\ ReplyOK(m, d, w.queue) /\ m.op = "GetParameterValues"
    BY SummonIsReply
  <2> HIDE DEF S, m
  <2>4. v \in WorldType /\ v.s = S /\ v.queue = w.queue /\ v.transfers = w.transfers /\ v.out = m
    BY <1>1, <2>1, <2>3 DEF WorldType
  <2> HIDE DEF v
  <2>5. WorldOK(v, d)
    BY <2>1, <2>4, TrimOK
  <2> QED BY <2>2, <2>3, <2>4, <2>5, ReplyServes
<1> QED BY <1>2, <1>3

\* Default parameters come before the session's tasks and are not in Redis.
LEMMA Prepended ==
    ASSUME NEW d \in Device, NEW pend \in Seq(Mine(d)), NEW i \in {Defaults(d), DriverSet(d)},
           NEW p, p = <<i>> \o pend
    PROVE  /\ p \in Seq(Item) /\ p \in Seq(Mine(d)) /\ p # <<>>
           /\ Keep(p, Task) = Keep(pend, Task)
           /\ Range(p) = {i} \cup Range(pend)
<1> DEFINE I == <<i>>
<1>1. i \in Mine(d) /\ i \notin Task /\ Mine(d) \subseteq Item
  BY OwnItems
<1>2. I \in Seq(Mine(d)) /\ Range(I) = {i} /\ Keep(I, Task) = <<>> /\ Len(I) = 1
  BY <1>1, SingletonList
<1>3. p = I \o pend
  OBVIOUS
<1> HIDE DEF I
<1>4. /\ p \in Seq(Mine(d)) /\ Keep(p, Task) = Keep(I, Task) \o Keep(pend, Task)
      /\ Range(p) = Range(I) \cup Range(pend)
      /\ Keep(pend, Task) \in Seq(Mine(d))
  <2>1. I \o pend \in Seq(Mine(d))
    BY <1>2, ConcatProperties
  <2>2. Keep(I \o pend, Task) = Keep(I, Task) \o Keep(pend, Task)
    <3> DEFINE M == Mine(d)
    <3>1. I \in Seq(M) /\ pend \in Seq(M)
      BY <1>2
    <3> HIDE DEF M
    <3> QED BY <3>1, KeepConcat
  <2>3. Range(I \o pend) = Range(I) \cup Range(pend)
    BY <1>2, RangeConcatenation
  <2>4. Keep(pend, Task) \in Seq(Mine(d))
    BY KeepIsList
  <2> QED BY <1>3, <2>1, <2>2, <2>3, <2>4
<1>5. <<>> \o Keep(pend, Task) = Keep(pend, Task)
  <2> DEFINE K == Keep(pend, Task)
  <2>1. K \in Seq(Mine(d))
    BY <1>4
  <2> HIDE DEF K
  <2>2. <<>> \o K = K
    BY <2>1, ConcatEmptySeq
  <2> QED BY <2>2 DEF K
<1>6. p \in Seq(Item)
  BY <1>1, <1>4, SeqMonotonic
<1>7. p # <<>>
  <2>1. i \in Range(p)
    BY <1>2, <1>4
  <2> QED BY <2>1, RangeEmpty
<1> QED BY <1>2, <1>4, <1>5, <1>6, <1>7

Injects(w, v, d) ==
    /\ WorldOK(v, d)
    /\ v.queue = w.queue /\ v.transfers = w.transfers /\ v.fresh = w.fresh /\ v.out = w.out
    /\ v.s.dev = w.s.dev

LEMMA PrependOK ==
    ASSUME NEW d \in Device, NEW w, WorldOK(w, d), w.s.dev = d,
           NEW v \in WorldType, v.queue = w.queue, v.transfers = w.transfers,
           NEW i \in {Defaults(d), DriverSet(d)},
           v.s.pend = <<i>> \o w.s.pend, v.s.dev = d,
           v.s.cur = w.s.cur, v.s.wp = w.s.wp, v.s.step = w.s.step,
           v.s.follow = w.s.follow, v.s.creds = w.s.creds
    PROVE  WorldOK(v, d)
<1>1. SessionOK(w.s, d, w.queue) /\ w.s.pend \in Seq(Mine(d))
  BY DEF WorldOK, SessionOK
<1>2. /\ v.s.pend \in Seq(Mine(d)) /\ Keep(v.s.pend, Task) = Keep(w.s.pend, Task)
      /\ Range(v.s.pend) = {i} \cup Range(w.s.pend)
  <2> DEFINE p == v.s.pend
             r == w.s.pend
  <2>1. r \in Seq(Mine(d)) /\ p = <<i>> \o r
    BY <1>1
  <2> HIDE DEF p, r
  <2>2. p \in Seq(Mine(d)) /\ Keep(p, Task) = Keep(r, Task) /\ Range(p) = {i} \cup Range(r)
    <3>1. d \in Device /\ r \in Seq(Mine(d)) /\ i \in {Defaults(d), DriverSet(d)}
          /\ p = <<i>> \o r
      BY <2>1
    <3> QED BY ONLY <3>1, Prepended, ZenonT(40)
  <2> QED BY <2>2 DEF p, r
<1>3. \A t \in Diagnostics : Collect(t) # i
  BY CollectItems
<1>4. CurrentOK(v.s, w.queue) /\ CollectsOK(v.s, w.queue) /\ AheadOK(v.s, d, w.queue)
  BY <1>1, <1>2, <1>3 DEF SessionOK, CurrentOK, CollectsOK, AheadOK
<1>5. SessionOK(v.s, d, w.queue)
  BY <1>1, <1>2, <1>4 DEF SessionOK
<1> QED BY <1>5 DEF WorldOK

LEMMA InjectDriverOK ==
    ASSUME NEW d \in Device, NEW w, WorldOK(w, d), NEW differs
    PROVE  Injects(w, InjectDriverDefaults(w, w.s.dev, differs), d)
<1>1. w \in WorldType /\ w.s \in SessionType /\ SessionOK(w.s, d, w.queue) /\ w.s.dev \in {d, NoItem}
  BY DEF WorldOK, WorldType, SessionOK
<1>2. CASE DriverDefaults /\ w.s.dev # NoItem /\ differs
  <2> DEFINE p == <<DriverSet(d)>> \o w.s.pend
             S == [w.s EXCEPT !.pend = p]
             v == [w EXCEPT !.s = S]
  <2>1. p \in Seq(Item)
    BY <1>1, Prepended DEF SessionOK
  <2>2. w.s.dev = d
    BY <1>1, <1>2
  <2>3. InjectDriverDefaults(w, w.s.dev, differs) = v
    BY <1>1, <1>2, <2>2 DEF InjectDriverDefaults, WorldType, SessionType
  <2> HIDE DEF p
  <2>4. /\ S \in SessionType /\ S.pend = p /\ S.dev = d /\ S.cur = w.s.cur /\ S.wp = w.s.wp
        /\ S.step = w.s.step /\ S.follow = w.s.follow /\ S.creds = w.s.creds
    BY <1>1, <2>1, <2>2 DEF SessionType
  <2> HIDE DEF S
  <2>5. /\ v \in WorldType /\ v.s = S /\ v.queue = w.queue /\ v.transfers = w.transfers
        /\ v.fresh = w.fresh /\ v.out = w.out
    BY <1>1, <2>4 DEF WorldType
  <2> HIDE DEF v
  <2>6. WorldOK(v, d)
    <3>1. v.s.pend = <<DriverSet(d)>> \o w.s.pend
      BY <2>4, <2>5 DEF p
    <3> QED BY <2>2, <2>4, <2>5, <3>1, PrependOK
  <2> QED BY <2>2, <2>3, <2>4, <2>5, <2>6 DEF Injects
<1>3. CASE ~(DriverDefaults /\ w.s.dev # NoItem /\ differs)
  <2>1. InjectDriverDefaults(w, w.s.dev, differs) = w
    BY <1>3 DEF InjectDriverDefaults
  <2> QED BY <2>1 DEF Injects
<1> QED BY <1>2, <1>3

LEMMA InjectGlobalOK ==
    ASSUME NEW d \in Device, NEW w, WorldOK(w, d), NEW differs
    PROVE  Injects(w, InjectGlobalDefaults(w, w.s.dev, differs), d)
<1> DEFINE x == InjectGlobalDefaults(w, w.s.dev, differs)
           Skip == \/ ~GlobalDefaults \/ w.s.dev = NoItem
                   \/ ~w.s.boot /\ ~w.s.needs /\ w.s.dev \in w.db.provisioned
<1>1. /\ w \in WorldType /\ w.s \in SessionType /\ SessionOK(w.s, d, w.queue)
      /\ w.s.dev \in {d, NoItem} /\ w.db \in DbType
  BY DEF WorldOK, WorldType, SessionOK
<1>2. x = IF Skip THEN w ELSE IF differs THEN QueueGlobalDefaults(w, w.s.dev)
          ELSE [w EXCEPT !.s.needs = FALSE, !.db.provisioned = @ \cup {w.s.dev},
                         !.applied = @ \cup {<<Defaults(w.s.dev), 1>>}]
  BY DEF InjectGlobalDefaults
<1> HIDE DEF x
<1>3. CASE Skip
  BY <1>2, <1>3 DEF Injects, x
<1>4. CASE ~Skip /\ differs
  <2> DEFINE p == <<Defaults(d)>> \o w.s.pend
             S == [w.s EXCEPT !.pend = p, !.mark = TRUE, !.needs = FALSE]
             v == [w EXCEPT !.s = S]
  <2>1. p \in Seq(Item)
    BY <1>1, Prepended DEF SessionOK
  <2>2. w.s.dev = d
    BY <1>1, <1>4
  <2>3. x = v
    BY <1>1, <1>2, <1>4, <2>2 DEF QueueGlobalDefaults, WorldType, SessionType
  <2> HIDE DEF p
  <2>4. /\ S \in SessionType /\ S.pend = p /\ S.dev = d /\ S.cur = w.s.cur /\ S.wp = w.s.wp
        /\ S.step = w.s.step /\ S.follow = w.s.follow /\ S.creds = w.s.creds
    BY <1>1, <2>1, <2>2 DEF SessionType
  <2> HIDE DEF S
  <2>5. /\ v \in WorldType /\ v.s = S /\ v.queue = w.queue /\ v.transfers = w.transfers
        /\ v.fresh = w.fresh /\ v.out = w.out
    BY <1>1, <2>4 DEF WorldType
  <2> HIDE DEF v
  <2>6. WorldOK(v, d)
    <3>1. v.s.pend = <<Defaults(d)>> \o w.s.pend
      BY <2>4, <2>5 DEF p
    <3> QED BY <2>2, <2>4, <2>5, <3>1, PrependOK
  <2>7. Injects(w, v, d)
    BY <2>2, <2>4, <2>5, <2>6 DEF Injects
  <2> QED BY <2>3, <2>7 DEF x
<1>5. CASE ~Skip /\ ~differs
  <2> DEFINE S == [w.s EXCEPT !.needs = FALSE]
             D == [w.db EXCEPT !.provisioned = @ \cup {d}]
             A == w.applied \cup {<<Defaults(d), 1>>}
             v == [w EXCEPT !.s = S, !.db = D, !.applied = A]
  <2>1. w.s.dev = d
    BY <1>1, <1>5
  <2>2. x = v
    BY <1>1, <1>2, <1>5, <2>1 DEF WorldType, SessionType, DbType
  <2>3. S \in SessionType /\ Trims(w.s, S) /\ S.dev = w.s.dev
    BY <1>1, ZenonT(40) DEF SessionType, Trims, SessionOK
  <2>4. D \in DbType
    BY <1>1 DEF DbType
  <2>5. A \in SUBSET (Item \X Nat)
    BY <1>1, OwnItems DEF WorldType
  <2> HIDE DEF S, D, A
  <2>6. /\ v \in WorldType /\ v.s = S /\ v.queue = w.queue /\ v.transfers = w.transfers
        /\ v.fresh = w.fresh /\ v.out = w.out
    BY <1>1, <2>3, <2>4, <2>5 DEF WorldType
  <2> HIDE DEF v
  <2>7. Injects(w, v, d)
    BY <2>3, <2>6, TrimOK DEF Injects
  <2> QED BY <2>2, <2>7 DEF x
<1> QED BY <1>3, <1>4, <1>5 DEF x

LEMMA AfterSummonOK ==
    ASSUME NEW d \in Device, NEW w, WorldOK(w, d), NEW a, NEW b
    PROVE  WorldOK(AfterSummon(w, a, b), d) /\ AfterSummon(w, a, b).queue = w.queue
<1> DEFINE x == InjectDriverDefaults(w, w.s.dev, a)
<1>1. Injects(w, x, d)
  BY InjectDriverOK
<1> HIDE DEF x
<1>2. WorldOK(x, d) /\ x.s.dev = w.s.dev /\ x.queue = w.queue
  BY <1>1 DEF Injects
<1>3. Injects(x, InjectGlobalDefaults(x, w.s.dev, b), d)
  BY <1>2, InjectGlobalOK
<1> QED BY <1>2, <1>3 DEF AfterSummon, Injects, x

\* An edit of the session alone.
LEMMA EditWorld ==
    ASSUME NEW w \in WorldType, NEW S \in SessionType, NEW v, v = [w EXCEPT !.s = S]
    PROVE  /\ v \in WorldType /\ v.s = S /\ v.queue = w.queue /\ v.db = w.db
           /\ v.fresh = w.fresh /\ v.transfers = w.transfers
           /\ v.applied = w.applied /\ v.out = w.out
BY DEF WorldType

LEMMA TrimWorld ==
    ASSUME NEW d \in Device, NEW w, WorldOK(w, d), NEW S \in SessionType, Trims(w.s, S),
           NEW v, v = [w EXCEPT !.s = S]
    PROVE  WorldOK(v, d) /\ v.s = S /\ v.queue = w.queue /\ v.transfers = w.transfers
<1>1. w \in WorldType
  BY DEF WorldOK
<1>2. v \in WorldType /\ v.s = S /\ v.queue = w.queue /\ v.transfers = w.transfers
  BY <1>1, EditWorld
<1> QED BY <1>2, TrimOK

LEMMA GetParamValuesOK ==
    ASSUME NEW d \in Device, NEW w, WorldOK(w, d), NEW a, NEW b
    PROVE  Serves(w, GetParamValuesResponse(w, a, b), d)
<1> DEFINE i == w.s.cur
           m == Msg("GetParameterValues", Summon, 0)
           idle == [w EXCEPT !.s = SummonOver(@)]
           taken == [w EXCEPT !.s = Released(@)]
           again == [w EXCEPT !.s.batch = @ + 1, !.out = m]
           kept == [idle EXCEPT !.s.mode = w.s.mode]
           original == CHOOSE t \in Diagnostics : i = Collect(t)
           v == GetParamValuesResponse(w, a, b)
<1>1. /\ w \in WorldType /\ w.s \in SessionType /\ SessionOK(w.s, d, w.queue)
      /\ w.s.phase \in 0 .. 4 /\ w.s.batch \in Nat /\ Batches \in Nat
  <2>1. w \in WorldType /\ w.s \in SessionType /\ SessionOK(w.s, d, w.queue)
    BY DEF WorldOK, WorldType
  <2>2. w.s.phase \in 0 .. 4 /\ w.s.batch \in 0 .. Batches
    BY <2>1 DEF SessionType
  <2>3. Batches \in Nat /\ 0 .. Batches \subseteq Nat
    BY FlowAssumption
  <2> QED BY <2>1, <2>2, <2>3
<1>2. /\ w.s.phase = 2 /\ w.s.batch + 1 < Batches => v = again
      /\ w.s.phase = 2 /\ w.s.batch + 1 >= Batches
            => v = DispatchNextOrClose(AfterSummon(kept, a, b))
      /\ w.s.phase = 4 => v = DispatchNextOrClose(IF w.s.mode = "ui_refresh"
                                                  THEN AfterSummon(idle, a, b) ELSE idle)
      /\ w.s.phase \notin {2, 4}
            => v = DispatchNextOrClose(CASE i = NoItem -> taken
                                    [] IsCollect(i) -> UpdateStatus(taken, original, "done")
                                    [] OTHER -> UpdateStatus(taken, i, "done"))
  BY <1>1 DEF GetParamValuesResponse
<1>3. WorldOK(idle, d) /\ idle.queue = w.queue
  <2>1. SummonOver(w.s) \in SessionType /\ Trims(w.s, SummonOver(w.s))
    BY <1>1, SummonEdits, SummonTrims
  <2> QED BY <1>1, <2>1, TrimWorld
<1>4. WorldOK(kept, d) /\ kept.queue = w.queue
  <2> DEFINE S == [SummonOver(w.s) EXCEPT !.mode = w.s.mode]
  <2>1. S \in SessionType /\ Trims(w.s, S)
    BY <1>1, SummonEdits, SummonTrims
  <2>2. kept = [w EXCEPT !.s = S]
    BY <1>1 DEF WorldType
  <2> HIDE DEF S, kept
  <2> QED BY <2>1, <2>2, TrimWorld
<1>5. WorldOK(taken, d) /\ taken.queue = w.queue /\ taken.s.cur = NoItem
  <2>1. Released(w.s) \in SessionType /\ Trims(w.s, Released(w.s)) /\ Released(w.s).cur = NoItem
    BY <1>1, ReleasedFields DEF Trims, SessionOK
  <2>2. taken = [w EXCEPT !.s = Released(w.s)]
    OBVIOUS
  <2> HIDE DEF taken
  <2> QED BY <2>1, <2>2, TrimWorld
<1>6. ASSUME w.s.batch + 1 < Batches PROVE Serves(w, again, d)
  <2> DEFINE S == [w.s EXCEPT !.batch = w.s.batch + 1]
  <2>1. S \in SessionType /\ Trims(w.s, S)
    BY <1>1, <1>6, SummonEdits, SummonTrims
  <2>2. again = [w EXCEPT !.s = S, !.out = m]
    BY <1>1 DEF WorldType, SessionType
  <2>3. m \in ReplyType /\ ReplyOK(m, d, w.queue) /\ m.op = "GetParameterValues"
    BY SummonIsReply
  <2> HIDE DEF S, m, again
  <2>4. /\ again \in WorldType /\ again.s = S /\ again.queue = w.queue
        /\ again.transfers = w.transfers /\ again.out = m
    BY <1>1, <2>1, <2>2, <2>3 DEF WorldType
  <2>5. WorldOK(again, d)
    BY <2>1, <2>4, TrimOK
  <2> QED BY <2>3, <2>4, <2>5, ReplyServes
<1> HIDE DEF idle, kept, taken, again, v
<1>7. /\ Serves(w, DispatchNextOrClose(AfterSummon(kept, a, b)), d)
      /\ Serves(w, DispatchNextOrClose(AfterSummon(idle, a, b)), d)
      /\ Serves(w, DispatchNextOrClose(idle), d)
  <2>1. /\ WorldOK(AfterSummon(kept, a, b), d) /\ AfterSummon(kept, a, b).queue = w.queue
        /\ WorldOK(AfterSummon(idle, a, b), d) /\ AfterSummon(idle, a, b).queue = w.queue
    BY <1>3, <1>4, AfterSummonOK
  <2> QED BY <1>3, <2>1, DispatchServes
<1>8. CASE i = NoItem /\ w.s.phase \notin {2, 4}
  <2>1. v = DispatchNextOrClose(taken)
    <3>1. ~IsCollect(NoItem)
      BY CollectItems, NoItemIsNoItem DEF IsCollect
    <3> QED BY <1>2, <1>8, <3>1
  <2> QED BY <1>5, <2>1, DispatchServes DEF v
<1>9. CASE i # NoItem /\ IsCollect(i) /\ w.s.phase \notin {2, 4}
  <2>1. v = DispatchNextOrClose(UpdateStatus(taken, original, "done"))
    BY <1>2, <1>9
  <2>2. original \in Diagnostics /\ i = Collect(original) /\ i \in Mine(d)
    BY <1>1, <1>9 DEF IsCollect, SessionOK
  <2> HIDE DEF original
  <2>3. original \in Mine(d) /\ original \in Task /\ original # NoItem
    BY <2>2, CollectItems, OwnItems, NoItemIsNoItem DEF Own
  <2>4. Settled(taken.queue, original)
    BY <1>1, <1>5, <2>2 DEF SessionOK, CollectsOK
  <2>5. "done" \in Terminal
    BY DEF Terminal
  <2>6. /\ WorldOK(UpdateStatus(taken, original, "done"), d)
        /\ Settles(taken.queue, UpdateStatus(taken, original, "done").queue, d)
    BY <1>5, <2>3, <2>4, <2>5, SettleOK
  <2> QED BY <1>5, <2>1, <2>6, DispatchServes DEF v
<1>10. CASE i # NoItem /\ ~IsCollect(i) /\ w.s.phase \notin {2, 4}
  <2>1. v = DispatchNextOrClose(UpdateStatus(taken, i, "done"))
    BY <1>2, <1>10
  <2>2. i \in Mine(d) /\ (i \in Task => Settled(taken.queue, i)) /\ "done" \in Terminal
    BY <1>1, <1>5, <1>10 DEF SessionOK, CurrentOK, Terminal
  <2> HIDE DEF i
  <2>3. /\ WorldOK(UpdateStatus(taken, i, "done"), d)
        /\ Settles(taken.queue, UpdateStatus(taken, i, "done").queue, d)
    BY <1>5, <1>10, <2>2, SettleOK
  <2> QED BY <1>5, <2>1, <2>3, DispatchServes DEF v
<1>11. CASE w.s.phase \in {2, 4}
  <2>1. w.s.batch + 1 < Batches \/ w.s.batch + 1 >= Batches
    BY <1>1
  <2> QED BY <1>2, <1>6, <1>7, <1>11, <2>1 DEF v
<1> QED BY <1>8, <1>9, <1>10, <1>11 DEF v

-----------------------------------------------------------------------------
(* Routing: each device has at most one session object that a request of   *)
(* its can come to, as long as no two devices' requests carry the same id. *)

OwnIds == \A d, e \in Device : SidOf[d] = SidOf[e] => d = e

Reach(d) == {sessions[SidOf[d]], bySerial[d], conn[d].via} \ {NoObj}

OneSession == \A d \in Device : \A o, p \in Reach(d) : o = p
SessionsApart == \A d, e \in Device : d # e => Reach(d) \cap Reach(e) = {}
AnswersFindTheirs ==
    \A d \in Device : conn[d].via # NoObj => sessions[SidOf[d]] # NoObj
ClosedOrIndexed ==
    \A d \in Device : conn[d] # Close /\ sessions[SidOf[d]] = NoObj => bySerial[d] = NoObj
NoStraySession ==
    \A i \in Sid : (\A d \in Device : SidOf[d] # i) => sessions[i] = NoObj
UnreachedAreFresh == \A o \in Obj : o \notin Reached => obj[o] = Fresh

Routed ==
    /\ OneSession /\ SessionsApart /\ AnswersFindTheirs /\ ClosedOrIndexed
    /\ NoStraySession /\ UnreachedAreFresh

\* The inductive invariant.
StoreOK ==
    /\ FifosOK(queue) /\ DueOK(transfers, queue)
    /\ \A d \in Device : ReplyOK(conn[d], d, queue)
    /\ \A d \in Device : \A o \in Reach(d) : SessionOK(obj[o], d, queue)

IInv == TypeOK /\ Routed /\ StoreOK

LEMMA RangeIsSmall ==
    ASSUME NEW S, NEW T, IsFiniteSet(S), NEW f \in [S -> T]
    PROVE  IsFiniteSet(Range(f)) /\ Cardinality(Range(f)) <= Cardinality(S)
<1>1. f \in Surjection(S, Range(f))
  BY DEF Surjection, Range
<1> QED BY <1>1, FS_Surjection

LEMMA UnionIsSmall ==
    ASSUME NEW S, NEW T, IsFiniteSet(S), IsFiniteSet(T)
    PROVE  IsFiniteSet(S \cup T) /\ Cardinality(S \cup T) <= Cardinality(S) + Cardinality(T)
<1>1. /\ IsFiniteSet(S \cup T)
      /\ Cardinality(S \cup T) = Cardinality(S) + Cardinality(T) - Cardinality(S \cap T)
  BY FS_Union
<1>2. IsFiniteSet(S \cap T)
  BY FS_Subset
<1>3. Cardinality(S) \in Nat /\ Cardinality(T) \in Nat /\ Cardinality(S \cap T) \in Nat
  BY <1>2, FS_CardinalityType
<1> QED BY <1>1, <1>3

\* The pool never runs out: a new session gets an object nothing reaches.
LEMMA NewObjIsNew ==
    ASSUME TypeOK
    PROVE  NewObj \in Obj /\ NewObj \notin Reached /\ NewObj # NoObj
<1> DEFINE vias == [d \in Device |-> conn[d].via]
           V == Obj \cup {NoObj}
<1>1. sessions \in [Sid -> V] /\ bySerial \in [Device -> V] /\ vias \in [Device -> V]
  BY DEF TypeOK, ReplyType
<1>2. IsFiniteSet(Obj) /\ IsFiniteSet(Sid) /\ IsFiniteSet(Device) /\ NoObj \notin Obj
  BY ObjAssumption
<1>3. Reached = (Range(sessions) \cup Range(bySerial)) \cup Range(vias)
  BY DEF Reached, Range
<1> HIDE DEF vias, V
<1>4. /\ IsFiniteSet(Range(sessions)) /\ Cardinality(Range(sessions)) <= Cardinality(Sid)
      /\ IsFiniteSet(Range(bySerial)) /\ Cardinality(Range(bySerial)) <= Cardinality(Device)
      /\ IsFiniteSet(Range(vias)) /\ Cardinality(Range(vias)) <= Cardinality(Device)
  BY <1>1, <1>2, RangeIsSmall
<1> DEFINE A == Range(sessions)
           B == Range(bySerial)
           C == Range(vias)
           AB == A \cup B
<1>5. IsFiniteSet(AB) /\ Cardinality(AB) <= Cardinality(A) + Cardinality(B)
  BY <1>4, UnionIsSmall
<1>6. IsFiniteSet(AB \cup C) /\ Cardinality(AB \cup C) <= Cardinality(AB) + Cardinality(C)
  BY <1>4, <1>5, UnionIsSmall
<1>7. Reached = AB \cup C
  BY <1>3
<1> HIDE DEF A, B, C, AB
<1>8. /\ Cardinality(A) <= Cardinality(Sid) /\ Cardinality(B) <= Cardinality(Device)
      /\ Cardinality(C) <= Cardinality(Device)
      /\ IsFiniteSet(A) /\ IsFiniteSet(B) /\ IsFiniteSet(C)
  BY <1>4 DEF A, B, C
<1>9. Cardinality(Reached) < Cardinality(Obj) /\ IsFiniteSet(Reached)
  <2>1. /\ Cardinality(A) \in Nat /\ Cardinality(B) \in Nat /\ Cardinality(C) \in Nat
        /\ Cardinality(AB) \in Nat /\ Cardinality(AB \cup C) \in Nat
        /\ Cardinality(Sid) \in Nat /\ Cardinality(Device) \in Nat /\ Cardinality(Obj) \in Nat
    BY <1>2, <1>5, <1>6, <1>8, FS_CardinalityType
  <2>2. Cardinality(Obj) > Cardinality(Sid) + 2 * Cardinality(Device)
    BY ObjAssumption
  <2> QED BY <1>5, <1>6, <1>7, <1>8, <2>1, <2>2
<1>10. \E o \in Obj : o \notin Reached
  <2> SUFFICES ASSUME Obj \subseteq Reached PROVE FALSE
    OBVIOUS
  <2>1. Cardinality(Obj) <= Cardinality(Reached)
    BY <1>9, FS_Subset
  <2>2. Cardinality(Obj) \in Nat /\ Cardinality(Reached) \in Nat
    BY <1>2, <1>9, FS_CardinalityType
  <2> QED BY <1>9, <2>1, <2>2
<1> QED BY <1>2, <1>10 DEF NewObj

\* An object of one device is none of another's.
LEMMA ReachFacts ==
    ASSUME TypeOK, Routed
    PROVE  /\ \A d \in Device : Reach(d) \subseteq Obj /\ Reach(d) \subseteq Reached
           /\ \A o \in Obj : o \in Reached => \E d \in Device : o \in Reach(d)
           /\ \A d \in Device : SidOf[d] \in Sid
<1>1. ASSUME NEW d \in Device
      PROVE  Reach(d) \subseteq Obj /\ Reach(d) \subseteq Reached /\ SidOf[d] \in Sid
  <2>1. SidOf[d] \in Sid
    BY DeviceAssumption
  <2>2. /\ sessions[SidOf[d]] \in Obj \cup {NoObj} /\ sessions[SidOf[d]] \in Range(sessions)
        /\ bySerial[d] \in Obj \cup {NoObj} /\ bySerial[d] \in Range(bySerial)
        /\ conn[d].via \in Obj \cup {NoObj}
    BY <2>1 DEF TypeOK, ReplyType, Range
  <2> QED BY <2>1, <2>2 DEF Reach, Reached
<1>2. ASSUME NEW o \in Obj, o \in Reached PROVE \E d \in Device : o \in Reach(d)
  <2>1. o # NoObj
    BY ObjAssumption
  <2>2. CASE o \in Range(sessions)
    <3>1. PICK i \in Sid : sessions[i] = o
      BY <2>2 DEF TypeOK, Range
    <3>2. PICK d \in Device : SidOf[d] = i
      BY <2>1, <3>1 DEF Routed, NoStraySession
    <3> QED BY <2>1, <3>1, <3>2 DEF Reach
  <2>3. CASE o \in Range(bySerial)
    <3>1. PICK d \in Device : bySerial[d] = o
      BY <2>3 DEF TypeOK, Range
    <3> QED BY <2>1, <3>1 DEF Reach
  <2>4. CASE \E d \in Device : conn[d].via = o
    BY <2>1, <2>4 DEF Reach
  <2> QED BY <1>2, <2>2, <2>3, <2>4 DEF Reached
<1> QED BY <1>1, <1>2

LEMMA FreshIsSession ==
    /\ Fresh \in SessionType /\ Fresh.pend = <<>> /\ Keep(Fresh.pend, Task) = <<>>
    /\ \A d \in Device, q \in QueueType : SessionOK(Fresh, d, q)
<1>1. /\ Fresh.dev = NoItem /\ Fresh.pend = <<>> /\ Fresh.cur = NoItem /\ Fresh.wp = NoItem
      /\ Fresh.follow = NoItem /\ Fresh.creds = NoItem /\ Fresh.mark = FALSE
  BY DEF Fresh
<1>2. Fresh \in SessionType
  <2>1. <<>> \in Seq(Item) /\ 0 \in 0 .. 4 /\ 0 \in 0 .. Batches /\ 0 \in 0 .. Len(WanSteps)
    BY FirstStep, FlowAssumption
  <2> QED BY <2>1 DEF Fresh, SessionType
<1>3. Keep(<<>>, Task) = <<>> /\ Range(<<>>) = {}
  BY KeepEmpty, RangeEmpty
<1>4. ASSUME NEW d \in Device, NEW q \in QueueType PROVE SessionOK(Fresh, d, q)
  <2>1. CurrentOK(Fresh, q) /\ CollectsOK(Fresh, q)
    BY <1>1, <1>3, CollectItems, NoItemIsNoItem DEF CurrentOK, CollectsOK
  <2>2. AheadOK(Fresh, d, q)
    <3> DEFINE W == Waiting(q, d)
    <3>1. W \in Seq(Task)
      BY KeepIsList DEF Waiting, QueueType
    <3> HIDE DEF W
    <3>2. W = <<>> \o W
      BY <3>1, ConcatEmptySeq
    <3> QED BY <1>1, <1>3, <3>1, <3>2 DEF AheadOK, W
  <2>3. <<>> \in Seq(Mine(d))
    OBVIOUS
  <2> QED BY <1>1, <2>1, <2>2, <2>3 DEF SessionOK
<1> QED BY <1>1, <1>2, <1>3, <1>4

\* What a handler for d that runs in o leaves, whatever it did to the maps.
LEMMA FinishOK ==
    ASSUME IInv, NEW d \in Device, NEW o \in Obj, NEW w, NEW objs, NEW index, NEW serial,
           Finish(d, o, w, objs, index, serial),
           objs \in [Obj -> SessionType],
           index \in [Sid -> Obj \cup {NoObj}], serial \in [Device -> Obj \cup {NoObj}],
           \A e \in Device : e # d =>
               /\ o \notin Reach(e)
               /\ index[SidOf[e]] = sessions[SidOf[e]] /\ serial[e] = bySerial[e]
               /\ \A p \in Reach(e) : objs[p] = obj[p],
           \A i \in Sid : (\A e \in Device : SidOf[e] # i) => index[i] = NoObj,
           index[SidOf[d]] = o \/ (index[SidOf[d]] = NoObj /\ w.out = Close),
           serial[d] \in {o, NoObj},
           WorldOK(w, d), ReplyOK(w.out, d, w.queue), w.out \in ReplyType,
           w.out.op \in {"204", "InformResponse"} => w.out.via = NoObj,
           Others(queue, w.queue, d),
           full' \in SUBSET Device,
           spent' \in [drops : 0..MaxDrops, faults : 0..MaxFaults,
                       triggers : 0..MaxTriggers, restarts : 0..MaxRestarts]
    PROVE  IInv'
<1> DEFINE reply == [w.out EXCEPT !.via = IF w.out.op \in {"204", "InformResponse"}
                                          THEN NoObj ELSE o]
           conns == [conn EXCEPT ![d] = reply]
           reached == Range(index) \cup Range(serial) \cup {conns[e].via : e \in Device}
<1>1. /\ conn' = conns /\ sessions' = index /\ bySerial' = serial
      /\ obj' = [p \in Obj |-> IF p \notin reached THEN Fresh
                               ELSE IF p = o THEN w.s ELSE objs[p]]
      /\ queue' = w.queue /\ db' = w.db /\ fresh' = w.fresh
      /\ transfers' = w.transfers /\ applied' = w.applied
  BY DEF Finish
<1>2. TypeOK /\ Routed /\ StoreOK /\ conn \in [Device -> ReplyType] /\ o # NoObj
  BY ObjAssumption DEF IInv, TypeOK
<1>3. /\ reply \in ReplyType /\ reply.via \in {o, NoObj}
      /\ reply.op = w.out.op /\ reply.item = w.out.item
      /\ w.out = Close => reply = Close
      /\ ReplyOK(reply, d, w.queue)
  <2>1. /\ reply \in ReplyType /\ reply.via \in {o, NoObj}
        /\ reply.op = w.out.op /\ reply.item = w.out.item
    BY DEF ReplyType
  <2>2. w.out = Close => reply = Close
    BY DEF Close, Msg
  <2>3. ReplyOK(reply, d, w.queue)
    BY <2>1, <2>2 DEF ReplyOK
  <2> QED BY <2>1, <2>2, <2>3
<1> HIDE DEF reply
<1>4. /\ conns \in [Device -> ReplyType] /\ conns[d] = reply
      /\ \A e \in Device : e # d => conns[e] = conn[e]
  BY <1>2, <1>3
<1>5. reached = Reached'
  BY <1>1 DEF Reached
<1> HIDE DEF conns, reached
<1>6. /\ w.s \in SessionType /\ w.queue \in QueueType /\ w.db \in DbType
      /\ w.transfers \in SUBSET Task /\ w.applied \in SUBSET (Item \X Nat)
      /\ w.fresh \in SUBSET Device
  BY WorldParts
<1>7. Fresh \in SessionType
  BY FreshIsSession
<1>8. obj' \in [Obj -> SessionType]
  BY <1>1, <1>6, <1>7
<1>9. TypeOK'
  BY <1>1, <1>4, <1>6, <1>8 DEF TypeOK
<1>10. Reach(d)' = {index[SidOf[d]], serial[d], reply.via} \ {NoObj} /\ Reach(d)' \subseteq {o}
  BY <1>1, <1>3, <1>4 DEF Reach
<1>11. ASSUME NEW e \in Device, e # d
       PROVE  /\ Reach(e)' = Reach(e) /\ o \notin Reach(e)
              /\ conn'[e] = conn[e] /\ sessions'[SidOf[e]] = sessions[SidOf[e]]
              /\ bySerial'[e] = bySerial[e]
  BY <1>1, <1>4, <1>11 DEF Reach
<1>12. Routed'
  <2>1. OneSession'
    <3> SUFFICES ASSUME NEW e \in Device, NEW p \in Reach(e)', NEW q \in Reach(e)'
                 PROVE  p = q
      BY DEF OneSession
    <3>1. CASE e = d
      BY <1>10, <3>1
    <3>2. CASE e # d
      BY <1>2, <1>11, <3>2 DEF Routed, OneSession
    <3> QED BY <3>1, <3>2
  <2>2. SessionsApart'
    <3> SUFFICES ASSUME NEW a \in Device, NEW b \in Device, a # b
                 PROVE  Reach(a)' \cap Reach(b)' = {}
      BY DEF SessionsApart
    <3>1. CASE a = d
      <4>1. Reach(a)' \subseteq {o} /\ Reach(b)' = Reach(b) /\ o \notin Reach(b)
        BY <1>10, <1>11, <3>1
      <4> QED BY ONLY <4>1
    <3>2. CASE b = d
      <4>1. Reach(b)' \subseteq {o} /\ Reach(a)' = Reach(a) /\ o \notin Reach(a)
        BY <1>10, <1>11, <3>2
      <4> QED BY ONLY <4>1
    <3>3. CASE a # d /\ b # d
      BY <1>2, <1>11, <3>3 DEF Routed, SessionsApart
    <3> QED BY <3>1, <3>2, <3>3
  <2>3. AnswersFindTheirs'
    <3> SUFFICES ASSUME NEW e \in Device, conn'[e].via # NoObj
                 PROVE  sessions'[SidOf[e]] # NoObj
      BY DEF AnswersFindTheirs
    <3>1. CASE e = d
      <4>1. w.out # Close
        BY <1>1, <1>3, <1>4, <3>1 DEF Close, Msg
      <4> QED BY <1>1, <1>2, <3>1, <4>1
    <3>2. CASE e # d
      BY <1>2, <1>11, <3>2 DEF Routed, AnswersFindTheirs
    <3> QED BY <3>1, <3>2
  <2>4. ClosedOrIndexed'
    <3> SUFFICES ASSUME NEW e \in Device, conn'[e] # Close, sessions'[SidOf[e]] = NoObj
                 PROVE  bySerial'[e] = NoObj
      BY DEF ClosedOrIndexed, Close, Msg
    <3>1. CASE e = d
      <4>1. w.out # Close
        BY <1>1, <1>3, <1>4, <3>1
      <4> QED BY <1>1, <1>2, <3>1, <4>1
    <3>2. CASE e # d
      BY <1>2, <1>11, <3>2 DEF Routed, ClosedOrIndexed
    <3> QED BY <3>1, <3>2
  <2>5. NoStraySession'
    BY <1>1 DEF NoStraySession
  <2>6. UnreachedAreFresh'
    BY <1>1, <1>5 DEF UnreachedAreFresh, Fresh
  <2> QED BY <2>1, <2>2, <2>3, <2>4, <2>5, <2>6 DEF Routed
<1>13. FifosOK(queue)' /\ DueOK(transfers, queue)'
  BY <1>1 DEF WorldOK, FifosOK, DueOK, FifoOK, Own, Settled
<1>14. ASSUME NEW e \in Device
       PROVE  /\ ReplyOK(conn[e], e, queue)'
              /\ \A p \in Reach(e)' : SessionOK(obj'[p], e, w.queue)
  <2>1. CASE e = d
    <3>1. ReplyOK(conn'[d], d, w.queue)
      BY <1>1, <1>3, <1>4
    <3>2. ASSUME NEW p \in Reach(d)' PROVE obj'[p] = w.s
      <4>1. p = o /\ p \in {index[SidOf[d]], serial[d], conns[d].via}
        BY <1>4, <1>10, <3>2
      <4>2. index[SidOf[d]] \in Range(index) /\ serial[d] \in Range(serial)
        BY DeviceAssumption DEF Range
      <4>3. p \in reached
        BY <4>1, <4>2 DEF reached
      <4> QED BY <1>1, <4>1, <4>3
    <3> QED BY <1>1, <2>1, <3>1, <3>2 DEF WorldOK, ReplyOK, Mine, Own, Settled, Close, Msg
  <2>2. CASE e # d
    <3>1. FifoOK(queue, e) /\ queue \in QueueType /\ ReplyOK(conn[e], e, queue)
      BY <1>2 DEF StoreOK, FifosOK, TypeOK
    <3>2. ReplyOK(conn[e], e, w.queue)
      BY <1>6, <2>2, <3>1, OthersKeepReply
    <3>3. ASSUME NEW p \in Reach(e)' PROVE SessionOK(obj'[p], e, w.queue)
      <4>1. p \in Reach(e) /\ p # o /\ p \in Obj
        BY <1>2, <1>11, <2>2, <3>3, ReachFacts
      <4>2. index[SidOf[e]] \in Range(index) /\ serial[e] \in Range(serial)
        BY DeviceAssumption DEF Range
      <4>3. p \in {index[SidOf[e]], serial[e], conns[e].via}
        BY <1>4, <2>2, <4>1 DEF Reach
      <4>4. p \in reached
        BY <4>2, <4>3 DEF reached
      <4>5. obj'[p] = obj[p]
        BY <1>1, <2>2, <4>1, <4>4
      <4>6. SessionOK(obj[p], e, queue) /\ obj[p] \in SessionType
        BY <1>2, <4>1 DEF StoreOK, TypeOK
      <4> QED BY <1>6, <2>2, <3>1, <4>5, <4>6, OthersKeepSession
    <3> QED BY <1>1, <1>11, <2>2, <3>2, <3>3 DEF ReplyOK, Mine, Own, Settled, Close, Msg
  <2> QED BY <2>1, <2>2
<1>15. StoreOK'
  BY <1>1, <1>13, <1>14 DEF StoreOK
<1> QED BY <1>9, <1>12, <1>15 DEF IInv

\* What every step does to the tasks.
Moved == Lasting(queue, queue') /\ \A d \in Device : InOrder(queue, queue', d)

LEMMA MovesIsMoved ==
    ASSUME IInv, NEW d \in Device, Moves(queue, queue', d), queue' \in QueueType
    PROVE  Moved
<1>1. ASSUME NEW e \in Device, e # d PROVE InOrder(queue, queue', e)
  <2>1. FifoOK(queue, e) /\ queue \in QueueType
    BY DEF IInv, StoreOK, FifosOK, TypeOK
  <2>2. \A i \in Mine(e) : queue'.status[i] = queue.status[i]
    BY <1>1, <2>1, OthersKeep DEF Moves
  <2>3. \A n \in DOMAIN Waiting(queue, e) :
           Waiting(queue, e)[n] \in Mine(e) /\ queue.status[Waiting(queue, e)[n]] = "pending"
    BY <2>1, WaitingFacts, OwnItems, ElementOfSeq, LenProperties
  <2> QED BY <2>2, <2>3 DEF InOrder
<1> QED BY <1>1 DEF Moves, Moved

LEMMA QueueStays ==
    ASSUME IInv, queue' = queue
    PROVE  Moved
<1>1. ASSUME NEW d \in Device PROVE Moves(queue, queue, d)
  BY NothingMoves DEF IInv, StoreOK, FifosOK, TypeOK
<1>2. Lasting(queue, queue)
  BY DEF Lasting
<1> QED BY <1>1, <1>2 DEF Moved, Moves

\* A request of d comes to the one session of d, if it has one.
LEMMA OwnSession ==
    ASSUME IInv, NEW d \in Device, NEW o \in Obj, o \in Reach(d) \/ o \notin Reached
    PROVE  /\ \A e \in Device : e # d => o \notin Reach(e)
           /\ obj[o] \in SessionType /\ SessionOK(obj[o], d, queue)
<1>1. TypeOK /\ Routed /\ StoreOK
  BY DEF IInv
<1>2. \A e \in Device : e # d => o \notin Reach(e)
  BY <1>1, ReachFacts DEF Routed, SessionsApart
<1>3. obj[o] \in SessionType /\ queue \in QueueType
  BY <1>1 DEF TypeOK
<1>4. CASE o \in Reach(d)
  BY <1>1, <1>2, <1>3, <1>4 DEF StoreOK
<1>5. CASE o \notin Reached
  BY <1>1, <1>2, <1>3, <1>5, FreshIsSession DEF Routed, UnreachedAreFresh
<1> QED BY <1>4, <1>5

LEMMA CookieFacts ==
    ASSUME IInv, NEW d \in Device
    PROVE  /\ ByCookie(d) \in Obj /\ ByCookie(d) # NoObj
           /\ ByCookie(d) \in Reach(d) \/ ByCookie(d) \notin Reached
           /\ sessions[SidOf[d]] # NoObj => ByCookie(d) = sessions[SidOf[d]]
           /\ conn[d] # Close => /\ ByRpc(d) = ByCookie(d)
                                 /\ bySerial[d] \in {ByCookie(d), NoObj}
<1>1. TypeOK /\ Routed
  BY DEF IInv
<1>2. NewObj \in Obj /\ NewObj \notin Reached /\ NewObj # NoObj
  BY <1>1, NewObjIsNew
<1>3. CASE sessions[SidOf[d]] = NoObj
  <2>1. conn[d].via = NoObj /\ (conn[d] # Close => bySerial[d] = NoObj)
    BY <1>1, <1>3 DEF Routed, AnswersFindTheirs, ClosedOrIndexed
  <2> QED BY <1>2, <1>3, <2>1 DEF ByCookie, ByRpc
<1>4. CASE sessions[SidOf[d]] # NoObj
  <2>1. sessions[SidOf[d]] \in Reach(d)
    BY <1>4 DEF Reach
  <2>2. sessions[SidOf[d]] \in Obj
    BY <1>1, <2>1, ReachFacts
  <2>3. \A o \in Reach(d) : o = sessions[SidOf[d]]
    BY <1>1, <2>1 DEF Routed, OneSession
  <2>4. bySerial[d] \in {sessions[SidOf[d]], NoObj} /\ conn[d].via \in {sessions[SidOf[d]], NoObj}
    BY <2>3 DEF Reach
  <2> QED BY <1>4, <2>1, <2>2, <2>4 DEF ByCookie, ByRpc
<1> QED BY <1>3, <1>4

LEMMA WorldIsOK ==
    ASSUME IInv, NEW d \in Device, NEW s \in SessionType, SessionOK(s, d, queue)
    PROVE  /\ WorldOK(World(s), d)
           /\ World(s).s = s /\ World(s).queue = queue /\ World(s).db = db
           /\ World(s).fresh = fresh /\ World(s).transfers = transfers
           /\ World(s).applied = applied
<1>1. World(s) \in WorldType
  BY DEF World, WorldType, IInv, TypeOK
<1> QED BY <1>1 DEF World, WorldOK, IInv, StoreOK

\* A request of d inside a session, whatever the handler.
LEMMA ServeOK ==
    ASSUME IInv, OwnIds, NEW d \in Device, conn[d] # Close,
           NEW w0, w0.queue = queue, NEW w, Serves(w0, w, d), Serve(d, ByCookie(d), w),
           full' \in SUBSET Device,
           spent' \in [drops : 0..MaxDrops, faults : 0..MaxFaults,
                       triggers : 0..MaxTriggers, restarts : 0..MaxRestarts]
    PROVE  IInv' /\ Moved
<1> DEFINE o == ByCookie(d)
           index == [sessions EXCEPT ![SidOf[d]] = o]
<1>1. /\ o \in Obj /\ o # NoObj /\ (o \in Reach(d) \/ o \notin Reached)
      /\ bySerial[d] \in {o, NoObj}
  BY CookieFacts
<1> HIDE DEF o
<1>2. Finish(d, o, w, obj, index, bySerial)
  BY DEF Serve, o
<1>3. /\ sessions \in [Sid -> Obj \cup {NoObj}] /\ bySerial \in [Device -> Obj \cup {NoObj}]
      /\ obj \in [Obj -> SessionType] /\ Routed
  BY DEF IInv, TypeOK
<1>4. /\ SidOf[d] \in Sid /\ index \in [Sid -> Obj \cup {NoObj}] /\ index[SidOf[d]] = o
      /\ \A i \in Sid : i # SidOf[d] => index[i] = sessions[i]
  <2>1. SidOf[d] \in Sid
    BY DeviceAssumption
  <2> QED BY <1>1, <1>3, <2>1
<1> HIDE DEF index
<1>5. ASSUME NEW e \in Device, e # d
      PROVE  o \notin Reach(e) /\ index[SidOf[e]] = sessions[SidOf[e]]
  <2>1. o \notin Reach(e)
    BY <1>1, <1>5, OwnSession
  <2>2. SidOf[e] \in Sid /\ SidOf[e] # SidOf[d]
    BY <1>5, DeviceAssumption DEF OwnIds
  <2> QED BY <1>4, <2>1, <2>2
<1>6. \A i \in Sid : (\A e \in Device : SidOf[e] # i) => index[i] = NoObj
  BY <1>3, <1>4 DEF Routed, NoStraySession
<1>7. /\ WorldOK(w, d) /\ ReplyOK(w.out, d, w.queue) /\ w.out \in ReplyType
      /\ w.out.op \in {"204", "InformResponse"} => w.out.via = NoObj
      /\ Moves(queue, w.queue, d) /\ Others(queue, w.queue, d)
  BY DEF Serves, Close, Msg, Moves
<1>8. IInv'
  BY <1>1, <1>2, <1>3, <1>4, <1>5, <1>6, <1>7, FinishOK
<1>9. queue' = w.queue /\ w.queue \in QueueType
  BY <1>2, <1>7, WorldParts DEF Finish
<1>10. Moved
  BY <1>7, <1>9, MovesIsMoved
<1> QED BY <1>8, <1>10

\* A handler that only writes a reply.
LEMMA OutServes ==
    ASSUME NEW d \in Device, NEW w, WorldOK(w, d), NEW S \in SessionType, Trims(w.s, S),
           NEW m \in ReplyType, ReplyOK(m, d, w.queue), m.op \notin {"204", "InformResponse"},
           NEW v, v = [w EXCEPT !.s = S, !.out = m]
    PROVE  Serves(w, v, d)
<1>1. w \in WorldType
  BY DEF WorldOK
<1>2. /\ v \in WorldType /\ v.s = S /\ v.queue = w.queue /\ v.transfers = w.transfers /\ v.out = m
  BY <1>1 DEF WorldType
<1>3. WorldOK(v, d)
  BY <1>2, TrimOK
<1> QED BY <1>2, <1>3, ReplyServes

LEMMA AgainServes ==
    ASSUME NEW d \in Device, NEW w, WorldOK(w, d), w.s.cur # NoItem
    PROVE  Serves(w, Dispatch(w, w.s.cur), d)
<1> DEFINE i == w.s.cur
           x == Started(w, i)
           v == ExecuteTask(x, i)
<1>1. /\ WorldOK(x, d) /\ i \in Mine(d)
      /\ i \in Task => x.queue.status[i] = "executing"
      /\ \A t \in Diagnostics : i = Collect(t) => Settled(x.queue, t)
      /\ Moves(w.queue, x.queue, d)
  BY StartAgainOK
<1> HIDE DEF x, i
<1>2. /\ WorldOK(v, d) /\ ReplyOK(v.out, d, x.queue) /\ v.out \in ReplyType
      /\ v.out.op \notin {"204", "InformResponse"} /\ v.queue = x.queue
  BY <1>1, ExecuteOK
<1>3. Dispatch(w, i) = v
  BY DispatchIsExecute DEF x
<1> QED BY <1>1, <1>2, <1>3 DEF Serves, i

LEMMA TrimsItself ==
    ASSUME NEW d, NEW q, NEW s \in SessionType, SessionOK(s, d, q)
    PROVE  Trims(s, s)
BY DEF Trims, SessionOK

\* The parts of the state a request does not touch keep their types.
LEMMA SpentType ==
    ASSUME TypeOK
    PROVE  /\ full \in SUBSET Device
           /\ spent \in [drops : 0..MaxDrops, faults : 0..MaxFaults,
                         triggers : 0..MaxTriggers, restarts : 0..MaxRestarts]
           /\ spent.faults < MaxFaults =>
                [spent EXCEPT !.faults = @ + 1]
                   \in [drops : 0..MaxDrops, faults : 0..MaxFaults,
                        triggers : 0..MaxTriggers, restarts : 0..MaxRestarts]
           /\ spent.drops < MaxDrops =>
                [spent EXCEPT !.drops = @ + 1]
                   \in [drops : 0..MaxDrops, faults : 0..MaxFaults,
                        triggers : 0..MaxTriggers, restarts : 0..MaxRestarts]
           /\ spent.triggers < MaxTriggers =>
                [spent EXCEPT !.triggers = @ + 1]
                   \in [drops : 0..MaxDrops, faults : 0..MaxFaults,
                        triggers : 0..MaxTriggers, restarts : 0..MaxRestarts]
           /\ spent.restarts < MaxRestarts =>
                [spent EXCEPT !.restarts = @ + 1]
                   \in [drops : 0..MaxDrops, faults : 0..MaxFaults,
                        triggers : 0..MaxTriggers, restarts : 0..MaxRestarts]
<1>1. /\ MaxDrops \in Nat /\ MaxFaults \in Nat /\ MaxTriggers \in Nat /\ MaxRestarts \in Nat
  BY BoundAssumption
<1>2. \A m \in Nat : \A n \in 0 .. m : n < m => n + 1 \in 0 .. m
  OBVIOUS
<1>3. full \in SUBSET Device /\ spent \in [drops : 0..MaxDrops, faults : 0..MaxFaults,
                                     triggers : 0..MaxTriggers, restarts : 0..MaxRestarts]
  BY DEF TypeOK
<1>4. /\ spent.drops < MaxDrops => spent.drops + 1 \in 0 .. MaxDrops
      /\ spent.faults < MaxFaults => spent.faults + 1 \in 0 .. MaxFaults
      /\ spent.triggers < MaxTriggers => spent.triggers + 1 \in 0 .. MaxTriggers
      /\ spent.restarts < MaxRestarts => spent.restarts + 1 \in 0 .. MaxRestarts
  BY <1>1, <1>2, <1>3
<1> QED BY <1>3, <1>4

LEMMA EmptyPostOK ==
    ASSUME IInv, OwnIds, NEW d \in Device, EmptyPost(d)
    PROVE  IInv' /\ Moved
<1> DEFINE o == ByCookie(d)
           s == obj[o]
           w == World(s)
           names == Msg("GetParameterNames", Summon, 0)
           values == Msg("GetParameterValues", Summon, 0)
<1>1. /\ o \in Obj /\ o # NoObj /\ (o \in Reach(d) \/ o \notin Reached)
      /\ conn[d] # Close /\ bySerial[d] \in {o, NoObj}
  <2>1. conn[d] # Close
    BY DEF EmptyPost, Close, Msg
  <2> QED BY <2>1, CookieFacts
<1> HIDE DEF o
<1>2. s \in SessionType /\ SessionOK(s, d, queue) /\ \A e \in Device : e # d => o \notin Reach(e)
  BY <1>1, OwnSession
<1> HIDE DEF s
<1>3. WorldOK(w, d) /\ w.s = s /\ w.queue = queue /\ w \in WorldType
  BY <1>2, WorldIsOK DEF WorldOK
<1> HIDE DEF w
<1>4. /\ full' \in SUBSET Device
      /\ spent' \in [drops : 0..MaxDrops, faults : 0..MaxFaults,
                     triggers : 0..MaxTriggers, restarts : 0..MaxRestarts]
  BY SpentType DEF EmptyPost, IInv
<1>5. ASSUME NEW v, Serves(w, v, d), Serve(d, o, v) PROVE IInv' /\ Moved
  BY <1>1, <1>3, <1>4, <1>5, ServeOK DEF o
<1>6. /\ names \in ReplyType /\ ReplyOK(names, d, queue) /\ names.op \notin {"204", "InformResponse"}
      /\ values \in ReplyType /\ ReplyOK(values, d, queue) /\ values.op \notin {"204", "InformResponse"}
  BY SummonIsReply
<1> HIDE DEF names, values
<1>7. Serves(w, [w EXCEPT !.out = names], d)
  <2> DEFINE v == [w EXCEPT !.s = s, !.out = names]
  <2>1. [w EXCEPT !.out = names] = v
    BY <1>3 DEF WorldType
  <2>2. Serves(w, v, d)
    BY <1>2, <1>3, <1>6, TrimsItself, OutServes
  <2> QED BY <2>1, <2>2
<1>8. Serves(w, [w EXCEPT !.s.phase = 4, !.out = values], d)
  <2> DEFINE S == [s EXCEPT !.phase = 4]
             v == [w EXCEPT !.s = S, !.out = values]
  <2>1. S \in SessionType /\ Trims(s, S)
    BY <1>2, SummonEdits, SummonTrims
  <2>2. [w EXCEPT !.s.phase = 4, !.out = values] = v
    BY <1>3 DEF WorldType
  <2> HIDE DEF S
  <2>3. Serves(w, v, d)
    BY <1>3, <1>6, <2>1, OutServes
  <2> QED BY <2>2, <2>3
<1>9. s.wp # NoItem => Serves(w, [w EXCEPT !.out = StepMsg(s)], d)
  <2> SUFFICES ASSUME s.wp # NoItem PROVE Serves(w, [w EXCEPT !.out = StepMsg(s)], d)
    OBVIOUS
  <2> DEFINE m == StepMsg(s)
             v == [w EXCEPT !.s = s, !.out = m]
  <2>1. m \in ReplyType /\ m.op \in StepKinds /\ m.item = s.wp
    BY <1>2, StepMsgFields DEF SessionOK
  <2> HIDE DEF m
  <2>2. [w EXCEPT !.out = m] = v
    BY <1>3 DEF WorldType
  <2>3. ReplyOK(m, d, w.queue) /\ m.op \notin {"204", "InformResponse"}
    BY <1>2, <2>1, NoItemIsNoItem DEF ReplyOK, SessionOK, StepKinds
  <2>4. Serves(w, v, d)
    BY <1>2, <1>3, <2>1, <2>3, TrimsItself, OutServes
  <2> QED BY <2>2, <2>4 DEF m
<1>10. s.cur # NoItem => Serves(w, Dispatch(w, s.cur), d)
  BY <1>3, AgainServes
<1>11. Serves(w, DispatchNextOrClose(w), d)
  BY <1>3, DispatchServes
<1>12. ASSUME Finish(d, o, [w EXCEPT !.s.state = "done", !.out = Close], obj,
                     [sessions EXCEPT ![SidOf[d]] = NoObj], bySerial)
       PROVE  IInv' /\ Moved
  <2> DEFINE index == [sessions EXCEPT ![SidOf[d]] = NoObj]
             S == [s EXCEPT !.state = "done"]
             v == [w EXCEPT !.s = S, !.out = Close]
  <2>1. S \in SessionType /\ Trims(s, S)
    BY <1>2, ZenonT(40) DEF SessionType, Trims, SessionOK
  <2>2. [w EXCEPT !.s.state = "done", !.out = Close] = v
    BY <1>3 DEF WorldType
  <2> HIDE DEF S
  <2>3. v \in WorldType /\ v.s = S /\ v.queue = w.queue /\ v.transfers = w.transfers /\ v.out = Close
    BY <1>3, <2>1, CloseIsReply DEF WorldType
  <2>4. Finish(d, o, v, obj, index, bySerial)
    BY <1>12, <2>2
  <2> HIDE DEF v
  <2>5. WorldOK(v, d)
    BY <1>3, <2>1, <2>3, TrimOK
  <2>6. /\ sessions \in [Sid -> Obj \cup {NoObj}] /\ bySerial \in [Device -> Obj \cup {NoObj}]
        /\ obj \in [Obj -> SessionType] /\ Routed /\ SidOf \in [Device -> Sid]
    BY DeviceAssumption DEF IInv, TypeOK
  <2>7. /\ index \in [Sid -> Obj \cup {NoObj}] /\ index[SidOf[d]] = NoObj
        /\ \A i \in Sid : i # SidOf[d] => index[i] = sessions[i]
    BY <2>6
  <2> HIDE DEF index
  <2>8. \A e \in Device : e # d => index[SidOf[e]] = sessions[SidOf[e]]
    BY <2>6, <2>7 DEF OwnIds
  <2>9. \A i \in Sid : (\A e \in Device : SidOf[e] # i) => index[i] = NoObj
    BY <2>6, <2>7 DEF Routed, NoStraySession
  <2>10. /\ ReplyOK(v.out, d, v.queue) /\ v.out \in ReplyType /\ v.out = Close
         /\ v.out.op \in {"204", "InformResponse"} => v.out.via = NoObj
    BY <2>3, CloseIsReply DEF Close, Msg
  <2>11. Others(queue, v.queue, d)
    BY <1>3, <2>3 DEF Others
  <2>12. IInv'
    BY <1>1, <1>2, <1>4, <2>4, <2>5, <2>6, <2>7, <2>8, <2>9, <2>10, <2>11, FinishOK
  <2>13. queue' = queue
    BY <1>3, <2>3, <2>4 DEF Finish
  <2> QED BY <2>12, <2>13, QueueStays
<1>13. \/ Serve(d, o, [w EXCEPT !.out = names])
       \/ Serve(d, o, [w EXCEPT !.s.phase = 4, !.out = values])
       \/ s.wp # NoItem /\ Serve(d, o, [w EXCEPT !.out = StepMsg(s)])
       \/ s.cur # NoItem /\ Serve(d, o, Dispatch(w, s.cur))
       \/ Serve(d, o, DispatchNextOrClose(w))
       \/ Finish(d, o, [w EXCEPT !.s.state = "done", !.out = Close], obj,
                 [sessions EXCEPT ![SidOf[d]] = NoObj], bySerial)
  BY DEF EmptyPost, o, s, w, names, values
<1> QED BY <1>5, <1>7, <1>8, <1>9, <1>10, <1>11, <1>12, <1>13

\* The session and the world an answer of d is handled in.
LEMMA AnswerFacts ==
    ASSUME IInv, NEW d \in Device, conn[d].op \notin {"204", "InformResponse"}
    PROVE  /\ conn[d] # Close /\ ByRpc(d) = ByCookie(d)
           /\ obj[ByRpc(d)] \in SessionType /\ SessionOK(obj[ByRpc(d)], d, queue)
           /\ WorldOK(World(obj[ByRpc(d)]), d) /\ World(obj[ByRpc(d)]).queue = queue
           /\ WorldOK(Answered(d), d) /\ Answered(d).queue = queue
           /\ Answered(d).s = obj[ByRpc(d)]
           /\ conn[d].item \in Mine(d) \cup {Summon} /\ conn[d].step \in Nat
<1> DEFINE s == obj[ByRpc(d)]
           w == World(s)
           A == w.applied \cup {<<conn[d].item, conn[d].step>>}
           v == [w EXCEPT !.applied = A]
<1>1. conn[d] # Close
  BY DEF Close, Msg
<1>2. /\ ByRpc(d) = ByCookie(d) /\ ByRpc(d) \in Obj
      /\ ByRpc(d) \in Reach(d) \/ ByRpc(d) \notin Reached
  BY <1>1, CookieFacts
<1>3. s \in SessionType /\ SessionOK(s, d, queue)
  BY <1>2, OwnSession
<1> HIDE DEF s
<1>4. WorldOK(w, d) /\ w.s = s /\ w.queue = queue /\ w \in WorldType
  BY <1>3, WorldIsOK DEF WorldOK
<1>5. conn[d].item \in Mine(d) \cup {Summon} /\ conn[d].step \in Nat
  BY DEF IInv, TypeOK, StoreOK, ReplyOK, ReplyType
<1>6. Answered(d) = IF conn[d].item = Summon THEN w ELSE v
  BY DEF Answered, s
<1> HIDE DEF w
<1>7. CASE conn[d].item = Summon
  BY <1>1, <1>2, <1>3, <1>4, <1>5, <1>6, <1>7 DEF s, w
<1>8. CASE conn[d].item # Summon
  <2>1. A \in SUBSET (Item \X Nat)
    BY <1>4, <1>5, <1>8, OwnItems DEF WorldType
  <2> HIDE DEF A
  <2>2. v \in WorldType /\ v.s = w.s /\ v.queue = w.queue /\ v.transfers = w.transfers
    BY <1>4, <2>1 DEF WorldType
  <2> HIDE DEF v
  <2>3. WorldOK(v, d)
    BY <1>4, <2>2 DEF WorldOK
  <2> QED BY <1>1, <1>2, <1>3, <1>4, <1>5, <1>6, <1>8, <2>2, <2>3 DEF s, w
<1> QED BY <1>7, <1>8

LEMMA AnswerOK ==
    ASSUME IInv, OwnIds, NEW d \in Device, Answer(d)
    PROVE  IInv' /\ Moved
<1>1. conn[d].op \notin {"204", "InformResponse"}
  BY DEF Answer, SetParamValuesOk, AddObjectOk, DeleteObjectOk, GetParamNamesOk,
         GetParamValuesOk, RebootOk, DownloadOk, DownloadAccepted, Holds
<1>2. /\ conn[d] # Close /\ ByRpc(d) = ByCookie(d)
      /\ WorldOK(World(obj[ByRpc(d)]), d) /\ World(obj[ByRpc(d)]).queue = queue
      /\ WorldOK(Answered(d), d) /\ Answered(d).queue = queue
  BY <1>1, AnswerFacts
<1>3. UNCHANGED <<full, spent>>
  BY DEF Answer, SetParamValuesOk, AddObjectOk, DeleteObjectOk, GetParamNamesOk,
         GetParamValuesOk, RebootOk, DownloadOk, DownloadAccepted
<1>4. /\ full' \in SUBSET Device
      /\ spent' \in [drops : 0..MaxDrops, faults : 0..MaxFaults,
                     triggers : 0..MaxTriggers, restarts : 0..MaxRestarts]
  BY <1>3, SpentType DEF IInv
<1>5. ASSUME NEW w0, w0.queue = queue, NEW w, Serves(w0, w, d), Serve(d, ByRpc(d), w)
      PROVE  IInv' /\ Moved
  BY <1>2, <1>4, <1>5, ServeOK
<1>6. CASE SetParamValuesOk(d)
  BY <1>2, <1>5, <1>6, SetParamValuesOK DEF SetParamValuesOk
<1>7. CASE AddObjectOk(d)
  BY <1>2, <1>5, <1>7, AddObjectOK DEF AddObjectOk
<1>8. CASE DeleteObjectOk(d)
  BY <1>2, <1>5, <1>8, DeleteObjectOK DEF DeleteObjectOk
<1>9. CASE GetParamNamesOk(d)
  BY <1>2, <1>5, <1>9, GetParamNamesOK DEF GetParamNamesOk
<1>10. CASE \E a, b \in BOOLEAN : GetParamValuesOk(d, a, b)
  BY <1>2, <1>5, <1>10, GetParamValuesOK DEF GetParamValuesOk
<1>11. CASE RebootOk(d)
  BY <1>2, <1>5, <1>11, TaskResponseOK DEF RebootOk, Terminal
<1>12. ASSUME Holds(d, "Download")
       PROVE  conn[d].item \in Task /\ Kind[conn[d].item] = "firmware"
              /\ Settled(queue, conn[d].item)
  BY <1>12 DEF IInv, StoreOK, ReplyOK, Holds
<1>13. CASE DownloadOk(d)
  <2>1. /\ Holds(d, "Download")
        /\ Serve(d, ByRpc(d), DownloadResponse(Answered(d), conn[d].item, 0))
    BY <1>13 DEF DownloadOk
  <2>2. Serves(Answered(d), DownloadResponse(Answered(d), conn[d].item, 0), d)
    BY <1>2, <1>12, <2>1, DownloadOK
  <2> QED BY <1>2, <1>5, <2>1, <2>2
<1>14. CASE DownloadAccepted(d)
  <2> DEFINE w == World(obj[ByRpc(d)])
  <2>1. Holds(d, "Download") /\ Serve(d, ByRpc(d), DownloadResponse(w, conn[d].item, 1))
    BY <1>14 DEF DownloadAccepted
  <2>2. WorldOK(w, d) /\ w.queue = queue
    BY <1>2
  <2> HIDE DEF w
  <2>3. Serves(w, DownloadResponse(w, conn[d].item, 1), d)
    BY <1>12, <2>1, <2>2, DownloadOK
  <2> QED BY <1>5, <2>1, <2>2, <2>3
<1> QED BY <1>6, <1>7, <1>8, <1>9, <1>10, <1>11, <1>13, <1>14 DEF Answer

LEMMA FaultOK ==
    ASSUME IInv, OwnIds, NEW d \in Device, Fault(d)
    PROVE  IInv' /\ Moved
<1> DEFINE s == obj[ByRpc(d)]
           S == [ProvisionDropped(s) EXCEPT !.follow = NoItem]
           w == World(S)
<1>1. conn[d].op \notin {"204", "InformResponse"} /\ Serve(d, ByRpc(d), TaskResponse(w, "failed"))
  BY DEF Fault
<1>2. conn[d] # Close /\ ByRpc(d) = ByCookie(d) /\ s \in SessionType /\ SessionOK(s, d, queue)
  BY <1>1, AnswerFacts
<1> HIDE DEF s
<1>3. S \in SessionType /\ Trims(s, S)
  <2> DEFINE P == ProvisionDropped(s)
  <2>1. /\ P \in SessionType /\ P.wp = NoItem /\ P.pend = s.pend /\ P.dev = s.dev
        /\ P.cur = s.cur /\ P.follow = s.follow /\ P.mark = s.mark /\ P.creds = s.creds
    BY <1>2, DroppedFields
  <2> HIDE DEF P
  <2>2. [P EXCEPT !.follow = NoItem] \in SessionType
    BY <2>1, ZenonT(40) DEF SessionType
  <2>3. Trims(s, [P EXCEPT !.follow = NoItem])
    BY <2>1 DEF SessionType, Trims
  <2> QED BY <2>2, <2>3 DEF P
<1> HIDE DEF S
<1>4. WorldOK(World(s), d) /\ World(s).s = s /\ World(s).queue = queue
  BY <1>2, WorldIsOK
<1>5. w \in WorldType /\ w.s = S /\ w.queue = queue /\ w.transfers = World(s).transfers
  BY <1>3 DEF World, WorldType, IInv, TypeOK
<1> HIDE DEF w
<1>6. WorldOK(w, d)
  BY <1>3, <1>4, <1>5, TrimOK
<1>7. Serves(w, TaskResponse(w, "failed"), d)
  BY <1>6, TaskResponseOK DEF Terminal
<1>8. /\ full' \in SUBSET Device
      /\ spent' \in [drops : 0..MaxDrops, faults : 0..MaxFaults,
                     triggers : 0..MaxTriggers, restarts : 0..MaxRestarts]
  BY SpentType DEF Fault, IInv
<1> QED BY <1>1, <1>2, <1>5, <1>7, <1>8, ServeOK

-----------------------------------------------------------------------------
(* Inform                                                                  *)

LEMMA InformObjFacts ==
    ASSUME IInv, NEW d \in Device
    PROVE  /\ InformObj(d) \in Obj /\ InformObj(d) # NoObj
           /\ InformObj(d) \in Reach(d) \/ InformObj(d) \notin Reached
           /\ bySerial[d] # NoObj => bySerial[d] \in Obj /\ bySerial[d] \in Reach(d)
<1>1. TypeOK
  BY DEF IInv
<1>2. NewObj \in Obj /\ NewObj \notin Reached /\ NewObj # NoObj
  BY <1>1, NewObjIsNew
<1>3. bySerial[d] \in Obj \cup {NoObj}
  BY <1>1 DEF TypeOK
<1> QED BY <1>2, <1>3, CookieFacts DEF InformObj, Reach

\* The session takes the Inform's serial and event.
Bound(s, d, boot) == [s EXCEPT !.dev = d, !.boot = boot]
Adopting(s, p, a) == a \in {s, Adopt(s, p)}

LEMMA AdoptFields ==
    ASSUME NEW s \in SessionType, NEW p \in SessionType
    PROVE  /\ Adopt(s, p) \in SessionType /\ Adopt(s, p).pend = s.pend
           /\ Adopt(s, p).phase = s.phase
           /\ Adopt(s, p).mark => s.mark \/ p.mark
           /\ \/ Adopt(s, p) = s
              \/ /\ Adopt(s, p).cur = p.cur /\ Adopt(s, p).wp = p.wp
                 /\ Adopt(s, p).step = p.step /\ Adopt(s, p).follow = p.follow
                 /\ Adopt(s, p).creds \in {s.creds, p.creds}
<1>1. CASE s.cur # NoItem
  BY <1>1 DEF Adopt
<1>2. CASE s.cur = NoItem
  <2> DEFINE mark == s.mark \/ p.mark
             creds == IF p.creds = NoItem THEN s.creds ELSE p.creds
             a == [s EXCEPT !.cur = p.cur, !.wp = p.wp, !.step = p.step,
                            !.follow = p.follow, !.mark = mark, !.creds = creds]
  <2>1. /\ mark \in BOOLEAN /\ (mark => s.mark \/ p.mark)
        /\ creds \in Task \cup {NoItem} /\ creds \in {s.creds, p.creds}
    BY DEF SessionType
  <2>2. Adopt(s, p) = a
    BY <1>2 DEF Adopt, SessionType
  <2> HIDE DEF mark, creds
  <2>3. /\ p.cur \in Item \cup {NoItem} /\ p.wp \in Task \cup {NoItem}
        /\ p.step \in 0 .. Len(WanSteps) /\ p.follow \in Task \cup {NoItem}
    BY DEF SessionType
  <2>4. s \in SessionType
    OBVIOUS
  <2>5. a \in SessionType
    BY ONLY <2>1, <2>3, <2>4, ZenonT(40) DEF SessionType
  <2>6. /\ a.pend = s.pend /\ a.cur = p.cur /\ a.wp = p.wp
        /\ a.step = p.step /\ a.follow = p.follow /\ a.creds = creds
        /\ a.phase = s.phase /\ a.mark = mark
    BY ONLY <2>4 DEF SessionType
  <2> HIDE DEF a
  <2> QED BY <2>1, <2>2, <2>5, <2>6
<1> QED BY <1>1, <1>2

\* What is adopted is of the same device and has been sent before.
LEMMA AdoptOK ==
    ASSUME NEW d \in Device, NEW q, NEW s \in SessionType, SessionOK(s, d, q),
           NEW p \in SessionType, SessionOK(p, d, q), NEW boot \in BOOLEAN,
           NEW a, Adopting(s, p, a), NEW t, t = Bound(a, d, boot)
    PROVE  t \in SessionType /\ SessionOK(t, d, q) /\ t.dev = d /\ t.pend = s.pend
<1>1. Adopt(s, p) \in SessionType /\ a \in SessionType
  BY AdoptFields DEF Adopting
<1>2. \/ /\ a.cur = s.cur /\ a.wp = s.wp /\ a.step = s.step /\ a.follow = s.follow
         /\ a.creds = s.creds
      \/ /\ a.cur = p.cur /\ a.wp = p.wp /\ a.step = p.step /\ a.follow = p.follow
         /\ a.creds \in {s.creds, p.creds}
  BY AdoptFields DEF Adopting
<1>3. a.pend = s.pend
  BY AdoptFields DEF Adopting
<1>4. /\ t \in SessionType /\ t.dev = d /\ t.pend = a.pend /\ t.cur = a.cur /\ t.wp = a.wp
      /\ t.step = a.step /\ t.follow = a.follow /\ t.creds = a.creds /\ t.mark = a.mark
  BY <1>1, ZenonT(40) DEF SessionType, Bound
<1>5. CurrentOK(t, q)
  BY <1>2, <1>4 DEF SessionOK, CurrentOK
<1>6. CollectsOK(t, q)
  BY <1>2, <1>3, <1>4 DEF SessionOK, CollectsOK
<1>7. AheadOK(t, d, q)
  BY <1>3, <1>4 DEF SessionOK, AheadOK
<1>8. {t.cur, t.wp, t.follow, t.creds} \subseteq Mine(d) \cup {NoItem}
      /\ (t.wp # NoItem => t.step >= 1)
  BY <1>2, <1>4 DEF SessionOK
<1>9. t.pend \in Seq(Mine(d))
  BY <1>3, <1>4 DEF SessionOK
<1> QED BY <1>3, <1>4, <1>5, <1>6, <1>7, <1>8, <1>9 DEF SessionOK

LEMMA OpenedOK ==
    ASSUME IInv, NEW d \in Device, NEW event
    PROVE  /\ Opened(d, event) \in SessionType
           /\ SessionOK(Opened(d, event), d, queue)
           /\ Opened(d, event).dev = d
<1> DEFINE s == obj[InformObj(d)]
           p == obj[bySerial[d]]
           boot == event = "bootstrap"
           a == IF Adopts(d) THEN Adopt(s, p) ELSE s
           t == Bound(a, d, boot)
<1>1. s \in SessionType /\ SessionOK(s, d, queue)
  BY InformObjFacts, OwnSession
<1>2. Opened(d, event) = t
  BY DEF Opened, Bound
<1>3. boot \in BOOLEAN
  OBVIOUS
<1>4. CASE Adopts(d)
  <2>1. p \in SessionType /\ SessionOK(p, d, queue)
    BY <1>4, InformObjFacts, OwnSession DEF Adopts
  <2>2. Adopting(s, p, a)
    BY DEF Adopting
  <2>3. t = Bound(a, d, boot)
    OBVIOUS
  <2> HIDE DEF a, s, p, boot, t
  <2>4. t \in SessionType /\ SessionOK(t, d, queue) /\ t.dev = d
    BY <1>1, <1>3, <2>1, <2>2, <2>3, AdoptOK
  <2> QED BY <1>2, <2>4
<1>5. CASE ~Adopts(d)
  <2>1. Adopting(s, s, a) /\ t = Bound(a, d, boot)
    BY <1>5 DEF Adopting
  <2> HIDE DEF a, s, boot, t
  <2>2. t \in SessionType /\ SessionOK(t, d, queue) /\ t.dev = d
    BY <1>1, <1>3, <2>1, AdoptOK
  <2> QED BY <1>2, <2>2
<1> QED BY <1>4, <1>5

\* The maps after an Inform: the device's entries lead to its session only.
KeptIndex(d) ==
    [s \in Sid |-> IF Adopts(d) /\ sessions[s] = bySerial[d] THEN NoObj ELSE sessions[s]]
NewIndex(d) == [KeptIndex(d) EXCEPT ![SidOf[d]] = InformObj(d)]
NewSerial(d) == [bySerial EXCEPT ![d] = InformObj(d)]
NewObjs(d) ==
    [p \in Obj |-> IF Adopts(d) /\ p = bySerial[d] THEN Emptied(obj[p]) ELSE obj[p]]

LEMMA FinishInformIs ==
    \A d, w : FinishInform(d, w)
                <=> Finish(d, InformObj(d), w, NewObjs(d), NewIndex(d), NewSerial(d))
BY DEF FinishInform, NewObjs, NewIndex, NewSerial, KeptIndex

LEMMA InformMaps ==
    ASSUME IInv, OwnIds, NEW d \in Device,
           NEW o, o = InformObj(d), NEW objs, objs = NewObjs(d),
           NEW index, index = NewIndex(d), NEW serial, serial = NewSerial(d)
    PROVE  /\ o \in Obj /\ objs \in [Obj -> SessionType]
           /\ index \in [Sid -> Obj \cup {NoObj}] /\ index[SidOf[d]] = o
           /\ serial \in [Device -> Obj \cup {NoObj}] /\ serial[d] = o
           /\ \A e \in Device : e # d =>
                 /\ o \notin Reach(e)
                 /\ index[SidOf[e]] = sessions[SidOf[e]] /\ serial[e] = bySerial[e]
                 /\ \A p \in Reach(e) : objs[p] = obj[p]
           /\ \A i \in Sid : (\A e \in Device : SidOf[e] # i) => index[i] = NoObj
<1> DEFINE prev == bySerial[d]
           kept == KeptIndex(d)
<1>1. /\ o \in Obj /\ o # NoObj /\ (o \in Reach(d) \/ o \notin Reached)
      /\ prev # NoObj => prev \in Reach(d)
  BY InformObjFacts
<1>2. /\ sessions \in [Sid -> Obj \cup {NoObj}] /\ bySerial \in [Device -> Obj \cup {NoObj}]
      /\ obj \in [Obj -> SessionType] /\ Routed /\ SidOf \in [Device -> Sid]
  BY DeviceAssumption DEF IInv, TypeOK
<1>3. \A p \in SessionType : Emptied(p) \in SessionType
  BY FirstStep, ZenonT(40) DEF Emptied, SessionType
<1>4. objs \in [Obj -> SessionType]
  BY <1>2, <1>3 DEF NewObjs
<1>5. /\ kept \in [Sid -> Obj \cup {NoObj}]
      /\ \A i \in Sid : kept[i] \in {sessions[i], NoObj}
      /\ \A i \in Sid : ~(Adopts(d) /\ sessions[i] = prev) => kept[i] = sessions[i]
  BY <1>2 DEF KeptIndex
<1>6. /\ index \in [Sid -> Obj \cup {NoObj}] /\ index[SidOf[d]] = o
      /\ \A i \in Sid : i # SidOf[d] => index[i] = kept[i]
  <2> HIDE DEF kept
  <2> QED BY <1>1, <1>2, <1>5 DEF NewIndex, kept
<1>7. /\ serial \in [Device -> Obj \cup {NoObj}] /\ serial[d] = o
      /\ \A e \in Device : e # d => serial[e] = bySerial[e]
  BY <1>1, <1>2 DEF NewSerial
<1>8. Adopts(d) => prev # NoObj
  BY DEF Adopts
<1>9. ASSUME NEW e \in Device, e # d
      PROVE  /\ o \notin Reach(e) /\ index[SidOf[e]] = sessions[SidOf[e]]
             /\ \A p \in Reach(e) : objs[p] = obj[p]
  <2>1. o \notin Reach(e)
    BY <1>1, <1>9, OwnSession
  <2>2. SidOf[e] # SidOf[d] /\ SidOf[e] \in Sid
    BY <1>2, <1>9 DEF OwnIds
  <2>3. Reach(e) \cap Reach(d) = {} /\ Reach(e) \subseteq Obj
    BY <1>2, <1>9, ReachFacts DEF Routed, SessionsApart, IInv
  <2>4. \A p \in Reach(e) : ~(Adopts(d) /\ p = prev)
    BY <1>1, <1>8, <2>3
  <2>5. sessions[SidOf[e]] # NoObj => sessions[SidOf[e]] \in Reach(e)
    BY DEF Reach
  <2>6. kept[SidOf[e]] = sessions[SidOf[e]]
    BY <1>5, <1>8, <2>2, <2>4, <2>5
  <2>7. \A p \in Reach(e) : objs[p] = obj[p]
    BY <2>3, <2>4 DEF NewObjs
  <2> QED BY <1>6, <2>1, <2>2, <2>6, <2>7
<1>10. ASSUME NEW i \in Sid, \A e \in Device : SidOf[e] # i PROVE index[i] = NoObj
  <2>1. sessions[i] = NoObj /\ i # SidOf[d]
    BY <1>2, <1>10 DEF Routed, NoStraySession
  <2> QED BY <1>5, <1>6, <2>1
<1> QED BY <1>1, <1>4, <1>6, <1>7, <1>9, <1>10

\* The end of every Inform.
LEMMA FinishInformOK ==
    ASSUME IInv, OwnIds, NEW d \in Device, NEW w, FinishInform(d, w),
           WorldOK(w, d), ReplyOK(w.out, d, w.queue), w.out \in ReplyType,
           w.out.op \in {"204", "InformResponse"} => w.out.via = NoObj,
           Moves(queue, w.queue, d),
           full' \in SUBSET Device,
           spent' \in [drops : 0..MaxDrops, faults : 0..MaxFaults,
                       triggers : 0..MaxTriggers, restarts : 0..MaxRestarts]
    PROVE  IInv' /\ Moved
<1> DEFINE o == InformObj(d)
           objs == NewObjs(d)
           index == NewIndex(d)
           serial == NewSerial(d)
<1>1. Finish(d, o, w, objs, index, serial)
  BY FinishInformIs
<1>2. /\ o \in Obj /\ objs \in [Obj -> SessionType]
      /\ index \in [Sid -> Obj \cup {NoObj}] /\ index[SidOf[d]] = o
      /\ serial \in [Device -> Obj \cup {NoObj}] /\ serial[d] = o
      /\ \A e \in Device : e # d =>
            /\ o \notin Reach(e)
            /\ index[SidOf[e]] = sessions[SidOf[e]] /\ serial[e] = bySerial[e]
            /\ \A p \in Reach(e) : objs[p] = obj[p]
      /\ \A i \in Sid : (\A e \in Device : SidOf[e] # i) => index[i] = NoObj
  BY InformMaps
<1> HIDE DEF o, objs, index, serial
<1>3. Others(queue, w.queue, d)
  BY DEF Moves
<1>4. IInv'
  BY <1>1, <1>2, <1>3, FinishOK
<1>5. queue' = w.queue /\ w.queue \in QueueType
  BY <1>1, WorldParts DEF Finish
<1>6. Moved
  BY <1>5, MovesIsMoved
<1> QED BY <1>4, <1>6

\* The results to collect are those of diagnostics that were sent.
LEMMA CollectsFacts ==
    ASSUME IInv, NEW d \in Device
    PROVE  /\ Collects(d) \in Seq(Mine(d)) /\ Keep(Collects(d), Task) = <<>>
           /\ \A t \in Diagnostics : Collect(t) \in Range(Collects(d)) => Settled(queue, t)
<1> DEFINE S == {t \in Diagnostics : queue.status[t] = "executing"}
           q == queue.fifo[d]
           found == Keep(q, S)
           C == [k \in DOMAIN found |-> Collect(found[k])]
<1>1. q \in Seq(Own(d))
  BY DEF IInv, StoreOK, FifosOK, FifoOK
<1> HIDE DEF q
<1>2. found \in Seq(Own(d)) /\ Range(found) = Range(q) \cap S
  BY <1>1, KeepType, KeepIsList
<1>3. \A k \in DOMAIN found : found[k] \in Own(d) \cap S
  <2> SUFFICES ASSUME NEW k \in DOMAIN found PROVE found[k] \in Own(d) \cap S
    OBVIOUS
  <2>1. found[k] \in Range(found)
    BY DEF Range
  <2>2. Range(q) \subseteq Own(d)
    BY <1>1, RangeOfSeq
  <2> QED BY <1>2, <2>1, <2>2
<1>4. DOMAIN found = 1 .. Len(found) /\ Len(found) \in Nat
  BY <1>2, LenProperties
<1>5. S \subseteq Diagnostics
  OBVIOUS
<1> HIDE DEF found
<1>6. \A k \in DOMAIN found : Collect(found[k]) \in Mine(d) /\ Collect(found[k]) \notin Task
  BY <1>3, <1>5, CollectItems DEF Own
<1>7. C \in Seq(Mine(d))
  <2>1. C \in [1 .. Len(found) -> Mine(d)]
    BY <1>4, <1>6
  <2> HIDE DEF C
  <2> QED BY <1>4, <2>1
<1>8. Collects(d) = C
  BY DEF Collects, found, q, S
<1>9. ASSUME NEW i \in Range(C) PROVE i \notin Task /\ \E t \in S : i = Collect(t)
  BY <1>3, <1>6, <1>9 DEF Range
<1> HIDE DEF C
<1>10. Keep(C, Task) = <<>>
  BY <1>7, <1>9, KeepNone
<1>11. ASSUME NEW t \in Diagnostics, Collect(t) \in Range(C) PROVE Settled(queue, t)
  <2>1. PICK u \in S : Collect(t) = Collect(u)
    BY <1>9, <1>11
  <2>2. t = u
    BY <2>1, CollectItems
  <2> QED BY <2>2 DEF Settled
<1> QED BY <1>7, <1>8, <1>10, <1>11

LEMMA TasksFacts ==
    ASSUME IInv, NEW d \in Device, NEW s, NEW event
    PROVE  /\ Tasks(s, d, event) \in Seq(Mine(d)) /\ Tasks(s, d, event) \in Seq(Item)
           /\ \A t \in Diagnostics :
                 Collect(t) \in Range(Tasks(s, d, event)) => Settled(queue, t)
           /\ Keep(Tasks(s, d, event), Task) = Waiting(queue, d)
<1> DEFINE C == IF event = "diagnostics" THEN Collects(d) ELSE <<>>
           W == DequeuePending(d)
           M == Mine(d)
<1>1. M \subseteq Item /\ Own(d) \subseteq M
  BY OwnItems
<1>2. /\ C \in Seq(M) /\ Keep(C, Task) = <<>>
      /\ \A t \in Diagnostics : Collect(t) \in Range(C) => Settled(queue, t)
  <2>1. CASE event = "diagnostics"
    BY <2>1, CollectsFacts
  <2>2. CASE event # "diagnostics"
    <3>1. C = <<>>
      BY <2>2
    <3>2. <<>> \in Seq(M) /\ Keep(<<>>, Task) = <<>> /\ Range(<<>>) = {}
      BY KeepEmpty, RangeEmpty
    <3> HIDE DEF C
    <3> QED BY <3>1, <3>2
  <2> QED BY <2>1, <2>2
<1>3. FifoOK(queue, d) /\ queue \in QueueType
  BY DEF IInv, StoreOK, FifosOK, TypeOK
<1>4. W = Waiting(queue, d)
  BY DEF DequeuePending, Waiting, Pending
<1>5. W \in Seq(Own(d)) /\ W \in Seq(Task)
  BY <1>3, <1>4, WaitingFacts
<1> HIDE DEF W, C
<1>6. W \in Seq(M) /\ Range(W) \subseteq Own(d) /\ Own(d) \subseteq Task
  BY <1>1, <1>5, SeqMonotonic, RangeOfSeq, OwnItems
<1> HIDE DEF M
<1>7. Keep(W, Task) = W
  BY <1>5, <1>6, KeepAll
<1>8. C \o W \in Seq(M) /\ Range(C \o W) = Range(C) \cup Range(W)
  BY <1>2, <1>6, ConcatProperties, RangeConcatenation
<1>9. C \o W \in Seq(Item)
  BY <1>1, <1>8, SeqMonotonic
<1>10. Keep(C \o W, Task) = W
  <2>1. Keep(C \o W, Task) = Keep(C, Task) \o Keep(W, Task)
    <3>1. C \in Seq(M) /\ W \in Seq(M)
      BY <1>2, <1>6
    <3> QED BY ONLY <3>1, KeepConcat
  <2>2. <<>> \o W = W
    BY <1>6, ConcatEmptySeq
  <2> QED BY <1>2, <1>7, <2>1, <2>2
<1>11. ASSUME NEW t \in Diagnostics, Collect(t) \in Range(C \o W) PROVE Settled(queue, t)
  <2>1. Collect(t) \notin Range(W)
    BY <1>6, CollectItems
  <2> QED BY <1>2, <1>8, <1>11, <2>1
<1>12. Tasks(s, d, event) = C \o W
  BY DEF Tasks, C, W
<1> QED BY <1>4, <1>8, <1>9, <1>10, <1>11, <1>12 DEF M

LEMMA ScheduleFacts ==
    ASSUME NEW s \in SessionType, NEW d \in Device
    PROVE  /\ ScheduleSummon(s, d) \in SessionType
           /\ ScheduleSummon(s, d).dev = s.dev /\ ScheduleSummon(s, d).cur = s.cur
           /\ ScheduleSummon(s, d).wp = s.wp /\ ScheduleSummon(s, d).step = s.step
           /\ ScheduleSummon(s, d).follow = s.follow /\ ScheduleSummon(s, d).mark = s.mark
           /\ ScheduleSummon(s, d).creds = s.creds
           /\ ScheduleSummon(s, d).phase \in {3, s.phase}
<1> DEFINE Like(t) == /\ t \in SessionType /\ t.phase \in {3, s.phase}
                      /\ t.dev = s.dev /\ t.cur = s.cur /\ t.wp = s.wp /\ t.step = s.step
                      /\ t.follow = s.follow /\ t.mark = s.mark /\ t.creds = s.creds
<1>1. ASSUME NEW m \in {"ui_refresh", "task_discovery"}
      PROVE  Like([s EXCEPT !.phase = 3, !.mode = m])
  <2>1. 3 \in 0 .. 4
    OBVIOUS
  <2>2. [s EXCEPT !.phase = 3, !.mode = m] \in SessionType
    BY <2>1 DEF SessionType
  <2> QED BY <2>2 DEF SessionType
<1>2. Like(s)
  OBVIOUS
<1> HIDE DEF Like
<1>3. Like(ScheduleSummon(s, d))
  BY <1>1, <1>2 DEF ScheduleSummon
<1> QED BY <1>3 DEF Like

\* The session an Inform leaves has read the tasks that wait.
ReadIn(o, d, event) ==
    [ScheduleSummon(o, d) EXCEPT
        !.pend = Tasks(o, d, event), !.state = "processing",
        !.needs = @ \/ event = "bootstrap" \/ d \notin db.provisioned]

LEMMA ReadFields ==
    ASSUME IInv, NEW d \in Device, NEW event, NEW o \in SessionType,
           NEW s, s = ReadIn(o, d, event)
    PROVE  /\ s \in SessionType /\ s.pend = Tasks(o, d, event) /\ s.dev = o.dev
           /\ s.cur = o.cur /\ s.wp = o.wp /\ s.step = o.step /\ s.follow = o.follow
           /\ s.mark = o.mark /\ s.creds = o.creds /\ s.phase \in {3, o.phase}
<1> DEFINE P == Tasks(o, d, event)
           S == ScheduleSummon(o, d)
           needs == S.needs \/ event = "bootstrap" \/ d \notin db.provisioned
           t == [S EXCEPT !.pend = P, !.state = "processing", !.needs = needs]
<1>1. /\ S \in SessionType
      /\ S.dev = o.dev /\ S.cur = o.cur /\ S.wp = o.wp /\ S.step = o.step
      /\ S.follow = o.follow /\ S.mark = o.mark /\ S.creds = o.creds
      /\ S.phase \in {3, o.phase}
  BY ScheduleFacts
<1>2. P \in Seq(Item)
  BY TasksFacts
<1> HIDE DEF S, P
<1>3. needs \in BOOLEAN
  BY <1>1 DEF SessionType
<1>4. s = t
  BY <1>1 DEF SessionType, S, P, ReadIn
<1> HIDE DEF needs
<1>5. /\ t \in SessionType /\ t.pend = P /\ t.dev = o.dev /\ t.cur = o.cur /\ t.wp = o.wp
      /\ t.step = o.step /\ t.follow = o.follow /\ t.mark = o.mark /\ t.creds = o.creds
      /\ t.phase \in {3, o.phase}
  BY <1>1, <1>2, <1>3, ZenonT(40) DEF SessionType
<1> HIDE DEF t
<1> QED BY <1>4, <1>5 DEF P

LEMMA ReadOK ==
    ASSUME IInv, NEW d \in Device, NEW event,
           NEW o \in SessionType, SessionOK(o, d, queue), o.dev = d,
           NEW s, s = ReadIn(o, d, event)
    PROVE  s \in SessionType /\ SessionOK(s, d, queue) /\ s.dev = d
<1> DEFINE P == Tasks(o, d, event)
<1>1. /\ s \in SessionType /\ s.pend = P /\ s.dev = o.dev /\ s.cur = o.cur /\ s.wp = o.wp
      /\ s.step = o.step /\ s.follow = o.follow /\ s.mark = o.mark /\ s.creds = o.creds
  BY ReadFields
<1>2. /\ P \in Seq(Mine(d))
      /\ \A u \in Diagnostics : Collect(u) \in Range(P) => Settled(queue, u)
      /\ Keep(P, Task) = Waiting(queue, d)
  BY TasksFacts
<1> HIDE DEF P
<1>3. AheadOK(s, d, queue)
  <2> DEFINE W == Waiting(queue, d)
  <2>1. W \in Seq(Task)
    BY KeepIsList DEF Waiting, QueueType, IInv, TypeOK
  <2> HIDE DEF W
  <2>2. W = W \o <<>> /\ <<>> \in Seq(Task)
    BY <2>1, ConcatEmptySeq
  <2>3. Waiting(queue, d) = Keep(s.pend, Task) \o <<>>
    BY <1>1, <1>2, <2>2 DEF W
  <2> QED BY <2>2, <2>3 DEF AheadOK
<1>4. CurrentOK(s, queue)
  BY <1>1 DEF SessionOK, CurrentOK
<1>5. CollectsOK(s, queue)
  BY <1>1, <1>2 DEF SessionOK, CollectsOK
<1>6. SessionOK(s, d, queue)
  BY <1>1, <1>2, <1>3, <1>4, <1>5 DEF SessionOK
<1> QED BY <1>1, <1>6

LEMMA InformOK ==
    ASSUME IInv, OwnIds, NEW d \in Device, NEW event, NEW differs, Inform(d, event, differs)
    PROVE  IInv' /\ Moved
<1> DEFINE o == Opened(d, event)
           s == ReadIn(o, d, event)
           F == fresh \cup {d}
           w == [World(s) EXCEPT !.fresh = F, !.out = Ack]
           v == InjectGlobalDefaults(w, d, differs)
<1>1. o \in SessionType /\ SessionOK(o, d, queue) /\ o.dev = d
  BY OpenedOK
<1>2. FinishInform(d, InjectGlobalDefaults([World(s) EXCEPT !.fresh = @ \cup {d}, !.out = Ack],
                                           d, differs))
      /\ UNCHANGED <<full, spent>>
  BY DEF Inform, ReadIn
<1> HIDE DEF o
<1>3. s \in SessionType /\ SessionOK(s, d, queue) /\ s.dev = d
  BY <1>1, ReadOK
<1> HIDE DEF s
<1>4. [World(s) EXCEPT !.fresh = @ \cup {d}, !.out = Ack] = w
  BY DEF World
<1>5. /\ WorldOK(World(s), d) /\ World(s) \in WorldType /\ World(s).s = s
      /\ World(s).queue = queue /\ World(s).transfers = transfers
  BY <1>3, WorldIsOK DEF WorldOK
<1>6. F \in SUBSET Device
  BY DEF IInv, TypeOK
<1> HIDE DEF F
<1>7. w \in WorldType /\ w.s = s /\ w.queue = queue /\ w.transfers = transfers /\ w.out = Ack
  BY <1>5, <1>6, CloseIsReply DEF WorldType
<1>8. FinishInform(d, InjectGlobalDefaults(w, d, differs))
  BY <1>2, <1>4
<1> HIDE DEF w
<1>9. WorldOK(w, d) /\ w.s.dev = d
  BY <1>3, <1>5, <1>7 DEF WorldOK
<1>10. /\ WorldOK(v, d) /\ v.queue = queue /\ v.out = Ack
  <2>1. Injects(w, InjectGlobalDefaults(w, w.s.dev, differs), d)
    BY <1>9, InjectGlobalOK
  <2> QED BY <1>7, <1>9, <2>1 DEF Injects
<1> HIDE DEF v
<1>11. Moves(queue, v.queue, d)
  BY <1>10, NothingMoves DEF IInv, StoreOK, FifosOK, TypeOK
<1>12. /\ full' \in SUBSET Device
       /\ spent' \in [drops : 0..MaxDrops, faults : 0..MaxFaults,
                      triggers : 0..MaxTriggers, restarts : 0..MaxRestarts]
  BY <1>2, SpentType DEF IInv
<1>13. FinishInform(d, v)
  BY <1>8 DEF v
<1>14. ReplyOK(v.out, d, v.queue) /\ v.out \in ReplyType /\ v.out.via = NoObj
  BY <1>10, CloseIsReply DEF Ack, Msg
<1> QED BY <1>10, <1>11, <1>12, <1>13, <1>14, FinishInformOK

LEMMA InformFullSummonOK ==
    ASSUME IInv, OwnIds, NEW d \in Device, NEW event, InformFullSummon(d, event)
    PROVE  IInv' /\ Moved
<1> DEFINE o == Opened(d, event)
           s == [o EXCEPT !.phase = 1]
           w == World(s)
           v == DispatchNextOrClose(w)
<1>1. FinishInform(d, v) /\ full' = LoadedAndDeleted(full, d) /\ UNCHANGED spent
  BY DEF InformFullSummon
<1>2. o \in SessionType /\ SessionOK(o, d, queue) /\ o.dev = d
  BY OpenedOK
<1> HIDE DEF o
<1>3. s \in SessionType /\ Trims(o, s)
  BY <1>2, SummonEdits, SummonTrims
<1> HIDE DEF s
<1>4. WorldOK(World(o), d) /\ World(o).s = o /\ World(o).queue = queue
  BY <1>2, WorldIsOK
<1>5. w \in WorldType /\ w.s = s /\ w.queue = queue /\ w.transfers = World(o).transfers
  BY <1>3 DEF World, WorldType, IInv, TypeOK
<1> HIDE DEF w
<1>6. WorldOK(w, d)
  BY <1>3, <1>4, <1>5, TrimOK
<1>7. Serves(w, v, d)
  BY <1>6, DispatchServes
<1> HIDE DEF v
<1>8. /\ full' \in SUBSET Device
      /\ spent' \in [drops : 0..MaxDrops, faults : 0..MaxFaults,
                     triggers : 0..MaxTriggers, restarts : 0..MaxRestarts]
  BY <1>1, SpentType DEF IInv, LoadedAndDeleted
<1>9. /\ WorldOK(v, d) /\ ReplyOK(v.out, d, v.queue) /\ v.out \in ReplyType
      /\ v.out.op \in {"204", "InformResponse"} => v.out.via = NoObj
      /\ Moves(queue, v.queue, d)
  BY <1>5, <1>7 DEF Serves, Close, Msg
<1> QED BY <1>1, <1>8, <1>9, FinishInformOK

LEMMA InformRejectedOK ==
    ASSUME IInv, OwnIds, NEW d \in Device, NEW event, InformRejected(d, event)
    PROVE  IInv' /\ Moved
<1> DEFINE o == Opened(d, event)
           v == [World(o) EXCEPT !.out = Close]
<1>1. FinishInform(d, v)
  BY DEF InformRejected
<1>2. o \in SessionType /\ SessionOK(o, d, queue)
  BY OpenedOK
<1> HIDE DEF o
<1>3. WorldOK(World(o), d) /\ World(o).s = o /\ World(o).queue = queue
  BY <1>2, WorldIsOK
<1>4. /\ v \in WorldType /\ v.s = World(o).s /\ v.queue = World(o).queue
      /\ v.transfers = World(o).transfers /\ v.out = Close
  BY <1>3, CloseIsReply DEF WorldType, WorldOK
<1> HIDE DEF v
<1>5. WorldOK(v, d)
  BY <1>3, <1>4 DEF WorldOK
<1>6. Moves(queue, v.queue, d)
  BY <1>3, <1>4, NothingMoves DEF IInv, StoreOK, FifosOK, TypeOK
<1>7. /\ full' \in SUBSET Device
      /\ spent' \in [drops : 0..MaxDrops, faults : 0..MaxFaults,
                     triggers : 0..MaxTriggers, restarts : 0..MaxRestarts]
  BY SpentType DEF InformRejected, IInv
<1>8. ReplyOK(v.out, d, v.queue) /\ v.out \in ReplyType /\ v.out.via = NoObj
  BY <1>4, CloseIsReply DEF Close, Msg
<1> QED BY <1>1, <1>5, <1>6, <1>7, <1>8, FinishInformOK

-----------------------------------------------------------------------------
(* What happens outside a request.                                         *)

LEMMA RoutedStays ==
    ASSUME Routed, UNCHANGED <<sessions, bySerial, conn>>,
           \A o \in Obj : o \notin Reached => obj'[o] = Fresh
    PROVE  Routed' /\ Reached' = Reached /\ \A d \in Device : Reach(d)' = Reach(d)
<1>1. Reached' = Reached /\ \A d \in Device : Reach(d)' = Reach(d)
  BY DEF Reached, Reach
<1>2. UnreachedAreFresh'
  BY <1>1 DEF UnreachedAreFresh, Fresh
<1>3. OneSession' /\ SessionsApart'
  BY <1>1 DEF Routed, OneSession, SessionsApart
<1>4. AnswersFindTheirs' /\ ClosedOrIndexed' /\ NoStraySession'
  BY DEF Routed, AnswersFindTheirs, ClosedOrIndexed, NoStraySession, Close, Msg
<1> QED BY <1>1, <1>2, <1>3, <1>4 DEF Routed

\* What has been sent stays so, and with it what a reply may refer to.
LEMMA LastingKeepsReply ==
    ASSUME NEW q, NEW r, Lasting(q, r), NEW d \in Device, NEW m, ReplyOK(m, d, q)
    PROVE  ReplyOK(m, d, r)
BY DEF Lasting, ReplyOK

LEMMA LastingKeepsDue ==
    ASSUME NEW q, NEW r, Lasting(q, r), NEW S \in SUBSET Task, DueOK(S, q)
    PROVE  DueOK(S, r)
BY DEF Lasting, DueOK

\* A step that leaves sessions and replies alone.
LEMMA StoresOK ==
    ASSUME IInv, UNCHANGED <<sessions, bySerial, conn>>, TypeOK', Lasting(queue, queue'),
           FifosOK(queue'), transfers' \subseteq transfers,
           \A o \in Obj : o \notin Reached => obj'[o] = Fresh,
           \A d \in Device : \A o \in Reach(d) : SessionOK(obj'[o], d, queue')
    PROVE  IInv'
<1>1. Routed /\ StoreOK /\ transfers \in SUBSET Task
  BY DEF IInv, TypeOK
<1>2. Routed' /\ \A d \in Device : Reach(d)' = Reach(d)
  BY <1>1, RoutedStays
<1>3. DueOK(transfers', queue')
  <2>1. DueOK(transfers, queue')
    BY <1>1, LastingKeepsDue DEF StoreOK
  <2> QED BY <2>1 DEF DueOK
<1>4. \A d \in Device : ReplyOK(conn'[d], d, queue')
  BY <1>1, LastingKeepsReply DEF StoreOK
<1>5. StoreOK'
  BY <1>1, <1>2, <1>3, <1>4 DEF StoreOK, FifosOK, FifoOK, Own, DueOK, Settled, ReplyOK, Mine,
                                Close, Msg
<1> QED BY <1>2, <1>5 DEF IInv

\* The other devices' sessions see nothing of a change of d's tasks.
LEMMA OthersSessions ==
    ASSUME IInv, NEW d \in Device, NEW r \in QueueType, Others(queue, r, d),
           \A o \in Reach(d) : SessionOK(obj[o], d, r)
    PROVE  \A e \in Device : \A o \in Reach(e) : SessionOK(obj[o], e, r)
<1> SUFFICES ASSUME NEW e \in Device, NEW o \in Reach(e), e # d PROVE SessionOK(obj[o], e, r)
  OBVIOUS
<1>1. TypeOK /\ Routed /\ StoreOK /\ queue \in QueueType /\ FifoOK(queue, e)
  BY DEF IInv, TypeOK, StoreOK, FifosOK
<1>2. o \in Obj
  BY <1>1, ReachFacts
<1>3. obj[o] \in SessionType /\ SessionOK(obj[o], e, queue)
  BY <1>1, <1>2 DEF StoreOK, TypeOK
<1> QED BY <1>1, <1>3, OthersKeepSession

LEMMA TransferCompleteOK ==
    ASSUME IInv, NEW d \in Device, NEW t \in Task, NEW ok \in BOOLEAN, TransferComplete(d, t, ok)
    PROVE  IInv' /\ Moved
<1> DEFINE st == IF ok THEN "done" ELSE "failed"
           r == UpdateStatus(World(Fresh), t, st).queue
<1>1. /\ queue' = r
      /\ applied' = IF ok THEN applied \cup {<<t, 1>>} ELSE applied
      /\ transfers' = transfers \ {t} /\ t \in transfers /\ Owner[t] = d
      /\ UNCHANGED <<obj, sessions, bySerial, conn, db, fresh, full, spent>>
  BY DEF TransferComplete
<1>2. st \in Terminal
  BY DEF Terminal
<1>3. TypeOK /\ Routed /\ StoreOK /\ queue \in QueueType
  BY DEF IInv, TypeOK
<1>4. t \in Mine(d) /\ t \in Item /\ Kind[t] = "firmware" /\ Settled(queue, t)
  BY <1>1, <1>3, OwnItems DEF StoreOK, DueOK, Own
<1> HIDE DEF st
<1>5. ASSUME NEW s \in SessionType, SessionOK(s, d, queue)
      PROVE  /\ SessionOK(s, d, r) /\ FifosOK(r) /\ r \in QueueType
             /\ Settles(queue, r, d)
  <2> DEFINE w == World(s)
             v == UpdateStatus(w, t, st)
  <2>1. WorldOK(w, d) /\ w.queue = queue /\ w.s = s
    BY <1>5, WorldIsOK
  <2>2. v.queue = r
    BY DEF UpdateStatus, World
  <2> HIDE DEF w
  <2>3. WorldOK(v, d) /\ Settles(queue, v.queue, d)
    BY <1>2, <1>4, <2>1, SettleOK
  <2>4. v.s = s
    <3>1. st \in Statuses /\ w \in WorldType
      BY <1>2, <2>1 DEF Terminal, Statuses, WorldOK
    <3> QED BY <1>4, <2>1, <3>1, UpdateStatusFields
  <2> HIDE DEF v, r
  <2> QED BY <2>2, <2>3, <2>4, WorldParts DEF WorldOK
<1>6. /\ FifosOK(r) /\ r \in QueueType /\ Settles(queue, r, d)
  BY <1>3, <1>5, FreshIsSession
<1>7. \A o \in Reach(d) : SessionOK(obj[o], d, r)
  <2> SUFFICES ASSUME NEW o \in Reach(d) PROVE SessionOK(obj[o], d, r)
    OBVIOUS
  <2>1. o \in Obj
    BY <1>3, ReachFacts
  <2>2. obj[o] \in SessionType /\ SessionOK(obj[o], d, queue)
    BY <1>3, <2>1 DEF StoreOK, TypeOK
  <2> QED BY <1>5, <2>2
<1> HIDE DEF r
<1>8. \A e \in Device : \A o \in Reach(e) : SessionOK(obj[o], e, r)
  BY <1>6, <1>7, OthersSessions DEF Settles
<1>9. TypeOK'
  <2>1. applied' \subseteq Item \X Nat
    BY <1>1, <1>3, <1>4 DEF TypeOK
  <2> QED BY <1>1, <1>3, <1>6, <2>1 DEF TypeOK
<1>10. \A o \in Obj : o \notin Reached => obj'[o] = Fresh
  BY <1>1, <1>3 DEF Routed, UnreachedAreFresh
<1>11. Lasting(queue, queue')
  BY <1>1, <1>6 DEF Settles
<1>12. IInv'
  BY <1>1, <1>6, <1>8, <1>9, <1>10, <1>11, StoresOK
<1>13. Moves(queue, r, d)
  BY <1>3, <1>6, SettlesIsMove DEF StoreOK, FifosOK
<1> QED BY <1>1, <1>6, <1>12, <1>13, MovesIsMoved

LEMMA EnqueueOK ==
    ASSUME IInv, NEW t \in Task, Enqueue(t)
    PROVE  IInv' /\ Moved
<1> DEFINE d == Owner[t]
           q == queue
           f == q.fifo[d]
           r == [q EXCEPT !.status[t] = "pending", !.fifo[d] = Append(@, t)]
           W == Waiting(q, d)
<1>1. /\ q.status[t] = "absent" /\ queue' = r
      /\ UNCHANGED <<obj, sessions, bySerial, conn, db, fresh, full, transfers, applied, spent>>
  BY DEF Enqueue
<1>2. TypeOK /\ Routed /\ StoreOK /\ q \in QueueType
  BY DEF IInv, TypeOK
<1>3. d \in Device /\ t \in Own(d) /\ t \in Mine(d) /\ t \in Item
  BY TaskAssumption, OwnItems, NoItemIsNoItem DEF Own
<1> HIDE DEF d, q
<1>4. FifoOK(q, d) /\ f \in Seq(Own(d)) /\ f \in Seq(Task) /\ IsInjective(f) /\ t \notin Range(f)
  BY <1>1, <1>2, <1>3 DEF StoreOK, FifosOK, FifoOK, QueueType, q
<1> HIDE DEF f
<1>5. Append(f, t) \in Seq(Task) /\ Append(f, t) \in Seq(Own(d))
  BY <1>3, <1>4, AppendProperties
<1>6. /\ r \in QueueType
      /\ r.status = [q.status EXCEPT ![t] = "pending"]
      /\ r.fifo = [q.fifo EXCEPT ![d] = Append(f, t)]
  BY <1>2, <1>3, <1>5 DEF QueueType, Statuses, f
<1> HIDE DEF r
<1>7. /\ \A i \in Item : r.status[i] = IF i = t THEN "pending" ELSE q.status[i]
      /\ r.fifo[d] = Append(f, t) /\ \A e \in Device : e # d => r.fifo[e] = q.fifo[e]
  BY <1>2, <1>3, <1>6 DEF QueueType
<1>8. Others(q, r, d)
  BY <1>3, <1>7 DEF Others
<1>9. Lasting(q, r)
  BY <1>1, <1>7, NoItemIsNoItem DEF Lasting, Settled, Terminal, q
<1>10. FifoOK(r, d)
  <2>1. IsInjective(Append(f, t)) /\ Range(Append(f, t)) = Range(f) \cup {t}
    BY <1>3, <1>4, InjectiveAppend, RangeAppend
  <2>2. Range(f) \subseteq Item
    BY <1>4, RangeOfSeq, NoItemIsNoItem
  <2>3. \A u \in Range(f) : q.status[u] # "absent"
    BY <1>4 DEF FifoOK, f
  <2>4. \A u \in Range(Append(f, t)) : r.status[u] # "absent"
    BY <1>3, <1>7, <2>1, <2>2, <2>3
  <2> QED BY <1>5, <1>7, <2>1, <2>4 DEF FifoOK
<1>11. FifosOK(r)
  <2>1. ASSUME NEW e \in Device, e # d PROVE FifoOK(r, e)
    <3>1. FifoOK(q, e)
      BY <1>2 DEF StoreOK, FifosOK, q
    <3> QED BY <1>2, <1>3, <1>6, <1>8, <2>1, <3>1, OthersKeep
  <2> QED BY <1>10, <2>1 DEF FifosOK
<1>12. W \in Seq(Task)
  BY <1>2, <1>3, <1>4, WaitingFacts
<1>13. Waiting(r, d) = Append(W, t)
  <2>1. Pending(r) = Pending(q) \cup {t}
    BY <1>3, <1>7, NoItemIsNoItem DEF Pending
  <2>2. Keep(Append(f, t), Pending(r)) = Append(Keep(f, Pending(r)), t)
    BY <1>4, <2>1, KeepAppend
  <2>3. Keep(f, Pending(r)) = Keep(f, Pending(q))
    <3>1. Range(f) \cap Pending(r) = Range(f) \cap Pending(q)
      BY <1>4, <2>1
    <3> QED BY <1>4, <3>1, KeepSame
  <2> QED BY <1>7, <2>2, <2>3 DEF Waiting, f
<1> HIDE DEF W
<1>14. ASSUME NEW o \in Reach(d) PROVE SessionOK(obj[o], d, r)
  <2> DEFINE s == obj[o]
  <2>1. o \in Obj
    BY <1>2, <1>3, ReachFacts
  <2>2. s \in SessionType /\ SessionOK(s, d, q)
    BY <1>2, <1>3, <2>1 DEF StoreOK, TypeOK, q
  <2> HIDE DEF s
  <2>3. CurrentOK(s, r)
    <3>1. s.cur \in Task => s.cur \in Item /\ Settled(q, s.cur) /\ s.cur # t
      BY <1>1, <2>2, NoItemIsNoItem DEF SessionOK, CurrentOK, Settled, q
    <3> QED BY <1>7, <2>2, <3>1 DEF SessionOK, CurrentOK, Settled
  <2>4. CollectsOK(s, r)
    BY <1>9, <2>2 DEF SessionOK, CollectsOK, Lasting, Diagnostics
  <2>5. AheadOK(s, d, r)
    <3> DEFINE K == Keep(s.pend, Task)
    <3>1. PICK rest \in Seq(Task) : W = K \o rest
      BY <2>2 DEF SessionOK, AheadOK, W
    <3>2. K \in Seq(Task)
      <4>1. K \in Seq(Item \cap Task) /\ Item \cap Task = Task
        BY <2>2, KeepType, NoItemIsNoItem DEF SessionType
      <4> QED BY <4>1
    <3> HIDE DEF K
    <3>3. Append(W, t) = K \o Append(rest, t) /\ Append(rest, t) \in Seq(Task)
      <4>1. Append(K \o rest, t) = K \o Append(rest, t) /\ Append(rest, t) \in Seq(Task)
        BY ONLY <3>2, AppendAhead, t \in Task
      <4> QED BY <3>1, <4>1
    <3> QED BY <1>13, <3>3 DEF AheadOK, K
  <2> QED BY <2>2, <2>3, <2>4, <2>5 DEF SessionOK, s
<1>15. \A e \in Device : \A o \in Reach(e) : SessionOK(obj[o], e, r)
  BY <1>3, <1>6, <1>8, <1>14, OthersSessions DEF q
<1>16. TypeOK'
  BY <1>1, <1>2, <1>6 DEF TypeOK
<1>17. \A o \in Obj : o \notin Reached => obj'[o] = Fresh
  BY <1>1, <1>2 DEF Routed, UnreachedAreFresh
<1>18. Lasting(queue, queue')
  BY <1>1, <1>9 DEF q
<1>19. IInv'
  BY <1>1, <1>11, <1>15, <1>16, <1>17, <1>18, StoresOK
<1>20. Moves(queue, r, d)
  <2>1. InOrder(q, r, d)
    <3> SUFFICES ASSUME NEW j \in DOMAIN W, NEW k \in DOMAIN W, r.status[W[k]] = "executing"
                 PROVE  FALSE
      BY DEF InOrder, W
    <3>1. q.status[W[k]] = "pending" /\ W[k] \in Task
      <4>1. q.status[W[k]] = "pending"
        BY <1>2, <1>3, <1>4, WaitingFacts DEF W
      <4>2. DOMAIN W = 1 .. Len(W)
        BY <1>12, LenProperties
      <4> QED BY <1>12, <4>1, <4>2, ElementOfSeq
    <3> QED BY <1>7, <3>1, NoItemIsNoItem
  <2> QED BY <1>8, <1>9, <2>1 DEF Moves, q
<1> QED BY <1>1, <1>3, <1>6, <1>19, <1>20, MovesIsMoved

LEMMA TriggerFullSummonOK ==
    ASSUME IInv, NEW d \in Device, TriggerFullSummon(d)
    PROVE  IInv' /\ Moved
<1>1. /\ full' = full \cup {d} /\ spent' = [spent EXCEPT !.triggers = @ + 1]
      /\ spent.triggers < MaxTriggers
      /\ obj' = [o \in Obj |-> IF o = bySerial[d] /\ obj[o].state # "done"
                               THEN [obj[o] EXCEPT !.phase = 1] ELSE obj[o]]
      /\ UNCHANGED <<sessions, bySerial, conn, queue, db, fresh, transfers, applied>>
  BY DEF TriggerFullSummon
<1>2. TypeOK /\ Routed /\ StoreOK
  BY DEF IInv
<1>3. ASSUME NEW o \in Obj, NEW e \in Device, SessionOK(obj[o], e, queue)
      PROVE  SessionOK(obj'[o], e, queue)
  <2> DEFINE s == obj[o]
             p == [s EXCEPT !.phase = 1]
  <2>1. s \in SessionType
    BY <1>2 DEF TypeOK
  <2>2. obj'[o] \in {s, p}
    BY <1>1
  <2>3. SessionOK(s, e, queue)
    BY <1>3
  <2> HIDE DEF s
  <2>4. p \in SessionType /\ Trims(s, p)
    BY <2>1, <2>3, SummonEdits, SummonTrims
  <2> HIDE DEF p
  <2>5. WorldOK(World(s), e) /\ World(s).s = s /\ World(s).queue = queue
        /\ World(s).transfers = transfers
    BY <2>1, <2>3, WorldIsOK
  <2>6. World(p) \in WorldType /\ World(p).s = p /\ World(p).queue = queue
        /\ World(p).transfers = transfers
    BY <1>2, <2>4 DEF World, WorldType, TypeOK
  <2>7. WorldOK(World(p), e)
    BY <2>4, <2>5, <2>6, TrimOK
  <2> QED BY <2>2, <2>3, <2>6, <2>7 DEF WorldOK
<1>4. \A o \in Obj : obj'[o] \in SessionType
  <2>1. \A s \in SessionType : [s EXCEPT !.phase = 1] \in SessionType
    <3>1. 1 \in 0 .. 4
      OBVIOUS
    <3> QED BY <3>1 DEF SessionType
  <2> QED BY <1>1, <1>2, <2>1 DEF TypeOK
<1>5. TypeOK'
  <2>1. obj' \in [Obj -> SessionType]
    BY <1>1, <1>4
  <2>2. spent' \in [drops : 0..MaxDrops, faults : 0..MaxFaults,
                    triggers : 0..MaxTriggers, restarts : 0..MaxRestarts]
    BY <1>1, <1>2, SpentType
  <2> QED BY <1>1, <1>2, <2>1, <2>2 DEF TypeOK
<1>6. \A o \in Obj : o \notin Reached => obj'[o] = Fresh
  <2> SUFFICES ASSUME NEW o \in Obj, o \notin Reached PROVE obj'[o] = Fresh
    OBVIOUS
  <2>1. o # bySerial[d]
    BY <1>2 DEF Reached, Range, TypeOK
  <2> QED BY <1>1, <1>2, <2>1 DEF Routed, UnreachedAreFresh
<1>7. \A e \in Device : \A o \in Reach(e) : SessionOK(obj'[o], e, queue')
  <2> SUFFICES ASSUME NEW e \in Device, NEW o \in Reach(e) PROVE SessionOK(obj'[o], e, queue)
    BY <1>1
  <2>1. o \in Obj /\ SessionOK(obj[o], e, queue)
    BY <1>2, ReachFacts DEF StoreOK
  <2> QED BY <1>3, <2>1
<1>8. FifosOK(queue')
  BY <1>1, <1>2 DEF StoreOK
<1>9. Lasting(queue, queue')
  BY <1>1 DEF Lasting
<1>10. IInv'
  BY <1>1, <1>5, <1>6, <1>7, <1>8, <1>9, StoresOK
<1> QED BY <1>1, <1>10, QueueStays

\* Nothing changes but the throttle, or nothing at all.
LEMMA ThrottleOK ==
    ASSUME IInv, UNCHANGED <<obj, sessions, bySerial, conn, queue, db, full, transfers,
                             applied, spent>>,
           fresh' \in SUBSET Device
    PROVE  IInv' /\ Moved
<1>1. TypeOK /\ Routed /\ StoreOK
  BY DEF IInv
<1>2. TypeOK'
  BY <1>1 DEF TypeOK
<1>3. \A o \in Obj : o \notin Reached => obj'[o] = Fresh
  BY <1>1 DEF Routed, UnreachedAreFresh
<1>4. \A e \in Device : \A o \in Reach(e) : SessionOK(obj'[o], e, queue')
  BY <1>1 DEF StoreOK
<1>5. Lasting(queue, queue')
  BY DEF Lasting
<1>6. FifosOK(queue')
  BY <1>1 DEF StoreOK
<1>7. IInv'
  BY <1>2, <1>3, <1>4, <1>5, <1>6, StoresOK
<1> QED BY <1>7, QueueStays

LEMMA DropOK ==
    ASSUME IInv, NEW d \in Device, NEW accepted \in BOOLEAN, Drop(d, accepted)
    PROVE  IInv' /\ Moved
<1> DEFINE m == conn[d]
<1>1. /\ m # Close /\ spent.drops < MaxDrops /\ spent' = [spent EXCEPT !.drops = @ + 1]
      /\ conn' = [conn EXCEPT ![d] = Close]
      /\ accepted => m.item \in Item
      /\ applied' = IF accepted /\ m.op # "Download"
                    THEN applied \cup {<<m.item, m.step>>} ELSE applied
      /\ transfers' = IF accepted /\ m.op = "Download" THEN transfers \cup {m.item} ELSE transfers
      /\ obj' = [o \in Obj |-> IF o \in Range(sessions) \cup Range(bySerial)
                                    \/ \E e \in Device \ {d} : conn[e].via = o
                               THEN obj[o] ELSE Fresh]
      /\ UNCHANGED <<sessions, bySerial, queue, db, fresh, full>>
  BY DEF Drop
<1>2. TypeOK /\ Routed /\ StoreOK
  BY DEF IInv
<1>3. m \in ReplyType /\ ReplyOK(m, d, queue)
  BY <1>2 DEF TypeOK, StoreOK
<1>4. /\ conn'[d] = Close /\ \A e \in Device : e # d => conn'[e] = conn[e]
      /\ conn' \in [Device -> ReplyType]
  BY <1>1, <1>2, CloseIsReply DEF TypeOK
<1>5. Close.via = NoObj /\ ReplyOK(Close, d, queue)
  BY CloseIsReply DEF Close, Msg
<1> HIDE DEF m
<1>6. TypeOK'
  <2>1. obj' \in [Obj -> SessionType]
    BY <1>1, <1>2, FreshIsSession DEF TypeOK
  <2>2. spent' \in [drops : 0..MaxDrops, faults : 0..MaxFaults,
                    triggers : 0..MaxTriggers, restarts : 0..MaxRestarts]
    BY <1>1, <1>2, SpentType
  <2>3. applied' \subseteq Item \X Nat
    BY <1>1, <1>2, <1>3 DEF TypeOK, ReplyType
  <2>4. transfers' \in SUBSET Task
    BY <1>1, <1>2, <1>3 DEF TypeOK, ReplyOK
  <2> QED BY <1>1, <1>2, <1>4, <2>1, <2>2, <2>3, <2>4 DEF TypeOK
<1>7. /\ Reach(d)' \subseteq Reach(d)
      /\ \A e \in Device : e # d => Reach(e)' = Reach(e)
  BY <1>1, <1>4, <1>5 DEF Reach
<1>8. \A e \in Device : Reach(e)' \subseteq Reach(e)
  BY <1>7
<1>9. ASSUME NEW e \in Device, NEW o \in Reach(e)' PROVE o \in Obj /\ obj'[o] = obj[o]
  <2>1. o \in Obj
    BY <1>2, <1>8, <1>9, ReachFacts
  <2>2. sessions[SidOf[e]] \in Range(sessions) /\ bySerial[e] \in Range(bySerial)
    BY <1>2, DeviceAssumption DEF TypeOK, Range
  <2>3. \/ o \in {sessions[SidOf[e]], bySerial[e]}
        \/ e # d /\ conn[e].via = o
    BY <1>1, <1>4, <1>5, <1>9 DEF Reach
  <2> QED BY <1>1, <2>1, <2>2, <2>3
<1>10. Routed'
  <2>1. OneSession' /\ SessionsApart'
    BY <1>2, <1>8 DEF Routed, OneSession, SessionsApart
  <2>2. AnswersFindTheirs' /\ ClosedOrIndexed' /\ NoStraySession'
    BY <1>1, <1>2, <1>4, <1>5
       DEF Routed, AnswersFindTheirs, ClosedOrIndexed, NoStraySession, Close, Msg
  <2>3. UnreachedAreFresh'
    <3> SUFFICES ASSUME NEW o \in Obj, o \notin Reached' PROVE obj'[o] = Fresh
      BY DEF UnreachedAreFresh, Fresh
    <3>1. o \notin Range(sessions) \cup Range(bySerial)
      BY <1>1 DEF Reached
    <3>2. \A e \in Device \ {d} : conn[e].via # o
      BY <1>4 DEF Reached
    <3> QED BY <1>1, <3>1, <3>2
  <2> QED BY <2>1, <2>2, <2>3 DEF Routed
<1>11. DueOK(transfers', queue)
  <2>1. accepted /\ m.op = "Download" => Kind[m.item] = "firmware" /\ Settled(queue, m.item)
    BY <1>3 DEF ReplyOK
  <2> QED BY <1>1, <1>2, <2>1 DEF StoreOK, DueOK
<1>12. \A e \in Device : ReplyOK(conn'[e], e, queue)
  BY <1>2, <1>4, <1>5 DEF StoreOK
<1>13. \A e \in Device : \A o \in Reach(e)' : SessionOK(obj'[o], e, queue)
  BY <1>2, <1>8, <1>9 DEF StoreOK
<1>14. queue' = queue
  BY <1>1
<1>15. StoreOK'
  BY <1>2, <1>11, <1>12, <1>13, <1>14 DEF StoreOK, FifosOK, FifoOK, Own, DueOK, Settled, ReplyOK,
                                          Mine, Close, Msg
<1> QED BY <1>6, <1>10, <1>14, <1>15, QueueStays DEF IInv

LEMMA RestartOK ==
    ASSUME IInv, Restart
    PROVE  IInv' /\ Moved
<1>1. /\ spent.restarts < MaxRestarts /\ spent' = [spent EXCEPT !.restarts = @ + 1]
      /\ obj' = [o \in Obj |-> Fresh] /\ sessions' = [s \in Sid |-> NoObj]
      /\ bySerial' = [d \in Device |-> NoObj]
      /\ conn' = [d \in Device |-> [conn[d] EXCEPT !.via = NoObj]]
      /\ fresh' = {} /\ full' = {}
      /\ UNCHANGED <<queue, db, transfers, applied>>
  BY DEF Restart
<1>2. TypeOK /\ StoreOK
  BY DEF IInv
<1>3. ASSUME NEW d \in Device
      PROVE  /\ conn'[d] \in ReplyType /\ conn'[d].via = NoObj
             /\ conn'[d].op = conn[d].op /\ conn'[d].item = conn[d].item
             /\ conn[d] = Close => conn'[d] = Close
  <2>1. conn[d] \in ReplyType /\ conn'[d] = [conn[d] EXCEPT !.via = NoObj]
    BY <1>1, <1>2 DEF TypeOK
  <2>2. [Close EXCEPT !.via = NoObj] = Close
    BY DEF Close, Msg
  <2> QED BY <2>1, <2>2 DEF ReplyType
<1>4. TypeOK'
  <2>1. spent' \in [drops : 0..MaxDrops, faults : 0..MaxFaults,
                    triggers : 0..MaxTriggers, restarts : 0..MaxRestarts]
    BY <1>1, <1>2, SpentType
  <2>2. conn' \in [Device -> ReplyType]
    BY <1>1, <1>3
  <2> QED BY <1>1, <1>2, <2>1, <2>2, FreshIsSession DEF TypeOK
<1>5. \A d \in Device : Reach(d)' = {}
  BY <1>1, <1>3, DeviceAssumption DEF Reach
<1>6. Routed'
  <2>1. OneSession' /\ SessionsApart' /\ AnswersFindTheirs'
    BY <1>3, <1>5 DEF OneSession, SessionsApart, AnswersFindTheirs
  <2>2. ClosedOrIndexed' /\ NoStraySession'
    BY <1>1 DEF ClosedOrIndexed, NoStraySession
  <2>3. UnreachedAreFresh'
    BY <1>1 DEF UnreachedAreFresh, Fresh
  <2> QED BY <2>1, <2>2, <2>3 DEF Routed
<1>7. \A d \in Device : ReplyOK(conn'[d], d, queue)
  BY <1>2, <1>3 DEF StoreOK, ReplyOK
<1>8. queue' = queue /\ transfers' = transfers
  BY <1>1
<1>9. StoreOK'
  BY <1>2, <1>5, <1>7, <1>8 DEF StoreOK, FifosOK, FifoOK, Own, DueOK, Settled, ReplyOK,
                                Mine, Close, Msg
<1> QED BY <1>4, <1>6, <1>8, <1>9, QueueStays DEF IInv

-----------------------------------------------------------------------------
(* The theorems                                                            *)

LEMMA InitOK == Init => IInv
<1> SUFFICES ASSUME Init PROVE IInv
  OBVIOUS
<1>1. /\ obj = [o \in Obj |-> Fresh] /\ sessions = [s \in Sid |-> NoObj]
      /\ bySerial = [d \in Device |-> NoObj] /\ conn = [d \in Device |-> Close]
      /\ queue = [status |-> [i \in Item |-> "absent"], fifo |-> [d \in Device |-> <<>>]]
      /\ db = [provisioned |-> {}, creds |-> {}]
      /\ fresh = {} /\ full = {} /\ transfers = {} /\ applied = {}
      /\ spent = [drops |-> 0, faults |-> 0, triggers |-> 0, restarts |-> 0]
  BY DEF Init
<1>2. queue \in QueueType
  <2>1. <<>> \in Seq(Task)
    OBVIOUS
  <2> QED BY <1>1, <2>1 DEF QueueType, Statuses
<1>3. TypeOK
  <2>1. 0 \in 0 .. MaxDrops /\ 0 \in 0 .. MaxFaults /\ 0 \in 0 .. MaxTriggers
        /\ 0 \in 0 .. MaxRestarts
    BY BoundAssumption
  <2>2. db \in DbType
    BY <1>1 DEF DbType
  <2> QED BY <1>1, <1>2, <2>1, <2>2, FreshIsSession, CloseIsReply DEF TypeOK
<1>4. \A d \in Device : conn[d] = Close /\ conn[d].via = NoObj /\ Reach(d) = {}
  BY <1>1, DeviceAssumption DEF Reach, Close, Msg
<1>5. Routed
  <2>1. OneSession /\ SessionsApart /\ AnswersFindTheirs /\ ClosedOrIndexed
    BY <1>4 DEF OneSession, SessionsApart, AnswersFindTheirs, ClosedOrIndexed
  <2> QED BY <1>1, <2>1 DEF Routed, NoStraySession, UnreachedAreFresh
<1>6. FifosOK(queue)
  <2>1. Range(<<>>) = {}
    BY RangeEmpty
  <2>2. ASSUME NEW d \in Device PROVE <<>> \in Seq(Own(d)) /\ IsInjective(<<>>)
    BY EmptySeq DEF IsInjective
  <2> QED BY <1>1, <2>1, <2>2 DEF FifosOK, FifoOK
<1>7. StoreOK
  BY <1>1, <1>4, <1>6, CloseIsReply DEF StoreOK, DueOK
<1> QED BY <1>3, <1>5, <1>7 DEF IInv

LEMMA StepOK ==
    ASSUME OwnIds, IInv, [Next]_vars
    PROVE  IInv' /\ Moved
<1>1. CASE UNCHANGED vars
  <2>1. fresh' \in SUBSET Device
    BY <1>1 DEF vars, IInv, TypeOK
  <2> QED BY <1>1, <2>1, ThrottleOK DEF vars
<1>2. ASSUME NEW d \in Device, Cpe(d) PROVE IInv' /\ Moved
  BY <1>2, InformOK, InformFullSummonOK, EmptyPostOK, AnswerOK DEF Cpe
<1>3. ASSUME NEW d \in Device, Fault(d) PROVE IInv' /\ Moved
  BY <1>3, FaultOK
<1>4. ASSUME NEW d \in Device, NEW accepted \in BOOLEAN, Drop(d, accepted) PROVE IInv' /\ Moved
  BY <1>4, DropOK
<1>5. ASSUME NEW d \in Device, NEW event \in Events, InformRejected(d, event)
      PROVE  IInv' /\ Moved
  BY <1>5, InformRejectedOK
<1>6. ASSUME NEW d \in Device, NEW t \in Task, NEW ok \in BOOLEAN, TransferComplete(d, t, ok)
      PROVE  IInv' /\ Moved
  BY <1>6, TransferCompleteOK
<1>7. ASSUME NEW d \in Device, TriggerFullSummon(d) PROVE IInv' /\ Moved
  BY <1>7, TriggerFullSummonOK
<1>8. ASSUME NEW d \in Device, ThrottleExpires(d) PROVE IInv' /\ Moved
  <2>1. fresh' \in SUBSET Device
    BY <1>8 DEF ThrottleExpires, IInv, TypeOK
  <2> QED BY <1>8, <2>1, ThrottleOK DEF ThrottleExpires
<1>9. ASSUME NEW t \in Task, Enqueue(t) PROVE IInv' /\ Moved
  BY <1>9, EnqueueOK
<1>10. CASE Restart
  BY <1>10, RestartOK
<1> QED BY <1>1, <1>2, <1>3, <1>4, <1>5, <1>6, <1>7, <1>8, <1>9, <1>10 DEF Next

\* The inductive invariant: every session object belongs to one device at a
\* time (Routed), and what sessions, replies and lists hold are tasks of that
\* device, each where its status allows it to be (StoreOK); session.go.
THEOREM Invariant ==
    ASSUME OwnIds
    PROVE  Spec => []IInv
<1>1. IInv /\ [Next]_vars => IInv'
  BY StepOK
<1> QED BY <1>1, InitOK, PTL DEF Spec

\* Every request, loss and restart leaves sessions, stores and replies of their
\* types: in particular the pool of session objects never runs out, and the step
\* of a provisioning stays within its flow (session.go).
THEOREM TypeCorrect ==
    ASSUME OwnIds
    PROVE  Spec => []TypeOK
<1>1. IInv => TypeOK
  BY DEF IInv
<1> QED BY <1>1, Invariant, PTL

\* However often devices reconnect, adopt and lose sessions, an RPC for a task
\* is only ever sent to the device the task was created for: lookups by cookie,
\* by cwmp:ID and by serial never meet in another device's session (session.go,
\* GetOrCreate, TakeByRPCID, adoptInFlightBySerial).
THEOREM TaskGoesToItsDeviceHolds ==
    ASSUME OwnIds
    PROVE  Spec => []TaskGoesToItsDevice
<1>1. IInv => TaskGoesToItsDevice
  <2> SUFFICES ASSUME IInv, NEW d \in Device, conn[d].item \in Task PROVE Owner[conn[d].item] = d
    BY DEF TaskGoesToItsDevice
  <2>1. conn[d].item \in Mine(d)
    BY NoItemIsNoItem DEF IInv, StoreOK, ReplyOK
  <2> QED BY <2>1, OwnItems DEF Own
<1> QED BY <1>1, Invariant, PTL

\* What a list starts with.
LEMMA StartOfConcat ==
    ASSUME NEW T, NEW p \in Seq(T), NEW q \in Seq(T)
    PROVE  /\ Len(p) \in 0 .. Len(p \o q)
           /\ p # <<>> => SubSeq(p \o q, 1, Len(p)) = p
<1>1. Len(p \o q) = Len(p) + Len(q) /\ Len(p) \in Nat /\ Len(q) \in Nat
  BY ConcatProperties, LenProperties
<1>2. ASSUME p # <<>> PROVE SubSeq(p \o q, 1, Len(p)) = p
  <2>1. 1 \in 1 .. Len(p) /\ Len(p) \in 1 .. Len(p)
    BY <1>1, <1>2, EmptySeq
  <2>2. SubSeq(p \o q, 1, Len(p)) = SubSeq(p, 1, Len(p))
    BY <2>1, SubSeqOfConcat1
  <2> QED BY <2>2, SubSeqFull
<1> QED BY <1>1, <1>2

\* The tasks a session has not dispatched yet are the first pending ones of the
\* device's FIFO, in its order: no other session, answer, new task or restart
\* makes a list read at an Inform stale (session.go, handleInform,
\* dispatchNextOrClose, adoptInFlightBySerial).
THEOREM SessionTasksArePendingHolds ==
    ASSUME OwnIds
    PROVE  Spec => []SessionTasksArePending
<1>1. IInv => SessionTasksArePending
  <2> SUFFICES ASSUME IInv, NEW o \in Obj, Keep(obj[o].pend, Task) # <<>>
               PROVE  \E n \in 0 .. Len(DequeuePending(obj[o].dev)) :
                         Keep(obj[o].pend, Task) = SubSeq(DequeuePending(obj[o].dev), 1, n)
    BY DEF SessionTasksArePending
  <2> DEFINE own == Keep(obj[o].pend, Task)
  <2>1. TypeOK /\ Routed /\ StoreOK
    BY DEF IInv
  <2>2. o \in Reached
    BY <2>1, FreshIsSession DEF Routed, UnreachedAreFresh
  <2>3. PICK d \in Device : o \in Reach(d)
    BY <2>1, <2>2, ReachFacts
  <2>4. SessionOK(obj[o], d, queue) /\ obj[o] \in SessionType
    BY <2>1, <2>3 DEF StoreOK, TypeOK
  <2>5. obj[o].dev = d
    <3>1. obj[o].pend # <<>>
      BY KeepEmpty
    <3> QED BY <2>4, <3>1 DEF SessionOK
  <2>6. DequeuePending(d) = Waiting(queue, d)
    BY DEF DequeuePending, Waiting, Pending
  <2>7. own \in Seq(Task)
    <3>1. own \in Seq(Item \cap Task) /\ Item \cap Task = Task
      BY <2>4, KeepType, NoItemIsNoItem DEF SessionType
    <3> QED BY <3>1
  <2>8. PICK rest \in Seq(Task) : Waiting(queue, d) = own \o rest
    BY <2>4 DEF SessionOK, AheadOK
  <2> HIDE DEF own
  <2>9. Len(own) \in 0 .. Len(own \o rest) /\ (own # <<>> => SubSeq(own \o rest, 1, Len(own)) = own)
    BY <2>7, StartOfConcat
  <2> QED BY <2>5, <2>6, <2>8, <2>9 DEF own
<1> QED BY <1>1, Invariant, PTL

\* A task once done or failed is never marked executing again, whatever is lost,
\* adopted or summoned in between, unless it is a firmware task (session.go,
\* dispatchTask, completeTask, adoptInFlightBySerial).
THEOREM FinishedStaysFinishedHolds ==
    ASSUME OwnIds
    PROVE  Spec => FinishedStaysFinished
<1> DEFINE Stays == \A t \in Task : queue.status[t] \in Terminal /\ Kind[t] # "firmware" =>
                                        queue'.status[t] # "executing"
<1>1. IInv /\ [Next]_vars => [Stays]_vars
  <2> SUFFICES ASSUME IInv, [Next]_vars PROVE Stays
    OBVIOUS
  <2>1. Lasting(queue, queue')
    BY StepOK DEF Moved
  <2> QED BY <2>1 DEF Lasting, Terminal
<1> QED BY <1>1, Invariant, PTL DEF Spec, FinishedStaysFinished

\* The pending tasks of a device are dispatched in the order they were created,
\* whichever session dispatches them (session.go, handleInform and
\* dispatchNextOrClose; queue.go, DequeuePending).
THEOREM FirstDispatchInOrderHolds ==
    ASSUME OwnIds
    PROVE  Spec => FirstDispatchInOrder
<1> DEFINE Ordered == \A d \in Device : \A j, k \in DOMAIN queue.fifo[d] :
                j < k /\ queue.status[queue.fifo[d][k]] = "pending"
                      /\ queue'.status[queue.fifo[d][k]] = "executing"
                => queue'.status[queue.fifo[d][j]] # "pending"
<1>1. IInv /\ [Next]_vars => [Ordered]_vars
  <2> SUFFICES ASSUME IInv, [Next]_vars,
                      NEW d \in Device, NEW j \in DOMAIN queue.fifo[d],
                      NEW k \in DOMAIN queue.fifo[d], j < k,
                      queue.status[queue.fifo[d][k]] = "pending",
                      queue'.status[queue.fifo[d][k]] = "executing"
               PROVE  queue'.status[queue.fifo[d][j]] # "pending"
    OBVIOUS
  <2> DEFINE f == queue.fifo[d]
             W == Waiting(queue, d)
  <2>1. Lasting(queue, queue') /\ InOrder(queue, queue', d)
    BY StepOK DEF Moved
  <2>2. FifoOK(queue, d) /\ f \in Seq(Task)
    BY DEF IInv, TypeOK, QueueType, StoreOK, FifosOK
  <2>3. f[j] \in Task /\ f[k] \in Task /\ f[j] \in Range(f)
    <3>1. DOMAIN f = 1 .. Len(f)
      BY <2>2, LenProperties
    <3>2. f[j] \in Range(f)
      BY DEF Range
    <3> HIDE DEF f
    <3> QED BY <2>2, <3>1, <3>2, ElementOfSeq DEF f
  <2>4. CASE queue.status[f[j]] = "pending"
    <3>1. f[j] \in Pending(queue) /\ f[k] \in Pending(queue)
      BY <2>3, <2>4 DEF Pending
    <3>2. PICK a, b \in DOMAIN Keep(f, Pending(queue)) :
             a < b /\ Keep(f, Pending(queue))[a] = f[j] /\ Keep(f, Pending(queue))[b] = f[k]
      <4>1. j \in DOMAIN f /\ k \in DOMAIN f /\ j < k
        OBVIOUS
      <4> HIDE DEF f
      <4> QED BY <2>2, <3>1, <4>1, KeepOrder
    <3>3. a \in DOMAIN W /\ b \in DOMAIN W /\ a < b /\ W[a] = f[j] /\ W[b] = f[k]
      BY <3>2 DEF Waiting
    <3> QED BY <2>1, <3>3 DEF InOrder
  <2>5. CASE queue.status[f[j]] # "pending"
    <3>1. Settled(queue, f[j])
      BY <2>2, <2>3, <2>5 DEF FifoOK, Settled
    <3> QED BY <2>1, <2>3, <3>1 DEF Lasting, Settled
  <2> QED BY <2>4, <2>5
<1> QED BY <1>1, Invariant, PTL DEF Spec, FirstDispatchInOrder
-----------------------------------------------------------------------------
(* The work of a session and the RPC its CPE holds.                        *)

\* The RPC of a task's k-th step.
Operation(i, k) == IF KindOf(i) = "wan" THEN WanSteps[k]
                   ELSE IF k = 2 THEN "SetParameterValues" ELSE RpcOf(i)

\* A session in the middle of a task, and the RPC its CPE has to answer.
InTouch(s, m) ==
    /\ s.wp # NoItem => KindOf(s.wp) = "wan" /\ m.item = s.wp /\ m.step = s.step
    /\ s.follow # NoItem => KindOf(s.follow) = "pfadd" /\ m.item = s.follow /\ m.step = 1
    /\ m.item \in Item =>
          /\ s.cur = m.item
          /\ KindOf(m.item) = "wan" => s.wp = m.item
          /\ KindOf(m.item) = "pfadd" /\ m.step = 1 => s.follow = m.item

Fits(m) ==
    /\ m.item \in Item => m.step \in 1 .. Steps(m.item) /\ m.op = Operation(m.item, m.step)
    /\ m.item = Summon => m.op \in {"GetParameterNames", "GetParameterValues"}

\* The CPE has accepted the steps before the one it holds.
Behind(m, a) == m.item \in Item => \A k \in 1 .. m.step - 1 : <<m.item, k>> \in a

\* A summon's values are asked for exactly in phases 2 and 4.
Summons(m) == m.item = Summon /\ m.op = "GetParameterValues"
PhaseIn(s, m) == Summons(m) => s.phase \in {2, 4}
PhaseOut(s, m) == s.phase \in {2, 4} => Summons(m)

\* Done(i), with the CPE's acceptances a.
DoneBy(i, a) ==
    /\ \A k \in 1 .. Steps(i) : <<i, k>> \in a
    /\ i \in Diagnostics => <<Collect(i), 1>> \in a
AllDone(q, a) == \A t \in Task : q.status[t] = "done" => DoneBy(t, a)
CredsDone(stored, a) == \A t \in stored.creds : DoneBy(t, a)

\* Only the result of a diagnostic the CPE has started is collected.
CollectsReady(s, a) ==
    \A t \in Diagnostics : Collect(t) \in Range(s.pend) \cup {s.cur} => <<t, 1>> \in a

CredsOK(s, m, a) ==
    s.creds # NoItem => /\ KindOf(s.creds) \in {"wan", "wanset"}
                        /\ m.item = s.creds \/ DoneBy(s.creds, a)

\* The tasks of S fail, and R is what the session has left.
Cut(w, S, R) == [FailAll(w, S) EXCEPT !.s.pend = R]

CutTo(w, S, R, v) ==
    /\ v \in WorldType /\ v.s.pend = R
    /\ v.s.dev = w.s.dev /\ v.s.mark = w.s.mark /\ v.s.cur = w.s.cur /\ v.s.wp = w.s.wp
    /\ v.s.step = w.s.step /\ v.s.follow = w.s.follow /\ v.s.creds = w.s.creds
    /\ v.s.phase = w.s.phase
    /\ v.db = w.db /\ v.applied = w.applied
    /\ \A i \in Item : v.queue.status[i] = IF i \in S THEN "failed" ELSE w.queue.status[i]

LEMMA CutFields ==
    ASSUME NEW w \in WorldType, NEW S \in SUBSET Task, NEW R \in Seq(Item)
    PROVE  CutTo(w, S, R, Cut(w, S, R))
<1> DEFINE f == FailAll(w, S)
           v == Cut(w, S, R)
           s == w.s
           t == [s EXCEPT !.pend = R]
<1>1. /\ f \in WorldType /\ f.s = s /\ f.db = w.db /\ f.applied = w.applied
      /\ \A i \in Item : f.queue.status[i] = IF i \in S THEN "failed" ELSE w.queue.status[i]
  <2>1. /\ f \in WorldType /\ f.s = s /\ f.db = w.db /\ f.applied = w.applied
        /\ f.queue.status = [i \in Item |-> IF i \in S THEN "failed" ELSE w.queue.status[i]]
    BY FailAllFields, Zenon
  <2> HIDE DEF f
  <2> QED BY <2>1
<1>2. s \in SessionType
  BY DEF WorldType
<1>3. v = [f EXCEPT !.s = [f.s EXCEPT !.pend = R]]
  BY <1>1 DEF WorldType, Cut
<1> HIDE DEF f, s, v
<1>4. /\ t \in SessionType /\ t.pend = R
      /\ t.dev = s.dev /\ t.mark = s.mark /\ t.cur = s.cur /\ t.wp = s.wp
      /\ t.step = s.step /\ t.follow = s.follow /\ t.creds = s.creds
      /\ t.phase = s.phase
  BY <1>2, SetPend
<1>5. v = [f EXCEPT !.s = t]
  BY <1>1, <1>3
<1> HIDE DEF t
<1>6. v \in WorldType /\ v.s = t /\ v.db = f.db /\ v.applied = f.applied /\ v.queue = f.queue
  BY <1>1, <1>4, <1>5 DEF WorldType
<1> QED BY <1>1, <1>4, <1>6 DEF s, v, CutTo

\* What a session does next when it has nothing in hand.
Idles(x, v) ==
    /\ v.out = Close /\ v.s.pend = <<>>
    /\ v.s.cur = x.s.cur /\ v.s.wp = x.s.wp /\ v.s.follow = x.s.follow /\ v.s.creds = x.s.creds
    /\ Range(x.s.pend) \subseteq Unbuildable
Begins(x, v, i) ==
    /\ i \in Range(x.s.pend) \cap Item
    /\ x.s.pend[1] \notin Unbuildable => i = x.s.pend[1]
    /\ v.s.cur = i
    /\ v.s.wp = IF KindOf(i) = "wan" THEN i ELSE x.s.wp
    /\ v.s.step = IF KindOf(i) = "wan" THEN 1 ELSE x.s.step
    /\ v.s.follow = IF KindOf(i) = "pfadd" THEN i ELSE x.s.follow
    /\ v.s.creds = IF KindOf(i) \in {"wan", "wanset"} THEN i ELSE x.s.creds
    /\ v.out.item = i /\ v.out.step = 1 /\ v.out.op = Operation(i, 1)
    /\ Range(v.s.pend) \subseteq Range(x.s.pend)

LEMMA ExecutesBegins ==
    ASSUME NEW w \in WorldType, NEW i \in Item, NEW v, v = ExecuteTask(w, i)
    PROVE  v.out.item = i /\ v.out.step = 1 /\ v.out.op = Operation(i, 1)
<1>1. v.out = IF KindOf(i) = "wan" THEN Msg(WanSteps[1], i, 1) ELSE Msg(RpcOf(i), i, 1)
  BY ExecuteTaskFields, Zenon
<1> QED BY <1>1 DEF Operation, Msg

LEMMA DispatchOutcome ==
    ASSUME NEW d \in Device, NEW x, WorldOK(x, d), NEW v, v = DispatchNextOrClose(x)
    PROVE  /\ v.applied = x.applied /\ v.db = x.db
           /\ v.s.phase = x.s.phase /\ v.s.mark = x.s.mark /\ v.s.dev = x.s.dev
           /\ \A t \in Task : v.queue.status[t] = "done" => x.queue.status[t] = "done"
           /\ Idles(x, v) \/ \E i : Begins(x, v, i)
<1> DEFINE pend == x.s.pend
<1>1. x \in WorldType /\ pend \in Seq(Item) /\ x.s \in SessionType
  BY WorldParts DEF WorldOK
<1>2. Len(pend) \in Nat /\ DOMAIN pend = 1 .. Len(pend) /\ Unbuildable \subseteq Task
  BY <1>1, LenProperties, TaskAssumption
<1>3. v.applied = x.applied /\ v.db = x.db
  BY DispatchOK
<1>4. Task \subseteq Item
  BY NoItemIsNoItem
<1>5. CASE Closes(x, v)
  <2> DEFINE S == Range(pend)
             R == Rest(pend, Len(pend))
             u == Popped(x, S, Len(pend))
  <2>1. S \in SUBSET Task /\ S \subseteq Unbuildable
    BY <1>2, <1>5 DEF Closes
  <2>2. R \in Seq(Item) /\ R = <<>>
    BY <1>1, <1>2, SubSeqEmpty, EmptySeq DEF Rest
  <2>3. u = Cut(x, S, R)
    BY DEF Popped, Cut
  <2>4. v = [u EXCEPT !.s.state = "done", !.out = Close]
    BY <1>5 DEF Closes
  <2> HIDE DEF u, S, R
  <2>5. /\ u \in WorldType /\ u.s.pend = R
        /\ u.s.dev = x.s.dev /\ u.s.mark = x.s.mark /\ u.s.cur = x.s.cur /\ u.s.wp = x.s.wp
        /\ u.s.step = x.s.step /\ u.s.follow = x.s.follow /\ u.s.creds = x.s.creds
        /\ u.s.phase = x.s.phase
        /\ \A i \in Item : u.queue.status[i] = IF i \in S THEN "failed" ELSE x.queue.status[i]
    <3>1. x \in WorldType
      BY <1>1
    <3>2. S \in SUBSET Task
      BY <2>1
    <3>3. R \in Seq(Item)
      BY <2>2
    <3>4. CutTo(x, S, R, Cut(x, S, R))
      BY ONLY <3>1, <3>2, <3>3, CutFields
    <3> QED BY <2>3, <3>4, Zenon DEF CutTo
  <2> DEFINE us == u.s
             t == [us EXCEPT !.state = "done"]
  <2>6. us \in SessionType
    BY <2>5 DEF WorldType
  <2>7. v = [u EXCEPT !.s = t, !.out = Close]
    BY <2>4, <2>5, <2>6 DEF WorldType
  <2>8. v.s = t /\ v.out = Close /\ v.queue = u.queue
    BY <2>5, <2>7 DEF WorldType
  <2> HIDE DEF us
  <2>9. /\ t.dev = us.dev /\ t.mark = us.mark /\ t.cur = us.cur /\ t.wp = us.wp
        /\ t.step = us.step /\ t.follow = us.follow /\ t.creds = us.creds /\ t.pend = us.pend
        /\ t.phase = us.phase
    BY <2>6, SetDone
  <2> HIDE DEF t
  <2>10. /\ v.s.dev = x.s.dev /\ v.s.mark = x.s.mark /\ v.s.phase = x.s.phase
         /\ Idles(x, v)
    BY <2>1, <2>2, <2>5, <2>8, <2>9 DEF Idles, us, S
  <2>11. \A i \in Task : v.queue.status[i] = "done" => x.queue.status[i] = "done"
    BY <1>4, <2>5, <2>8
  <2> QED BY <1>3, <2>10, <2>11
<1>6. ASSUME NEW n \in 1 .. Len(pend), Executes(x, v, n)
      PROVE  /\ v.s.phase = x.s.phase /\ v.s.mark = x.s.mark /\ v.s.dev = x.s.dev
             /\ \A t \in Task : v.queue.status[t] = "done" => x.queue.status[t] = "done"
             /\ \E i : Begins(x, v, i)
  <2> DEFINE S == Failing(x, n)
             R == Rest(pend, n)
             i == pend[n]
             u == Taken(x, n)
             y == Started(u, i)
  <2>1. S \in SUBSET Task
    BY <1>2, <1>6 DEF Executes
  <2>2. R \in Seq(Item) /\ Range(R) \subseteq Range(pend)
    <3>1. pend \in Seq(Item) /\ n \in 0 .. Len(pend)
      BY <1>1
    <3> HIDE DEF pend
    <3> QED BY <3>1, RestFacts
  <2>3. i \in Item /\ i \in Range(pend)
    BY <1>1, <1>2, ElementOfSeq DEF Range
  <2>4. pend[1] \notin Unbuildable => n = 1
    <3>1. n # 1 => 1 \in 1 .. n - 1
      OBVIOUS
    <3>2. n # 1 => pend[1] \in Unbuildable
      BY <1>6, <3>1 DEF Executes, Failing
    <3> QED BY <3>2
  <2>5. v = ExecuteTask(y, i)
    BY <1>6 DEF Executes
  <2>6. u = Cut(x, S, R)
    BY DEF Taken, Cut
  <2>7. pend[1] \notin Unbuildable => i = pend[1]
    BY <2>4
  <2> HIDE DEF u, S, R, i
  <2>8. /\ u \in WorldType /\ u.s.pend = R
        /\ u.s.dev = x.s.dev /\ u.s.mark = x.s.mark /\ u.s.cur = x.s.cur /\ u.s.wp = x.s.wp
        /\ u.s.step = x.s.step /\ u.s.follow = x.s.follow /\ u.s.creds = x.s.creds
        /\ u.s.phase = x.s.phase
        /\ \A j \in Item : u.queue.status[j] = IF j \in S THEN "failed" ELSE x.queue.status[j]
    <3>1. x \in WorldType
      BY <1>1
    <3>2. R \in Seq(Item)
      BY <2>2
    <3>3. CutTo(x, S, R, Cut(x, S, R))
      BY ONLY <2>1, <3>1, <3>2, CutFields
    <3> QED BY <2>6, <3>3, Zenon DEF CutTo
  <2>9. /\ y \in WorldType /\ y.s = u.s
        /\ \A j \in Item : y.queue.status[j] =
              IF j = i /\ ~IsCollect(i) THEN "executing" ELSE u.queue.status[j]
    BY <2>3, <2>8, StartedFields
  <2> HIDE DEF y
  <2>10. /\ v.s.cur = i
         /\ v.s.creds = IF KindOf(i) \in {"wan", "wanset"} THEN i ELSE y.s.creds
         /\ v.s.follow = IF KindOf(i) = "pfadd" THEN i ELSE y.s.follow
         /\ v.s.wp = IF KindOf(i) = "wan" THEN i ELSE y.s.wp
         /\ v.s.step = IF KindOf(i) = "wan" THEN 1 ELSE y.s.step
         /\ v.s.pend = y.s.pend /\ v.s.dev = y.s.dev /\ v.s.mark = y.s.mark
         /\ v.s.phase = y.s.phase /\ v.queue = y.queue
    BY <2>3, <2>5, <2>9, ExecuteTaskFields
  <2>11. v.out.item = i /\ v.out.step = 1 /\ v.out.op = Operation(i, 1)
    BY <2>3, <2>5, <2>9, ExecutesBegins
  <2>12. Begins(x, v, i)
    BY <2>2, <2>3, <2>7, <2>8, <2>9, <2>10, <2>11 DEF Begins
  <2>13. \A t \in Task : v.queue.status[t] = "done" => x.queue.status[t] = "done"
    BY <1>4, <2>8, <2>9, <2>10
  <2> QED BY <2>8, <2>9, <2>10, <2>12, <2>13
<1> QED BY <1>1, <1>3, <1>5, <1>6, DispatchCases

-----------------------------------------------------------------------------
(* What a handler is given: a session that is nobody's, or in touch with   *)
(* the RPC m it gets an answer to; and what it leaves behind.              *)

Blank(s) == s.cur = NoItem /\ s.wp = NoItem /\ s.follow = NoItem /\ s.creds = NoItem /\ ~s.mark
Hears(s, m) ==
    /\ Blank(s) \/ InTouch(s, m)
    /\ Fits(m) /\ m.item \in Item \cup {Summon}
Told(m, a) == m.item \in Item => \A k \in 1 .. m.step : <<m.item, k>> \in a

Sound(v) ==
    InTouch(v.s, v.out) /\ Fits(v.out) /\ Behind(v.out, v.applied) /\ PhaseIn(v.s, v.out)
Ready(w) == CollectsReady(w.s, w.applied) /\ AllDone(w.queue, w.applied)

\* Between two tasks only a firmware task may still be a session's current one.
CurFree(s) == s.cur = NoItem \/ KindOf(s.cur) = "firmware"

\* The mark means that the defaults are about to be sent, sent, or accepted.
DefaultsAccepted(d, a) == <<Defaults(d), 1>> \in a
DefaultsNext(d, s) == s.pend # <<>> /\ s.pend[1] = Defaults(d)
MarkOK(d, s, m, a) ==
    s.mark => /\ GlobalDefaults
              /\ \/ DefaultsAccepted(d, a)
                 \/ m.item = Defaults(d)
                 \/ /\ DefaultsNext(d, s) /\ m # Close
                    /\ m.item \in {NoItem, Summon} \/ m.op = "Download"
ProvDone(stored, a) == \A d \in Device : d \in stored.provisioned => DefaultsAccepted(d, a)

Fine(w, m, d) ==
    /\ CredsOK(w.s, m, w.applied) /\ CredsDone(w.db, w.applied)
    /\ m.item \notin Item => CurFree(w.s)
    /\ MarkOK(d, w.s, m, w.applied) /\ ProvDone(w.db, w.applied)

\* The same when the task in hand has been dealt with.
CredsTidy(w) ==
    w.s.creds # NoItem => /\ KindOf(w.s.creds) \in {"wan", "wanset"}
                          /\ DoneBy(w.s.creds, w.applied)
Tidy(w, d) ==
    /\ CredsTidy(w)
    /\ CredsDone(w.db, w.applied)
    /\ w.s.mark => /\ GlobalDefaults
                   /\ DefaultsAccepted(d, w.applied) \/ DefaultsNext(d, w.s)
    /\ ProvDone(w.db, w.applied)

Follows(x, v, d) ==
    /\ Sound(v) /\ ~Summons(v.out) /\ v.s.phase = x.s.phase /\ v.applied = x.applied
    /\ Ready(x) => Ready(v)
    /\ Tidy(x, d) /\ CurFree(x.s) => Fine(v, v.out, d)

Heeds(w, m, v, d) ==
    /\ Sound(v) /\ w.applied \subseteq v.applied
    /\ PhaseOut(w.s, m) => PhaseOut(v.s, v.out)
    /\ (Blank(w.s) \/ PhaseIn(w.s, m)) /\ Ready(w) => Ready(v)
    /\ PhaseOut(w.s, m) /\ Fine(w, m, d) => Fine(v, v.out, d)

\* What the acceptances prove they go on proving.
LEMMA MoreDone ==
    ASSUME NEW a, NEW b, a \subseteq b
    PROVE  /\ \A i : DoneBy(i, a) => DoneBy(i, b)
           /\ \A q : AllDone(q, a) => AllDone(q, b)
           /\ \A stored : CredsDone(stored, a) => CredsDone(stored, b)
           /\ \A stored : ProvDone(stored, a) => ProvDone(stored, b)
           /\ \A s : CollectsReady(s, a) => CollectsReady(s, b)
           /\ \A d, s, m : MarkOK(d, s, m, a) => MarkOK(d, s, m, b)
           /\ \A s, m : CredsOK(s, m, a) => CredsOK(s, m, b)
           /\ \A m : Behind(m, a) => Behind(m, b)
<1>1. \A i : DoneBy(i, a) => DoneBy(i, b)
  BY DEF DoneBy
<1>2. /\ \A q : AllDone(q, a) => AllDone(q, b)
      /\ \A stored : CredsDone(stored, a) => CredsDone(stored, b)
      /\ \A s, m : CredsOK(s, m, a) => CredsOK(s, m, b)
  BY <1>1 DEF AllDone, CredsDone, CredsOK
<1>3. \A s : CollectsReady(s, a) => CollectsReady(s, b)
  BY DEF CollectsReady
<1>4. \A d : DefaultsAccepted(d, a) => DefaultsAccepted(d, b)
  BY DEF DefaultsAccepted
<1>5. /\ \A stored : ProvDone(stored, a) => ProvDone(stored, b)
      /\ \A d, s, m : MarkOK(d, s, m, a) => MarkOK(d, s, m, b)
  BY <1>4 DEF ProvDone, MarkOK
<1>6. \A m : Behind(m, a) => Behind(m, b)
  BY DEF Behind
<1> QED BY <1>1, <1>2, <1>3, <1>5, <1>6

LEMMA ItemsApart ==
    ASSUME NEW d \in Device
    PROVE  /\ Defaults(d) \in Item /\ Defaults(d) \notin Unbuildable
           /\ Close.item = NoItem /\ Close.step = 0 /\ Ack.item = NoItem /\ Ack # Close
           /\ \A t \in Diagnostics : Defaults(d) # Collect(t)
<1>1. Defaults(d) \in Item /\ Defaults(d) \notin Task /\ Unbuildable \subseteq Task
  BY OwnItems, TaskAssumption
<1>2. Close.item = NoItem /\ Close.step = 0 /\ Ack.item = NoItem /\ Ack # Close
  BY DEF Close, Ack, Msg
<1> QED BY <1>1, <1>2, CollectItems

\* The RPCs each kind of task is made of.
LEMMA OperationFacts ==
    ASSUME NEW i \in Item
    PROVE  /\ KindOf(i) = "wan" => Steps(i) = Len(WanSteps)
           /\ KindOf(i) = "pfadd" => Steps(i) = 2
           /\ KindOf(i) \notin {"wan", "pfadd"} => Steps(i) = 1
           /\ KindOf(i) = "pfadd" => Operation(i, 1) = "AddObject"
           /\ 1 \in 1 .. Steps(i)
<1>1. /\ KindOf(i) = "wan" => Steps(i) = Len(WanSteps)
      /\ KindOf(i) = "pfadd" => Steps(i) = 2
      /\ KindOf(i) \notin {"wan", "pfadd"} => Steps(i) = 1
  BY DEF Steps
<1>2. KindOf(i) = "pfadd" => Operation(i, 1) = "AddObject"
  BY DEF Operation, RpcOf
<1> QED BY <1>1, <1>2, FirstStep

LEMMA DispatchFollows ==
    ASSUME NEW d \in Device, NEW x, WorldOK(x, d), x.s.wp = NoItem, x.s.follow = NoItem,
           NEW v, v = DispatchNextOrClose(x)
    PROVE  Follows(x, v, d)
<1>1. /\ v.applied = x.applied /\ v.db = x.db
      /\ v.s.phase = x.s.phase /\ v.s.mark = x.s.mark /\ v.s.dev = x.s.dev
      /\ \A t \in Task : v.queue.status[t] = "done" => x.queue.status[t] = "done"
      /\ Idles(x, v) \/ \E i : Begins(x, v, i)
  BY DispatchOutcome
<1>2. AllDone(x.queue, x.applied) => AllDone(v.queue, v.applied)
  BY <1>1 DEF AllDone
<1>3. ASSUME Idles(x, v) PROVE Follows(x, v, d)
  <2>1. Close.item \notin Item /\ Close.item # Summon /\ Close.item = NoItem
    BY ItemsApart, NoItemIsNoItem
  <2>2. Sound(v) /\ ~Summons(v.out)
    BY <1>3, <2>1 DEF Sound, InTouch, Fits, Behind, PhaseIn, Summons, Idles
  <2>3. CollectsReady(x.s, x.applied) => CollectsReady(v.s, v.applied)
    BY <1>1, <1>3 DEF CollectsReady, Idles, Range
  <2>4. DefaultsNext(d, x.s) => Defaults(d) \in Unbuildable
    <3>1. x.s.pend \in Seq(Item)
      BY WorldParts
    <3>2. x.s.pend # <<>> => x.s.pend[1] \in Range(x.s.pend)
      BY <3>1, HeadOfPend
    <3> QED BY <1>3, <3>2 DEF DefaultsNext, Idles
  <2>5. Tidy(x, d) => CredsOK(v.s, v.out, v.applied) /\ MarkOK(d, v.s, v.out, v.applied)
    BY <1>1, <1>3, <2>4, ItemsApart DEF Tidy, CredsTidy, CredsOK, MarkOK, Idles
  <2>6. Tidy(x, d) /\ CurFree(x.s) => Fine(v, v.out, d)
    BY <1>1, <1>3, <2>5 DEF Fine, Tidy, CredsTidy, CurFree, Idles
  <2> QED BY <1>1, <1>2, <2>2, <2>3, <2>6 DEF Follows, Ready
<1>4. ASSUME NEW i, Begins(x, v, i) PROVE Follows(x, v, d)
  <2>1. i \in Item /\ i # NoItem /\ i # Summon /\ v.out.item = i /\ v.out.step = 1
    BY <1>4, NoItemIsNoItem DEF Begins
  <2>2. InTouch(v.s, v.out)
    BY <1>4, <2>1 DEF InTouch, Begins
  <2>3. Fits(v.out)
    BY <1>4, <2>1, OperationFacts DEF Fits, Begins
  <2>4. Behind(v.out, v.applied) /\ PhaseIn(v.s, v.out) /\ ~Summons(v.out)
    BY <2>1 DEF Behind, PhaseIn, Summons
  <2>5. CollectsReady(x.s, x.applied) => CollectsReady(v.s, v.applied)
    BY <1>1, <1>4 DEF CollectsReady, Begins
  <2>6. Tidy(x, d) => CredsOK(v.s, v.out, v.applied)
    BY <1>1, <1>4 DEF Tidy, CredsTidy, CredsOK, Begins
  <2>7. Tidy(x, d) => MarkOK(d, v.s, v.out, v.applied)
    <3>1. DefaultsNext(d, x.s) => i = Defaults(d)
      BY <1>4, ItemsApart DEF DefaultsNext, Begins
    <3> QED BY <1>1, <2>1, <3>1 DEF Tidy, CredsTidy, MarkOK
  <2>8. Tidy(x, d) => Fine(v, v.out, d)
    BY <1>1, <2>1, <2>6, <2>7 DEF Fine, Tidy, CredsTidy
  <2> QED BY <1>1, <1>2, <2>2, <2>3, <2>4, <2>5, <2>8 DEF Follows, Ready, Sound
<1> QED BY <1>1, <1>3, <1>4

-----------------------------------------------------------------------------
(* A task is released, and the session goes on.                            *)

Releases(w, x, d) ==
    /\ WorldOK(x, d) /\ x.s = Released(w.s) /\ x.db = w.db /\ x.applied = w.applied
DoneRight(w, x) ==
    \A t \in Task : x.queue.status[t] = "done" =>
        w.queue.status[t] = "done" \/ DoneBy(t, w.applied)
Answers(w, x, v, d) ==
    /\ Sound(v) /\ ~Summons(v.out) /\ v.s.phase = w.s.phase /\ v.applied = w.applied
    /\ DoneRight(w, x) /\ Ready(w) => Ready(v)
    /\ Tidy(w, d) => Fine(v, v.out, d)

LEMMA ReleaseAnswers ==
    ASSUME NEW d \in Device, NEW w, w.s \in SessionType, w.s.wp = NoItem, w.s.follow = NoItem,
           NEW x, Releases(w, x, d), NEW v, v = DispatchNextOrClose(x)
    PROVE  Answers(w, x, v, d)
<1>1. /\ x.s.cur = NoItem /\ x.s.pend = w.s.pend /\ x.s.wp = w.s.wp /\ x.s.follow = w.s.follow
      /\ x.s.mark = w.s.mark /\ x.s.creds = w.s.creds /\ x.s.phase = w.s.phase
  BY ReleasedFields DEF Releases
<1>2. WorldOK(x, d) /\ x.db = w.db /\ x.applied = w.applied
  BY DEF Releases
<1>3. Follows(x, v, d)
  BY <1>1, <1>2, DispatchFollows
<1>4. Tidy(w, d) => Tidy(x, d) /\ CurFree(x.s)
  BY <1>1, <1>2 DEF Tidy, CredsTidy, CurFree, DefaultsNext
<1>5. DoneRight(w, x) /\ Ready(w) => Ready(x)
  <2>1. CollectsReady(w.s, w.applied) => CollectsReady(x.s, x.applied)
    <3>1. \A t \in Diagnostics : Collect(t) # NoItem
      BY CollectItems, NoItemIsNoItem
    <3> QED BY <1>1, <1>2, <3>1 DEF CollectsReady
  <2>2. DoneRight(w, x) /\ AllDone(w.queue, w.applied) => AllDone(x.queue, x.applied)
    BY <1>2 DEF DoneRight, AllDone
  <2> QED BY <2>1, <2>2 DEF Ready
<1> QED BY <1>1, <1>2, <1>3, <1>4, <1>5 DEF Answers, Follows

LEMMA TaskResponseAnswers ==
    ASSUME NEW d \in Device, NEW w, WorldOK(w, d), w.s.wp = NoItem, w.s.follow = NoItem,
           NEW st \in Terminal, NEW v, v = TaskResponse(w, st)
    PROVE  \E x : /\ Answers(w, x, v, d)
                  /\ \A t \in Task : x.queue.status[t] =
                        IF t = w.s.cur THEN st ELSE w.queue.status[t]
<1>1. w \in WorldType /\ SessionOK(w.s, d, w.queue) /\ w.s \in SessionType
  BY DEF WorldOK, WorldType
<1>2. PICK y \in WorldType :
        /\ y.s = Released(w.s) /\ y.queue = w.queue /\ y.db = w.db
        /\ y.transfers = w.transfers /\ y.applied = w.applied /\ y.fresh \subseteq w.fresh
        /\ TaskResponse(w, st)
             = DispatchNextOrClose(IF w.s.cur = NoItem THEN y ELSE UpdateStatus(y, w.s.cur, st))
  BY <1>1, TaskResponseIs
<1>3. y.s.cur = NoItem /\ Trims(w.s, y.s)
  BY <1>1, <1>2, ReleasedFields DEF Trims, SessionOK
<1>4. WorldOK(y, d)
  BY <1>2, <1>3, TrimOK
<1>5. CASE w.s.cur = NoItem
  <2>1. Releases(w, y, d)
    BY <1>2, <1>4 DEF Releases
  <2>2. v = DispatchNextOrClose(y)
    BY <1>2, <1>5
  <2>3. Answers(w, y, v, d)
    BY <1>1, <2>1, <2>2, ReleaseAnswers
  <2> QED BY <1>2, <1>5, <2>3, NoItemIsNoItem
<1>6. CASE w.s.cur # NoItem
  <2> DEFINE x == UpdateStatus(y, w.s.cur, st)
  <2>1. w.s.cur \in Mine(d) /\ (w.s.cur \in Task => Settled(y.queue, w.s.cur))
    BY <1>1, <1>2, <1>6 DEF SessionOK, CurrentOK
  <2>2. WorldOK(x, d)
    BY <1>3, <1>4, <1>6, <2>1, SettleOK
  <2>3. w.s.cur \in Item /\ st \in Statuses
    BY <2>1, OwnItems DEF Terminal, Statuses
  <2>4. /\ x.s = y.s /\ x.db = y.db /\ x.applied = y.applied
        /\ x.queue.status = [y.queue.status EXCEPT ![w.s.cur] = st]
    BY <2>3, UpdateStatusFields, ZenonT(40)
  <2>5. v = DispatchNextOrClose(x)
    BY <1>2, <1>6
  <2> HIDE DEF x
  <2>6. Releases(w, x, d)
    BY <1>2, <2>2, <2>4 DEF Releases
  <2>7. Answers(w, x, v, d)
    BY <1>1, <2>5, <2>6, ReleaseAnswers
  <2>8. \A t \in Task : x.queue.status[t] = IF t = w.s.cur THEN st ELSE w.queue.status[t]
    BY <1>2, <2>4, NoItemIsNoItem DEF WorldType, QueueType
  <2> QED BY <2>7, <2>8
<1> QED BY <1>5, <1>6

\* With a task that failed, or that its CPE has done, all is well.
LEMMA TaskResponseReady ==
    ASSUME NEW d \in Device, NEW w, WorldOK(w, d), w.s.wp = NoItem, w.s.follow = NoItem,
           NEW st \in Terminal, NEW v, v = TaskResponse(w, st),
           st = "done" /\ w.s.cur \in Task => DoneBy(w.s.cur, w.applied)
    PROVE  /\ Sound(v) /\ ~Summons(v.out) /\ v.s.phase = w.s.phase /\ v.applied = w.applied
           /\ Ready(w) => Ready(v)
           /\ Tidy(w, d) => Fine(v, v.out, d)
<1>1. PICK x : /\ Answers(w, x, v, d)
               /\ \A t \in Task : x.queue.status[t] = IF t = w.s.cur THEN st ELSE w.queue.status[t]
  BY TaskResponseAnswers
<1>2. DoneRight(w, x)
  BY <1>1 DEF DoneRight
<1> QED BY <1>1, <1>2 DEF Answers

\* The kind of a task shows in the RPC its CPE answers.
LEMMA OpTells ==
    ASSUME NEW m, Fits(m), m.item \in Item, m.step \in Nat
    PROVE  /\ m.op = "Reboot" => KindOf(m.item) = "reboot"
           /\ m.op = "Download" => KindOf(m.item) = "firmware"
           /\ m.op = "DeleteObject" => KindOf(m.item) \in {"wan", "pfdel"}
           /\ m.op = "AddObject" => KindOf(m.item) \in {"wan", "pfadd"}
           /\ m.op = "AddObject" /\ KindOf(m.item) = "pfadd" => m.step = 1
           /\ m.op = "SetParameterValues" /\ KindOf(m.item) = "pfadd" => m.step = 2
           /\ m.op = "GetParameterValues" => KindOf(m.item) \in {"get", "collect"}
           /\ m.op = "SetParameterValues"
                => KindOf(m.item) \in {"set", "wifi", "lan", "diag", "wanset", "wan", "pfadd"}
           /\ m.op \notin {"204", "InformResponse", "GetParameterNames"}
           /\ KindOf(m.item) = "wan" => m.op = WanSteps[m.step] /\ m.step \in 1 .. Len(WanSteps)
           /\ KindOf(m.item) \notin {"wan", "pfadd"} => m.step = 1 /\ Steps(m.item) = 1
           /\ KindOf(m.item) = "pfadd" => m.step \in {1, 2} /\ Steps(m.item) = 2
           /\ KindOf(m.item) = "wan" => Steps(m.item) = Len(WanSteps)
<1> DEFINE i == m.item
<1>1. m.step \in 1 .. Steps(i) /\ m.op = Operation(i, m.step) /\ i \in Item
  BY DEF Fits
<1>2. KindOf(i) \in Kinds \cup {"collect"}
  BY KindsOfItems DEF Kinds
<1>3. /\ KindOf(i) = "wan" => Steps(i) = Len(WanSteps)
      /\ KindOf(i) = "pfadd" => Steps(i) = 2
      /\ KindOf(i) \notin {"wan", "pfadd"} => Steps(i) = 1
  BY <1>1, OperationFacts
<1>4. /\ KindOf(i) = "wan" => m.step \in 1 .. Len(WanSteps)
      /\ KindOf(i) = "pfadd" => m.step \in {1, 2}
      /\ KindOf(i) \notin {"wan", "pfadd"} => m.step = 1
  BY <1>1, <1>3
<1>5. KindOf(i) = "wan" => m.op = WanSteps[m.step] /\ m.op \in StepKinds
  BY <1>1, <1>4, FirstStep DEF Operation
<1>6. KindOf(i) # "wan" => m.op = IF m.step = 2 THEN "SetParameterValues" ELSE RpcOf(i)
  BY <1>1 DEF Operation
<1>7. /\ m.op = "Reboot" => KindOf(i) = "reboot"
      /\ m.op = "Download" => KindOf(i) = "firmware"
      /\ m.op = "DeleteObject" => KindOf(i) \in {"wan", "pfdel"}
      /\ m.op = "AddObject" => KindOf(i) \in {"wan", "pfadd"}
      /\ m.op = "GetParameterValues" => KindOf(i) \in {"get", "collect"}
      /\ m.op = "SetParameterValues"
                => KindOf(i) \in {"set", "wifi", "lan", "diag", "wanset", "wan", "pfadd"}
      /\ m.op \notin {"204", "InformResponse", "GetParameterNames"}
  BY <1>2, <1>4, <1>5, <1>6 DEF Kinds, RpcOf, StepKinds
<1>8. KindOf(i) = "pfadd" => m.op = IF m.step = 2 THEN "SetParameterValues" ELSE "AddObject"
  BY <1>6 DEF RpcOf
<1> QED BY <1>3, <1>4, <1>5, <1>7, <1>8

\* A task whose last RPC has been accepted is done.
LEMMA LastRpcFinishes ==
    ASSUME NEW m, NEW a, Fits(m), Told(m, a), m.item \in Item, m.step \in Nat,
           m.step = Steps(m.item), m.item \notin Diagnostics
    PROVE  DoneBy(m.item, a)
BY DEF DoneBy, Told

\* Once a task has been dealt with, nothing depends on what its CPE holds.
LEMMA DealtWith ==
    ASSUME NEW d \in Device, NEW w, NEW m, m.item \in Item \cup {Summon}, m # Close,
           KindOf(m.item) \in {"wan", "wanset"} /\ m.item \in Item => DoneBy(m.item, w.applied),
           m.item = Defaults(d) => DefaultsAccepted(d, w.applied),
           w.s.creds \in Item \cup {NoItem},
           Fine(w, m, d)
    PROVE  Tidy(w, d)
<1>1. w.s.creds # NoItem => KindOf(w.s.creds) \in {"wan", "wanset"} /\ DoneBy(w.s.creds, w.applied)
  <2>1. w.s.creds # NoItem => /\ KindOf(w.s.creds) \in {"wan", "wanset"}
                              /\ m.item = w.s.creds \/ DoneBy(w.s.creds, w.applied)
    BY DEF Fine, CredsOK
  <2> QED BY <2>1
<1>2. w.s.mark => GlobalDefaults /\ (DefaultsAccepted(d, w.applied) \/ DefaultsNext(d, w.s))
  BY DEF Fine, MarkOK
<1> QED BY <1>1, <1>2 DEF Fine, Tidy, CredsTidy

-----------------------------------------------------------------------------
(* One lemma per answer: the handler leaves session and RPC in touch.      *)

Hearing(d, w, m) ==
    /\ WorldOK(w, d) /\ Hears(w.s, m)
    /\ m.step \in Nat /\ m.op \notin {"204", "InformResponse"}

LEMMA HearingFacts ==
    ASSUME NEW d \in Device, NEW w, NEW m, Hearing(d, w, m)
    PROVE  /\ w \in WorldType /\ w.s \in SessionType /\ SessionOK(w.s, d, w.queue)
           /\ m.item \in Item \cup {Summon} /\ m # Close /\ Fits(m)
           /\ w.s.creds \in Item \cup {NoItem} /\ w.s.wp \in Task \cup {NoItem}
           /\ w.s.follow \in Task \cup {NoItem} /\ w.s.cur \in Item \cup {NoItem}
           /\ w.s.wp # NoItem =>
                /\ m.item = w.s.wp /\ m.item \in Task /\ m.item \in Item
                /\ m.step = w.s.step /\ KindOf(m.item) = "wan"
                /\ w.s.follow = NoItem /\ w.s.cur = m.item
           /\ w.s.wp = NoItem /\ w.s.follow # NoItem =>
                /\ m.item = w.s.follow /\ m.item \in Task /\ m.item \in Item
                /\ m.step = 1 /\ KindOf(m.item) = "pfadd" /\ w.s.cur = m.item
           /\ w.s.wp = NoItem /\ w.s.follow = NoItem /\ m.item \in Item =>
                \/ Blank(w.s)
                \/ /\ w.s.cur = m.item /\ KindOf(m.item) # "wan"
                   /\ KindOf(m.item) = "pfadd" => m.step # 1
           /\ m.item = Summon => Blank(w.s) \/ (w.s.wp = NoItem /\ w.s.follow = NoItem)
           /\ m.op \notin {"GetParameterNames", "GetParameterValues"} => m.item \in Item
<1>1. /\ w \in WorldType /\ w.s \in SessionType /\ SessionOK(w.s, d, w.queue)
      /\ m.item \in Item \cup {Summon} /\ Fits(m) /\ (Blank(w.s) \/ InTouch(w.s, m))
  BY DEF Hearing, WorldOK, WorldType, Hears
<1>2. m # Close
  BY <1>1, ItemsApart, NoItemIsNoItem
<1>3. /\ w.s.creds \in Item \cup {NoItem} /\ w.s.wp \in Task \cup {NoItem}
      /\ w.s.follow \in Task \cup {NoItem} /\ w.s.cur \in Item \cup {NoItem}
  BY <1>1, NoItemIsNoItem DEF SessionType
<1>4. m.op \notin {"GetParameterNames", "GetParameterValues"} => m.item \in Item
  BY <1>1 DEF Fits
<1>5. w.s.wp # NoItem =>
                /\ m.item = w.s.wp /\ m.item \in Task /\ m.item \in Item
                /\ m.step = w.s.step /\ KindOf(m.item) = "wan"
                /\ w.s.follow = NoItem /\ w.s.cur = m.item
  BY <1>1, <1>3, NoItemIsNoItem DEF InTouch, Blank
<1>6. w.s.wp = NoItem /\ w.s.follow # NoItem =>
                /\ m.item = w.s.follow /\ m.item \in Task /\ m.item \in Item
                /\ m.step = 1 /\ KindOf(m.item) = "pfadd" /\ w.s.cur = m.item
  BY <1>1, <1>3, NoItemIsNoItem DEF InTouch, Blank
<1>7. w.s.wp = NoItem /\ w.s.follow = NoItem /\ m.item \in Item =>
                \/ Blank(w.s)
                \/ /\ w.s.cur = m.item /\ KindOf(m.item) # "wan"
                   /\ KindOf(m.item) = "pfadd" => m.step # 1
  BY <1>1, <1>3, NoItemIsNoItem DEF InTouch
<1>8. m.item = Summon => Blank(w.s) \/ (w.s.wp = NoItem /\ w.s.follow = NoItem)
  BY <1>1, <1>3, NoItemIsNoItem DEF InTouch
<1> QED BY <1>1, <1>2, <1>3, <1>4, <1>5, <1>6, <1>7, <1>8

LEMMA SameReady ==
    ASSUME NEW w, NEW x, x.queue = w.queue, x.applied = w.applied,
           x.s.pend = w.s.pend, x.s.cur \in {w.s.cur, NoItem}
    PROVE  Ready(w) => Ready(x)
<1>1. \A t \in Diagnostics : Collect(t) # NoItem
  BY CollectItems, NoItemIsNoItem
<1>2. CollectsReady(w.s, w.applied) => CollectsReady(x.s, x.applied)
  BY <1>1 DEF CollectsReady
<1> QED BY <1>2 DEF Ready

LEMMA SameTidy ==
    ASSUME NEW d, NEW w, NEW x, x.db = w.db, x.applied = w.applied,
           x.s.pend = w.s.pend, x.s.mark => w.s.mark, x.s.creds \in {w.s.creds, NoItem}
    PROVE  Tidy(w, d) => Tidy(x, d)
BY DEF Tidy, CredsTidy, DefaultsNext

LEMMA NoSummonHeeds ==
    ASSUME NEW d, NEW w, NEW m, NEW v, Sound(v), ~Summons(m),
           v.s.phase = w.s.phase, v.applied = w.applied,
           Ready(w) => Ready(v), Fine(w, m, d) => Fine(v, v.out, d)
    PROVE  Heeds(w, m, v, d)
BY DEF Heeds, PhaseOut

LEMMA AdvanceHeeds ==
    ASSUME NEW d \in Device, NEW w, NEW m, Hearing(d, w, m), Told(m, w.applied),
           w.s.wp # NoItem, NEW v, v = Advance(w)
    PROVE  Heeds(w, m, v, d)
<1>1. /\ w \in WorldType /\ w.s \in SessionType /\ SessionOK(w.s, d, w.queue)
      /\ m.item \in Item \cup {Summon} /\ m # Close /\ Fits(m)
      /\ w.s.creds \in Item \cup {NoItem}
      /\ m.item = w.s.wp /\ m.item \in Task /\ m.item \in Item
      /\ m.step = w.s.step /\ KindOf(m.item) = "wan"
      /\ w.s.follow = NoItem /\ w.s.cur = m.item
  BY HearingFacts
<1>2. m.step \in Nat /\ m.step \in 1 .. Len(WanSteps) /\ Steps(m.item) = Len(WanSteps)
  BY <1>1, OpTells DEF Hearing
<1>3. m.item # Summon /\ m.item # NoItem /\ ~Summons(m) /\ m.item # Defaults(d)
  BY <1>1, NoItemIsNoItem, OwnItems DEF Summons
<1>4. Kind[m.item] = "wan" /\ m.item \notin Diagnostics
  BY <1>1, KindsOfItems DEF Diagnostics
<1>5. ASSUME w.s.step + 1 \in 1 .. Len(WanSteps), v \in WorldType,
             v.s = [w.s EXCEPT !.step = w.s.step + 1], v.out = StepMsg(v.s),
             v.queue = w.queue, v.db = w.db, v.applied = w.applied
      PROVE  Heeds(w, m, v, d)
  <2> DEFINE n == w.s.step + 1
  <2>1. /\ v.s.step = n /\ v.s.wp = w.s.wp /\ v.s.follow = w.s.follow /\ v.s.cur = w.s.cur
        /\ v.s.pend = w.s.pend /\ v.s.mark = w.s.mark /\ v.s.creds = w.s.creds
        /\ v.s.phase = w.s.phase
    <3>1. v.s = [w.s EXCEPT !.step = n]
      BY <1>5
    <3> HIDE DEF n
    <3> QED BY <1>1, <3>1 DEF SessionType
  <2>2. v.out.item = m.item /\ v.out.step = m.step + 1 /\ v.out.op = WanSteps[m.step + 1]
    BY <1>1, <1>5, <2>1 DEF StepMsg, Msg
  <2>3. Operation(m.item, m.step + 1) = WanSteps[m.step + 1]
    BY <1>1 DEF Operation
  <2>4. InTouch(v.s, v.out)
    BY <1>1, <2>1, <2>2 DEF InTouch
  <2>5. Fits(v.out)
    BY <1>1, <1>2, <1>3, <1>5, <2>2, <2>3 DEF Fits
  <2>6. Behind(v.out, v.applied)
    <3>1. (m.step + 1) - 1 = m.step
      BY <1>2
    <3> QED BY <1>5, <2>2, <3>1 DEF Behind, Told
  <2>7. Sound(v)
    BY <1>3, <2>2, <2>4, <2>5, <2>6 DEF Sound, PhaseIn, Summons
  <2>8. Ready(w) => Ready(v)
    BY <1>5, <2>1, SameReady
  <2>9. Fine(w, m, d) => Fine(v, v.out, d)
    <3>1. m.op # "Download"
      BY <1>1, <1>2, OpTells
    <3>2. MarkOK(d, w.s, m, w.applied) => MarkOK(d, v.s, v.out, v.applied)
      BY <1>3, <1>5, <2>1, <3>1, <1>1 DEF MarkOK
    <3>3. CredsOK(w.s, m, w.applied) => CredsOK(v.s, v.out, v.applied)
      BY <1>5, <2>1, <2>2 DEF CredsOK
    <3> QED BY <1>1, <1>5, <2>2, <3>2, <3>3 DEF Fine
  <2> QED BY <1>3, <1>5, <2>1, <2>7, <2>8, <2>9, NoSummonHeeds
<1>6. ASSUME w.s.step = Len(WanSteps), NEW x \in WorldType, v = TaskResponse(x, "done"),
             x.s = ProvisionDropped(w.s), x.queue = w.queue, x.db = w.db,
             x.transfers = w.transfers, x.applied = w.applied
      PROVE  Heeds(w, m, v, d)
  <2>1. /\ x.s.wp = NoItem /\ x.s.follow = NoItem /\ x.s.cur = m.item
        /\ x.s.pend = w.s.pend /\ x.s.mark = w.s.mark /\ x.s.creds = w.s.creds
        /\ x.s.phase = w.s.phase
    BY <1>1, <1>6, DroppedFields
  <2>2. WorldOK(x, d) /\ "done" \in Terminal
    BY <1>6, DroppedTrims DEF Terminal, Hearing
  <2>3. DoneBy(m.item, w.applied)
    BY <1>1, <1>2, <1>4, <1>6, LastRpcFinishes
  <2>4. /\ Sound(v) /\ ~Summons(v.out) /\ v.s.phase = x.s.phase /\ v.applied = x.applied
        /\ Ready(x) => Ready(v)
        /\ Tidy(x, d) => Fine(v, v.out, d)
    BY <1>6, <2>1, <2>2, <2>3, TaskResponseReady
  <2>5. Ready(w) => Ready(x)
    BY <1>1, <1>6, <2>1, SameReady
  <2>6. Fine(w, m, d) => Tidy(w, d)
    BY <1>1, <1>3, <2>3, DealtWith
  <2>7. Tidy(w, d) => Tidy(x, d)
    BY <1>6, <2>1, SameTidy
  <2> QED BY <1>3, <1>6, <2>1, <2>4, <2>5, <2>6, <2>7, NoSummonHeeds
<1> QED BY <1>1, <1>5, <1>6, AdvanceCases

LEMMA BetterHeeds ==
    ASSUME NEW d, NEW w, NEW x, NEW m, NEW v, Heeds(x, m, v, d),
           x.applied = w.applied, x.s.phase = w.s.phase,
           Blank(w.s) => Blank(x.s), Ready(w) => Ready(x), Fine(w, m, d) => Fine(x, m, d)
    PROVE  Heeds(w, m, v, d)
BY DEF Heeds, PhaseIn, PhaseOut

\* The credentials are stored when their task has been done.
LEMMA StoredFields ==
    ASSUME NEW w \in WorldType
    PROVE  /\ StoreCredentials(w).s.creds = NoItem
           /\ StoreCredentials(w).s.pend = w.s.pend /\ StoreCredentials(w).s.cur = w.s.cur
           /\ StoreCredentials(w).s.wp = w.s.wp /\ StoreCredentials(w).s.step = w.s.step
           /\ StoreCredentials(w).s.follow = w.s.follow /\ StoreCredentials(w).s.mark = w.s.mark
           /\ StoreCredentials(w).s.phase = w.s.phase /\ StoreCredentials(w).s.dev = w.s.dev
<1>1. w.s \in SessionType /\ StoreCredentials(w).s = [w.s EXCEPT !.creds = NoItem]
  BY StoreCredentialsFields DEF WorldType
<1> QED BY <1>1 DEF SessionType

LEMMA StoredFine ==
    ASSUME NEW d \in Device, NEW w \in WorldType, NEW m, m.item # NoItem,
           m.item = w.s.creds => DoneBy(m.item, w.applied), Fine(w, m, d)
    PROVE  Fine(StoreCredentials(w), m, d)
<1> DEFINE x == StoreCredentials(w)
<1>1. /\ x.s.creds = NoItem /\ x.s.pend = w.s.pend /\ x.s.cur = w.s.cur /\ x.s.mark = w.s.mark
      /\ x.applied = w.applied /\ x.db.provisioned = w.db.provisioned
      /\ x.db.creds = w.db.creds \cup ({w.s.creds} \ {NoItem})
  BY StoredFields, StoreCredentialsFields
<1> HIDE DEF x
<1>2. CredsDone(x.db, x.applied)
  BY <1>1 DEF CredsDone, Fine, CredsOK
<1>3. CredsOK(x.s, m, x.applied)
  BY <1>1 DEF CredsOK
<1>4. MarkOK(d, x.s, m, x.applied) /\ ProvDone(x.db, x.applied)
  BY <1>1 DEF Fine, MarkOK, ProvDone, DefaultsNext
<1>5. Fine(x, m, d)
  BY <1>1, <1>2, <1>3, <1>4 DEF Fine, CurFree
<1> QED BY <1>5 DEF x

LEMMA SetParamValuesHeeds ==
    ASSUME NEW d \in Device, NEW w, NEW m, Hearing(d, w, m), Told(m, w.applied),
           m.op = "SetParameterValues", NEW v, v = SetParamValuesResponse(w)
    PROVE  Heeds(w, m, v, d)
<1>1. /\ w \in WorldType /\ w.s \in SessionType /\ SessionOK(w.s, d, w.queue)
      /\ m.item \in Item /\ m # Close /\ Fits(m) /\ WorldOK(w, d)
      /\ w.s.creds \in Item \cup {NoItem} /\ w.s.cur \in Item \cup {NoItem}
      /\ Blank(w.s) \/ InTouch(w.s, m)
      /\ m.step \in Nat
  BY HearingFacts DEF Hearing, Hears
<1>2. m.item # Summon /\ m.item # NoItem /\ ~Summons(m)
  BY <1>1, NoItemIsNoItem DEF Summons
<1>3. CASE w.s.wp # NoItem
  <2>1. m.item = w.s.wp /\ m.item \in Task /\ m.step = w.s.step /\ KindOf(m.item) = "wan"
        /\ w.s.cur = m.item /\ m.step \in Nat
    BY <1>3, HearingFacts DEF Hearing
  <2>2. m.step \in 1 .. Len(WanSteps) /\ Steps(m.item) = Len(WanSteps) /\ m.item \notin Diagnostics
    BY <1>1, <2>1, OpTells, KindsOfItems DEF Diagnostics
  <2>3. CASE ~LastStep(w.s)
    <3>1. v = Advance(w)
      BY <1>3, <2>3 DEF SetParamValuesResponse
    <3> QED BY <1>3, <3>1, AdvanceHeeds
  <2>4. CASE LastStep(w.s)
    <3> DEFINE x == StoreCredentials(w)
    <3>1. v = Advance(x)
      BY <1>3, <2>4 DEF SetParamValuesResponse
    <3>2. m.step = Steps(m.item)
      BY <2>1, <2>2, <2>4, FirstStep DEF LastStep
    <3>3. DoneBy(m.item, w.applied)
      BY <1>1, <2>1, <2>2, <3>2, LastRpcFinishes
    <3>4. WorldOK(x, d) /\ x.queue = w.queue /\ x.applied = w.applied
      BY <1>1, StoreCredentialsOK, StoreCredentialsFields
    <3>5. /\ x.s.creds = NoItem
          /\ x.s.pend = w.s.pend /\ x.s.cur = w.s.cur /\ x.s.wp = w.s.wp
          /\ x.s.step = w.s.step /\ x.s.follow = w.s.follow /\ x.s.mark = w.s.mark
          /\ x.s.phase = w.s.phase
      BY <1>1, StoredFields
    <3>6. Fine(w, m, d) => Fine(x, m, d)
      BY <1>1, <1>2, <3>3, StoredFine
    <3> HIDE DEF x
    <3>7. InTouch(x.s, m)
      BY <1>1, <1>3, <3>5 DEF InTouch, Blank
    <3>8. Hearing(d, x, m)
      BY <1>1, <3>4, <3>7 DEF Hearing, Hears
    <3>9. Heeds(x, m, v, d)
      BY <1>3, <3>1, <3>4, <3>5, <3>8, AdvanceHeeds
    <3>10. Ready(w) => Ready(x)
      BY <3>4, <3>5, SameReady
    <3>11. ~Blank(w.s)
      BY <1>3 DEF Blank
    <3> QED BY <3>4, <3>5, <3>6, <3>9, <3>10, <3>11, BetterHeeds
  <2> QED BY <2>3, <2>4
<1>4. ASSUME w.s.wp = NoItem
      PROVE  /\ w.s.follow = NoItem
             /\ Blank(w.s) \/ (w.s.cur = m.item /\ m.step = Steps(m.item))
  <2>1. w.s.follow # NoItem => KindOf(m.item) = "pfadd" /\ m.step = 1
    BY <1>4, HearingFacts
  <2>2. KindOf(m.item) = "pfadd" => m.step = 2
    BY <1>1, OpTells
  <2>3. w.s.follow = NoItem
    BY <2>1, <2>2
  <2>4. Blank(w.s) \/ (w.s.cur = m.item /\ KindOf(m.item) # "wan")
    BY <1>1, <1>4, <2>3, HearingFacts
  <2>5. KindOf(m.item) # "wan" => m.step = Steps(m.item)
    BY <1>1, <2>2, OpTells
  <2> QED BY <2>3, <2>4, <2>5
<1>5. CASE w.s.wp = NoItem /\ IsDiagnosticAsync(w.s.cur)
  <2> DEFINE x == [w EXCEPT !.s = Released(@)]
  <2>1. Released(w.s) \in SessionType /\ Trims(w.s, Released(w.s))
    BY <1>1, ReleasedFields DEF Trims, SessionOK
  <2>2. /\ x \in WorldType /\ x.s = Released(w.s) /\ x.queue = w.queue
        /\ x.transfers = w.transfers /\ x.db = w.db /\ x.applied = w.applied
    BY <1>1, <2>1, EditWorld
  <2>3. v = DispatchNextOrClose(x)
    BY <1>5 DEF SetParamValuesResponse
  <2> HIDE DEF x
  <2>4. Releases(w, x, d)
    BY <1>1, <2>1, <2>2, TrimOK DEF Releases
  <2>5. Answers(w, x, v, d)
    BY <1>1, <1>4, <1>5, <2>3, <2>4, ReleaseAnswers
  <2>6. DoneRight(w, x)
    BY <2>2 DEF DoneRight
  <2>7. m.item \in Diagnostics
    BY <1>4, <1>5, CollectItems, NoItemIsNoItem DEF IsDiagnosticAsync, Blank
  <2>8. KindOf(m.item) = "diag" /\ m.item # Defaults(d)
    BY <1>1, <2>7, KindsOfItems, OwnItems DEF Diagnostics
  <2>9. Fine(w, m, d) => Tidy(w, d)
    BY <1>1, <2>8, DealtWith
  <2> QED BY <1>2, <2>5, <2>6, <2>9, NoSummonHeeds DEF Answers
<1>6. CASE w.s.wp = NoItem /\ ~IsDiagnosticAsync(w.s.cur)
  <2> DEFINE x == [w EXCEPT !.s.mark = FALSE,
                     !.db.provisioned = @ \cup (IF w.s.mark THEN {w.s.dev} ELSE {})]
             S == [w.s EXCEPT !.mark = FALSE]
             D == [w.db EXCEPT !.provisioned = @ \cup (IF w.s.mark THEN {w.s.dev} ELSE {})]
             y == StoreCredentials(x)
  <2>1. /\ S \in SessionType /\ Trims(w.s, S) /\ S.cur = w.s.cur /\ S.wp = w.s.wp
        /\ S.follow = w.s.follow /\ S.pend = w.s.pend /\ S.phase = w.s.phase
        /\ S.mark = FALSE /\ S.creds = w.s.creds
    BY <1>1 DEF SessionType, Trims, SessionOK
  <2>2. w.db \in DbType /\ (w.s.mark => w.s.dev = d)
    BY <1>1 DEF SessionOK, WorldType
  <2>3. /\ D \in DbType /\ D.creds = w.db.creds
        /\ D.provisioned = w.db.provisioned \cup (IF w.s.mark THEN {w.s.dev} ELSE {})
    BY <2>2 DEF DbType
  <2>4. x = [w EXCEPT !.s = S, !.db = D]
    BY <1>1 DEF WorldType, SessionType, DbType
  <2>5. v = TaskResponse(y, "done")
    BY <1>6 DEF SetParamValuesResponse
  <2> HIDE DEF S, D
  <2>6. /\ x \in WorldType /\ x.s = S /\ x.queue = w.queue /\ x.transfers = w.transfers
        /\ x.db = D /\ x.applied = w.applied
    BY <1>1, <2>1, <2>3, <2>4 DEF WorldType
  <2> HIDE DEF x
  <2>7. WorldOK(x, d)
    BY <1>1, <2>1, <2>6, TrimOK
  <2>8. WorldOK(y, d) /\ y.queue = w.queue /\ "done" \in Terminal
    BY <2>6, <2>7, StoreCredentialsOK DEF Terminal
  <2>9. /\ y.applied = w.applied /\ y.db.creds = w.db.creds \cup ({w.s.creds} \ {NoItem})
        /\ y.db.provisioned = w.db.provisioned \cup (IF w.s.mark THEN {w.s.dev} ELSE {})
    BY <2>1, <2>3, <2>6, StoreCredentialsFields
  <2>10. /\ y.s.creds = NoItem /\ y.s.pend = w.s.pend /\ y.s.cur = w.s.cur /\ y.s.wp = NoItem
         /\ y.s.follow = NoItem /\ y.s.mark = FALSE /\ y.s.phase = w.s.phase
    BY <1>4, <1>6, <2>1, <2>6, StoredFields
  <2> HIDE DEF y
  <2>11. ~Blank(w.s) => DoneBy(m.item, w.applied)
    <3>1. ~Blank(w.s) => m.item \notin Diagnostics /\ m.step = Steps(m.item)
      BY <1>4, <1>6 DEF IsDiagnosticAsync
    <3> QED BY <1>1, <3>1, LastRpcFinishes
  <2>12. y.s.cur \in Task => DoneBy(y.s.cur, y.applied)
    BY <1>4, <1>6, <2>9, <2>10, <2>11, NoItemIsNoItem DEF Blank
  <2>13. /\ Sound(v) /\ ~Summons(v.out) /\ v.s.phase = y.s.phase /\ v.applied = y.applied
         /\ Ready(y) => Ready(v)
         /\ Tidy(y, d) => Fine(v, v.out, d)
    BY <2>5, <2>8, <2>10, <2>12, TaskResponseReady
  <2>14. Ready(w) => Ready(y)
    BY <2>8, <2>9, <2>10, SameReady
  <2>15. Fine(w, m, d) => Tidy(y, d)
    <3>1. Fine(w, m, d) => CredsDone(y.db, w.applied)
      BY <1>2, <2>9, <2>11 DEF Fine, CredsDone, CredsOK, Blank
    <3>2. m.item = Defaults(d) => DefaultsAccepted(d, w.applied)
      <4>1. m.step \in 1 .. Steps(m.item)
        BY <1>1 DEF Fits
      <4>2. m.step >= 1
        BY <1>1, <4>1
      <4>3. 1 \in 1 .. m.step
        BY <1>1, <4>2
      <4> QED BY <1>1, <4>3 DEF Told, DefaultsAccepted
    <3>3. Fine(w, m, d) /\ w.s.mark => DefaultsAccepted(d, w.applied)
      BY <1>2, <3>2 DEF Fine, MarkOK
    <3>4. Fine(w, m, d) => ProvDone(y.db, w.applied)
      BY <2>2, <2>9, <3>3 DEF ProvDone, Fine
    <3> QED BY <2>9, <2>10, <3>1, <3>4 DEF Tidy, CredsTidy
  <2> QED BY <1>2, <2>9, <2>10, <2>13, <2>14, <2>15, NoSummonHeeds
<1> QED BY <1>3, <1>5, <1>6

LEMMA DefaultsTold ==
    ASSUME NEW d, NEW m, Fits(m), m.step \in Nat, m.item \in Item, NEW a, Told(m, a),
           m.item = Defaults(d)
    PROVE  DefaultsAccepted(d, a)
<1>1. m.step \in 1 .. Steps(m.item)
  BY DEF Fits
<1>2. m.step >= 1
  BY <1>1
<1>3. 1 \in 1 .. m.step
  BY <1>2
<1> QED BY <1>3 DEF Told, DefaultsAccepted

LEMMA BlankTidy ==
    ASSUME NEW d, NEW w, NEW m, Blank(w.s), Fine(w, m, d)
    PROVE  Tidy(w, d)
BY DEF Blank, Fine, Tidy, CredsTidy

\* An answer that ends the task it belongs to, if the session knows it.
LEMMA EndsHeeds ==
    ASSUME NEW d \in Device, NEW w, NEW m, Hearing(d, w, m), Told(m, w.applied),
           m.item \in Item, w.s.wp = NoItem, w.s.follow = NoItem,
           Blank(w.s) \/ KindOf(m.item) \notin {"wan", "pfadd", "diag"},
           NEW v, v = TaskResponse(w, "done")
    PROVE  Heeds(w, m, v, d)
<1>1. /\ w \in WorldType /\ WorldOK(w, d) /\ m # Close /\ Fits(m) /\ m.step \in Nat
      /\ w.s.creds \in Item \cup {NoItem}
      /\ Blank(w.s) \/ w.s.cur = m.item
  BY HearingFacts DEF Hearing
<1>2. ~Blank(w.s) => m.step = Steps(m.item) /\ m.item \notin Diagnostics
  BY <1>1, OpTells, KindsOfItems DEF Diagnostics
<1>3. ~Blank(w.s) => DoneBy(m.item, w.applied)
  BY <1>1, <1>2, LastRpcFinishes
<1>4. (w.s.cur \in Task => DoneBy(w.s.cur, w.applied)) /\ "done" \in Terminal
  BY <1>1, <1>3, NoItemIsNoItem DEF Blank, Terminal
<1>5. /\ Sound(v) /\ ~Summons(v.out) /\ v.s.phase = w.s.phase /\ v.applied = w.applied
      /\ Ready(w) => Ready(v)
      /\ Tidy(w, d) => Fine(v, v.out, d)
  BY <1>1, <1>4, TaskResponseReady
<1>6. m.item = Defaults(d) => DefaultsAccepted(d, w.applied)
  BY <1>1, DefaultsTold
<1>7. Fine(w, m, d) => Tidy(w, d)
  BY <1>1, <1>3, <1>6, DealtWith, BlankTidy
<1>8. ~Summons(m)
  BY NoItemIsNoItem DEF Summons
<1> QED BY <1>5, <1>7, <1>8, NoSummonHeeds

LEMMA RebootHeeds ==
    ASSUME NEW d \in Device, NEW w, NEW m, Hearing(d, w, m), Told(m, w.applied),
           m.op = "Reboot", NEW v, v = TaskResponse(w, "done")
    PROVE  Heeds(w, m, v, d)
<1>1. m.item \in Item /\ Fits(m) /\ m.step \in Nat
  BY HearingFacts DEF Hearing
<1>2. KindOf(m.item) = "reboot"
  BY <1>1, OpTells
<1>3. w.s.wp = NoItem /\ w.s.follow = NoItem
  BY <1>2, HearingFacts
<1> QED BY <1>1, <1>2, <1>3, EndsHeeds

LEMMA DeleteObjectHeeds ==
    ASSUME NEW d \in Device, NEW w, NEW m, Hearing(d, w, m), Told(m, w.applied),
           m.op = "DeleteObject", NEW v, v = DeleteObjectResponse(w)
    PROVE  Heeds(w, m, v, d)
<1>1. m.item \in Item /\ Fits(m) /\ m.step \in Nat
  BY HearingFacts DEF Hearing
<1>2. KindOf(m.item) \in {"wan", "pfdel"}
  BY <1>1, OpTells
<1>3. CASE w.s.wp # NoItem
  BY <1>3, AdvanceHeeds DEF DeleteObjectResponse
<1>4. CASE w.s.wp = NoItem
  <2>1. w.s.follow = NoItem
    BY <1>2, <1>4, HearingFacts
  <2>2. v = TaskResponse(w, "done")
    BY <1>4 DEF DeleteObjectResponse
  <2>3. Blank(w.s) \/ KindOf(m.item) \notin {"wan", "pfadd", "diag"}
    BY <1>1, <1>2, <1>4, <2>1, HearingFacts
  <2> QED BY <1>1, <1>4, <2>1, <2>2, <2>3, EndsHeeds
<1> QED BY <1>3, <1>4

LEMMA AddObjectHeeds ==
    ASSUME NEW d \in Device, NEW w, NEW m, Hearing(d, w, m), Told(m, w.applied),
           m.op = "AddObject", NEW v, v = AddObjectResponse(w)
    PROVE  Heeds(w, m, v, d)
<1> DEFINE S == [w.s EXCEPT !.follow = NoItem]
           x == [w EXCEPT !.s.follow = NoItem]
           fn == w.s.follow
<1>1. /\ m.item \in Item /\ Fits(m) /\ m.step \in Nat /\ w \in WorldType
      /\ w.s \in SessionType /\ SessionOK(w.s, d, w.queue) /\ fn \in Task \cup {NoItem}
      /\ w.s.creds \in Item \cup {NoItem}
  BY HearingFacts DEF Hearing
<1>2. /\ KindOf(m.item) \in {"wan", "pfadd"}
      /\ KindOf(m.item) = "pfadd" => m.step = 1
      /\ KindOf(m.item) = "wan" => WanSteps[m.step] = "AddObject"
  BY <1>1, OpTells
<1>3. m.item # Summon /\ m.item # NoItem /\ ~Summons(m)
  BY <1>1, NoItemIsNoItem DEF Summons
<1>4. fn = NoItem => x = w
  <2>1. x = [w EXCEPT !.s = S]
    BY <1>1 DEF WorldType, SessionType
  <2>2. fn = NoItem => S = w.s
    BY <1>1 DEF SessionType
  <2> HIDE DEF S, x
  <2>3. fn = NoItem => x = [w EXCEPT !.s = w.s]
    BY <2>1, <2>2
  <2>4. [w EXCEPT !.s = w.s] = w
    BY <1>1 DEF WorldType
  <2> QED BY <2>3, <2>4
<1>5. CASE w.s.wp # NoItem
  <2>1. WanSteps[w.s.step] = "AddObject" /\ fn = NoItem
    BY <1>2, <1>5, HearingFacts
  <2>2. v = Advance(w)
    BY <1>4, <1>5, <2>1 DEF AddObjectResponse
  <2> QED BY <1>5, <2>2, AdvanceHeeds
<1>6. CASE w.s.wp = NoItem /\ fn = NoItem
  <2>1. v = TaskResponse(w, "done")
    BY <1>4, <1>6 DEF AddObjectResponse
  <2>2. Blank(w.s)
    BY <1>1, <1>2, <1>6, HearingFacts
  <2> QED BY <1>1, <1>6, <2>1, <2>2, EndsHeeds
<1>7. CASE w.s.wp = NoItem /\ fn # NoItem
  <2> DEFINE o == Msg("SetParameterValues", fn, 2)
  <2>1. v = [x EXCEPT !.out = o]
    BY <1>7 DEF AddObjectResponse
  <2>2. /\ m.item = fn /\ m.step = 1 /\ KindOf(fn) = "pfadd" /\ w.s.cur = fn /\ fn \in Item
        /\ fn \in Task
    BY <1>1, <1>7, HearingFacts
  <2>3. o.item = fn /\ o.step = 2 /\ o.op = "SetParameterValues" /\ o \in ReplyType
    BY <2>2 DEF Msg, ReplyType, Ops, StepKinds
  <2>4. x = [w EXCEPT !.s = S]
    BY <1>1 DEF WorldType, SessionType
  <2>5. /\ S \in SessionType /\ S.follow = NoItem /\ S.cur = w.s.cur /\ S.wp = w.s.wp
        /\ S.pend = w.s.pend /\ S.mark = w.s.mark /\ S.creds = w.s.creds /\ S.phase = w.s.phase
    BY <1>1 DEF SessionType
  <2> HIDE DEF S, o
  <2>6. v = [w EXCEPT !.s = S, !.out = o]
    BY <1>1, <2>1, <2>4 DEF WorldType
  <2>7. v.s = S /\ v.out = o /\ v.queue = w.queue /\ v.db = w.db /\ v.applied = w.applied
    BY <1>1, <2>6 DEF WorldType
  <2> HIDE DEF x
  <2>8. InTouch(v.s, v.out)
    BY <1>7, <2>2, <2>3, <2>5, <2>7 DEF InTouch
  <2>9. Fits(v.out)
    <3>1. Steps(fn) = 2 /\ Operation(fn, 2) = "SetParameterValues"
      BY <2>2, OperationFacts DEF Operation
    <3> QED BY <1>3, <2>2, <2>3, <2>7, <3>1 DEF Fits
  <2>10. Behind(v.out, v.applied)
    BY <2>2, <2>3, <2>7 DEF Behind, Told
  <2>11. Sound(v)
    BY <1>3, <2>2, <2>3, <2>7, <2>8, <2>9, <2>10 DEF Sound, PhaseIn, Summons
  <2>12. Ready(w) => Ready(v)
    BY <2>5, <2>7, SameReady
  <2>13. Fine(w, m, d) => Fine(v, v.out, d)
    <3>1. fn # Defaults(d)
      BY <2>2, OwnItems
    <3>2. MarkOK(d, w.s, m, w.applied) => MarkOK(d, v.s, v.out, v.applied)
      BY <1>3, <2>2, <2>5, <2>7, <3>1 DEF MarkOK
    <3>3. CredsOK(w.s, m, w.applied) => CredsOK(v.s, v.out, v.applied)
      BY <2>2, <2>3, <2>5, <2>7 DEF CredsOK
    <3> QED BY <2>2, <2>3, <2>7, <3>2, <3>3 DEF Fine
  <2> QED BY <1>3, <2>5, <2>7, <2>11, <2>12, <2>13, NoSummonHeeds
<1> QED BY <1>5, <1>6, <1>7

LEMMA DownloadHeeds ==
    ASSUME NEW d \in Device, NEW w, NEW m, Hearing(d, w, m), m.op = "Download",
           NEW status \in {0, 1}, status = 0 => Told(m, w.applied),
           Settled(w.queue, m.item),
           NEW v, v = DownloadResponse(w, m.item, status)
    PROVE  Heeds(w, m, v, d)
<1>1. /\ m.item \in Item /\ Fits(m) /\ m.step \in Nat /\ w \in WorldType /\ WorldOK(w, d)
      /\ w.s.creds \in Item \cup {NoItem} /\ m # Close
  BY HearingFacts DEF Hearing
<1>2. KindOf(m.item) = "firmware"
  BY <1>1, OpTells
<1>3. w.s.wp = NoItem /\ w.s.follow = NoItem
  BY <1>2, HearingFacts
<1>4. CASE status = 0
  <2>1. v = TaskResponse(w, "done")
    BY <1>4 DEF DownloadResponse
  <2> QED BY <1>1, <1>2, <1>3, <1>4, <2>1, EndsHeeds
<1>5. CASE status = 1
  <2> DEFINE x == [w EXCEPT !.transfers = @ \cup {m.item}]
  <2>1. /\ m.item \in Task /\ m.item # Summon /\ ~Summons(m) /\ m.item # Defaults(d)
        /\ Kind[m.item] = "firmware"
    BY <1>1, <1>2, KindsOfItems, NoItemIsNoItem, OwnItems DEF Summons
  <2>2. /\ x \in WorldType /\ x.s = w.s /\ x.queue = w.queue /\ x.db = w.db
        /\ x.applied = w.applied /\ x.transfers = w.transfers \cup {m.item}
    BY <1>1, <2>1 DEF WorldType
  <2>3. v = IF w.s.pend = <<>> THEN [x EXCEPT !.out = Close] ELSE DispatchNextOrClose(x)
    BY <1>5 DEF DownloadResponse
  <2> HIDE DEF x
  <2>4. CurFree(w.s)
    BY <1>1, <1>2, <1>3, HearingFacts DEF CurFree, Blank
  <2>5. Fine(w, m, d) => Tidy(w, d)
    BY <1>1, <1>2, <2>1, DealtWith
  <2>6. CASE w.s.pend = <<>>
    <3>1. v.s = w.s /\ v.out = Close /\ v.queue = w.queue /\ v.db = w.db /\ v.applied = w.applied
      BY <2>2, <2>3, <2>6, CloseIsReply DEF WorldType
    <3>2. Close.item = NoItem /\ NoItem \notin Item /\ NoItem # Summon
      BY ItemsApart, NoItemIsNoItem
    <3>3. Sound(v) /\ ~Summons(v.out)
      BY <1>3, <3>1, <3>2 DEF Sound, InTouch, Fits, Behind, PhaseIn, Summons
    <3>4. Ready(w) => Ready(v)
      BY <3>1, SameReady
    <3>5. Fine(w, m, d) => Fine(v, v.out, d)
      BY <2>1, <2>4, <2>5, <2>6, <3>1 DEF Fine, Tidy, CredsTidy, CredsOK, MarkOK, DefaultsNext
    <3> QED BY <2>1, <3>1, <3>3, <3>4, <3>5, NoSummonHeeds
  <2>7. CASE w.s.pend # <<>>
    <3>1. WorldOK(x, d)
      BY <1>1, <2>1, <2>2 DEF WorldOK, DueOK
    <3>2. Follows(x, v, d)
      BY <1>3, <2>2, <2>3, <2>7, <3>1, DispatchFollows
    <3>3. Ready(w) => Ready(x)
      BY <2>2, SameReady
    <3>4. Tidy(w, d) => Tidy(x, d)
      BY <2>2, SameTidy
    <3> QED BY <2>1, <2>2, <2>4, <2>5, <3>2, <3>3, <3>4, NoSummonHeeds DEF Follows
  <2> QED BY <2>6, <2>7
<1> QED BY <1>4, <1>5

-----------------------------------------------------------------------------
(* Default parameters and summons.                                         *)

Same(s, t) ==
    /\ t.cur = s.cur /\ t.wp = s.wp /\ t.step = s.step /\ t.follow = s.follow
    /\ t.creds = s.creds
Injected(w, v, d) ==
    /\ Same(w.s, v.s) /\ v.s.phase = w.s.phase /\ v.s.dev = w.s.dev
    /\ v.queue = w.queue /\ v.out = w.out /\ v.db.creds = w.db.creds
    /\ w.applied \subseteq v.applied
    /\ Range(v.s.pend) \subseteq Range(w.s.pend) \cup {Defaults(d), DriverSet(d)}
MarkTidy(w, d) ==
    w.s.mark => GlobalDefaults /\ (DefaultsAccepted(d, w.applied) \/ DefaultsNext(d, w.s))

LEMMA HeadOfPrepended ==
    ASSUME NEW i \in Item, NEW pend \in Seq(Item), NEW p, p = <<i>> \o pend
    PROVE  p # <<>> /\ p[1] = i
<1>1. <<i>> \in Seq(Item) /\ Len(<<i>>) = 1 /\ <<i>>[1] = i
  OBVIOUS
<1>2. Len(p) = 1 + Len(pend) /\ p[1] = i /\ Len(pend) \in Nat
  BY <1>1, LenProperties
<1> QED BY <1>2

LEMMA DriverInjected ==
    ASSUME NEW d \in Device, NEW w, WorldOK(w, d), NEW differs,
           NEW v, v = InjectDriverDefaults(w, w.s.dev, differs)
    PROVE  /\ Injected(w, v, d)
           /\ v.s.mark = w.s.mark /\ v.db = w.db /\ v.applied = w.applied
<1>1. w \in WorldType /\ w.s \in SessionType /\ SessionOK(w.s, d, w.queue) /\ w.s.dev \in {d, NoItem}
  BY DEF WorldOK, WorldType, SessionOK
<1>2. CASE DriverDefaults /\ w.s.dev # NoItem /\ differs
  <2> DEFINE p == <<DriverSet(d)>> \o w.s.pend
             S == [w.s EXCEPT !.pend = p]
  <2>1. p \in Seq(Item) /\ Range(p) = {DriverSet(d)} \cup Range(w.s.pend)
    <3>1. w.s.pend \in Seq(Mine(d))
      BY <1>1 DEF SessionOK
    <3> QED BY <3>1, Prepended
  <2>2. w.s.dev = d
    BY <1>1, <1>2
  <2>3. v = [w EXCEPT !.s = S]
    BY <1>1, <1>2, <2>2 DEF InjectDriverDefaults, WorldType, SessionType
  <2> HIDE DEF p
  <2>4. /\ S \in SessionType /\ S.pend = p /\ S.dev = w.s.dev /\ S.phase = w.s.phase
        /\ S.mark = w.s.mark /\ Same(w.s, S)
    BY <1>1, <2>1 DEF SessionType, Same
  <2> HIDE DEF S
  <2>5. /\ v.s = S /\ v.queue = w.queue /\ v.out = w.out /\ v.db = w.db /\ v.applied = w.applied
    BY <1>1, <2>3, <2>4, EditWorld
  <2> QED BY <2>1, <2>4, <2>5 DEF Injected
<1>3. CASE ~(DriverDefaults /\ w.s.dev # NoItem /\ differs)
  <2>1. v = w
    BY <1>3 DEF InjectDriverDefaults
  <2> QED BY <2>1 DEF Injected, Same
<1> QED BY <1>2, <1>3

LEMMA GlobalInjected ==
    ASSUME NEW d \in Device, NEW w, WorldOK(w, d), NEW differs,
           NEW v, v = InjectGlobalDefaults(w, w.s.dev, differs)
    PROVE  /\ Injected(w, v, d)
           /\ (w.s.mark => GlobalDefaults) /\ ProvDone(w.db, w.applied)
                => MarkTidy(v, d) /\ ProvDone(v.db, v.applied)
<1> DEFINE Skip == \/ ~GlobalDefaults \/ w.s.dev = NoItem
                   \/ ~w.s.boot /\ ~w.s.needs /\ w.s.dev \in w.db.provisioned
<1>1. /\ w \in WorldType /\ w.s \in SessionType /\ SessionOK(w.s, d, w.queue)
      /\ w.s.dev \in {d, NoItem} /\ w.db \in DbType /\ (w.s.mark => w.s.dev = d)
      /\ w.s.pend \in Seq(Item)
  BY DEF WorldOK, WorldType, SessionOK, SessionType
<1>2. v = IF Skip THEN w ELSE IF differs THEN QueueGlobalDefaults(w, w.s.dev)
          ELSE [w EXCEPT !.s.needs = FALSE, !.db.provisioned = @ \cup {w.s.dev},
                         !.applied = @ \cup {<<Defaults(w.s.dev), 1>>}]
  BY DEF InjectGlobalDefaults
<1>3. CASE Skip
  <2>1. v = w
    BY <1>2, <1>3
  <2>2. (w.s.mark => GlobalDefaults) /\ ProvDone(w.db, w.applied) => MarkTidy(w, d)
    BY <1>1, <1>3, NoItemIsNoItem, IdAssumption DEF ProvDone, MarkTidy
  <2> QED BY <2>1, <2>2 DEF Injected, Same
<1>4. CASE ~Skip /\ differs
  <2> DEFINE p == <<Defaults(d)>> \o w.s.pend
             S == [w.s EXCEPT !.pend = p, !.mark = TRUE, !.needs = FALSE]
  <2>1. p \in Seq(Item) /\ Range(p) = {Defaults(d)} \cup Range(w.s.pend)
    <3>1. w.s.pend \in Seq(Mine(d))
      BY <1>1 DEF SessionOK
    <3> QED BY <3>1, Prepended
  <2>2. w.s.dev = d
    BY <1>1, <1>4
  <2>3. v = [w EXCEPT !.s = S]
    BY <1>1, <1>2, <1>4, <2>2 DEF QueueGlobalDefaults, WorldType, SessionType
  <2>4. p # <<>> /\ p[1] = Defaults(d)
    <3>1. Defaults(d) \in Item
      BY OwnItems
    <3> QED BY <1>1, <3>1, HeadOfPrepended
  <2> HIDE DEF p
  <2>5. /\ S \in SessionType /\ S.pend = p /\ S.dev = w.s.dev /\ S.phase = w.s.phase /\ Same(w.s, S)
    BY <1>1, <2>1 DEF SessionType, Same
  <2> HIDE DEF S
  <2>6. /\ v.s = S /\ v.queue = w.queue /\ v.out = w.out /\ v.db = w.db /\ v.applied = w.applied
    BY <1>1, <2>3, <2>5, EditWorld
  <2> QED BY <1>4, <2>1, <2>4, <2>5, <2>6 DEF Injected, MarkTidy, DefaultsNext
<1>5. CASE ~Skip /\ ~differs
  <2> DEFINE S == [w.s EXCEPT !.needs = FALSE]
             D == [w.db EXCEPT !.provisioned = @ \cup {d}]
             A == w.applied \cup {<<Defaults(d), 1>>}
  <2>1. w.s.dev = d
    BY <1>1, <1>5
  <2>2. v = [w EXCEPT !.s = S, !.db = D, !.applied = A]
    BY <1>1, <1>2, <1>5, <2>1 DEF WorldType, SessionType, DbType
  <2>3. S.phase = w.s.phase /\ Same(w.s, S) /\ S.pend = w.s.pend /\ S.dev = w.s.dev
    BY <1>1 DEF SessionType, Same
  <2>4. D.creds = w.db.creds /\ D.provisioned = w.db.provisioned \cup {d}
    BY <1>1 DEF DbType
  <2>5. w.applied \subseteq A /\ DefaultsAccepted(d, A)
    BY DEF DefaultsAccepted
  <2> HIDE DEF S, D, A
  <2>6. v.s = S /\ v.queue = w.queue /\ v.out = w.out /\ v.db = D /\ v.applied = A
    BY <1>1, <2>2 DEF WorldType
  <2>7. ProvDone(w.db, w.applied) => ProvDone(v.db, v.applied)
    BY <2>4, <2>5, <2>6 DEF ProvDone, DefaultsAccepted
  <2>8. MarkTidy(v, d)
    BY <1>5, <2>5, <2>6 DEF MarkTidy
  <2> QED BY <2>3, <2>4, <2>5, <2>6, <2>7, <2>8 DEF Injected
<1> QED BY <1>3, <1>4, <1>5

LEMMA InjectedReady ==
    ASSUME NEW d \in Device, NEW w, NEW v, Injected(w, v, d)
    PROVE  Ready(w) => Ready(v)
<1>1. AllDone(w.queue, w.applied) => AllDone(v.queue, v.applied)
  BY MoreDone DEF Injected
<1>2. CollectsReady(w.s, w.applied) => CollectsReady(v.s, v.applied)
  BY CollectItems DEF Injected, CollectsReady, Same
<1> QED BY <1>1, <1>2 DEF Ready

LEMMA InjectedCreds ==
    ASSUME NEW d, NEW w, NEW v, Injected(w, v, d)
    PROVE  /\ CredsDone(w.db, w.applied) => CredsDone(v.db, v.applied)
           /\ CredsTidy(w) => CredsTidy(v)
<1>1. \A i : DoneBy(i, w.applied) => DoneBy(i, v.applied)
  BY MoreDone DEF Injected
<1> QED BY <1>1 DEF CredsDone, CredsTidy, Injected, Same

LEMMA AfterSummonInjected ==
    ASSUME NEW d \in Device, NEW w, WorldOK(w, d), NEW a, NEW b, NEW x, x = AfterSummon(w, a, b)
    PROVE  /\ Injected(w, x, d) /\ WorldOK(x, d)
           /\ Tidy(w, d) => Tidy(x, d)
           /\ Ready(w) => Ready(x)
<1> DEFINE y == InjectDriverDefaults(w, w.s.dev, a)
<1>1. /\ Injected(w, y, d)
      /\ y.s.mark = w.s.mark /\ y.db = w.db /\ y.applied = w.applied
  BY DriverInjected
<1>2. Injects(w, y, d)
  BY InjectDriverOK
<1>3. x = InjectGlobalDefaults(y, w.s.dev, b)
  BY DEF AfterSummon
<1> HIDE DEF y
<1>4. WorldOK(y, d) /\ y.s.dev = w.s.dev
  BY <1>2 DEF Injects
<1>5. /\ Injected(y, x, d)
      /\ (y.s.mark => GlobalDefaults) /\ ProvDone(y.db, y.applied)
                => MarkTidy(x, d) /\ ProvDone(x.db, x.applied)
  BY <1>3, <1>4, GlobalInjected
<1>6. WorldOK(x, d)
  BY AfterSummonOK
<1>7. Injected(w, x, d)
  BY <1>1, <1>5 DEF Injected, Same
<1>8. Tidy(w, d) => Tidy(x, d)
  BY <1>1, <1>5, <1>7, InjectedCreds DEF Tidy, MarkTidy
<1> QED BY <1>6, <1>7, <1>8, InjectedReady

\* The session with the summon at another point.
Resumed(s, t) ==
    /\ Same(s, t) /\ t.pend = s.pend /\ t.mark = s.mark /\ t.dev = s.dev

LEMMA SummonResumes ==
    ASSUME NEW s \in SessionType, NEW t, SummonEdit(s, t)
    PROVE  t \in SessionType /\ Resumed(s, t)
<1>1. PICK p \in 0 .. 4, m \in {"", "ui_refresh", "task_discovery"}, b \in 0 .. Batches :
         t = [s EXCEPT !.phase = p, !.mode = m, !.batch = b]
  BY DEF SummonEdit
<1>2. /\ t \in SessionType /\ t.dev = s.dev /\ t.mark = s.mark /\ t.cur = s.cur /\ t.wp = s.wp
      /\ t.step = s.step /\ t.follow = s.follow /\ t.creds = s.creds /\ t.pend = s.pend
  BY ONLY s \in SessionType, <1>1 DEF SessionType
<1> QED BY <1>2 DEF Resumed, Same

\* A summon's RPC is sent while the session has nothing in hand.
LEMMA SummonSent ==
    ASSUME NEW d \in Device, NEW w, w.s.wp = NoItem, w.s.follow = NoItem,
           NEW v, Resumed(w.s, v.s), v.queue = w.queue, v.db = w.db, v.applied = w.applied,
           NEW op \in {"GetParameterNames", "GetParameterValues"},
           v.out = Msg(op, Summon, 0),
           op = "GetParameterValues" => v.s.phase \in {2, 4}
    PROVE  /\ Sound(v) /\ (Ready(w) => Ready(v))
           /\ op = "GetParameterValues" => Summons(v.out)
           /\ Tidy(w, d) /\ CurFree(w.s) => Fine(v, v.out, d)
<1>1. v.out.item = Summon /\ v.out.op = op /\ v.out # Close
  BY SummonIsReply
<1>2. Summon \notin Item /\ Summon # NoItem
  BY NoItemIsNoItem
<1>3. Sound(v) /\ (op = "GetParameterValues" => Summons(v.out))
  BY <1>1, <1>2 DEF Sound, InTouch, Fits, Behind, PhaseIn, Summons, Resumed, Same
<1>4. Ready(w) => Ready(v)
  BY SameReady DEF Resumed, Same
<1>5. Tidy(w, d) => CredsOK(v.s, v.out, v.applied) /\ MarkOK(d, v.s, v.out, v.applied)
  BY <1>1 DEF Tidy, CredsTidy, CredsOK, MarkOK, Resumed, Same, DefaultsNext
<1>6. Tidy(w, d) /\ CurFree(w.s) => Fine(v, v.out, d)
  BY <1>5 DEF Tidy, Fine, CurFree, Resumed, Same
<1> QED BY <1>3, <1>4, <1>6

LEMMA ResumedTidy ==
    ASSUME NEW d, NEW w, NEW x, Resumed(w.s, x.s), x.queue = w.queue, x.db = w.db,
           x.applied = w.applied
    PROVE  /\ Ready(w) => Ready(x)
           /\ Tidy(w, d) => Tidy(x, d)
BY SameReady, SameTidy DEF Resumed, Same

LEMMA GetParamNamesHeeds ==
    ASSUME NEW d \in Device, NEW w, NEW m, Hearing(d, w, m), m.op = "GetParameterNames",
           NEW v, v = GetParameterNamesResponse(w)
    PROVE  Heeds(w, m, v, d)
<1>1. /\ w \in WorldType /\ w.s \in SessionType /\ WorldOK(w, d) /\ SessionOK(w.s, d, w.queue)
      /\ Fits(m) /\ m.step \in Nat
      /\ m.item \in Item \cup {Summon} /\ w.s.creds \in Item \cup {NoItem} /\ m # Close
  BY HearingFacts DEF Hearing
<1>2. m.item = Summon /\ m.item \notin Item
  BY <1>1, OpTells, NoItemIsNoItem
<1>3. w.s.wp = NoItem /\ w.s.follow = NoItem
  BY <1>2, HearingFacts DEF Blank
<1>4. m.item # Defaults(d) /\ ~Summons(m)
  BY <1>2, OwnItems DEF Summons
<1>5. Fine(w, m, d) => Tidy(w, d) /\ CurFree(w.s)
  BY <1>1, <1>2, <1>4, DealtWith DEF Fine
<1>6. CASE Batches = 0
  <2> DEFINE S == [w.s EXCEPT !.phase = 0]
             x == [w EXCEPT !.s = S]
  <2>1. S \in SessionType /\ Trims(w.s, S) /\ Resumed(w.s, S) /\ S.phase = 0
    <3>1. S.phase = 0
      BY <1>1 DEF SessionType
    <3> QED BY <1>1, <3>1, SummonEdits, SummonTrims, SummonResumes
  <2>2. v = DispatchNextOrClose(x)
    BY <1>1, <1>6 DEF GetParameterNamesResponse
  <2> HIDE DEF S
  <2>3. /\ x \in WorldType /\ x.s = S /\ x.queue = w.queue /\ x.transfers = w.transfers
        /\ x.db = w.db /\ x.applied = w.applied
    BY <1>1, <2>1, EditWorld
  <2> HIDE DEF x
  <2>4. WorldOK(x, d)
    BY <1>1, <2>1, <2>3, TrimOK
  <2>5. Follows(x, v, d)
    BY <1>3, <2>1, <2>2, <2>3, <2>4, DispatchFollows DEF Resumed, Same
  <2>6. (Ready(w) => Ready(x)) /\ (Tidy(w, d) => Tidy(x, d))
    BY <2>1, <2>3, ResumedTidy
  <2>7. CurFree(w.s) => CurFree(x.s)
    BY <2>1, <2>3 DEF CurFree, Resumed, Same
  <2>8. PhaseOut(v.s, v.out)
    BY <2>1, <2>3, <2>5 DEF Follows, PhaseOut
  <2> QED BY <1>5, <2>3, <2>5, <2>6, <2>7, <2>8 DEF Heeds, Follows
<1>7. CASE Batches # 0
  <2> DEFINE S == [w.s EXCEPT !.phase = 2, !.batch = 0]
             o == Msg("GetParameterValues", Summon, 0)
  <2>1. S \in SessionType /\ Resumed(w.s, S) /\ S.phase = 2
    <3>1. S.phase = 2
      BY <1>1 DEF SessionType
    <3> QED BY <1>1, <3>1, SummonEdits, SummonResumes
  <2>2. v = [w EXCEPT !.s = S, !.out = o]
    BY <1>1, <1>7 DEF GetParameterNamesResponse, WorldType, SessionType
  <2> HIDE DEF S, o
  <2>3. v.s = S /\ v.queue = w.queue /\ v.db = w.db /\ v.applied = w.applied /\ v.out = o
    BY <1>1, <2>2 DEF WorldType
  <2>4. /\ Sound(v) /\ (Ready(w) => Ready(v)) /\ Summons(v.out)
        /\ Tidy(w, d) /\ CurFree(w.s) => Fine(v, v.out, d)
    BY <1>3, <2>1, <2>3, SummonSent DEF o
  <2> QED BY <1>5, <2>3, <2>4 DEF Heeds, PhaseOut
<1> QED BY <1>6, <1>7

LEMMA GetParamValuesHeeds ==
    ASSUME NEW d \in Device, NEW w, NEW m, Hearing(d, w, m), Told(m, w.applied),
           m.op = "GetParameterValues", NEW a, NEW b, NEW v, v = GetParamValuesResponse(w, a, b)
    PROVE  Heeds(w, m, v, d)
<1> DEFINE i == w.s.cur
           o == Msg("GetParameterValues", Summon, 0)
           idle == [w EXCEPT !.s = SummonOver(@)]
           taken == [w EXCEPT !.s = Released(@)]
           again == [w EXCEPT !.s.batch = @ + 1, !.out = o]
           kept == [idle EXCEPT !.s.mode = w.s.mode]
           original == CHOOSE t \in Diagnostics : i = Collect(t)
<1>1. /\ w \in WorldType /\ w.s \in SessionType /\ WorldOK(w, d) /\ SessionOK(w.s, d, w.queue)
      /\ Fits(m) /\ m.step \in Nat /\ i \in Item \cup {NoItem}
      /\ m.item \in Item \cup {Summon} /\ w.s.creds \in Item \cup {NoItem} /\ m # Close
  BY HearingFacts DEF Hearing
<1>2. m.item \in Item => KindOf(m.item) \in {"get", "collect"} /\ m.step = 1
  BY <1>1, OpTells
<1>3. w.s.wp = NoItem /\ w.s.follow = NoItem
  <2>1. w.s.wp # NoItem => FALSE
    BY <1>2, HearingFacts
  <2>2. w.s.wp = NoItem /\ w.s.follow # NoItem => FALSE
    BY <1>2, HearingFacts
  <2> QED BY <2>1, <2>2
<1>4. Fine(w, m, d) => Tidy(w, d)
  <2>1. m.item = Defaults(d) => DefaultsAccepted(d, w.applied)
    BY <1>1, DefaultsTold, OwnItems
  <2> QED BY <1>1, <1>2, <2>1, DealtWith
<1>5. w.s.phase \in {2, 4} /\ PhaseOut(w.s, m) /\ Fine(w, m, d) => CurFree(w.s)
  BY NoItemIsNoItem DEF PhaseOut, Summons, Fine
<1>6. /\ w.s.phase = 2 => \/ w.s.batch + 1 < Batches /\ v = again
                          \/ v = DispatchNextOrClose(AfterSummon(kept, a, b))
      /\ w.s.phase = 4 => \/ v = DispatchNextOrClose(AfterSummon(idle, a, b))
                          \/ v = DispatchNextOrClose(idle)
      /\ w.s.phase \notin {2, 4}
            => v = DispatchNextOrClose(CASE i = NoItem -> taken
                                    [] IsCollect(i) -> UpdateStatus(taken, original, "done")
                                    [] OTHER -> UpdateStatus(taken, i, "done"))
  <2>1. w.s.batch + 1 < Batches \/ w.s.batch + 1 >= Batches
    <3>1. w.s.batch \in 0 .. Batches /\ Batches \in Nat
      BY <1>1, FlowAssumption DEF SessionType
    <3> QED BY <3>1
  <2>2. w.s.phase = 2 => v = again \/ v = DispatchNextOrClose(AfterSummon(kept, a, b))
    BY <2>1 DEF GetParamValuesResponse
  <2>3. w.s.phase = 2 /\ ~(w.s.batch + 1 < Batches)
            => v = DispatchNextOrClose(AfterSummon(kept, a, b))
    BY <2>1 DEF GetParamValuesResponse
  <2>4. w.s.phase = 4 => \/ v = DispatchNextOrClose(AfterSummon(idle, a, b))
                         \/ v = DispatchNextOrClose(idle)
    BY DEF GetParamValuesResponse
  <2>5. w.s.phase \notin {2, 4}
            => v = DispatchNextOrClose(CASE i = NoItem -> taken
                                    [] IsCollect(i) -> UpdateStatus(taken, original, "done")
                                    [] OTHER -> UpdateStatus(taken, i, "done"))
    BY DEF GetParamValuesResponse
  <2> QED BY <2>2, <2>3, <2>4, <2>5
\* The next batch.
<1>7. ASSUME w.s.phase = 2, w.s.batch + 1 < Batches, v = again
      PROVE  Heeds(w, m, v, d)
  <2> DEFINE S == [w.s EXCEPT !.batch = w.s.batch + 1]
  <2>1. S \in SessionType /\ Resumed(w.s, S) /\ S.phase = 2
    <3>1. S.phase = 2
      BY <1>1, <1>7 DEF SessionType
    <3> QED BY <1>1, <1>7, <3>1, SummonEdits, SummonResumes
  <2>2. v = [w EXCEPT !.s = S, !.out = o]
    BY <1>1, <1>7 DEF WorldType, SessionType
  <2> HIDE DEF S, o
  <2>3. v.s = S /\ v.queue = w.queue /\ v.db = w.db /\ v.applied = w.applied /\ v.out = o
    BY <1>1, <2>2 DEF WorldType
  <2>4. /\ Sound(v) /\ (Ready(w) => Ready(v)) /\ Summons(v.out)
        /\ Tidy(w, d) /\ CurFree(w.s) => Fine(v, v.out, d)
    BY <1>3, <2>1, <2>3, SummonSent DEF o
  <2> QED BY <1>4, <1>5, <1>7, <2>3, <2>4 DEF Heeds, PhaseOut
\* The end of a summon.
<1>8. ASSUME NEW x, WorldOK(x, d), Same(w.s, x.s), x.s.phase = 0, w.applied \subseteq x.applied,
             Ready(w) => Ready(x), Tidy(w, d) => Tidy(x, d), v = DispatchNextOrClose(x),
             w.s.phase \in {2, 4}
      PROVE  Heeds(w, m, v, d)
  <2>1. Follows(x, v, d)
    BY <1>3, <1>8, DispatchFollows DEF Same
  <2>2. CurFree(w.s) => CurFree(x.s)
    BY <1>8 DEF CurFree, Same
  <2>3. PhaseOut(v.s, v.out)
    BY <1>8, <2>1 DEF Follows, PhaseOut
  <2> QED BY <1>4, <1>5, <1>8, <2>1, <2>2, <2>3 DEF Heeds, Follows
<1>9. ASSUME NEW S, SummonEdit(w.s, S), S.phase = 0, NEW x, x = [w EXCEPT !.s = S],
             w.s.phase \in {2, 4}
      PROVE  /\ v = DispatchNextOrClose(x) => Heeds(w, m, v, d)
             /\ v = DispatchNextOrClose(AfterSummon(x, a, b)) => Heeds(w, m, v, d)
  <2>1. S \in SessionType /\ Resumed(w.s, S) /\ Trims(w.s, S)
    BY <1>1, <1>9, SummonTrims, SummonResumes
  <2>2. /\ WorldOK(x, d) /\ x.s = S /\ x.queue = w.queue /\ x.db = w.db
        /\ x.applied = w.applied
    BY <1>1, <1>9, <2>1, EditWorld, TrimWorld
  <2>3. (Ready(w) => Ready(x)) /\ (Tidy(w, d) => Tidy(x, d))
    BY <2>1, <2>2, ResumedTidy
  <2>4. Same(w.s, x.s) /\ x.s.phase = 0 /\ w.applied \subseteq x.applied
    BY <1>9, <2>1, <2>2 DEF Resumed
  <2>5. v = DispatchNextOrClose(x) => Heeds(w, m, v, d)
    BY <1>8, <1>9, <2>2, <2>3, <2>4
  <2> DEFINE y == AfterSummon(x, a, b)
  <2>6. Injected(x, y, d) /\ WorldOK(y, d) /\ (Tidy(x, d) => Tidy(y, d)) /\ (Ready(x) => Ready(y))
    BY <2>2, AfterSummonInjected
  <2> HIDE DEF y
  <2>7. Same(w.s, y.s) /\ y.s.phase = 0 /\ w.applied \subseteq y.applied
    BY <2>2, <2>4, <2>6 DEF Injected, Same
  <2>8. v = DispatchNextOrClose(y) => Heeds(w, m, v, d)
    BY <1>8, <1>9, <2>3, <2>6, <2>7
  <2> QED BY <2>5, <2>8 DEF y
<1>10. CASE w.s.phase \in {2, 4}
  <2> DEFINE S == SummonOver(w.s)
             K == [S EXCEPT !.mode = w.s.mode]
  <2>1. SummonEdit(w.s, S) /\ SummonEdit(w.s, K)
    BY <1>1, SummonEdits
  <2>2. S.phase = 0 /\ K.phase = 0
    BY <1>1 DEF SummonOver, SessionType
  <2>3. idle = [w EXCEPT !.s = S] /\ kept = [w EXCEPT !.s = K]
    BY <1>1 DEF WorldType
  <2> HIDE DEF S, K, idle, kept, again
  <2>4. v = DispatchNextOrClose(AfterSummon(kept, a, b)) => Heeds(w, m, v, d)
    BY <1>9, <1>10, <2>1, <2>2, <2>3
  <2>5. /\ v = DispatchNextOrClose(AfterSummon(idle, a, b)) => Heeds(w, m, v, d)
        /\ v = DispatchNextOrClose(idle) => Heeds(w, m, v, d)
    BY <1>9, <1>10, <2>1, <2>2, <2>3
  <2> QED BY <1>6, <1>7, <1>10, <2>4, <2>5
\* The answer to a task.
<1>11. CASE w.s.phase \notin {2, 4}
  <2>1. Released(w.s) \in SessionType /\ Trims(w.s, Released(w.s)) /\ Released(w.s).cur = NoItem
    BY <1>1, ReleasedFields DEF Trims, SessionOK
  <2>2. /\ WorldOK(taken, d) /\ taken \in WorldType /\ taken.s = Released(w.s)
        /\ taken.queue = w.queue /\ taken.db = w.db /\ taken.applied = w.applied
    BY <1>1, <2>1, EditWorld, TrimWorld
  <2> HIDE DEF taken
  <2>3. ASSUME NEW x, Releases(w, x, d), v = DispatchNextOrClose(x),
               (Blank(w.s) \/ PhaseIn(w.s, m)) /\ Ready(w) => DoneRight(w, x)
        PROVE  Heeds(w, m, v, d)
    <3>1. Answers(w, x, v, d)
      BY <1>1, <1>3, <2>3, ReleaseAnswers
    <3>2. PhaseOut(v.s, v.out)
      BY <1>11, <3>1 DEF Answers, PhaseOut
    <3> QED BY <1>4, <2>3, <3>1, <3>2 DEF Heeds, Answers
  <2>4. ASSUME NEW j \in Mine(d), j \in Task => Settled(w.queue, j),
               v = DispatchNextOrClose(UpdateStatus(taken, j, "done")),
               /\ Blank(w.s) \/ PhaseIn(w.s, m)
               /\ Ready(w)
               /\ j \in Task
               => DoneBy(j, w.applied)
        PROVE  Heeds(w, m, v, d)
    <3> DEFINE x == UpdateStatus(taken, j, "done")
    <3>1. "done" \in Terminal /\ "done" \in Statuses /\ j \in Item /\ j # NoItem
      BY OwnItems, NoItemIsNoItem DEF Terminal, Statuses
    <3>2. taken.s.cur # j
      BY <2>1, <2>2, <3>1
    <3>3. WorldOK(x, d)
      BY <2>2, <2>4, <3>1, <3>2, SettleOK
    <3>4. /\ x.s = taken.s /\ x.db = taken.db /\ x.applied = taken.applied
          /\ x.queue.status = [taken.queue.status EXCEPT ![j] = "done"]
      BY <2>2, <3>1, UpdateStatusFields, ZenonT(40)
    <3> HIDE DEF x
    <3>5. \A t \in Task : x.queue.status[t] = IF t = j THEN "done" ELSE w.queue.status[t]
      BY <1>1, <2>2, <3>4, NoItemIsNoItem DEF WorldType, QueueType
    <3>6. (Blank(w.s) \/ PhaseIn(w.s, m)) /\ Ready(w) => DoneRight(w, x)
      BY <2>4, <3>5 DEF DoneRight
    <3>7. Releases(w, x, d)
      BY <2>2, <3>3, <3>4 DEF Releases
    <3> QED BY <2>3, <2>4, <3>6, <3>7 DEF x
  <2>5. CASE i = NoItem
    <3>1. v = DispatchNextOrClose(taken)
      <4>1. ~IsCollect(NoItem)
        BY CollectItems, NoItemIsNoItem DEF IsCollect
      <4> QED BY <1>6, <1>11, <2>5, <4>1
    <3>2. Releases(w, taken, d) /\ DoneRight(w, taken)
      BY <2>2 DEF Releases, DoneRight
    <3> QED BY <2>3, <3>1, <3>2
  <2>6. ASSUME i # NoItem, ~Blank(w.s) => PhaseIn(w.s, m), w.s.phase \notin {2, 4}
        PROVE  m.item \in Item /\ m.item = i /\ m.step = 1
    <3>1. ~Blank(w.s) /\ PhaseIn(w.s, m)
      BY <2>6 DEF Blank
    <3>2. m.item # Summon
      BY <1>11, <3>1 DEF PhaseIn, Summons
    <3> QED BY <1>1, <1>2, <1>3, <3>1, <3>2, HearingFacts
  <2>7. CASE i # NoItem /\ IsCollect(i)
    <3>1. v = DispatchNextOrClose(UpdateStatus(taken, original, "done"))
      BY <1>6, <1>11, <2>7
    <3>2. original \in Diagnostics /\ i = Collect(original) /\ i \in Mine(d)
      BY <1>1, <2>7 DEF IsCollect, SessionOK
    <3> HIDE DEF original
    <3>3. /\ original \in Mine(d) /\ original \in Task /\ original \in Item
          /\ Settled(w.queue, original) /\ Steps(original) = 1
      <4>1. original \in Mine(d) /\ original \in Task
        BY <3>2, CollectItems, OwnItems DEF Own
      <4>2. Settled(w.queue, original)
        BY <1>1, <3>2 DEF SessionOK, CollectsOK
      <4>3. original \in Item /\ KindOf(original) = "diag"
        BY <3>2, <4>1, NoItemIsNoItem DEF Diagnostics, KindOf
      <4> QED BY <4>1, <4>2, <4>3, OperationFacts
    <3>4. ASSUME Blank(w.s) \/ PhaseIn(w.s, m), Ready(w)
          PROVE  DoneBy(original, w.applied)
      <4>1. <<original, 1>> \in w.applied
        BY <3>2, <3>4 DEF Ready, CollectsReady
      <4>2. <<Collect(original), 1>> \in w.applied
        BY <1>1, <1>11, <2>6, <2>7, <3>2, <3>4 DEF Told
      <4> QED BY <3>3, <4>1, <4>2 DEF DoneBy
    <3> QED BY <2>4, <3>1, <3>3, <3>4
  <2>8. CASE i # NoItem /\ ~IsCollect(i)
    <3>1. v = DispatchNextOrClose(UpdateStatus(taken, i, "done"))
      BY <1>6, <1>11, <2>8
    <3>2. i \in Mine(d) /\ (i \in Task => Settled(w.queue, i))
      BY <1>1, <2>8 DEF SessionOK, CurrentOK
    <3>3. ASSUME Blank(w.s) \/ PhaseIn(w.s, m), i \in Task
          PROVE  DoneBy(i, w.applied)
      <4>1. m.item \in Item /\ m.item = i /\ m.step = 1
        BY <1>11, <2>6, <2>8, <3>3
      <4>2. KindOf(i) \in {"get", "collect"}
        BY <1>2, <4>1
      <4>3. m.item \notin Diagnostics /\ Steps(m.item) = 1
        BY <3>3, <4>1, <4>2, OperationFacts DEF Diagnostics, KindOf
      <4> QED BY <1>1, <4>1, <4>3, LastRpcFinishes
    <3> QED BY <2>4, <3>1, <3>2, <3>3
  <2> QED BY <2>5, <2>7, <2>8
<1> QED BY <1>10, <1>11

-----------------------------------------------------------------------------
(* The state: with u of the bounds used up, what sessions and stores say   *)
(* is what the CPEs have accepted.                                         *)

\* Steady: no connection is lost in the middle of a task of several RPCs.
\* Honest: no client asks for a full summon (TriggerFullSummon, which may catch a
\* session at any point), and a device's finished diagnostic is the only one it
\* could be (FindExecutingDiagnostics collects all that execute).
\* Quiet: d has answered no RPC with a fault, and a lost connection of its leaves
\* no session behind that is reached by its cookie.
\* Calm: no fault and no lost connection so far.
Multi == {t \in Task : Kind[t] \in {"wan", "pfadd"}}
Steady(u) == u.drops = 0 \/ Multi = {}
OneDiagnostic == \A t, r \in Diagnostics : Owner[t] = Owner[r] => t = r
Honest(u) == u.triggers = 0 /\ OneDiagnostic
Quiet(d, u) == u.faults = 0 /\ (u.drops = 0 \/ d \in Rotates)
Calm(u) == u.faults = 0 /\ u.drops = 0

\* Session s of d, which CPE d has m from, is at the point m says; with mishaps
\* used up, what is left of that.
Attends(d, s, m, a, u) ==
    /\ InTouch(s, m)
    /\ u.triggers = 0 => PhaseIn(s, m)
    /\ Quiet(d, u) => PhaseOut(s, m) \/ (d \in Rotates /\ m = Close)
    /\ Honest(u) => CollectsReady(s, a)
    /\ Calm(u) => /\ CredsOK(s, m, a) /\ MarkOK(d, s, m, a)
                  /\ m.item \notin Item => CurFree(s)

\* What Redis and the device documents say of the CPEs.
Records(q, stored, a, u) ==
    /\ Honest(u) => AllDone(q, a)
    /\ Calm(u) => CredsDone(stored, a) /\ ProvDone(stored, a)

\* The second inductive invariant.
Attentive ==
    Steady(spent) =>
        /\ \A d \in Device : Fits(conn[d]) /\ Behind(conn[d], applied)
        /\ \A d \in Device : \A o \in Reach(d) : Attends(d, obj[o], conn[d], applied, spent)
        /\ Records(queue, db, applied, spent)

Spends(u, v) ==
    /\ v.drops = 0 => u.drops = 0
    /\ v.faults = 0 => u.faults = 0
    /\ v.triggers = 0 => u.triggers = 0

\* What a request of d leaves.
Leaves(d, w, u) ==
    /\ Fits(w.out) /\ Behind(w.out, w.applied)
    /\ Attends(d, w.s, w.out, w.applied, u)
    /\ Records(w.queue, w.db, w.applied, u)

LEMMA SpendsLess ==
    ASSUME NEW u, NEW v, Spends(u, v)
    PROVE  /\ Steady(v) => Steady(u)
           /\ Honest(v) => Honest(u)
           /\ Calm(v) => Calm(u)
           /\ \A d : Quiet(d, v) => Quiet(d, u)
BY DEF Spends, Steady, Honest, Calm, Quiet

LEMMA AttendsStays ==
    ASSUME NEW d, NEW s, NEW m, NEW a, NEW b, a \subseteq b, NEW u, NEW v, Spends(u, v),
           Attends(d, s, m, a, u)
    PROVE  Attends(d, s, m, b, v)
<1>1. /\ v.triggers = 0 => u.triggers = 0
      /\ Honest(v) => Honest(u)
      /\ Calm(v) => Calm(u)
      /\ Quiet(d, v) => Quiet(d, u)
  BY SpendsLess DEF Spends
<1>2. /\ CollectsReady(s, a) => CollectsReady(s, b)
      /\ CredsOK(s, m, a) => CredsOK(s, m, b)
      /\ MarkOK(d, s, m, a) => MarkOK(d, s, m, b)
  BY MoreDone
<1> QED BY <1>1, <1>2 DEF Attends

LEMMA RecordsStay ==
    ASSUME NEW q, NEW stored, NEW a, NEW b, a \subseteq b, NEW u, NEW v, Spends(u, v),
           Records(q, stored, a, u)
    PROVE  Records(q, stored, b, v)
<1>1. (Honest(v) => Honest(u)) /\ (Calm(v) => Calm(u))
  BY SpendsLess
<1>2. /\ AllDone(q, a) => AllDone(q, b)
      /\ CredsDone(stored, a) => CredsDone(stored, b)
      /\ ProvDone(stored, a) => ProvDone(stored, b)
  BY MoreDone
<1> QED BY <1>1, <1>2 DEF Records

\* What a reply is for does not depend on the session it was sent from.
SameReply(m, n) ==
    n.op = m.op /\ n.item = m.item /\ n.step = m.step /\ (n = Close <=> m = Close)

LEMMA SameReplyAttends ==
    ASSUME NEW m, NEW n, SameReply(m, n)
    PROVE  /\ Fits(m) => Fits(n)
           /\ \A a : Behind(m, a) => Behind(n, a)
           /\ \A d, s, a, u : Attends(d, s, m, a, u) => Attends(d, s, n, a, u)
<1>1. (Fits(m) => Fits(n)) /\ \A a : Behind(m, a) => Behind(n, a)
  BY DEF SameReply, Fits, Behind
<1>2. Summons(m) <=> Summons(n)
  BY DEF SameReply, Summons
<1>3. \A s : (InTouch(s, m) => InTouch(s, n)) /\ (PhaseIn(s, m) => PhaseIn(s, n))
             /\ (PhaseOut(s, m) => PhaseOut(s, n))
  BY <1>2 DEF SameReply, InTouch, PhaseIn, PhaseOut
<1>4. \A d, s, a : (CredsOK(s, m, a) => CredsOK(s, n, a)) /\ (MarkOK(d, s, m, a) => MarkOK(d, s, n, a))
  BY DEF SameReply, CredsOK, MarkOK
<1>5. n.item = m.item /\ (n = Close <=> m = Close)
  BY DEF SameReply
<1> QED BY <1>1, <1>3, <1>4, <1>5 DEF Attends

\* The answer of a handler to an RPC of the CPE.
LEMMA HeedsLeaves ==
    ASSUME NEW d, NEW w, NEW m, NEW v, NEW u, Heeds(w, m, v, d),
           u.triggers = 0 => Blank(w.s) \/ PhaseIn(w.s, m),
           Quiet(d, u) => PhaseOut(w.s, m),
           Honest(u) => Ready(w),
           Calm(u) => Fine(w, m, d)
    PROVE  Leaves(d, v, u) /\ w.applied \subseteq v.applied
<1>1. /\ Sound(v) /\ w.applied \subseteq v.applied
      /\ PhaseOut(w.s, m) => PhaseOut(v.s, v.out)
      /\ (Blank(w.s) \/ PhaseIn(w.s, m)) /\ Ready(w) => Ready(v)
      /\ PhaseOut(w.s, m) /\ Fine(w, m, d) => Fine(v, v.out, d)
  BY DEF Heeds
<1>2. Honest(u) => Ready(v)
  BY <1>1 DEF Honest
<1>3. Calm(u) => Fine(v, v.out, d)
  BY <1>1 DEF Calm, Quiet
<1>4. InTouch(v.s, v.out) /\ Fits(v.out) /\ Behind(v.out, v.applied) /\ PhaseIn(v.s, v.out)
  BY <1>1 DEF Sound
<1>5. Attends(d, v.s, v.out, v.applied, u)
  BY <1>1, <1>2, <1>3, <1>4 DEF Attends, Ready, Fine
<1>6. Records(v.queue, v.db, v.applied, u)
  BY <1>2, <1>3 DEF Records, Ready, Fine
<1> QED BY <1>1, <1>4, <1>5, <1>6 DEF Leaves

\* A session with nothing in hand goes on.
LEMMA RestLeaves ==
    ASSUME NEW d, NEW w, NEW v, NEW u, Sound(v),
           w.applied \subseteq v.applied,
           Quiet(d, u) => PhaseOut(v.s, v.out),
           Ready(w) => Ready(v),
           Honest(u) => Ready(w),
           Tidy(w, d) /\ CurFree(w.s) => Fine(v, v.out, d),
           Calm(u) => Tidy(w, d) /\ CurFree(w.s)
    PROVE  Leaves(d, v, u) /\ w.applied \subseteq v.applied
<1>1. InTouch(v.s, v.out) /\ Fits(v.out) /\ Behind(v.out, v.applied) /\ PhaseIn(v.s, v.out)
  BY DEF Sound
<1>2. Attends(d, v.s, v.out, v.applied, u)
  BY <1>1 DEF Attends, Ready, Fine
<1>3. Records(v.queue, v.db, v.applied, u)
  BY DEF Records, Ready, Fine
<1> QED BY <1>1, <1>2, <1>3 DEF Leaves

\* Where a request of d has left its session.
LEMMA FinishReach ==
    ASSUME IInv, NEW d \in Device, NEW o \in Obj, NEW w, NEW objs, NEW index, NEW serial,
           Finish(d, o, w, objs, index, serial),
           index \in [Sid -> Obj \cup {NoObj}], serial \in [Device -> Obj \cup {NoObj}],
           \A e \in Device : e # d =>
               /\ o \notin Reach(e)
               /\ index[SidOf[e]] = sessions[SidOf[e]] /\ serial[e] = bySerial[e]
               /\ \A p \in Reach(e) : objs[p] = obj[p],
           index[SidOf[d]] \in {o, NoObj}, serial[d] \in {o, NoObj},
           ReplyOK(w.out, d, w.queue), w.out \in ReplyType
    PROVE  /\ queue' = w.queue /\ db' = w.db /\ applied' = w.applied
           /\ SameReply(w.out, conn'[d])
           /\ \A p \in Reach(d)' : obj'[p] = w.s
           /\ \A e \in Device : e # d => /\ Reach(e)' = Reach(e) /\ conn'[e] = conn[e]
                                         /\ \A p \in Reach(e) : obj'[p] = obj[p]
<1> DEFINE reply == [w.out EXCEPT !.via = IF w.out.op \in {"204", "InformResponse"}
                                          THEN NoObj ELSE o]
           conns == [conn EXCEPT ![d] = reply]
           reached == Range(index) \cup Range(serial) \cup {conns[e].via : e \in Device}
<1>1. /\ conn' = conns /\ sessions' = index /\ bySerial' = serial
      /\ obj' = [p \in Obj |-> IF p \notin reached THEN Fresh
                               ELSE IF p = o THEN w.s ELSE objs[p]]
      /\ queue' = w.queue /\ db' = w.db /\ applied' = w.applied
  BY DEF Finish
<1>2. TypeOK /\ Routed /\ conn \in [Device -> ReplyType] /\ o # NoObj
  BY ObjAssumption DEF IInv, TypeOK
<1>3. reply.via \in {o, NoObj} /\ SameReply(w.out, reply)
  <2>1. /\ reply.via \in {o, NoObj} /\ reply.op = w.out.op /\ reply.item = w.out.item
        /\ reply.step = w.out.step
    BY DEF ReplyType
  <2>2. w.out = Close => reply = Close
    BY DEF Close, Msg
  <2>3. reply = Close => w.out = Close
    BY <2>1 DEF ReplyOK, Close, Msg
  <2> QED BY <2>1, <2>2, <2>3 DEF SameReply
<1> HIDE DEF reply
<1>4. conns[d] = reply /\ \A e \in Device : e # d => conns[e] = conn[e]
  BY <1>2
<1> HIDE DEF conns
<1>5. \A e \in Device : {index[SidOf[e]], serial[e], conns[e].via} \subseteq reached
  <2>1. \A e \in Device : index[SidOf[e]] \in Range(index) /\ serial[e] \in Range(serial)
    BY DeviceAssumption DEF Range
  <2> QED BY <2>1
<1> HIDE DEF reached
<1>6. ASSUME NEW p \in Reach(d)' PROVE obj'[p] = w.s
  <2>1. p = o /\ p \in reached
    BY <1>1, <1>3, <1>4, <1>5, <1>6 DEF Reach
  <2> QED BY <1>1, <2>1
<1>7. ASSUME NEW e \in Device, e # d
      PROVE  /\ Reach(e)' = Reach(e) /\ conn'[e] = conn[e]
             /\ \A p \in Reach(e) : obj'[p] = obj[p]
  <2>1. Reach(e)' = Reach(e) /\ conn'[e] = conn[e]
    BY <1>1, <1>4, <1>7 DEF Reach
  <2>2. Reach(e) = {index[SidOf[e]], serial[e], conns[e].via} \ {NoObj}
    BY <1>4, <1>7 DEF Reach
  <2>3. ASSUME NEW p \in Reach(e) PROVE obj'[p] = obj[p]
    <3>1. p \in Obj /\ p # o /\ p \in reached /\ objs[p] = obj[p]
      BY <1>2, <1>5, <1>7, <2>2, <2>3, ReachFacts
    <3> QED BY <1>1, <3>1
  <2> QED BY <2>1, <2>3
<1> QED BY <1>1, <1>3, <1>4, <1>6, <1>7

\* Whatever the request, its device's session is right, and so are the others.
LEMMA FinishAttentive ==
    ASSUME Attentive, Steady(spent'), Spends(spent, spent'), NEW d \in Device, NEW w,
           queue' = w.queue, db' = w.db, applied' = w.applied,
           SameReply(w.out, conn'[d]),
           \A p \in Reach(d)' : obj'[p] = w.s,
           \A e \in Device : e # d => /\ Reach(e)' = Reach(e) /\ conn'[e] = conn[e]
                                      /\ \A p \in Reach(e) : obj'[p] = obj[p],
           applied \subseteq w.applied, Leaves(d, w, spent')
    PROVE  Attentive'
<1>1. /\ \A e \in Device : Fits(conn[e]) /\ Behind(conn[e], applied)
      /\ \A e \in Device : \A o \in Reach(e) : Attends(e, obj[o], conn[e], applied, spent)
  BY SpendsLess DEF Attentive
<1>2. /\ Fits(w.out) /\ Behind(w.out, w.applied) /\ Attends(d, w.s, w.out, w.applied, spent')
      /\ Records(w.queue, w.db, w.applied, spent')
  BY DEF Leaves
<1>3. /\ Fits(conn'[d]) /\ Behind(conn'[d], applied')
      /\ \A p \in Reach(d)' : Attends(d, obj'[p], conn'[d], applied', spent')
  BY <1>2, SameReplyAttends
<1>4. ASSUME NEW e \in Device, e # d
      PROVE  /\ Fits(conn'[e]) /\ Behind(conn'[e], applied')
             /\ \A p \in Reach(e)' : Attends(e, obj'[p], conn'[e], applied', spent')
  <2>1. Fits(conn'[e]) /\ Behind(conn'[e], applied')
    BY <1>1, <1>4, MoreDone
  <2>2. ASSUME NEW p \in Reach(e)' PROVE Attends(e, obj'[p], conn'[e], applied', spent')
    <3>1. p \in Reach(e) /\ obj'[p] = obj[p] /\ conn'[e] = conn[e]
      BY <1>4, <2>2
    <3>2. Attends(e, obj[p], conn[e], applied, spent)
      BY <1>1, <3>1
    <3> QED BY <3>1, <3>2, AttendsStays
  <2> QED BY <2>1, <2>2
<1>5. Records(queue', db', applied', spent')
  BY <1>2
<1> QED BY <1>3, <1>4, <1>5 DEF Attentive

-----------------------------------------------------------------------------
(* One lemma per action                                                    *)

\* A request of d that runs in its one session.
LEMMA ServeAttentive ==
    ASSUME IInv, OwnIds, Attentive, Steady(spent'), Spends(spent, spent'),
           NEW d \in Device, conn[d] # Close, NEW w, Serve(d, ByCookie(d), w),
           ReplyOK(w.out, d, w.queue), w.out \in ReplyType,
           applied \subseteq w.applied, Leaves(d, w, spent')
    PROVE  Attentive'
<1> DEFINE o == ByCookie(d)
           index == [sessions EXCEPT ![SidOf[d]] = o]
<1>1. o \in Obj /\ o # NoObj /\ (o \in Reach(d) \/ o \notin Reached) /\ bySerial[d] \in {o, NoObj}
  BY CookieFacts
<1> HIDE DEF o
<1>2. Finish(d, o, w, obj, index, bySerial)
  BY DEF Serve, o
<1>3. /\ sessions \in [Sid -> Obj \cup {NoObj}] /\ bySerial \in [Device -> Obj \cup {NoObj}]
      /\ SidOf \in [Device -> Sid]
  BY DeviceAssumption DEF IInv, TypeOK
<1>4. /\ index \in [Sid -> Obj \cup {NoObj}] /\ index[SidOf[d]] = o
      /\ \A i \in Sid : i # SidOf[d] => index[i] = sessions[i]
  BY <1>1, <1>3
<1> HIDE DEF index
<1>5. \A e \in Device : e # d => o \notin Reach(e) /\ index[SidOf[e]] = sessions[SidOf[e]]
  BY <1>1, <1>3, <1>4, OwnSession DEF OwnIds
<1>6. /\ queue' = w.queue /\ db' = w.db /\ applied' = w.applied
      /\ SameReply(w.out, conn'[d])
      /\ \A p \in Reach(d)' : obj'[p] = w.s
      /\ \A e \in Device : e # d => /\ Reach(e)' = Reach(e) /\ conn'[e] = conn[e]
                                    /\ \A p \in Reach(e) : obj'[p] = obj[p]
  BY <1>1, <1>2, <1>3, <1>4, <1>5, FinishReach
<1> QED BY <1>6, FinishAttentive

\* The session of a request of d: its own, or a new one.
Comes(d, s) ==
    \/ s = Fresh
    \/ Attends(d, s, conn[d], applied, spent)

LEMMA SessionComes ==
    ASSUME IInv, Attentive, Steady(spent), NEW d \in Device, NEW o \in Obj,
           o \in Reach(d) \/ o \notin Reached
    PROVE  Comes(d, obj[o])
BY DEF Comes, Attentive, IInv, Routed, UnreachedAreFresh

LEMMA FreshIsBlank ==
    /\ Blank(Fresh) /\ Fresh.phase = 0 /\ CurFree(Fresh)
    /\ \A a : CollectsReady(Fresh, a)
    /\ \A m, a : CredsOK(Fresh, m, a)
    /\ \A d, m, a : MarkOK(d, Fresh, m, a)
<1>1. /\ Fresh.cur = NoItem /\ Fresh.wp = NoItem /\ Fresh.follow = NoItem
      /\ Fresh.creds = NoItem /\ Fresh.mark = FALSE /\ Fresh.phase = 0 /\ Fresh.pend = <<>>
  BY DEF Fresh
<1>2. Range(<<>>) = {} /\ \A t \in Diagnostics : Collect(t) # NoItem
  BY RangeEmpty, CollectItems, NoItemIsNoItem
<1>3. \A a : CollectsReady(Fresh, a)
  BY <1>1, <1>2 DEF CollectsReady
<1> QED BY <1>1, <1>3 DEF Blank, CurFree, CredsOK, MarkOK

\* With no task at the CPE the session has nothing in hand.
LEMMA NothingInHand ==
    ASSUME NEW d \in Device, NEW s, Comes(d, s), conn[d].item = NoItem
    PROVE  /\ s.wp = NoItem /\ s.follow = NoItem
           /\ Honest(spent) => CollectsReady(s, applied)
           /\ Calm(spent) => /\ CurFree(s)
                             /\ s.creds # NoItem => /\ KindOf(s.creds) \in {"wan", "wanset"}
                                                    /\ DoneBy(s.creds, applied)
                             /\ s.mark => /\ GlobalDefaults
                                          /\ \/ DefaultsAccepted(d, applied)
                                             \/ DefaultsNext(d, s) /\ conn[d] # Close
           /\ Quiet(d, spent) /\ s.phase \in {2, 4} => d \in Rotates /\ conn[d] = Close /\ s # Fresh
<1>1. NoItem \notin Item /\ NoItem # Summon /\ Defaults(d) # NoItem
  BY NoItemIsNoItem, OwnItems
<1>2. CASE s = Fresh
  BY <1>2, FreshIsBlank DEF Blank
<1>3. CASE s # Fresh
  <2>1. Attends(d, s, conn[d], applied, spent)
    BY <1>3 DEF Comes
  <2>2. s.wp = NoItem /\ s.follow = NoItem
    BY <2>1 DEF Attends, InTouch
  <2>3. Calm(spent) => /\ CurFree(s) /\ CredsOK(s, conn[d], applied)
                       /\ MarkOK(d, s, conn[d], applied)
    BY <1>1, <2>1 DEF Attends
  <2>4. CredsOK(s, conn[d], applied) =>
            (s.creds # NoItem => /\ KindOf(s.creds) \in {"wan", "wanset"}
                                 /\ DoneBy(s.creds, applied))
    BY DEF CredsOK
  <2>5. MarkOK(d, s, conn[d], applied) =>
            (s.mark => /\ GlobalDefaults
                       /\ \/ DefaultsAccepted(d, applied)
                          \/ DefaultsNext(d, s) /\ conn[d] # Close)
    BY <1>1 DEF MarkOK
  <2>6. Quiet(d, spent) /\ s.phase \in {2, 4} => d \in Rotates /\ conn[d] = Close /\ s # Fresh
    BY <1>1, <1>3, <2>1 DEF Attends, PhaseOut, Summons
  <2> QED BY <2>1, <2>2, <2>3, <2>4, <2>5, <2>6 DEF Attends
<1> QED BY <1>2, <1>3

\* The stores as a handler sees them.
LEMMA WorldRecords ==
    ASSUME Attentive, Steady(spent), NEW s
    PROVE  /\ World(s).s = s /\ World(s).applied = applied /\ World(s).db = db
           /\ World(s).queue = queue
           /\ Honest(spent) /\ CollectsReady(s, applied) => Ready(World(s))
           /\ Calm(spent) => CredsDone(World(s).db, World(s).applied)
                             /\ ProvDone(World(s).db, World(s).applied)
<1>1. /\ World(s).s = s /\ World(s).applied = applied /\ World(s).db = db
      /\ World(s).queue = queue
  BY DEF World
<1>2. Records(queue, db, applied, spent)
  BY DEF Attentive
<1> QED BY <1>1, <1>2 DEF Records, Ready

LEMMA SpendsSame == \A u : Spends(u, u)
BY DEF Spends

\* What d is sent when it answers an RPC.
LEMMA HeedingIsAttentive ==
    ASSUME IInv, OwnIds, Attentive, Steady(spent), spent' = spent, NEW d \in Device,
           NEW w, w.s = obj[ByCookie(d)], w.queue = queue, w.db = db, applied \subseteq w.applied,
           conn[d] # Close, NEW v, Heeds(w, conn[d], v, d), Serves(w, v, d),
           Serve(d, ByCookie(d), v)
    PROVE  Attentive'
<1> DEFINE m == conn[d]
<1>1. Comes(d, w.s)
  BY CookieFacts, SessionComes
<1>2. /\ spent.triggers = 0 => Blank(w.s) \/ PhaseIn(w.s, m)
      /\ Quiet(d, spent) => PhaseOut(w.s, m)
      /\ Honest(spent) => CollectsReady(w.s, applied)
      /\ Calm(spent) => /\ CredsOK(w.s, m, applied) /\ MarkOK(d, w.s, m, applied)
                        /\ m.item \notin Item => CurFree(w.s)
  <2>1. CASE w.s = Fresh
    BY <2>1, FreshIsBlank DEF PhaseOut
  <2>2. CASE Attends(d, w.s, m, applied, spent)
    BY <2>2 DEF Attends
  <2> QED BY <1>1, <2>1, <2>2 DEF Comes
<1>3. Records(queue, db, applied, spent)
  BY DEF Attentive
<1>4. Honest(spent) => Ready(w)
  <2>1. Honest(spent) => CollectsReady(w.s, w.applied) /\ AllDone(queue, w.applied)
    BY <1>2, <1>3, MoreDone DEF Records
  <2> QED BY <2>1 DEF Ready
<1>5. Calm(spent) => Fine(w, m, d)
  <2>1. Calm(spent) => /\ CredsOK(w.s, m, w.applied) /\ MarkOK(d, w.s, m, w.applied)
                       /\ CredsDone(db, w.applied) /\ ProvDone(db, w.applied)
    BY <1>2, <1>3, MoreDone DEF Records
  <2> QED BY <1>2, <2>1 DEF Fine
<1>6. Leaves(d, v, spent') /\ w.applied \subseteq v.applied
  BY <1>2, <1>4, <1>5, HeedsLeaves
<1>7. Spends(spent, spent') /\ Steady(spent') /\ applied \subseteq v.applied
  BY <1>6, SpendsSame
<1>8. ReplyOK(v.out, d, v.queue) /\ v.out \in ReplyType
  BY DEF Serves
<1> QED BY <1>6, <1>7, <1>8, ServeAttentive

\* The RPC an answer of d belongs to, and what d has accepted with it.
LEMMA AnswerHeard ==
    ASSUME IInv, Attentive, Steady(spent), NEW d \in Device,
           conn[d].op \notin {"204", "InformResponse"}
    PROVE  /\ \A w : WorldOK(w, d) /\ w.s = obj[ByCookie(d)] => Hearing(d, w, conn[d])
           /\ Told(conn[d], Answered(d).applied)
           /\ applied \subseteq Answered(d).applied /\ Answered(d).db = db
<1> DEFINE m == conn[d]
<1>1. /\ m.item \in Mine(d) \cup {Summon} /\ m.step \in Nat
      /\ ByRpc(d) = ByCookie(d) /\ Summon \notin Item
  BY AnswerFacts, NoItemIsNoItem
<1>2. m.item \in Item \cup {Summon}
  BY <1>1, OwnItems
<1>3. Fits(m) /\ Behind(m, applied)
  BY DEF Attentive
<1>4. ASSUME NEW w, WorldOK(w, d), w.s = obj[ByCookie(d)]
      PROVE  Hearing(d, w, m)
  <2>1. Comes(d, w.s)
    BY <1>4, CookieFacts, SessionComes
  <2>2. Blank(w.s) \/ InTouch(w.s, m)
    BY <2>1, FreshIsBlank DEF Comes, Attends
  <2> QED BY <1>1, <1>2, <1>3, <1>4, <2>2 DEF Hearing, Hears
<1>5. /\ Answered(d).db = db
      /\ m.item = Summon => Answered(d).applied = applied
      /\ m.item # Summon => Answered(d).applied = applied \cup {<<m.item, m.step>>}
  BY DEF Answered, World
<1>6. Told(m, Answered(d).applied)
  <2>1. SUFFICES ASSUME m.item \in Item, NEW k \in 1 .. m.step
                 PROVE  <<m.item, k>> \in Answered(d).applied
    BY DEF Told
  <2>2. m.item # Summon
    BY <1>1, <2>1
  <2>3. k = m.step \/ k \in 1 .. m.step - 1
    BY <1>1
  <2> QED BY <1>3, <1>5, <2>1, <2>2, <2>3 DEF Behind
<1> QED BY <1>4, <1>5, <1>6

LEMMA AnswerAttentive ==
    ASSUME IInv, OwnIds, Attentive, NEW d \in Device, Answer(d)
    PROVE  Attentive'
<1>1. spent' = spent
  BY DEF Answer, SetParamValuesOk, AddObjectOk, DeleteObjectOk, GetParamNamesOk,
         GetParamValuesOk, RebootOk, DownloadOk, DownloadAccepted
<1>2. SUFFICES ASSUME Steady(spent) PROVE Attentive'
  BY <1>1 DEF Attentive
<1>3. conn[d].op \notin {"204", "InformResponse"}
  BY DEF Answer, Holds, SetParamValuesOk, AddObjectOk, DeleteObjectOk, GetParamNamesOk,
         GetParamValuesOk, RebootOk, DownloadOk, DownloadAccepted
<1>4. /\ conn[d] # Close /\ ByRpc(d) = ByCookie(d)
      /\ WorldOK(Answered(d), d) /\ Answered(d).queue = queue
      /\ Answered(d).s = obj[ByCookie(d)]
      /\ WorldOK(World(obj[ByRpc(d)]), d) /\ World(obj[ByRpc(d)]).queue = queue
  BY <1>3, AnswerFacts
<1>5. /\ Hearing(d, Answered(d), conn[d]) /\ Told(conn[d], Answered(d).applied)
      /\ applied \subseteq Answered(d).applied /\ Answered(d).db = db
  BY <1>2, <1>3, <1>4, AnswerHeard
<1>6. ASSUME NEW v, Heeds(Answered(d), conn[d], v, d), Serves(Answered(d), v, d),
             Serve(d, ByRpc(d), v)
      PROVE  Attentive'
  BY <1>1, <1>2, <1>4, <1>5, <1>6, HeedingIsAttentive
<1>7. CASE SetParamValuesOk(d)
  <2>1. Heeds(Answered(d), conn[d], SetParamValuesResponse(Answered(d)), d)
    BY <1>5, <1>7, SetParamValuesHeeds DEF SetParamValuesOk, Holds
  <2> QED BY <1>4, <1>6, <1>7, <2>1, SetParamValuesOK DEF SetParamValuesOk
<1>8. CASE AddObjectOk(d)
  <2>1. Heeds(Answered(d), conn[d], AddObjectResponse(Answered(d)), d)
    BY <1>5, <1>8, AddObjectHeeds DEF AddObjectOk, Holds
  <2> QED BY <1>4, <1>6, <1>8, <2>1, AddObjectOK DEF AddObjectOk
<1>9. CASE DeleteObjectOk(d)
  <2>1. Heeds(Answered(d), conn[d], DeleteObjectResponse(Answered(d)), d)
    BY <1>5, <1>9, DeleteObjectHeeds DEF DeleteObjectOk, Holds
  <2> QED BY <1>4, <1>6, <1>9, <2>1, DeleteObjectOK DEF DeleteObjectOk
<1>10. CASE GetParamNamesOk(d)
  <2>1. Heeds(Answered(d), conn[d], GetParameterNamesResponse(Answered(d)), d)
    BY <1>5, <1>10, GetParamNamesHeeds DEF GetParamNamesOk, Holds
  <2> QED BY <1>4, <1>6, <1>10, <2>1, GetParamNamesOK DEF GetParamNamesOk
<1>11. CASE \E a, b \in BOOLEAN : GetParamValuesOk(d, a, b)
  <2>1. PICK a \in BOOLEAN, b \in BOOLEAN : GetParamValuesOk(d, a, b)
    BY <1>11
  <2>2. Heeds(Answered(d), conn[d], GetParamValuesResponse(Answered(d), a, b), d)
    BY <1>5, <2>1, GetParamValuesHeeds DEF GetParamValuesOk, Holds
  <2> QED BY <1>4, <1>6, <2>1, <2>2, GetParamValuesOK DEF GetParamValuesOk
<1>12. CASE RebootOk(d)
  <2>1. Heeds(Answered(d), conn[d], TaskResponse(Answered(d), "done"), d)
    BY <1>5, <1>12, RebootHeeds DEF RebootOk, Holds
  <2>2. Serves(Answered(d), TaskResponse(Answered(d), "done"), d)
    BY <1>4, TaskResponseOK DEF Terminal
  <2> QED BY <1>6, <1>12, <2>1, <2>2 DEF RebootOk
<1>13. conn[d].op = "Download" => /\ conn[d].item \in Task /\ Kind[conn[d].item] = "firmware"
                                  /\ Settled(queue, conn[d].item)
  BY DEF IInv, StoreOK, ReplyOK
<1>14. CASE DownloadOk(d)
  <2>1. Heeds(Answered(d), conn[d], DownloadResponse(Answered(d), conn[d].item, 0), d)
    BY <1>4, <1>5, <1>13, <1>14, DownloadHeeds DEF DownloadOk, Holds
  <2>2. Serves(Answered(d), DownloadResponse(Answered(d), conn[d].item, 0), d)
    BY <1>4, <1>13, <1>14, DownloadOK DEF DownloadOk, Holds
  <2> QED BY <1>6, <1>14, <2>1, <2>2 DEF DownloadOk
<1>15. CASE DownloadAccepted(d)
  <2> DEFINE w == World(obj[ByRpc(d)])
             v == DownloadResponse(w, conn[d].item, 1)
  <2>1. w.s = obj[ByCookie(d)] /\ w.db = db /\ w.applied = applied
    BY <1>4 DEF World
  <2>2. WorldOK(w, d) /\ w.queue = queue
    BY <1>4
  <2>3. Serve(d, ByCookie(d), v)
    BY <1>4, <1>15 DEF DownloadAccepted
  <2>4. conn[d].op = "Download"
    BY <1>15 DEF DownloadAccepted, Holds
  <2> HIDE DEF w
  <2>5. Hearing(d, w, conn[d])
    BY <1>2, <1>3, <2>1, <2>2, AnswerHeard
  <2>6. Heeds(w, conn[d], v, d)
    BY <1>13, <2>2, <2>4, <2>5, DownloadHeeds
  <2>7. Serves(w, v, d)
    BY <1>13, <2>2, <2>4, DownloadOK
  <2> HIDE DEF v
  <2> QED BY <1>1, <1>2, <1>4, <2>1, <2>2, <2>3, <2>6, <2>7, HeedingIsAttentive
<1> QED BY <1>7, <1>8, <1>9, <1>10, <1>11, <1>12, <1>14, <1>15 DEF Answer

LEMMA SpendsMore ==
    ASSUME TypeOK
    PROVE  /\ spent' = [spent EXCEPT !.faults = @ + 1] =>
                /\ Spends(spent, spent') /\ spent'.faults # 0
                /\ spent'.drops = spent.drops /\ spent'.triggers = spent.triggers
           /\ spent' = [spent EXCEPT !.drops = @ + 1] =>
                Spends(spent, spent') /\ spent'.drops # 0
           /\ spent' = [spent EXCEPT !.triggers = @ + 1] =>
                Spends(spent, spent') /\ spent'.triggers # 0
           /\ spent' = [spent EXCEPT !.restarts = @ + 1] => Spends(spent, spent')
<1>1. /\ spent \in [drops : 0..MaxDrops, faults : 0..MaxFaults,
                    triggers : 0..MaxTriggers, restarts : 0..MaxRestarts]
      /\ {MaxDrops, MaxFaults, MaxTriggers, MaxRestarts} \subseteq Nat
  BY BoundAssumption DEF TypeOK
<1> QED BY <1>1 DEF Spends

\* The session a fault is handled in: the provisioning is dropped.
LEMMA FaultWorld ==
    ASSUME IInv, NEW d \in Device, conn[d].op \notin {"204", "InformResponse"},
           NEW w, w = World([ProvisionDropped(obj[ByRpc(d)]) EXCEPT !.follow = NoItem])
    PROVE  /\ WorldOK(w, d) /\ w.queue = queue /\ w.applied = applied
           /\ w.s.wp = NoItem /\ w.s.follow = NoItem
           /\ w.s.pend = obj[ByCookie(d)].pend /\ w.s.cur = obj[ByCookie(d)].cur
<1> DEFINE s == obj[ByRpc(d)]
           P == ProvisionDropped(s)
           S == [P EXCEPT !.follow = NoItem]
<1>1. /\ ByRpc(d) = ByCookie(d) /\ s \in SessionType /\ SessionOK(s, d, queue)
      /\ WorldOK(World(s), d) /\ World(s).s = s /\ World(s).queue = queue
  BY AnswerFacts, WorldIsOK
<1>2. w = World(S)
  OBVIOUS
<1> HIDE DEF s
<1>3. /\ P \in SessionType /\ P.wp = NoItem /\ P.pend = s.pend /\ P.dev = s.dev
      /\ P.cur = s.cur /\ P.follow = s.follow /\ P.mark = s.mark /\ P.creds = s.creds
  BY <1>1, DroppedFields
<1> HIDE DEF P
<1>4. /\ S \in SessionType /\ S.wp = NoItem /\ S.follow = NoItem /\ S.pend = s.pend
      /\ S.cur = s.cur
  BY <1>3, ZenonT(40) DEF SessionType
<1>5. Trims(s, S)
  BY <1>3 DEF SessionType, Trims
<1> HIDE DEF S
<1>6. /\ w \in WorldType /\ w.s = S /\ w.queue = queue /\ w.applied = applied
      /\ w.transfers = World(s).transfers
  BY <1>2, <1>4 DEF World, WorldType, IInv, TypeOK
<1>7. WorldOK(w, d)
  BY <1>1, <1>5, <1>6, TrimOK
<1> QED BY <1>1, <1>4, <1>6, <1>7 DEF s

LEMMA FaultAttentive ==
    ASSUME IInv, OwnIds, Attentive, NEW d \in Device, Fault(d)
    PROVE  Attentive'
<1> DEFINE w == World([ProvisionDropped(obj[ByRpc(d)]) EXCEPT !.follow = NoItem])
           v == TaskResponse(w, "failed")
<1>1. conn[d].op \notin {"204", "InformResponse"} /\ Serve(d, ByRpc(d), v)
  BY DEF Fault
<1>2. /\ Spends(spent, spent') /\ spent'.faults # 0
  BY SpendsMore DEF Fault, IInv
<1>3. SUFFICES ASSUME Steady(spent') PROVE Attentive'
  BY DEF Attentive
<1>4. Steady(spent) /\ (Honest(spent') => Honest(spent))
  BY <1>2, <1>3, SpendsLess
<1>5. conn[d] # Close /\ ByRpc(d) = ByCookie(d)
  BY <1>1, AnswerFacts
<1>6. /\ WorldOK(w, d) /\ w.queue = queue /\ w.applied = applied
      /\ w.s.wp = NoItem /\ w.s.follow = NoItem
      /\ w.s.pend = obj[ByCookie(d)].pend /\ w.s.cur = obj[ByCookie(d)].cur
  BY <1>1, FaultWorld
<1>7. Honest(spent') => Ready(w)
  <2> SUFFICES ASSUME Honest(spent) PROVE Ready(w)
    BY <1>4
  <2>1. Comes(d, obj[ByCookie(d)])
    BY <1>4, CookieFacts, SessionComes
  <2>2. CollectsReady(obj[ByCookie(d)], applied)
    BY <2>1, FreshIsBlank DEF Comes, Attends
  <2>3. AllDone(queue, applied)
    BY <1>4 DEF Attentive, Records
  <2> HIDE DEF w
  <2>4. CollectsReady(w.s, applied)
    BY <1>6, <2>2 DEF CollectsReady
  <2> QED BY <1>6, <2>3, <2>4 DEF Ready
<1> HIDE DEF w
<1>8. /\ Sound(v) /\ v.applied = w.applied /\ (Ready(w) => Ready(v))
      /\ Serves(w, v, d) /\ (Tidy(w, d) => Fine(v, v.out, d))
  BY <1>6, TaskResponseReady, TaskResponseOK DEF Terminal
<1> HIDE DEF v
<1>9. ~Quiet(d, spent') /\ ~Calm(spent')
  BY <1>2 DEF Quiet, Calm
<1>10. Leaves(d, v, spent') /\ w.applied \subseteq v.applied
  BY <1>7, <1>8, <1>9, RestLeaves
<1>11. Serve(d, ByCookie(d), v) /\ ReplyOK(v.out, d, v.queue) /\ v.out \in ReplyType
       /\ applied \subseteq v.applied
  BY <1>1, <1>5, <1>6, <1>8 DEF Serves
<1> QED BY <1>2, <1>3, <1>5, <1>10, <1>11, ServeAttentive

\* A session asked for work, with nothing at the CPE.
LEMMA AtRest ==
    ASSUME IInv, Attentive, Steady(spent), NEW d \in Device, NEW s, Comes(d, s),
           conn[d].item = NoItem, conn[d] # Close, NEW w, w = World(s)
    PROVE  /\ w.s.wp = NoItem /\ w.s.follow = NoItem
           /\ Honest(spent) => Ready(w)
           /\ Calm(spent) => Tidy(w, d) /\ CurFree(w.s)
           /\ Quiet(d, spent) => w.s.phase \notin {2, 4}
<1>1. w.s = s /\ w.applied = applied /\ w.db = db /\ w.queue = queue
  BY WorldRecords
<1>2. /\ s.wp = NoItem /\ s.follow = NoItem
      /\ Honest(spent) => CollectsReady(s, applied)
      /\ Calm(spent) => /\ CurFree(s)
                        /\ s.creds # NoItem => /\ KindOf(s.creds) \in {"wan", "wanset"}
                                               /\ DoneBy(s.creds, applied)
                        /\ s.mark => /\ GlobalDefaults
                                     /\ \/ DefaultsAccepted(d, applied)
                                        \/ DefaultsNext(d, s) /\ conn[d] # Close
      /\ Quiet(d, spent) /\ s.phase \in {2, 4} => d \in Rotates /\ conn[d] = Close /\ s # Fresh
  BY NothingInHand
<1>3. Honest(spent) => Ready(w)
  BY <1>2, WorldRecords
<1>4. Calm(spent) => CredsDone(w.db, w.applied) /\ ProvDone(w.db, w.applied)
  BY WorldRecords
<1>5. Calm(spent) => Tidy(w, d)
  BY <1>1, <1>2, <1>4 DEF Tidy, CredsTidy
<1> QED BY <1>1, <1>2, <1>3, <1>5

\* A firmware task is sent again, and then its answer is waited for.
LEMMA AgainLeaves ==
    ASSUME NEW d \in Device, NEW w, WorldOK(w, d), w.s.cur # NoItem,
           w.s.wp = NoItem, w.s.follow = NoItem, NEW v, v = Dispatch(w, w.s.cur)
    PROVE  /\ Sound(v) /\ ~Summons(v.out) /\ v.s.phase = w.s.phase /\ v.applied = w.applied
           /\ Ready(w) => Ready(v)
           /\ Tidy(w, d) /\ CurFree(w.s) => Fine(v, v.out, d)
<1> DEFINE i == w.s.cur
           x == Started(w, i)
<1>1. /\ WorldOK(x, d) /\ x.s = w.s /\ x.db = w.db /\ x.applied = w.applied /\ i \in Mine(d)
      /\ \A u \in Item : u # i => x.queue.status[u] = w.queue.status[u]
      /\ x.queue.status[i] \in {"executing", w.queue.status[i]}
  BY StartAgainOK
<1>2. v = ExecuteTask(x, i)
  BY DispatchIsExecute
<1>3. x \in WorldType /\ i \in Item /\ i # Summon /\ i # NoItem
  BY <1>1, OwnItems, NoItemIsNoItem DEF WorldOK
<1> HIDE DEF x, i
<1>4. /\ v.s.cur = i
      /\ v.s.creds = IF KindOf(i) \in {"wan", "wanset"} THEN i ELSE x.s.creds
      /\ v.s.follow = IF KindOf(i) = "pfadd" THEN i ELSE x.s.follow
      /\ v.s.wp = IF KindOf(i) = "wan" THEN i ELSE x.s.wp
      /\ v.s.step = IF KindOf(i) = "wan" THEN 1 ELSE x.s.step
      /\ v.s.pend = x.s.pend /\ v.s.mark = x.s.mark /\ v.s.phase = x.s.phase
      /\ v.queue = x.queue /\ v.db = x.db /\ v.applied = x.applied
  BY <1>2, <1>3, ExecuteTaskFields
<1>5. v.out.item = i /\ v.out.step = 1 /\ v.out.op = Operation(i, 1)
  BY <1>2, <1>3, ExecutesBegins
<1>6. ~Summons(v.out)
  BY <1>3, <1>5 DEF Summons
<1>7. Fits(v.out)
  BY <1>3, <1>5, OperationFacts DEF Fits
<1>8. Sound(v)
  <2>1. InTouch(v.s, v.out)
    BY <1>1, <1>3, <1>4, <1>5 DEF InTouch
  <2>2. Behind(v.out, v.applied)
    BY <1>5 DEF Behind
  <2> QED BY <1>6, <1>7, <2>1, <2>2 DEF Sound, PhaseIn
<1>9. Ready(w) => Ready(v)
  <2>1. CollectsReady(w.s, w.applied) => CollectsReady(v.s, v.applied)
    BY <1>1, <1>4 DEF CollectsReady, i
  <2>2. AllDone(w.queue, w.applied) => AllDone(v.queue, v.applied)
    BY <1>1, <1>4, NoItemIsNoItem DEF AllDone
  <2> QED BY <2>1, <2>2 DEF Ready
<1>10. ASSUME Tidy(w, d), CurFree(w.s) PROVE Fine(v, v.out, d)
  <2>1. KindOf(i) = "firmware"
    BY <1>10 DEF CurFree, i
  <2>2. v.out.op = "Download" /\ v.out # Close
    BY <1>3, <1>5, <2>1, ItemsApart DEF Operation, RpcOf
  <2>3. v.s.creds = w.s.creds /\ v.s.mark = w.s.mark /\ v.s.pend = w.s.pend
    BY <1>1, <1>4, <2>1
  <2>4. CredsOK(v.s, v.out, v.applied) /\ CredsDone(v.db, v.applied)
    BY <1>1, <1>4, <1>10, <2>3 DEF Tidy, CredsTidy, CredsOK
  <2>5. MarkOK(d, v.s, v.out, v.applied) /\ ProvDone(v.db, v.applied)
    BY <1>1, <1>4, <1>10, <2>2, <2>3 DEF Tidy, MarkOK, DefaultsNext
  <2> QED BY <1>3, <1>5, <2>4, <2>5 DEF Fine
<1> QED BY <1>1, <1>4, <1>6, <1>8, <1>9, <1>10 DEF i

\* A session that ends has nothing left to send.
LEMMA ClosedLeaves ==
    ASSUME NEW d \in Device, NEW w, w.s.wp = NoItem, w.s.follow = NoItem, w.s.pend = <<>>,
           NEW v, v.out = Close, v.queue = w.queue, v.db = w.db, v.applied = w.applied,
           Resumed(w.s, v.s)
    PROVE  /\ Sound(v)
           /\ Ready(w) => Ready(v)
           /\ Tidy(w, d) /\ CurFree(w.s) => Fine(v, v.out, d)
<1>1. NoItem \notin Item /\ NoItem # Summon /\ Close.item = NoItem
  BY NoItemIsNoItem, ItemsApart
<1>2. Sound(v)
  BY <1>1 DEF Sound, InTouch, Fits, Behind, PhaseIn, Summons, Resumed, Same
<1>3. (Ready(w) => Ready(v)) /\ (Tidy(w, d) => Tidy(v, d))
  BY ResumedTidy
<1>4. ASSUME Tidy(v, d), CurFree(w.s) PROVE Fine(v, v.out, d)
  <2>1. CredsOK(v.s, v.out, v.applied) /\ CredsDone(v.db, v.applied)
    BY <1>4 DEF Tidy, CredsTidy, CredsOK
  <2>2. v.s.pend = <<>>
    BY DEF Resumed
  <2>3. MarkOK(d, v.s, v.out, v.applied) /\ ProvDone(v.db, v.applied)
    BY <1>4, <2>2 DEF Tidy, MarkOK, DefaultsNext
  <2>4. CurFree(v.s)
    BY <1>4 DEF CurFree, Resumed, Same
  <2> QED BY <2>1, <2>3, <2>4 DEF Fine
<1> QED BY <1>2, <1>3, <1>4

LEMMA EmptyPostAttentive ==
    ASSUME IInv, OwnIds, Attentive, NEW d \in Device, EmptyPost(d)
    PROVE  Attentive'
<1> DEFINE o == ByCookie(d)
           s == obj[o]
           w == World(s)
           names == Msg("GetParameterNames", Summon, 0)
           values == Msg("GetParameterValues", Summon, 0)
<1>1. spent' = spent /\ conn[d].op = "InformResponse"
  BY DEF EmptyPost
<1>2. SUFFICES ASSUME Steady(spent) PROVE Attentive'
  BY <1>1 DEF Attentive
<1>3. conn[d] # Close /\ conn[d].item = NoItem
  <2>1. conn[d].item \in Item \cup {NoItem, Summon} /\ conn[d].step \in Nat
    BY DEF IInv, TypeOK, ReplyType
  <2>2. Fits(conn[d])
    BY <1>2 DEF Attentive
  <2>3. conn[d].item \notin Item /\ conn[d].item # Summon
    BY <1>1, <2>1, <2>2, OpTells DEF Fits
  <2> QED BY <1>1, <2>1, <2>3 DEF Close, Msg
<1>4. o \in Obj /\ (o \in Reach(d) \/ o \notin Reached) /\ bySerial[d] \in {o, NoObj}
  BY <1>3, CookieFacts
<1> HIDE DEF o
<1>5. Comes(d, s)
  BY <1>2, <1>4, SessionComes
<1>6. s \in SessionType /\ SessionOK(s, d, queue) /\ \A e \in Device : e # d => o \notin Reach(e)
  BY <1>4, OwnSession
<1> HIDE DEF s
<1>7. /\ w.s.wp = NoItem /\ w.s.follow = NoItem
      /\ Honest(spent) => Ready(w)
      /\ Calm(spent) => Tidy(w, d) /\ CurFree(w.s)
      /\ Quiet(d, spent) => w.s.phase \notin {2, 4}
  BY <1>2, <1>3, <1>5, AtRest
<1>8. /\ WorldOK(w, d) /\ w.s = s /\ w.queue = queue /\ w.db = db /\ w.applied = applied
      /\ w \in WorldType
  BY <1>6, WorldIsOK DEF WorldOK
<1> HIDE DEF w
<1>9. Resumed(w.s, w.s) /\ w.applied \subseteq w.applied
  BY DEF Resumed, Same
<1>10. ASSUME NEW v, Sound(v), v.applied = w.applied, Ready(w) => Ready(v),
              Quiet(d, spent) => PhaseOut(v.s, v.out),
              Tidy(w, d) /\ CurFree(w.s) => Fine(v, v.out, d)
       PROVE  Leaves(d, v, spent') /\ applied \subseteq v.applied
  BY <1>1, <1>7, <1>8, <1>10, RestLeaves
<1>11. ASSUME NEW v, Leaves(d, v, spent') /\ applied \subseteq v.applied, Serves(w, v, d),
              Serve(d, o, v)
       PROVE  Attentive'
  <2>1. ReplyOK(v.out, d, v.queue) /\ v.out \in ReplyType
    BY <1>11 DEF Serves
  <2> QED BY <1>1, <1>2, <1>3, <1>11, <2>1, SpendsSame, ServeAttentive DEF o
\* The first RPC of a summon.
<1>12. ASSUME NEW S \in SessionType, Resumed(s, S), Trims(s, S),
              NEW op \in {"GetParameterNames", "GetParameterValues"},
              op = "GetParameterValues" => S.phase = 4,
              op = "GetParameterNames" => S.phase = s.phase,
              NEW v, v = [w EXCEPT !.s = S, !.out = Msg(op, Summon, 0)], Serve(d, o, v)
       PROVE  Attentive'
  <2> DEFINE m == Msg(op, Summon, 0)
  <2>1. m \in ReplyType /\ ReplyOK(m, d, w.queue) /\ m.op \notin {"204", "InformResponse"}
    BY SummonIsReply
  <2>2. Serves(w, v, d)
    BY <1>8, <1>12, <2>1, OutServes
  <2>3. /\ v.s = S /\ v.queue = w.queue /\ v.db = w.db /\ v.applied = w.applied /\ v.out = m
    BY <1>8, <1>12 DEF WorldType
  <2>4. Resumed(w.s, v.s)
    BY <1>8, <1>12, <2>3
  <2>5. op = "GetParameterValues" => v.s.phase \in {2, 4}
    BY <1>12, <2>3
  <2>6. /\ Sound(v) /\ (Ready(w) => Ready(v))
        /\ op = "GetParameterValues" => Summons(v.out)
        /\ Tidy(w, d) /\ CurFree(w.s) => Fine(v, v.out, d)
    BY <1>7, <2>3, <2>4, <2>5, SummonSent
  <2>7. Quiet(d, spent) => PhaseOut(v.s, v.out)
    BY <1>7, <1>8, <1>12, <2>3, <2>6 DEF PhaseOut
  <2>8. Leaves(d, v, spent') /\ applied \subseteq v.applied
    BY <1>10, <2>3, <2>6, <2>7
  <2> QED BY <1>11, <1>12, <2>2, <2>8
<1>13. Serve(d, o, [w EXCEPT !.out = names]) => Attentive'
  <2>1. [w EXCEPT !.out = names] = [w EXCEPT !.s = s, !.out = names]
    BY <1>8 DEF WorldType
  <2>2. Trims(s, s) /\ Resumed(s, s)
    BY <1>6, <1>8, <1>9, TrimsItself
  <2> QED BY <1>6, <1>12, <2>1, <2>2, Zenon
<1>14. Serve(d, o, [w EXCEPT !.s.phase = 4, !.out = values]) => Attentive'
  <2> DEFINE S == [s EXCEPT !.phase = 4]
  <2>1. S \in SessionType /\ Trims(s, S) /\ Resumed(s, S)
    BY <1>6, SummonEdits, SummonTrims, SummonResumes
  <2>2. S.phase = 4
    BY <1>6 DEF SessionType
  <2>3. [w EXCEPT !.s.phase = 4, !.out = values] = [w EXCEPT !.s = S, !.out = values]
    BY <1>8 DEF WorldType
  <2> HIDE DEF S
  <2> QED BY <1>12, <2>1, <2>2, <2>3, Zenon
<1>15. s.cur # NoItem /\ Serve(d, o, Dispatch(w, s.cur)) => Attentive'
  <2> SUFFICES ASSUME s.cur # NoItem, Serve(d, o, Dispatch(w, s.cur)) PROVE Attentive'
    OBVIOUS
  <2> DEFINE v == Dispatch(w, s.cur)
  <2>1. /\ Sound(v) /\ ~Summons(v.out) /\ v.s.phase = w.s.phase /\ v.applied = w.applied
        /\ Ready(w) => Ready(v)
        /\ Tidy(w, d) /\ CurFree(w.s) => Fine(v, v.out, d)
    BY <1>7, <1>8, AgainLeaves
  <2>2. Serves(w, v, d)
    BY <1>8, AgainServes
  <2> HIDE DEF v
  <2>3. Quiet(d, spent) => PhaseOut(v.s, v.out)
    BY <1>7, <2>1 DEF PhaseOut
  <2>4. Leaves(d, v, spent') /\ applied \subseteq v.applied
    BY <1>10, <2>1, <2>3
  <2> QED BY <1>11, <2>2, <2>4 DEF v
<1>16. Serve(d, o, DispatchNextOrClose(w)) => Attentive'
  <2> SUFFICES ASSUME Serve(d, o, DispatchNextOrClose(w)) PROVE Attentive'
    OBVIOUS
  <2> DEFINE v == DispatchNextOrClose(w)
  <2>1. Follows(w, v, d) /\ Serves(w, v, d)
    BY <1>7, <1>8, DispatchFollows, DispatchServes
  <2> HIDE DEF v
  <2>2. Quiet(d, spent) => PhaseOut(v.s, v.out)
    BY <1>7, <2>1 DEF PhaseOut, Follows
  <2>3. Leaves(d, v, spent') /\ applied \subseteq v.applied
    BY <1>10, <2>1, <2>2 DEF Follows
  <2> QED BY <1>11, <2>1, <2>3 DEF v
\* The session is over.
<1>17. ASSUME s.pend = <<>>,
              Finish(d, o, [w EXCEPT !.s.state = "done", !.out = Close], obj,
                     [sessions EXCEPT ![SidOf[d]] = NoObj], bySerial)
       PROVE  Attentive'
  <2> DEFINE index == [sessions EXCEPT ![SidOf[d]] = NoObj]
             S == [s EXCEPT !.state = "done"]
             v == [w EXCEPT !.s = S, !.out = Close]
  <2>1. S.phase = s.phase /\ Resumed(s, S)
    BY <1>6 DEF SessionType, Resumed, Same
  <2>2. [w EXCEPT !.s.state = "done", !.out = Close] = v
    BY <1>8 DEF WorldType
  <2> HIDE DEF S
  <2>3. v.s = S /\ v.queue = w.queue /\ v.db = w.db /\ v.applied = w.applied /\ v.out = Close
    BY <1>8 DEF WorldType
  <2>4. Finish(d, o, v, obj, index, bySerial)
    BY <1>17, <2>2
  <2> HIDE DEF v
  <2>5. /\ sessions \in [Sid -> Obj \cup {NoObj}] /\ bySerial \in [Device -> Obj \cup {NoObj}]
        /\ SidOf \in [Device -> Sid]
    BY DeviceAssumption DEF IInv, TypeOK
  <2>6. /\ index \in [Sid -> Obj \cup {NoObj}] /\ index[SidOf[d]] = NoObj
        /\ \A e \in Device : e # d => index[SidOf[e]] = sessions[SidOf[e]]
    BY <2>5 DEF OwnIds
  <2> HIDE DEF index
  <2>7. ReplyOK(v.out, d, v.queue) /\ v.out \in ReplyType
    BY <2>3, CloseIsReply
  <2>8. /\ queue' = v.queue /\ db' = v.db /\ applied' = v.applied
        /\ SameReply(v.out, conn'[d])
        /\ \A p \in Reach(d)' : obj'[p] = v.s
        /\ \A e \in Device : e # d => /\ Reach(e)' = Reach(e) /\ conn'[e] = conn[e]
                                      /\ \A p \in Reach(e) : obj'[p] = obj[p]
    BY <1>4, <1>6, <2>4, <2>5, <2>6, <2>7, FinishReach
  <2>9. /\ Sound(v) /\ (Ready(w) => Ready(v))
        /\ Tidy(w, d) /\ CurFree(w.s) => Fine(v, v.out, d)
    BY <1>7, <1>8, <1>17, <2>1, <2>3, ClosedLeaves
  <2>10. Quiet(d, spent) => PhaseOut(v.s, v.out)
    BY <1>7, <1>8, <2>1, <2>3 DEF PhaseOut
  <2>11. Leaves(d, v, spent') /\ applied \subseteq v.applied
    BY <1>10, <2>3, <2>9, <2>10
  <2> QED BY <1>1, <1>2, <2>8, <2>11, SpendsSame, FinishAttentive
<1>18. \/ Serve(d, o, [w EXCEPT !.out = names])
       \/ Serve(d, o, [w EXCEPT !.s.phase = 4, !.out = values])
       \/ s.wp # NoItem
       \/ s.cur # NoItem /\ Serve(d, o, Dispatch(w, s.cur))
       \/ Serve(d, o, DispatchNextOrClose(w))
       \/ /\ s.pend = <<>>
          /\ Finish(d, o, [w EXCEPT !.s.state = "done", !.out = Close], obj,
                    [sessions EXCEPT ![SidOf[d]] = NoObj], bySerial)
  BY DEF EmptyPost, o, s, w, names, values
<1> QED BY <1>7, <1>8, <1>13, <1>14, <1>15, <1>16, <1>17, <1>18

LEMMA FinishInformAttentive ==
    ASSUME IInv, OwnIds, Attentive, Steady(spent'), Spends(spent, spent'),
           NEW d \in Device, NEW w, FinishInform(d, w),
           ReplyOK(w.out, d, w.queue), w.out \in ReplyType,
           applied \subseteq w.applied, Leaves(d, w, spent')
    PROVE  Attentive'
<1> DEFINE o == InformObj(d)
           objs == NewObjs(d)
           index == NewIndex(d)
           serial == NewSerial(d)
<1>1. Finish(d, o, w, objs, index, serial)
  BY FinishInformIs
<1>2. /\ o \in Obj
      /\ index \in [Sid -> Obj \cup {NoObj}] /\ index[SidOf[d]] = o
      /\ serial \in [Device -> Obj \cup {NoObj}] /\ serial[d] = o
      /\ \A e \in Device : e # d =>
            /\ o \notin Reach(e)
            /\ index[SidOf[e]] = sessions[SidOf[e]] /\ serial[e] = bySerial[e]
            /\ \A p \in Reach(e) : objs[p] = obj[p]
  BY InformMaps
<1> HIDE DEF o, objs, index, serial
<1>3. /\ queue' = w.queue /\ db' = w.db /\ applied' = w.applied
      /\ SameReply(w.out, conn'[d])
      /\ \A p \in Reach(d)' : obj'[p] = w.s
      /\ \A e \in Device : e # d => /\ Reach(e)' = Reach(e) /\ conn'[e] = conn[e]
                                    /\ \A p \in Reach(e) : obj'[p] = obj[p]
  BY <1>1, <1>2, FinishReach
<1> QED BY <1>3, FinishAttentive

\* The session of an Inform has nothing in hand, adopted or not.
Opening(d, o) ==
    /\ o.wp = NoItem /\ o.follow = NoItem
    /\ Honest(spent) => CollectsReady(o, applied)
    /\ Calm(spent) => /\ CurFree(o)
                      /\ o.creds # NoItem => /\ KindOf(o.creds) \in {"wan", "wanset"}
                                             /\ DoneBy(o.creds, applied)
                      /\ o.mark => GlobalDefaults /\ DefaultsAccepted(d, applied)
    /\ Quiet(d, spent) => o.phase \notin {2, 4}

LEMMA AdoptedOpens ==
    ASSUME NEW d \in Device, NEW s \in SessionType, NEW p \in SessionType,
           Opening(d, s), p.wp = NoItem, p.follow = NoItem,
           Honest(spent) => CollectsReady(p, applied),
           Calm(spent) => /\ CurFree(p)
                          /\ p.creds # NoItem => /\ KindOf(p.creds) \in {"wan", "wanset"}
                                                 /\ DoneBy(p.creds, applied)
                          /\ p.mark => GlobalDefaults /\ DefaultsAccepted(d, applied)
    PROVE  Opening(d, Adopt(s, p))
<1> DEFINE a == Adopt(s, p)
<1>1. /\ a.pend = s.pend /\ a.phase = s.phase /\ (a.mark => s.mark \/ p.mark)
      /\ \/ a = s
         \/ /\ a.cur = p.cur /\ a.wp = p.wp /\ a.follow = p.follow
            /\ a.creds \in {s.creds, p.creds}
  BY AdoptFields
<1> HIDE DEF a
<1>2. CASE a = s
  BY <1>2 DEF a
<1>3. CASE a # s
  <2>1. /\ a.cur = p.cur /\ a.wp = p.wp /\ a.follow = p.follow
        /\ a.creds \in {s.creds, p.creds}
    BY <1>1, <1>3
  <2>2. CollectsReady(s, applied) /\ CollectsReady(p, applied) => CollectsReady(a, applied)
    BY <1>1, <2>1 DEF CollectsReady
  <2>3. CurFree(p) => CurFree(a)
    BY <2>1 DEF CurFree
  <2>4. Opening(d, a)
    BY <1>1, <2>1, <2>2, <2>3 DEF Opening
  <2> QED BY <2>4 DEF a
<1> QED BY <1>2, <1>3

LEMMA OpenedOpens ==
    ASSUME IInv, Attentive, Steady(spent), NEW d \in Device, conn[d] = Close, NEW event
    PROVE  Opening(d, Opened(d, event))
<1> DEFINE s == obj[InformObj(d)]
           p == obj[bySerial[d]]
           a == IF Adopts(d) THEN Adopt(s, p) ELSE s
           boot == event = "bootstrap"
           t == Bound(a, d, boot)
<1>1. conn[d].item = NoItem
  BY ItemsApart
<1>2. ASSUME NEW o \in Obj, o \in Reach(d) \/ o \notin Reached, NEW r, r = obj[o]
      PROVE  /\ r.wp = NoItem /\ r.follow = NoItem
             /\ Honest(spent) => CollectsReady(r, applied)
             /\ Calm(spent) => /\ CurFree(r)
                               /\ r.creds # NoItem => /\ KindOf(r.creds) \in {"wan", "wanset"}
                                                      /\ DoneBy(r.creds, applied)
                               /\ r.mark => GlobalDefaults /\ DefaultsAccepted(d, applied)
             /\ Quiet(d, spent) /\ r.phase \in {2, 4} => d \in Rotates /\ r # Fresh
             /\ r \in SessionType
  <2>1. Comes(d, r)
    BY <1>2, SessionComes
  <2>2. r \in SessionType
    BY <1>2, OwnSession
  <2> QED BY <1>1, <2>1, <2>2, NothingInHand
<1>3. /\ InformObj(d) \in Obj
      /\ InformObj(d) \in Reach(d) \/ InformObj(d) \notin Reached
      /\ bySerial[d] # NoObj => bySerial[d] \in Obj /\ bySerial[d] \in Reach(d)
  BY InformObjFacts
<1>4. d \in Rotates => s = Fresh
  <2> SUFFICES ASSUME d \in Rotates PROVE s = Fresh
    OBVIOUS
  <2>1. InformObj(d) = NewObj /\ TypeOK /\ UnreachedAreFresh
    BY DEF InformObj, IInv, Routed
  <2> QED BY <2>1, NewObjIsNew DEF UnreachedAreFresh
<1>5. Opening(d, s) /\ s \in SessionType
  <2>1. Quiet(d, spent) => s.phase \notin {2, 4}
    BY <1>2, <1>3, <1>4
  <2> HIDE DEF s
  <2> QED BY <1>2, <1>3, <2>1 DEF Opening, s
<1>6. Opening(d, a) /\ a \in SessionType
  <2>1. CASE Adopts(d)
    <3>1. /\ bySerial[d] \in Obj /\ bySerial[d] \in Reach(d)
      BY <1>3, <2>1 DEF Adopts
    <3>2. /\ p.wp = NoItem /\ p.follow = NoItem /\ p \in SessionType
          /\ Honest(spent) => CollectsReady(p, applied)
          /\ Calm(spent) => /\ CurFree(p)
                            /\ p.creds # NoItem => /\ KindOf(p.creds) \in {"wan", "wanset"}
                                                   /\ DoneBy(p.creds, applied)
                            /\ p.mark => GlobalDefaults /\ DefaultsAccepted(d, applied)
      BY <1>2, <3>1
    <3> HIDE DEF s, p
    <3>3. Opening(d, Adopt(s, p)) /\ Adopt(s, p) \in SessionType
      BY <1>5, <3>2, AdoptedOpens, AdoptFields
    <3> QED BY <2>1, <3>3
  <2>2. CASE ~Adopts(d)
    BY <1>5, <2>2
  <2> QED BY <2>1, <2>2
<1>7. Opened(d, event) = t
  BY DEF Opened, Bound
<1> HIDE DEF s, p, a, boot
<1>8. /\ t.pend = a.pend /\ t.cur = a.cur /\ t.wp = a.wp /\ t.follow = a.follow
      /\ t.creds = a.creds /\ t.mark = a.mark /\ t.phase = a.phase
  BY <1>6 DEF Bound, SessionType
<1> HIDE DEF t
<1>9. Opening(d, t)
  BY <1>6, <1>8 DEF Opening, CollectsReady, CurFree
<1> QED BY <1>7, <1>9

\* Only a CPE that has run a diagnostic is asked for its result.
LEMMA CollectsAreReady ==
    ASSUME IInv, NEW d \in Device, NEW event, Opens(d, event), OneDiagnostic,
           NEW s, NEW t \in Diagnostics, Collect(t) \in Range(Tasks(s, d, event))
    PROVE  <<t, 1>> \in applied
<1>1. Owner[t] = d
  <2>1. Collect(t) \in Mine(d)
    BY TasksFacts, RangeOfSeq
  <2> QED BY <2>1, CollectItems
<1>2. event = "diagnostics"
  <2> SUFFICES ASSUME event # "diagnostics" PROVE FALSE
    OBVIOUS
  <2> DEFINE W == DequeuePending(d)
  <2>1. W \in Seq(Task)
    <3>1. W = Waiting(queue, d) /\ FifoOK(queue, d) /\ queue \in QueueType
      BY DEF DequeuePending, Waiting, Pending, IInv, StoreOK, FifosOK, TypeOK
    <3> QED BY <3>1, WaitingFacts
  <2>2. Tasks(s, d, event) = <<>> \o W
    BY DEF Tasks
  <2> HIDE DEF W
  <2>3. <<>> \o W = W /\ Range(W) \subseteq Task
    BY <2>1, ConcatEmptySeq, RangeOfSeq
  <2>4. Collect(t) \notin Task
    BY CollectItems
  <2> QED BY <2>2, <2>3, <2>4
<1>3. PICK r \in Task : Kind[r] = "diag" /\ Owner[r] = d /\ <<r, 1>> \in applied
  BY <1>2 DEF Opens, Diagnostics
<1>4. r = t
  BY <1>1, <1>3 DEF OneDiagnostic, Diagnostics
<1> QED BY <1>3, <1>4

\* The world an Inform begins in.
LEMMA OpeningWorld ==
    ASSUME Attentive, Steady(spent), NEW d \in Device, NEW s, Opening(d, s), NEW w,
           w.s = s, w.queue = queue, w.db = db, w.applied = applied
    PROVE  /\ Honest(spent) => Ready(w)
           /\ Calm(spent) => Tidy(w, d) /\ CurFree(w.s)
<1>1. Records(queue, db, applied, spent)
  BY DEF Attentive
<1>2. Honest(spent) => Ready(w)
  BY <1>1 DEF Opening, Records, Ready
<1>3. Calm(spent) => Tidy(w, d) /\ CurFree(w.s)
  BY <1>1 DEF Opening, Records, Tidy, CredsTidy
<1> QED BY <1>2, <1>3

LEMMA InformAttentive ==
    ASSUME IInv, OwnIds, Attentive, NEW d \in Device, NEW event, NEW differs,
           Inform(d, event, differs)
    PROVE  Attentive'
<1> DEFINE o == Opened(d, event)
           s == ReadIn(o, d, event)
           F == fresh \cup {d}
           w == [World(s) EXCEPT !.fresh = F, !.out = Ack]
           v == InjectGlobalDefaults(w, d, differs)
<1>1. /\ FinishInform(d, InjectGlobalDefaults([World(s) EXCEPT !.fresh = @ \cup {d}, !.out = Ack],
                                              d, differs))
      /\ spent' = spent /\ Opens(d, event)
  BY DEF Inform, ReadIn
<1>2. SUFFICES ASSUME Steady(spent) PROVE Attentive'
  BY <1>1 DEF Attentive
<1>3. Opening(d, o)
  BY <1>1, <1>2, OpenedOpens DEF Opens
<1>4. o \in SessionType /\ SessionOK(o, d, queue) /\ o.dev = d
  BY OpenedOK
<1> HIDE DEF o
<1>5. /\ s \in SessionType /\ SessionOK(s, d, queue) /\ s.dev = d
      /\ s.pend = Tasks(o, d, event) /\ s.cur = o.cur /\ s.wp = o.wp /\ s.follow = o.follow
      /\ s.mark = o.mark /\ s.creds = o.creds /\ s.phase \in {3, o.phase}
  BY <1>4, ReadOK, ReadFields
<1> HIDE DEF s
<1>6. Opening(d, s)
  <2>1. Honest(spent) => CollectsReady(s, applied)
    <3> SUFFICES ASSUME Honest(spent), NEW t \in Diagnostics, Collect(t) \in Range(s.pend) \cup {s.cur}
                 PROVE  <<t, 1>> \in applied
      BY DEF CollectsReady
    <3>1. CASE Collect(t) = s.cur
      BY <1>3, <1>5, <3>1 DEF Opening, CollectsReady
    <3>2. CASE Collect(t) \in Range(s.pend)
      BY <1>1, <1>5, <3>2, CollectsAreReady DEF Honest
    <3> QED BY <3>1, <3>2
  <2>2. CurFree(o) => CurFree(s)
    BY <1>5 DEF CurFree
  <2> QED BY <1>3, <1>5, <2>1, <2>2 DEF Opening
<1>7. [World(s) EXCEPT !.fresh = @ \cup {d}, !.out = Ack] = w
  BY DEF World
<1>8. /\ WorldOK(World(s), d) /\ World(s) \in WorldType /\ World(s).s = s
      /\ World(s).queue = queue /\ World(s).transfers = transfers
      /\ World(s).db = db /\ World(s).applied = applied
  BY <1>5, WorldIsOK DEF WorldOK
<1>9. F \in SUBSET Device
  BY DEF IInv, TypeOK
<1> HIDE DEF F
<1>10. /\ w \in WorldType /\ w.s = s /\ w.queue = queue /\ w.transfers = transfers
       /\ w.db = db /\ w.applied = applied /\ w.out = Ack
  BY <1>8, <1>9, CloseIsReply DEF WorldType
<1>11. FinishInform(d, InjectGlobalDefaults(w, d, differs))
  BY <1>1, <1>7
<1> HIDE DEF w
<1>12. WorldOK(w, d) /\ w.s.dev = d
  BY <1>5, <1>8, <1>10 DEF WorldOK
<1>13. v = InjectGlobalDefaults(w, w.s.dev, differs)
  BY <1>12
<1>14. FinishInform(d, v)
  BY <1>11
<1> HIDE DEF v
<1>15. /\ Injected(w, v, d)
       /\ (w.s.mark => GlobalDefaults) /\ ProvDone(w.db, w.applied)
            => MarkTidy(v, d) /\ ProvDone(v.db, v.applied)
       /\ Ready(w) => Ready(v)
       /\ CredsDone(w.db, w.applied) => CredsDone(v.db, v.applied)
       /\ CredsTidy(w) => CredsTidy(v)
  BY <1>12, <1>13, GlobalInjected, InjectedReady, InjectedCreds
<1>16. /\ v.s.wp = NoItem /\ v.s.follow = NoItem /\ v.s.cur = s.cur /\ v.s.phase = s.phase
       /\ v.out = Ack /\ w.applied \subseteq v.applied
  BY <1>6, <1>10, <1>15 DEF Injected, Same, Opening
<1>17. Ack.item = NoItem /\ Ack # Close /\ NoItem \notin Item /\ NoItem # Summon
  BY ItemsApart, NoItemIsNoItem
<1>18. Sound(v)
  BY <1>16, <1>17 DEF Sound, InTouch, Fits, Behind, PhaseIn, Summons
<1>19. Quiet(d, spent) => PhaseOut(v.s, v.out)
  BY <1>3, <1>5, <1>16 DEF PhaseOut, Opening
<1>20. /\ Honest(spent) => Ready(w)
       /\ Calm(spent) => Tidy(w, d) /\ CurFree(w.s)
  BY <1>2, <1>6, <1>10, OpeningWorld
<1>21. ASSUME Tidy(w, d), CurFree(w.s) PROVE Fine(v, v.out, d)
  <2>1. MarkTidy(v, d) /\ ProvDone(v.db, v.applied)
    BY <1>15, <1>21 DEF Tidy
  <2>2. CredsDone(v.db, v.applied) /\ CredsTidy(v)
    BY <1>15, <1>21 DEF Tidy
  <2>3. CredsOK(v.s, v.out, v.applied)
    BY <2>2 DEF CredsTidy, CredsOK
  <2>4. MarkOK(d, v.s, v.out, v.applied)
    BY <1>16, <1>17, <2>1 DEF MarkTidy, MarkOK
  <2>5. CurFree(v.s)
    BY <1>10, <1>16, <1>21 DEF CurFree
  <2> QED BY <2>1, <2>2, <2>3, <2>4, <2>5 DEF Fine
<1>22. Leaves(d, v, spent) /\ w.applied \subseteq v.applied
  BY <1>15, <1>16, <1>18, <1>19, <1>20, <1>21, RestLeaves
<1>23. ReplyOK(v.out, d, v.queue) /\ v.out \in ReplyType
  BY <1>16, CloseIsReply
<1> QED BY <1>1, <1>2, <1>10, <1>14, <1>22, <1>23, SpendsSame, FinishInformAttentive

LEMMA InformFullSummonAttentive ==
    ASSUME IInv, OwnIds, Attentive, NEW d \in Device, NEW event, InformFullSummon(d, event)
    PROVE  Attentive'
<1> DEFINE o == Opened(d, event)
           s == [o EXCEPT !.phase = 1]
           w == World(s)
           v == DispatchNextOrClose(w)
<1>1. FinishInform(d, v) /\ spent' = spent /\ Opens(d, event)
  BY DEF InformFullSummon
<1>2. SUFFICES ASSUME Steady(spent) PROVE Attentive'
  BY <1>1 DEF Attentive
<1>3. Opening(d, o)
  BY <1>1, <1>2, OpenedOpens DEF Opens
<1>4. o \in SessionType /\ SessionOK(o, d, queue)
  BY OpenedOK
<1> HIDE DEF o
<1>5. s \in SessionType /\ Trims(o, s) /\ Resumed(o, s) /\ s.phase = 1
  BY <1>4, SummonEdits, SummonTrims, SummonResumes DEF SessionType
<1> HIDE DEF s
<1>6. Opening(d, s)
  BY <1>3, <1>5 DEF Opening, Resumed, Same, CollectsReady, CurFree
<1>7. WorldOK(World(o), d) /\ World(o).s = o /\ World(o).queue = queue
  BY <1>4, WorldIsOK
<1>8. /\ w \in WorldType /\ w.s = s /\ w.queue = queue /\ w.transfers = World(o).transfers
      /\ w.db = db /\ w.applied = applied
  BY <1>5 DEF World, WorldType, IInv, TypeOK
<1> HIDE DEF w
<1>9. WorldOK(w, d)
  BY <1>5, <1>7, <1>8, TrimOK
<1>10. Follows(w, v, d) /\ Serves(w, v, d)
  BY <1>6, <1>8, <1>9, DispatchFollows, DispatchServes DEF Opening
<1> HIDE DEF v
<1>11. /\ Honest(spent) => Ready(w)
       /\ Calm(spent) => Tidy(w, d) /\ CurFree(w.s)
  BY <1>2, <1>6, <1>8, OpeningWorld
<1>12. /\ Sound(v) /\ PhaseOut(v.s, v.out) /\ w.applied \subseteq v.applied
       /\ Ready(w) => Ready(v)
       /\ Tidy(w, d) /\ CurFree(w.s) => Fine(v, v.out, d)
  BY <1>5, <1>8, <1>10 DEF Follows, PhaseOut
<1>13. Leaves(d, v, spent) /\ w.applied \subseteq v.applied
  BY <1>11, <1>12, RestLeaves
<1>14. ReplyOK(v.out, d, v.queue) /\ v.out \in ReplyType
  BY <1>10 DEF Serves
<1> QED BY <1>1, <1>2, <1>8, <1>13, <1>14, SpendsSame, FinishInformAttentive

LEMMA InformRejectedAttentive ==
    ASSUME IInv, OwnIds, Attentive, NEW d \in Device, NEW event, InformRejected(d, event)
    PROVE  Attentive'
<1> DEFINE o == Opened(d, event)
           v == [World(o) EXCEPT !.out = Close]
<1>1. FinishInform(d, v) /\ Opens(d, event)
  BY DEF InformRejected
<1>2. Spends(spent, spent') /\ spent'.faults # 0
  BY SpendsMore DEF InformRejected, IInv
<1>3. SUFFICES ASSUME Steady(spent') PROVE Attentive'
  BY DEF Attentive
<1>4. Steady(spent) /\ (Honest(spent') => Honest(spent))
  BY <1>2, <1>3, SpendsLess
<1>5. Opening(d, o)
  BY <1>1, <1>4, OpenedOpens DEF Opens
<1> HIDE DEF o
<1>6. /\ v.s = o /\ v.queue = queue /\ v.db = db /\ v.applied = applied /\ v.out = Close
  BY DEF World
<1> HIDE DEF v
<1>7. Close.item = NoItem /\ NoItem \notin Item /\ NoItem # Summon
  BY ItemsApart, NoItemIsNoItem
<1>8. Sound(v)
  BY <1>5, <1>6, <1>7 DEF Sound, InTouch, Fits, Behind, PhaseIn, Summons, Opening
<1>9. Honest(spent') => Ready(v)
  BY <1>4, <1>5, <1>6, OpeningWorld
<1>10. ~Quiet(d, spent') /\ ~Calm(spent')
  BY <1>2 DEF Quiet, Calm
<1>11. Leaves(d, v, spent')
  <2>1. Attends(d, v.s, v.out, v.applied, spent')
    BY <1>8, <1>9, <1>10 DEF Attends, Sound, Ready
  <2>2. Records(v.queue, v.db, v.applied, spent')
    BY <1>9, <1>10 DEF Records, Ready
  <2> QED BY <1>8, <2>1, <2>2 DEF Leaves, Sound
<1>12. ReplyOK(v.out, d, v.queue) /\ v.out \in ReplyType /\ applied \subseteq v.applied
  BY <1>6, CloseIsReply
<1> QED BY <1>1, <1>2, <1>3, <1>11, <1>12, FinishInformAttentive

\* A step between requests: the CPEs hold what they held.
LEMMA BetweenAttentive ==
    ASSUME Attentive, Steady(spent'), Spends(spent, spent'),
           UNCHANGED <<sessions, bySerial, conn>>, applied \subseteq applied',
           \A d \in Device : \A o \in Reach(d) :
               Attends(d, obj[o], conn[d], applied, spent)
                   => Attends(d, obj'[o], conn[d], applied', spent'),
           Records(queue, db, applied, spent) => Records(queue', db', applied', spent')
    PROVE  Attentive'
<1>1. Steady(spent)
  BY SpendsLess
<1>2. \A d \in Device : Reach(d)' = Reach(d) /\ conn'[d] = conn[d]
  BY DEF Reach
<1>3. \A d \in Device : Fits(conn'[d]) /\ Behind(conn'[d], applied')
  BY <1>1, <1>2, MoreDone DEF Attentive
<1>4. \A d \in Device : \A o \in Reach(d)' : Attends(d, obj'[o], conn'[d], applied', spent')
  BY <1>1, <1>2 DEF Attentive
<1>5. Records(queue', db', applied', spent')
  BY <1>1 DEF Attentive
<1> QED BY <1>3, <1>4, <1>5 DEF Attentive

LEMMA TransferCompleteAttentive ==
    ASSUME IInv, Attentive, NEW d \in Device, NEW t \in Task, NEW ok \in BOOLEAN,
           TransferComplete(d, t, ok)
    PROVE  Attentive'
<1> DEFINE st == IF ok THEN "done" ELSE "failed"
<1>1. /\ queue' = UpdateStatus(World(Fresh), t, st).queue
      /\ applied' = IF ok THEN applied \cup {<<t, 1>>} ELSE applied
      /\ t \in transfers
      /\ UNCHANGED <<obj, sessions, bySerial, conn, db, spent>>
  BY DEF TransferComplete
<1>2. SUFFICES ASSUME Steady(spent') PROVE Attentive'
  BY DEF Attentive
<1>3. Spends(spent, spent') /\ applied \subseteq applied'
  BY <1>1, SpendsSame
<1>4. Kind[t] = "firmware" /\ t \in Item /\ queue \in QueueType
  BY <1>1, NoItemIsNoItem DEF IInv, StoreOK, DueOK, TypeOK
<1>5. \A u \in Task : queue'.status[u] = IF u = t THEN st ELSE queue.status[u]
  <2> DEFINE w == World(Fresh)
             r == [queue.status EXCEPT ![t] = st]
  <2>1. w \in WorldType /\ w.queue = queue /\ st \in Statuses
    <3>1. ASSUME NEW q, q = queue PROVE \A e \in Device : SessionOK(Fresh, e, q)
      BY <3>1, <1>4, FreshIsSession
    <3> QED BY <3>1, WorldIsOK, FreshIsSession DEF WorldOK, Statuses
  <2>2. queue'.status = r
    BY <1>1, <1>4, <2>1, UpdateStatusFields, ZenonT(40)
  <2> HIDE DEF w, st
  <2> QED BY <1>4, <2>2, NoItemIsNoItem DEF QueueType
<1>6. Records(queue, db, applied, spent) => Records(queue', db', applied', spent')
  <2>1. Records(queue, db, applied, spent) => Records(queue, db, applied', spent')
    BY <1>3, RecordsStay
  <2>2. ASSUME AllDone(queue, applied'), NEW u \in Task, queue'.status[u] = "done"
        PROVE  DoneBy(u, applied')
    <3>1. CASE u # t
      BY <1>5, <2>2, <3>1 DEF AllDone
    <3>2. CASE u = t
      <4>1. <<t, 1>> \in applied'
        BY <1>1, <1>5, <2>2, <3>2
      <4>2. Steps(t) = 1
        BY <1>4, OperationFacts DEF KindOf
      <4>3. t \notin Diagnostics
        BY <1>4 DEF Diagnostics
      <4> QED BY <3>2, <4>1, <4>2, <4>3 DEF DoneBy
    <3> QED BY <3>1, <3>2
  <2>3. AllDone(queue, applied') => AllDone(queue', applied')
    BY <2>2 DEF AllDone
  <2> QED BY <1>1, <2>1, <2>3 DEF Records
<1>7. \A e \in Device : \A o \in Reach(e) :
          Attends(e, obj[o], conn[e], applied, spent)
              => Attends(e, obj'[o], conn[e], applied', spent')
  BY <1>1, <1>3, AttendsStays
<1> QED BY <1>1, <1>2, <1>3, <1>6, <1>7, BetweenAttentive

LEMMA EnqueueAttentive ==
    ASSUME IInv, Attentive, NEW t \in Task, Enqueue(t)
    PROVE  Attentive'
<1>1. /\ queue' = [queue EXCEPT !.status[t] = "pending", !.fifo[Owner[t]] = Append(@, t)]
      /\ UNCHANGED <<obj, sessions, bySerial, conn, db, applied, spent>>
  BY DEF Enqueue
<1>2. SUFFICES ASSUME Steady(spent') PROVE Attentive'
  BY DEF Attentive
<1>3. \A u \in Task : queue'.status[u] = IF u = t THEN "pending" ELSE queue.status[u]
  BY <1>1, NoItemIsNoItem DEF IInv, TypeOK, QueueType
<1>4. Records(queue, db, applied, spent) => Records(queue', db', applied', spent')
  BY <1>1, <1>3 DEF Records, AllDone
<1> QED BY <1>1, <1>2, <1>4, SpendsSame, BetweenAttentive

\* The summon a client asks for may catch a session at any point.
LEMMA TriggerFullSummonAttentive ==
    ASSUME IInv, Attentive, NEW d \in Device, TriggerFullSummon(d)
    PROVE  Attentive'
<1>1. /\ spent' = [spent EXCEPT !.triggers = @ + 1]
      /\ obj' = [o \in Obj |-> IF o = bySerial[d] /\ obj[o].state # "done"
                               THEN [obj[o] EXCEPT !.phase = 1] ELSE obj[o]]
      /\ UNCHANGED <<sessions, bySerial, conn, queue, db, applied>>
  BY DEF TriggerFullSummon
<1>2. SUFFICES ASSUME Steady(spent') PROVE Attentive'
  BY DEF Attentive
<1>3. Spends(spent, spent') /\ spent'.triggers # 0
  BY <1>1, SpendsMore DEF IInv
<1>4. TypeOK /\ Routed
  BY DEF IInv
<1>5. ASSUME NEW e \in Device, NEW o \in Reach(e), Attends(e, obj[o], conn[e], applied, spent)
      PROVE  Attends(e, obj'[o], conn[e], applied', spent')
  <2>1. o \in Obj /\ obj[o] \in SessionType
    BY <1>4, ReachFacts DEF TypeOK
  <2>2. Attends(e, obj[o], conn[e], applied, spent')
    BY <1>3, <1>5, AttendsStays
  <2> DEFINE s == obj[o]
             t == [s EXCEPT !.phase = 1]
  <2>3. /\ Resumed(s, t) /\ t.phase = 1
    BY <2>1 DEF SessionType, Resumed, Same
  <2>4. obj'[o] \in {s, t}
    BY <1>1, <2>1
  <2> HIDE DEF s, t
  <2>5. Attends(e, s, conn[e], applied, spent') => Attends(e, t, conn[e], applied, spent')
    <3> SUFFICES ASSUME Attends(e, s, conn[e], applied, spent')
                 PROVE  Attends(e, t, conn[e], applied, spent')
      OBVIOUS
    <3>1. InTouch(t, conn[e]) /\ PhaseOut(t, conn[e])
      BY <2>3 DEF Attends, InTouch, PhaseOut, Resumed, Same
    <3>2. ~Honest(spent')
      BY <1>3 DEF Honest
    <3>3. Calm(spent') => /\ CredsOK(t, conn[e], applied) /\ MarkOK(e, t, conn[e], applied)
                          /\ conn[e].item \notin Item => CurFree(t)
      BY <2>3 DEF Attends, Resumed, Same, CredsOK, MarkOK, DefaultsNext, CurFree
    <3> QED BY <1>3, <3>1, <3>2, <3>3 DEF Attends
  <2> QED BY <1>1, <2>2, <2>4, <2>5 DEF s
<1>6. Records(queue, db, applied, spent) => Records(queue', db', applied', spent')
  BY <1>1, <1>3, RecordsStay
<1> QED BY <1>1, <1>2, <1>3, <1>5, <1>6, BetweenAttentive

\* Nothing the invariant speaks of changes.
LEMMA StillAttentive ==
    ASSUME Attentive, UNCHANGED <<obj, sessions, bySerial, conn, queue, db, applied, spent>>
    PROVE  Attentive'
<1>1. SUFFICES ASSUME Steady(spent') PROVE Attentive'
  BY DEF Attentive
<1> QED BY <1>1, SpendsSame, BetweenAttentive

\* A lost connection: with no task of several RPCs, the session waits for nothing.
LEMMA DropAttentive ==
    ASSUME IInv, Attentive, NEW d \in Device, NEW accepted \in BOOLEAN, Drop(d, accepted)
    PROVE  Attentive'
<1> DEFINE m == conn[d]
<1>1. /\ spent' = [spent EXCEPT !.drops = @ + 1] /\ conn' = [conn EXCEPT ![d] = Close]
      /\ applied' = IF accepted /\ m.op # "Download"
                    THEN applied \cup {<<m.item, m.step>>} ELSE applied
      /\ obj' = [o \in Obj |-> IF o \in Range(sessions) \cup Range(bySerial)
                                    \/ \E e \in Device \ {d} : conn[e].via = o
                               THEN obj[o] ELSE Fresh]
      /\ UNCHANGED <<sessions, bySerial, queue, db>>
  BY DEF Drop
<1>2. TypeOK /\ Routed
  BY DEF IInv
<1>3. Spends(spent, spent') /\ spent'.drops # 0
  BY <1>1, <1>2, SpendsMore
<1>4. SUFFICES ASSUME Steady(spent') PROVE Attentive'
  BY DEF Attentive
<1>5. Steady(spent) /\ Multi = {}
  BY <1>3, <1>4, SpendsLess DEF Steady
<1>6. /\ conn'[d] = Close /\ \A e \in Device : e # d => conn'[e] = conn[e]
      /\ Close.via = NoObj /\ Close.item = NoItem /\ NoItem \notin Item /\ NoItem # Summon
  BY <1>1, <1>2, ItemsApart, NoItemIsNoItem DEF TypeOK, Close, Msg
<1>7. applied \subseteq applied'
  BY <1>1
<1>8. ASSUME NEW e \in Device, NEW o \in Reach(e)'
      PROVE  o \in Reach(e) /\ o \in Obj /\ obj'[o] = obj[o]
  <2>1. o \in Reach(e)
    BY <1>1, <1>6, <1>8 DEF Reach
  <2>2. o \in Obj
    BY <1>2, <2>1, ReachFacts
  <2>3. sessions[SidOf[e]] \in Range(sessions) /\ bySerial[e] \in Range(bySerial)
    BY <1>2, DeviceAssumption DEF TypeOK, Range
  <2>4. \/ o \in {sessions[SidOf[e]], bySerial[e]}
        \/ e # d /\ conn[e].via = o
    BY <1>1, <1>6, <1>8 DEF Reach
  <2> QED BY <1>1, <2>1, <2>2, <2>3, <2>4
<1>9. \A e \in Device : Fits(conn'[e]) /\ Behind(conn'[e], applied')
  <2>1. Fits(Close) /\ Behind(Close, applied')
    BY <1>6 DEF Fits, Behind
  <2> QED BY <1>5, <1>6, <1>7, <2>1, MoreDone DEF Attentive
<1>10. ASSUME NEW e \in Device, NEW o \in Reach(e)'
       PROVE  Attends(e, obj'[o], conn'[e], applied', spent')
  <2>1. Attends(e, obj[o], conn[e], applied', spent')
    BY <1>3, <1>5, <1>7, <1>8, <1>10, AttendsStays DEF Attentive
  <2>2. CASE e # d
    BY <1>6, <1>8, <1>10, <2>1, <2>2
  <2>3. CASE e = d
    <3>1. obj[o] \in SessionType /\ obj'[o] = obj[o]
      BY <1>2, <1>8, <1>10 DEF TypeOK
    <3> DEFINE s == obj[o]
    <3>2. InTouch(s, conn[e]) /\ (Honest(spent') => CollectsReady(s, applied'))
      BY <2>1 DEF Attends
    <3>3. s.wp \in Task \cup {NoItem} /\ s.follow \in Task \cup {NoItem}
      BY <3>1 DEF SessionType
    <3> HIDE DEF s
    <3>4. s.wp = NoItem /\ s.follow = NoItem
      <4>1. s.wp # NoItem => s.wp \in Task /\ Kind[s.wp] = "wan"
        BY <3>2, <3>3 DEF InTouch, KindOf
      <4>2. s.follow # NoItem => s.follow \in Task /\ Kind[s.follow] = "pfadd"
        BY <3>2, <3>3 DEF InTouch, KindOf
      <4> QED BY <1>5, <4>1, <4>2 DEF Multi
    <3>5. InTouch(s, Close) /\ PhaseIn(s, Close)
      BY <1>6, <3>4 DEF InTouch, PhaseIn, Summons
    <3>6. (Quiet(d, spent') => d \in Rotates) /\ ~Calm(spent')
      BY <1>3 DEF Quiet, Calm
    <3>7. Attends(d, s, Close, applied', spent')
      BY <3>2, <3>5, <3>6 DEF Attends
    <3> QED BY <1>6, <2>3, <3>1, <3>7 DEF s
  <2> QED BY <2>2, <2>3
<1>11. Records(queue', db', applied', spent')
  BY <1>1, <1>3, <1>5, <1>7, RecordsStay DEF Attentive
<1> QED BY <1>9, <1>10, <1>11 DEF Attentive

\* No session survives a restart; the CPEs still hold their RPCs.
LEMMA RestartAttentive ==
    ASSUME IInv, Attentive, Restart
    PROVE  Attentive'
<1>1. /\ spent' = [spent EXCEPT !.restarts = @ + 1]
      /\ sessions' = [s \in Sid |-> NoObj] /\ bySerial' = [d \in Device |-> NoObj]
      /\ conn' = [d \in Device |-> [conn[d] EXCEPT !.via = NoObj]]
      /\ UNCHANGED <<queue, db, applied>>
  BY DEF Restart
<1>2. Spends(spent, spent')
  BY <1>1, SpendsMore DEF IInv
<1>3. SUFFICES ASSUME Steady(spent') PROVE Attentive'
  BY DEF Attentive
<1>4. Steady(spent)
  BY <1>2, <1>3, SpendsLess
<1>5. ASSUME NEW d \in Device
      PROVE  conn'[d].via = NoObj /\ SameReply(conn[d], conn'[d])
  <2> DEFINE m == conn[d]
             n == [m EXCEPT !.via = NoObj]
  <2>1. m \in ReplyType /\ conn'[d] = n /\ ReplyOK(m, d, queue)
    BY <1>1 DEF IInv, TypeOK, StoreOK
  <2> HIDE DEF m
  <2>2. n.via = NoObj /\ n.op = m.op /\ n.item = m.item /\ n.step = m.step
    BY <2>1 DEF ReplyType
  <2>3. m = Close => n = Close
    BY DEF Close, Msg
  <2>4. n = Close => m = Close
    BY <2>1, <2>2 DEF ReplyOK, Close, Msg
  <2> HIDE DEF n
  <2> QED BY <2>1, <2>2, <2>3, <2>4 DEF SameReply, m
<1>6. \A d \in Device : Reach(d)' = {}
  BY <1>1, <1>5, DeviceAssumption DEF Reach
<1>7. \A d \in Device : Fits(conn'[d]) /\ Behind(conn'[d], applied')
  BY <1>1, <1>4, <1>5, SameReplyAttends DEF Attentive
<1>8. Records(queue', db', applied', spent')
  BY <1>1, <1>2, <1>4, RecordsStay DEF Attentive
<1> QED BY <1>6, <1>7, <1>8 DEF Attentive

LEMMA InitAttentive == Init => Attentive
<1> SUFFICES ASSUME Init PROVE Attentive
  OBVIOUS
<1>1. /\ sessions = [s \in Sid |-> NoObj] /\ bySerial = [d \in Device |-> NoObj]
      /\ conn = [d \in Device |-> Close]
      /\ queue.status = [i \in Item |-> "absent"]
      /\ db = [provisioned |-> {}, creds |-> {}]
  BY DEF Init
<1>2. Close.via = NoObj /\ Close.item = NoItem /\ NoItem \notin Item /\ NoItem # Summon
  BY ItemsApart, NoItemIsNoItem DEF Close, Msg
<1>3. \A d \in Device : Reach(d) = {}
  BY <1>1, <1>2, DeviceAssumption DEF Reach
<1>4. \A d \in Device : Fits(conn[d]) /\ Behind(conn[d], applied)
  BY <1>1, <1>2 DEF Fits, Behind
<1>5. Records(queue, db, applied, spent)
  <2>1. AllDone(queue, applied)
    BY <1>1, NoItemIsNoItem DEF AllDone
  <2> QED BY <1>1, <2>1 DEF Records, CredsDone, ProvDone
<1> QED BY <1>3, <1>4, <1>5 DEF Attentive

LEMMA StepAttentive ==
    ASSUME OwnIds, IInv, Attentive, [Next]_vars
    PROVE  Attentive'
<1>1. CASE UNCHANGED vars
  BY <1>1, StillAttentive DEF vars
<1>2. ASSUME NEW d \in Device, Cpe(d) PROVE Attentive'
  BY <1>2, InformAttentive, InformFullSummonAttentive, EmptyPostAttentive, AnswerAttentive
     DEF Cpe
<1>3. ASSUME NEW d \in Device, Fault(d) PROVE Attentive'
  BY <1>3, FaultAttentive
<1>4. ASSUME NEW d \in Device, NEW accepted \in BOOLEAN, Drop(d, accepted) PROVE Attentive'
  BY <1>4, DropAttentive
<1>5. ASSUME NEW d \in Device, NEW event \in Events, InformRejected(d, event)
      PROVE  Attentive'
  BY <1>5, InformRejectedAttentive
<1>6. ASSUME NEW d \in Device, NEW t \in Task, NEW ok \in BOOLEAN, TransferComplete(d, t, ok)
      PROVE  Attentive'
  BY <1>6, TransferCompleteAttentive
<1>7. ASSUME NEW d \in Device, TriggerFullSummon(d) PROVE Attentive'
  BY <1>7, TriggerFullSummonAttentive
<1>8. ASSUME NEW d \in Device, ThrottleExpires(d) PROVE Attentive'
  BY <1>8, StillAttentive DEF ThrottleExpires
<1>9. ASSUME NEW t \in Task, Enqueue(t) PROVE Attentive'
  BY <1>9, EnqueueAttentive
<1>10. CASE Restart
  BY <1>10, RestartAttentive
<1> QED BY <1>1, <1>2, <1>3, <1>4, <1>5, <1>6, <1>7, <1>8, <1>9, <1>10 DEF Next

\* What CPEs and sessions know of each other: with no task of several RPCs, or no
\* connection lost, a session has in hand what its CPE works on, and the stores
\* say done only what a CPE has accepted (session.go).
THEOREM AttentiveHolds ==
    ASSUME OwnIds
    PROVE  Spec => []Attentive
<1>1. IInv /\ Attentive /\ [Next]_vars => Attentive'
  BY StepAttentive
<1> QED BY <1>1, Invariant, InitAttentive, PTL DEF Spec

\* Every session object is as good as new or its device's own.
LEMMA AllAttend ==
    ASSUME IInv, Attentive, Steady(spent), NEW o \in Obj
    PROVE  obj[o] = Fresh \/ \E d \in Device : Attends(d, obj[o], conn[d], applied, spent)
<1>1. TypeOK /\ Routed
  BY DEF IInv
<1>2. CASE o \notin Reached
  BY <1>1, <1>2 DEF Routed, UnreachedAreFresh
<1>3. CASE o \in Reached
  BY <1>1, <1>3, ReachFacts DEF Attentive
<1> QED BY <1>2, <1>3

\* As long as no connection is lost, and for tasks of one RPC whatever is lost, a
\* session in the middle of a WAN provisioning or of a port mapping has that task
\* as its current one: faults, summons, adoptions, firmware updates and restarts
\* never leave a session with the remains of another task (session.go, ServeHTTP,
\* dispatchNextOrClose, adoptInFlightBySerial).
THEOREM MultiStepOwnsTheSessionHolds ==
    ASSUME OwnIds
    PROVE  Spec => [](Steady(spent) => MultiStepOwnsTheSession)
<1>1. IInv /\ Attentive => (Steady(spent) => MultiStepOwnsTheSession)
  <2> SUFFICES ASSUME IInv, Attentive, Steady(spent), NEW o \in Obj
               PROVE  /\ obj[o].wp # NoItem => obj[o].cur = obj[o].wp
                      /\ obj[o].follow # NoItem => obj[o].cur = obj[o].follow
    BY DEF MultiStepOwnsTheSession
  <2>1. CASE obj[o] = Fresh
    BY <2>1, FreshIsBlank DEF Blank
  <2>2. ASSUME NEW d \in Device, Attends(d, obj[o], conn[d], applied, spent)
        PROVE  /\ obj[o].wp # NoItem => obj[o].cur = obj[o].wp
               /\ obj[o].follow # NoItem => obj[o].cur = obj[o].follow
    <3>1. obj[o].wp \in Task \cup {NoItem} /\ obj[o].follow \in Task \cup {NoItem}
      BY DEF IInv, TypeOK, SessionType
    <3> QED BY <2>2, <3>1, NoItemIsNoItem DEF Attends, InTouch
  <2> QED BY <2>1, <2>2, AllAttend
<1> QED BY <1>1, Invariant, AttentiveHolds, PTL

\* The answer to a task's RPC meets the session that has the task as its current
\* one and that waits for no summon's values, as long as no CPE answers with a
\* fault and only CPEs that come back under a new id lose connections
\* (session.go, TakeByRPCID, handleGetParamValuesResponse).
THEOREM AnswerReachesItsTaskHolds ==
    ASSUME OwnIds
    PROVE  Spec => [](Steady(spent) /\ (\A d \in Device : Quiet(d, spent)) => AnswerReachesItsTask)
<1> DEFINE Calls == Steady(spent) /\ (\A d \in Device : Quiet(d, spent))
<1>1. IInv /\ Attentive => (Calls => AnswerReachesItsTask)
  <2> SUFFICES ASSUME IInv, Attentive, Calls, NEW d \in Device,
                      conn[d].item \in Item, conn[d].via # NoObj
               PROVE  /\ obj[conn[d].via].cur = conn[d].item
                      /\ conn[d].op = "GetParameterValues" => obj[conn[d].via].phase \notin {2, 4}
    BY DEF AnswerReachesItsTask
  <2>1. conn[d].via \in Reach(d)
    BY DEF Reach
  <2>2. Attends(d, obj[conn[d].via], conn[d], applied, spent)
    BY <2>1 DEF Attentive
  <2>3. conn[d].item # Summon /\ conn[d] # Close
    BY NoItemIsNoItem, ItemsApart
  <2> QED BY <2>2, <2>3 DEF Attends, InTouch, PhaseOut, Summons
<1> QED BY <1>1, Invariant, AttentiveHolds, PTL

\* A task is done in Redis only when the CPE has accepted every RPC it is made of,
\* and a diagnostic only when its result has been read: whatever faults, restarts
\* and rejected Informs there are, as long as no full summon is asked for, no two
\* diagnostics of one device are created, and no connection is lost in the middle
\* of a task of several RPCs (session.go, completeTask, handleTransferComplete).
THEOREM DoneWasExecutedHolds ==
    ASSUME OwnIds
    PROVE  Spec => [](Steady(spent) /\ Honest(spent) => DoneWasExecuted)
<1>1. Attentive => (Steady(spent) /\ Honest(spent) => DoneWasExecuted)
  BY DEF Attentive, Records, AllDone, DoneBy, DoneWasExecuted, Done
<1> QED BY <1>1, AttentiveHolds, PTL

\* Until the first fault or lost connection the PPPoE credentials of a task are
\* stored only once the CPE has accepted all of it (session.go, the comment of
\* Session.pendingWANCredentials, storeWANCredentials).
THEOREM CredentialsUntilAFaultHolds ==
    ASSUME OwnIds
    PROVE  Spec => [](spent.drops = 0 => CredentialsUntilAFault)
<1>1. Attentive => (spent.drops = 0 => CredentialsUntilAFault)
  BY DEF Attentive, Steady, Records, Calm, CredsDone, DoneBy, CredentialsUntilAFault, Done
<1> QED BY <1>1, AttentiveHolds, PTL

\* Until the first fault or lost connection a device is marked as provisioned only
\* once it has, or has accepted, the global defaults (session.go,
\* injectGlobalDefaultParams and its comment, handleSetParamValuesResponse).
THEOREM ProvisionedOnlyAfterAckHolds ==
    ASSUME OwnIds
    PROVE  Spec => [](spent.drops = 0 => ProvisionedOnlyAfterAck)
<1>1. IInv /\ Attentive => (spent.drops = 0 => ProvisionedOnlyAfterAck)
  <2> SUFFICES ASSUME IInv, Attentive, spent.drops = 0, spent.faults = 0,
                      NEW d \in db.provisioned
               PROVE  Done(Defaults(d))
    BY DEF ProvisionedOnlyAfterAck
  <2>1. d \in Device
    BY DEF IInv, TypeOK, DbType
  <2>2. DefaultsAccepted(d, applied)
    BY <2>1 DEF Attentive, Steady, Records, Calm, ProvDone
  <2>3. /\ Defaults(d) \in Item /\ Defaults(d) \notin Task /\ ~IsCollect(Defaults(d))
    BY <2>1, OwnItems, ItemsApart
  <2>4. Steps(Defaults(d)) = 1 /\ Defaults(d) \notin Diagnostics
    BY <2>3, OperationFacts DEF KindOf, Diagnostics
  <2> QED BY <2>2, <2>4 DEF Done, DefaultsAccepted
<1> QED BY <1>1, Invariant, AttentiveHolds, PTL
=============================================================================
