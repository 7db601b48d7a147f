----------------------------- MODULE DataLemmas ------------------------------
(***************************************************************************)
(* What the operations of WaitList and BitMap do, as the proofs about the  *)
(* components need it.                                                     *)
(***************************************************************************)
EXTENDS WaitList, BitMap, TLAPS, FiniteSetTheorems

\* Zenon has a minute for a leaf; a leaf with arithmetic, functions or sequences asks
\* for the SMT solver.
USE ZenonT(60)

-----------------------------------------------------------------------------
(* Wait lists. *)

\* List::Append adds its argument to the range of the list and, when the
\* argument is not on it, keeps the list free of duplicates.
LEMMA AppendList ==
    ASSUME NEW T, NEW q \in Seq(T), NEW t \in T
    PROVE  /\ Append(q, t) \in Seq(T)
           /\ Append(q, t) # <<>>
           /\ Range(Append(q, t)) = Range(q) \cup {t}
           /\ NoDuplicates(q) /\ t \notin Range(q) => NoDuplicates(Append(q, t))
  <1>2. /\ Append(q, t) \in Seq(T)
        /\ Len(Append(q, t)) = Len(q) + 1
        /\ \A i \in 1 .. Len(q) : Append(q, t)[i] = q[i]
        /\ Append(q, t)[Len(q) + 1] = t
        /\ Len(q) \in Nat
    BY SMTT(60)
  <1>1. Append(q, t) # <<>>
    BY SMTT(60), <1>2
  <1>3. Range(Append(q, t)) = Range(q) \cup {t}
    <2>1. DOMAIN q = 1 .. Len(q) /\ DOMAIN Append(q, t) = 1 .. Len(q) + 1
      BY SMTT(60)
    <2>2. \A i \in 1 .. Len(q) + 1 : i \in 1 .. Len(q) \/ i = Len(q) + 1
      BY SMTT(60), <1>2
    <2>3. \A i \in 1 .. Len(q) : i \in 1 .. Len(q) + 1
      BY SMTT(60), <1>2
    <2>4. Len(q) + 1 \in 1 .. Len(q) + 1
      BY SMTT(60), <1>2
    <2> QED
      BY <1>2, <2>1, <2>2, <2>3, <2>4 DEF Range
  <1>4. ASSUME NoDuplicates(q), t \notin Range(q)
        PROVE  NoDuplicates(Append(q, t))
    <2>1. \A i \in 1 .. Len(q) : q[i] # t
      BY SMTT(60), <1>4 DEF Range
    <2> QED
      BY SMTT(60), <1>2, <1>4, <2>1 DEF NoDuplicates
  <1> QED
    BY <1>1, <1>2, <1>3, <1>4

\* List::Remove on a list that is not empty.
LEMMA RemoveHead ==
    ASSUME NEW T, NEW q \in Seq(T), q # <<>>, NoDuplicates(q)
    PROVE  /\ Head(q) \in T
           /\ Head(q) \in Range(q)
           /\ Tail(q) \in Seq(T)
           /\ NoDuplicates(Tail(q))
           /\ Range(Tail(q)) = Range(q) \ {Head(q)}
  <1>1. /\ Len(q) \in Nat \ {0}
        /\ Head(q) = q[1]
        /\ Tail(q) \in Seq(T)
        /\ Len(Tail(q)) = Len(q) - 1
        /\ \A i \in 1 .. Len(q) - 1 : Tail(q)[i] = q[i + 1]
        /\ DOMAIN q = 1 .. Len(q) /\ DOMAIN Tail(q) = 1 .. Len(q) - 1
    BY SMTT(60)
  <1>2. Head(q) \in T /\ Head(q) \in Range(q)
    BY SMTT(60), <1>1 DEF Range
  <1>3. NoDuplicates(Tail(q))
    BY SMTT(60), <1>1 DEF NoDuplicates
  <1>4. Range(Tail(q)) = Range(q) \ {Head(q)}
    <2>1. ASSUME NEW x \in Range(Tail(q))
          PROVE  x \in Range(q) /\ x # Head(q)
      <3>1. PICK i \in 1 .. Len(q) - 1 : x = q[i + 1]
        BY <1>1, <2>1 DEF Range
      <3>2. i + 1 \in 1 .. Len(q) /\ 1 \in 1 .. Len(q) /\ i + 1 # 1
        BY SMTT(60), <1>1, <3>1
      <3> QED
        BY <1>1, <3>1, <3>2 DEF Range, NoDuplicates
    <2>2. ASSUME NEW x \in Range(q), x # Head(q)
          PROVE  x \in Range(Tail(q))
      <3>1. PICK i \in 1 .. Len(q) : x = q[i]
        BY <1>1, <2>2 DEF Range
      <3>2. i # 1
        BY <1>1, <2>2, <3>1
      <3>3. i - 1 \in 1 .. Len(q) - 1 /\ (i - 1) + 1 = i
        BY SMTT(60), <1>1, <3>1, <3>2
      <3>4. Tail(q)[i - 1] = x
        BY <1>1, <3>1, <3>3
      <3> QED
        BY <1>1, <3>3, <3>4 DEF Range
    <2> QED
      BY <2>1, <2>2
  <1> QED
    BY <1>1, <1>2, <1>3, <1>4

\* ReadyToRun of every thread of q, in order, with p the ready list.
LEMMA ConcatList ==
    ASSUME NEW T, NEW p \in Seq(T), NEW q \in Seq(T)
    PROVE  /\ p \o q \in Seq(T)
           /\ Range(p \o q) = Range(p) \cup Range(q)
           /\ NoDuplicates(p) /\ NoDuplicates(q) /\ Range(p) \cap Range(q) = {}
                => NoDuplicates(p \o q)
  <1>1. /\ p \o q \in Seq(T)
        /\ Len(p) \in Nat /\ Len(q) \in Nat
        /\ Len(p \o q) = Len(p) + Len(q)
        /\ \A i \in 1 .. Len(p) : (p \o q)[i] = p[i]
        /\ \A i \in 1 .. Len(q) : (p \o q)[Len(p) + i] = q[i]
        /\ DOMAIN p = 1 .. Len(p) /\ DOMAIN q = 1 .. Len(q)
        /\ DOMAIN (p \o q) = 1 .. Len(p) + Len(q)
    BY SMTT(60)
  <1>2. \A i \in 1 .. Len(p) + Len(q) :
            \/ i \in 1 .. Len(p)
            \/ i - Len(p) \in 1 .. Len(q) /\ i = Len(p) + (i - Len(p))
    BY SMTT(60), <1>1
  <1>3. /\ \A i \in 1 .. Len(p) : i \in 1 .. Len(p) + Len(q)
        /\ \A i \in 1 .. Len(q) : Len(p) + i \in 1 .. Len(p) + Len(q)
    BY SMTT(60), <1>1
  <1>4. \A i \in 1 .. Len(p) + Len(q) :
            \/ i \in 1 .. Len(p) /\ (p \o q)[i] = p[i]
            \/ i - Len(p) \in 1 .. Len(q) /\ (p \o q)[i] = q[i - Len(p)]
    BY <1>1, <1>2
  <1>5. Range(p \o q) = Range(p) \cup Range(q)
    <2>1. ASSUME NEW x \in Range(p \o q)
          PROVE  x \in Range(p) \/ x \in Range(q)
      <3>1. PICK i \in 1 .. Len(p) + Len(q) : x = (p \o q)[i]
        BY <1>1, <2>1 DEF Range
      <3> QED
        BY <1>1, <1>4, <3>1 DEF Range
    <2>2. ASSUME NEW x \in Range(p) PROVE x \in Range(p \o q)
      BY <1>1, <1>3, <2>2 DEF Range
    <2>3. ASSUME NEW x \in Range(q) PROVE x \in Range(p \o q)
      <3>1. PICK i \in 1 .. Len(q) : x = q[i]
        BY <1>1, <2>3 DEF Range
      <3>2. (p \o q)[Len(p) + i] = x /\ Len(p) + i \in DOMAIN (p \o q)
        BY <1>1, <1>3, <3>1
      <3> QED
        BY <3>2 DEF Range
    <2> QED
      BY <2>1, <2>2, <2>3
  <1>6. ASSUME NoDuplicates(p), NoDuplicates(q), Range(p) \cap Range(q) = {}
        PROVE  NoDuplicates(p \o q)
    <2>1. \A i \in 1 .. Len(p), j \in 1 .. Len(q) : p[i] # q[j]
      BY <1>1, <1>6 DEF Range
    <2>2. ASSUME NEW i \in 1 .. Len(p) + Len(q), NEW j \in 1 .. Len(p) + Len(q),
                 (p \o q)[i] = (p \o q)[j]
          PROVE  i = j
      <3>1. CASE i \in 1 .. Len(p) /\ (p \o q)[i] = p[i]
        <4>1. CASE j \in 1 .. Len(p) /\ (p \o q)[j] = p[j]
          BY <1>6, <2>2, <3>1, <4>1 DEF NoDuplicates
        <4>2. CASE j - Len(p) \in 1 .. Len(q) /\ (p \o q)[j] = q[j - Len(p)]
          BY <2>1, <2>2, <3>1, <4>2
        <4> QED
          BY <1>4, <4>1, <4>2
      <3>2. CASE i - Len(p) \in 1 .. Len(q) /\ (p \o q)[i] = q[i - Len(p)]
        <4>1. CASE j \in 1 .. Len(p) /\ (p \o q)[j] = p[j]
          BY <2>1, <2>2, <3>2, <4>1
        <4>2. CASE j - Len(p) \in 1 .. Len(q) /\ (p \o q)[j] = q[j - Len(p)]
          <5>1. i - Len(p) = j - Len(p)
            BY <1>6, <2>2, <3>2, <4>2 DEF NoDuplicates
          <5> QED
            BY SMTT(60), <1>1, <5>1
        <4> QED
          BY <1>4, <4>1, <4>2
      <3> QED
        BY <1>4, <3>1, <3>2
    <2> QED
      BY <1>1, <2>2 DEF NoDuplicates
  <1> QED
    BY <1>1, <1>5, <1>6

\* A list is empty exactly when nobody is on it.
LEMMA EmptyList ==
    ASSUME NEW T, NEW q \in Seq(T)
    PROVE  q = <<>> <=> Range(q) = {}
  <1>1. Len(q) \in Nat /\ DOMAIN q = 1 .. Len(q)
    BY SMTT(60)
  <1>2. ASSUME q # <<>> PROVE Range(q) # {}
    <2>1. 1 \in DOMAIN q
      BY SMTT(60), <1>1, <1>2
    <2> QED
      BY <2>1 DEF Range
  <1>3. ASSUME q = <<>> PROVE Range(q) = {}
    BY SMTT(60), <1>3 DEF Range
  <1> QED
    BY <1>2, <1>3

\* Matching the units 1 .. n of a semaphore with woken threads: a larger set of
\* threads still serves, one more thread serves one more unit, and one unit
\* less can do without any one thread.
LEMMA MatchLarger ==
    ASSUME NEW n \in Int, NEW S, NEW T, S \subseteq T, ExistsInjection(1 .. n, S)
    PROVE  ExistsInjection(1 .. n, T)
  <1>1. PICK f \in Injection(1 .. n, S) : TRUE
    BY DEF ExistsInjection
  <1>2. f \in [1 .. n -> T] /\ IsInjective(f)
    BY <1>1 DEF Injection
  <1> QED
    BY <1>2 DEF ExistsInjection, Injection

\* A value of 0 needs nobody.
LEMMA MatchNone ==
    ASSUME NEW n \in Int, n <= 0, NEW T
    PROVE  ExistsInjection(1 .. n, T)
  <1> DEFINE f == [i \in 1 .. n |-> i]
  <1>1. f \in [1 .. n -> T] /\ IsInjective(f)
    BY SMTT(60) DEF IsInjective
  <1> QED
    BY <1>1 DEF ExistsInjection, Injection

\* One unit more is matched by one woken thread more.
LEMMA MatchOneMore ==
    ASSUME NEW n \in Int, NEW S, NEW t, t \notin S, ExistsInjection(1 .. n, S)
    PROVE  ExistsInjection(1 .. (n + 1), S \cup {t})
  <1>1. PICK f \in Injection(1 .. n, S) : TRUE
    BY DEF ExistsInjection
  <1>2. f \in [1 .. n -> S] /\ \A i, j \in 1 .. n : f[i] = f[j] => i = j
    BY <1>1 DEF Injection, IsInjective
  <1> DEFINE g == [i \in 1 .. (n + 1) |-> IF i = n + 1 THEN t ELSE f[i]]
  <1>3. \A i \in 1 .. (n + 1) : i # n + 1 => i \in 1 .. n
    BY SMTT(60)
  <1>4. g \in [1 .. (n + 1) -> S \cup {t}]
    BY <1>2, <1>3
  <1>5. ASSUME NEW i \in 1 .. (n + 1), NEW j \in 1 .. (n + 1), g[i] = g[j]
        PROVE  i = j
    <2>1. i # n + 1 => g[i] = f[i] /\ f[i] \in S
      BY <1>2, <1>3
    <2>2. j # n + 1 => g[j] = f[j] /\ f[j] \in S
      BY <1>2, <1>3
    <2> QED
      BY <1>2, <1>3, <1>5, <2>1, <2>2
  <1>6. IsInjective(g)
    BY <1>4, <1>5 DEF IsInjective
  <1> QED
    BY <1>4, <1>6 DEF ExistsInjection, Injection

\* A thread that takes its unit leaves the others matched.
LEMMA MatchOneLess ==
    ASSUME NEW n \in Int, NEW S, NEW t, ExistsInjection(1 .. n, S)
    PROVE  ExistsInjection(1 .. (n - 1), S \ {t})
  <1>1. PICK f \in Injection(1 .. n, S) : TRUE
    BY DEF ExistsInjection
  <1>2. f \in [1 .. n -> S] /\ \A i, j \in 1 .. n : f[i] = f[j] => i = j
    BY <1>1 DEF Injection, IsInjective
  <1> DEFINE g == [i \in 1 .. (n - 1) |-> IF f[i] = t THEN f[n] ELSE f[i]]
  <1>3. \A i \in 1 .. (n - 1) : i \in 1 .. n /\ n \in 1 .. n /\ i # n
    BY SMTT(60)
  <1>4. ASSUME NEW i \in 1 .. (n - 1) PROVE g[i] \in S \ {t}
    <2>1. f[i] \in S /\ f[n] \in S /\ f[i] # f[n]
      BY <1>2, <1>3
    <2> QED
      BY <2>1
  <1>5. g \in [1 .. (n - 1) -> S \ {t}]
    BY <1>4
  <1>6. ASSUME NEW i \in 1 .. (n - 1), NEW j \in 1 .. (n - 1), g[i] = g[j]
        PROVE  i = j
    <2>1. f[i] # f[n] /\ f[j] # f[n] /\ (f[i] = f[j] => i = j)
      BY <1>2, <1>3
    <2> QED
      BY <1>6, <2>1
  <1>7. IsInjective(g)
    BY <1>5, <1>6 DEF IsInjective
  <1> QED
    BY <1>5, <1>7 DEF ExistsInjection, Injection

-----------------------------------------------------------------------------
(* Bitmaps. *)

\* A set of bits that is not empty has a first one.
LEMMA FirstBit ==
    ASSUME NEW S, S \subseteq Nat, S # {}
    PROVE  Min(S) \in S /\ \A y \in S : Min(S) <= y
  <1> DEFINE less == {ss \in Nat \X Nat : ss[1] < ss[2]}
  <1>1. IsWellFoundedOn(less, Nat)
    BY NatLessThanWellFounded DEF OpToRel
  <1>2. PICK x \in S : \A y \in S : ~ (<<y, x>> \in less)
    BY <1>1, WFMin
  <1>3. ASSUME NEW y \in S PROVE x <= y
    <2>1. <<y, x>> \in Nat \X Nat /\ <<y, x>>[1] = y /\ <<y, x>>[2] = x
      OBVIOUS
    <2>2. ~ (y < x)
      BY <1>2, <2>1
    <2> QED
      BY SMTT(60), <2>2
  <1> QED
    BY <1>3 DEF Min

\* BitMap::Find returns a clear bit, or -1.
LEMMA FindClear ==
    ASSUME NEW n \in Nat, NEW map
    PROVE  Find(map, n) = -1 \/ Find(map, n) \in Bits(n) \ map
  <1>1. CASE Bits(n) \subseteq map
    BY <1>1 DEF Find
  <1>2. CASE ~ (Bits(n) \subseteq map)
    <2>1. Bits(n) \ map \subseteq Nat /\ Bits(n) \ map # {}
      BY SMTT(60), <1>2 DEF Bits
    <2> QED
      BY <1>2, <2>1, FirstBit DEF Find
  <1> QED
    BY <1>1, <1>2

\* So does BitMap::FindStart, wherever it starts.
LEMMA FindStartClear ==
    ASSUME NEW n \in Nat \ {0}, NEW map, NEW start \in Nat
    PROVE  FindStart(map, n, start) = -1 \/ FindStart(map, n, start) \in Bits(n) \ map
  <1> DEFINE clear == {i \in Bits(n) : (start + i) % n \notin map}
  <1>1. CASE clear = {}
    BY <1>1 DEF FindStart
  <1>2. CASE clear # {}
    <2>1. clear \subseteq Nat
      BY SMTT(60) DEF Bits
    <2>2. Min(clear) \in clear
      BY <1>2, <2>1, FirstBit
    <2>3. \A k \in Nat : k % n \in 0 .. n - 1
      BY SMTT(60)
    <2>4. (start + Min(clear)) % n \in Bits(n)
      <3> HIDE DEF clear
      <3>1. Min(clear) \in Nat
        BY <2>1, <2>2
      <3> QED
        BY SMTT(60), <2>3, <3>1 DEF Bits
    <2>5. FindStart(map, n, start) = (start + Min(clear)) % n
      BY <1>2 DEF FindStart
    <2> QED
      BY <2>2, <2>4, <2>5
  <1> QED
    BY <1>1, <1>2

\* BitMap::FindStart finds a bit unless all are marked: it looks at each of them.
LEMMA FindStartFull ==
    ASSUME NEW n \in Nat \ {0}, NEW map, NEW start \in 0 .. n,
           FindStart(map, n, start) = -1
    PROVE  Bits(n) \subseteq map
  <1> DEFINE clear == {i \in Bits(n) : (start + i) % n \notin map}
  <1>1. clear = {}
    <2> SUFFICES ASSUME clear # {} PROVE FALSE
      OBVIOUS
    <2>1. clear \subseteq Nat
      BY SMTT(60) DEF Bits
    <2>2. Min(clear) \in clear
      BY <2>1, FirstBit
    <2>3. FindStart(map, n, start) = (start + Min(clear)) % n
      BY DEF FindStart
    <2>4. Min(clear) \in Nat
      BY <2>1, <2>2
    <2> HIDE DEF clear
    <2>5. (start + Min(clear)) % n \in 0 .. n - 1
      BY SMTT(60), <2>4
    <2> QED
      BY SMTT(60), <2>3, <2>5
  <1>2. ASSUME NEW j \in Bits(n) PROVE j \in map
    <2>1. PICK i \in Bits(n) : (start + i) % n = j
      <3>1. CASE j >= start
        <4>1. j - start \in Bits(n) /\ start + (j - start) = j /\ j % n = j
          BY SMTT(60), <3>1 DEF Bits
        <4> QED
          BY <4>1
      <3>2. CASE j < start
        <4>1. (j + n) - start \in Bits(n) /\ start + ((j + n) - start) = j + n
          BY SMTT(60), <3>2 DEF Bits
        <4>2. (j + n) % n = j
          BY SMTT(60) DEF Bits
        <4> QED
          BY <4>1, <4>2
      <3> QED
        BY SMTT(60), <3>1, <3>2 DEF Bits
    <2> QED
      BY <1>1, <2>1
  <1> QED
    BY <1>2

-----------------------------------------------------------------------------
(* n Finds in turn. *)

\* The bits that n calls of Find take from the clear bits S, if there are so many.
Below(S, f) == {g \in S : g < f}
FirstBits(S, n) == {f \in S : Cardinality(Below(S, f)) < n}

\* The bits below a bit.
LEMMA BelowFinite ==
    ASSUME NEW S, IsFiniteSet(S), NEW f
    PROVE  Below(S, f) \subseteq S /\ IsFiniteSet(Below(S, f)) /\ Cardinality(Below(S, f)) \in Nat
  <1>1. Below(S, f) \in SUBSET S
    BY DEF Below
  <1> QED
    BY <1>1, FS_Subset, FS_CardinalityType

\* One more Find takes one more bit.
LEMMA OneMoreBit ==
    ASSUME NEW S, S \subseteq Nat, IsFiniteSet(S), NEW n \in Nat, n < Cardinality(S),
           Cardinality(FirstBits(S, n)) = n
    PROVE  Cardinality(FirstBits(S, n + 1)) = n + 1
  <1> DEFINE A == FirstBits(S, n)
  <1>1. A \in SUBSET S /\ \A h \in S : h \in A <=> Cardinality(Below(S, h)) < n
    BY DEF FirstBits
  <1>2. Cardinality(A) = n
    OBVIOUS
  <1> HIDE DEF A
  <1>3. IsFiniteSet(A)
    BY <1>1, FS_Subset
  <1>4. S \ A # {}
    <2> SUFFICES ASSUME S \ A = {} PROVE FALSE
      OBVIOUS
    <2>1. A = S
      BY <1>1
    <2> QED
      BY SMTT(60), <1>2, <2>1
  <1>5. PICK f \in S \ A : \A h \in S \ A : f <= h
    <2>1. S \ A \subseteq Nat
      OBVIOUS
    <2> QED
      BY <1>4, <2>1, FirstBit
  <1>6. f \in Nat /\ f \in S /\ f \notin A /\ A \subseteq Nat
    BY <1>1, <1>5
  <1>7. \A h : Cardinality(Below(S, h)) \in Nat
    BY BelowFinite
  <1>8. ASSUME NEW h \in A PROVE h < f
    <2> SUFFICES ASSUME ~ (h < f) PROVE FALSE
      OBVIOUS
    <2>1. Below(S, f) \in SUBSET Below(S, h)
      <3>1. ASSUME NEW g \in S, g < f PROVE g < h
        BY SMTT(60), <1>6, <3>1
      <3> QED
        BY <3>1 DEF Below
    <2>2. Cardinality(Below(S, f)) <= Cardinality(Below(S, h))
      BY <2>1, BelowFinite, FS_Subset
    <2>3. Cardinality(Below(S, h)) < n
      BY <1>1
    <2>4. Cardinality(Below(S, f)) < n
      BY SMTT(60), <1>7, <2>2, <2>3
    <2> QED
      BY <1>1, <1>6, <2>4
  <1>9. Below(S, f) = A
    <2>1. ASSUME NEW g \in S, g < f PROVE g \in A
      BY SMTT(60), <1>5, <1>6, <2>1
    <2> QED
      BY <1>1, <1>8, <2>1 DEF Below
  <1>10. Cardinality(A \cup {f}) = n + 1
    BY <1>2, <1>3, <1>6, FS_AddElement
  <1>11. ASSUME NEW h \in S, h \notin A, h # f PROVE ~ (Cardinality(Below(S, h)) < n + 1)
    <2>1. f < h
      BY SMTT(60), <1>5, <1>6, <1>11
    <2>2. A \cup {f} \in SUBSET Below(S, h)
      BY SMTT(60), <1>1, <1>6, <1>8, <2>1 DEF Below
    <2>3. Cardinality(A \cup {f}) <= Cardinality(Below(S, h))
      BY <2>2, BelowFinite, FS_Subset
    <2> QED
      BY SMTT(60), <1>7, <1>10, <2>3
  <1>12. FirstBits(S, n + 1) = A \cup {f}
    <2>1. ASSUME NEW h \in A PROVE Cardinality(Below(S, h)) < n + 1
      BY SMTT(60), <1>1, <1>7
    <2>2. Cardinality(Below(S, f)) < n + 1
      BY SMTT(60), <1>2, <1>9
    <2> QED
      BY <1>1, <1>6, <1>11, <2>1, <2>2 DEF FirstBits
  <1> QED
    BY <1>10, <1>12

\* n calls of Find take n bits, as long as there are so many: a least n for which
\* they did not would be one more than an n for which they do.
LEMMA FirstBitsCount ==
    ASSUME NEW S, S \subseteq Nat, IsFiniteSet(S), NEW n \in Nat, n <= Cardinality(S)
    PROVE  Cardinality(FirstBits(S, n)) = n
  <1> DEFINE bad == {k \in Nat : k <= Cardinality(S) /\ Cardinality(FirstBits(S, k)) # k}
  <1> SUFFICES ASSUME bad # {} PROVE FALSE
    OBVIOUS
  <1> DEFINE k == Min(bad)
  <1>1. k \in bad /\ \A j \in bad : k <= j
    BY FirstBit
  <1>2. Cardinality(S) \in Nat
    BY FS_CardinalityType
  <1> HIDE DEF k
  <1>3. CASE k = 0
    <2>1. FirstBits(S, 0) = {}
      <3>1. \A f : ~ (Cardinality(Below(S, f)) < 0)
        BY SMTT(60), BelowFinite
      <3> QED
        BY <3>1 DEF FirstBits
    <2> QED
      BY <1>1, <1>3, <2>1, FS_EmptySet
  <1>4. CASE k # 0
    <2>1. k - 1 \in Nat /\ k - 1 < Cardinality(S) /\ k - 1 \notin bad
      BY SMTT(60), <1>1, <1>2, <1>4
    <2>2. Cardinality(FirstBits(S, k - 1)) = k - 1
      BY SMTT(60), <1>2, <2>1
    <2>3. Cardinality(FirstBits(S, (k - 1) + 1)) = (k - 1) + 1
      BY <2>1, <2>2, OneMoreBit
    <2> QED
      BY SMTT(60), <1>1, <2>1, <2>3
  <1> QED
    BY <1>3, <1>4
==============================================================================
