--------------------------- MODULE MatchingProofs ---------------------------
(***************************************************************************)
(* Lemmas about the operators the engine is built from, for every finite   *)
(* set of rows: sums over a set, the order of the pool, and the order in   *)
(* which the group pass finds sets of orders.                              *)
(***************************************************************************)
EXTENDS Matching, WellFoundedInduction, FiniteSetTheorems, SequenceTheorems,
        TLAPS

-----------------------------------------------------------------------------
(* Induction *)

\* A set of natural numbers that is not empty has a least member.
LEMMA LeastNatural ==
    ASSUME NEW T, T \subseteq Nat, T # {}
    PROVE  \E n \in T : \A m \in T : n <= m
<1>1. PICK n \in T : \A m \in T : ~(<<m, n>> \in OpToRel(<, Nat))
    BY NatLessThanWellFounded, WFMin
<1>2. \A m \in T : ~(m < n)
    BY <1>1 DEF OpToRel
<1> QED
    BY <1>2

\* A family of sets holds every subset of a finite set S if it holds each one
\* that has all its parts of one member less in the family.
LEMMA SetInduction ==
    ASSUME NEW S, IsFiniteSet(S), NEW G,
           \A s \in SUBSET S : (\A x \in s : s \ {x} \in G) => s \in G
    PROVE  S \in G
<1> DEFINE Bad == {Cardinality(s) : s \in {t \in SUBSET S : t \notin G}}
<1>1. \A s \in SUBSET S : IsFiniteSet(s) /\ Cardinality(s) \in Nat
    BY FS_Subset, FS_CardinalityType
<1> SUFFICES ASSUME Bad # {} PROVE FALSE
    OBVIOUS
<1>2. PICK n \in Bad : \A k \in Bad : n <= k
    <2>1. Bad \subseteq Nat
        BY <1>1
    <2> HIDE DEF Bad
    <2> QED
        BY <2>1, LeastNatural
<1>3. PICK s \in SUBSET S : s \notin G /\ Cardinality(s) = n
    BY <1>2
<1>4. PICK x \in s : s \ {x} \notin G
    BY <1>3
<1>5. Cardinality(s \ {x}) = n - 1 /\ n \in Nat
    BY <1>1, <1>3, <1>4, FS_RemoveElement
<1>6. Cardinality(s \ {x}) \in Bad
    BY <1>3, <1>4
<1> HIDE DEF Bad
<1> QED
    BY <1>2, <1>5, <1>6

-----------------------------------------------------------------------------
(* Sums: what MapThenSumSet computes *)

\* The sum of the weights w over the members of S.
Sum(w, S) == MapThenSumSet(LAMBDA x : w[x], S)

\* A member of s, the one a fold takes first.
Some(s) == CHOOSE x \in s : TRUE

\* The sum over s when g holds the sums over smaller sets.
Added(w, g, s) == IF s = {} THEN 0 ELSE w[Some(s)] + g[s \ {Some(s)}]

\* g holds the sum of w over every set of the family D.
Sums(w, g, D) == g = [s \in D |-> Added(w, g, s)]

\* The subsets of S of at most n members.
UpTo(S, n) == {s \in SUBSET S : Cardinality(s) <= n}

\* Taking the first member out leaves one member less.
LEMMA OneLess ==
    ASSUME NEW S, IsFiniteSet(S), NEW s \in SUBSET S, s # {}
    PROVE  /\ Some(s) \in s
           /\ s \ {Some(s)} \in SUBSET S
           /\ Cardinality(s) \in Nat
           /\ Cardinality(s \ {Some(s)}) = Cardinality(s) - 1
<1>1. Some(s) \in s
    BY DEF Some
<1>2. IsFiniteSet(s)
    BY FS_Subset
<1>3. Cardinality(s \ {Some(s)}) = Cardinality(s) - 1
    BY <1>1, <1>2, FS_RemoveElement
<1> QED
    BY <1>1, <1>2, <1>3, FS_CardinalityType

\* The sums over the sets of at most n members exist, for every n.
LEMMA SumsExist ==
    ASSUME NEW w, NEW S, IsFiniteSet(S), NEW n \in Nat
    PROVE  \E g : Sums(w, g, UpTo(S, n))
<1> DEFINE T == {m \in Nat : ~ \E g : Sums(w, g, UpTo(S, m))}
<1> SUFFICES ASSUME T # {} PROVE FALSE
    OBVIOUS
<1>1. PICK m \in T : \A k \in T : m <= k
    BY LeastNatural
<1>2. CASE m = 0
    <2> DEFINE g == [s \in UpTo(S, 0) |-> 0]
    <2>1. \A s \in UpTo(S, 0) : s = {}
        <3> SUFFICES ASSUME NEW s \in UpTo(S, 0) PROVE s = {}
            OBVIOUS
        <3>1. IsFiniteSet(s)
            BY FS_Subset DEF UpTo
        <3>2. Cardinality(s) <= 0 /\ Cardinality(s) \in Nat
            BY <3>1, FS_CardinalityType DEF UpTo
        <3> QED
            BY <3>1, <3>2, FS_EmptySet
    <2>2. Sums(w, g, UpTo(S, 0))
        BY <2>1 DEF Sums, Added
    <2> QED
        BY <1>2, <2>2
<1>3. CASE m # 0
    <2>1. m - 1 \in Nat /\ m - 1 \notin T
        BY <1>1, <1>3
    <2>2. PICK h : Sums(w, h, UpTo(S, m - 1))
        BY <2>1
    <2> DEFINE g == [s \in UpTo(S, m) |-> Added(w, h, s)]
    <2>3. \A s \in UpTo(S, m) : Added(w, g, s) = Added(w, h, s)
        <3> SUFFICES ASSUME NEW s \in UpTo(S, m), s # {}
                     PROVE  Added(w, g, s) = Added(w, h, s)
            BY DEF Added
        <3> DEFINE t == s \ {Some(s)}
        <3>1. s \in SUBSET S /\ Cardinality(s) <= m
            BY DEF UpTo
        <3>2. /\ t \in SUBSET S /\ Cardinality(t) = Cardinality(s) - 1
              /\ Cardinality(s) \in Nat
            BY <3>1, OneLess
        <3>3. t \in UpTo(S, m - 1) /\ t \in UpTo(S, m)
            <4> HIDE DEF t
            <4> QED
                BY <3>1, <3>2, <2>1 DEF UpTo
        <3>4. g[t] = h[t]
            BY <3>3, <2>2 DEF Sums
        <3> HIDE DEF g
        <3> QED
            BY <3>4 DEF Added
    <2>4. Sums(w, g, UpTo(S, m))
        BY <2>3 DEF Sums
    <2> QED
        BY <2>4
<1> QED
    BY <1>2, <1>3

\* Two functions that hold the sums agree where both are defined.
LEMMA SumsAgree ==
    ASSUME NEW w, NEW S, NEW T \in SUBSET S, NEW g, NEW h,
           IsFiniteSet(S), Sums(w, g, SUBSET S), Sums(w, h, SUBSET T)
    PROVE  g[T] = h[T]
<1> DEFINE G == {s \in SUBSET T : g[s] = h[s]}
<1>1. ASSUME NEW s \in SUBSET T, \A x \in s : s \ {x} \in G PROVE s \in G
    <2>1. g[s] = Added(w, g, s) /\ h[s] = Added(w, h, s)
        BY DEF Sums
    <2>2. s # {} => Some(s) \in s
        BY DEF Some
    <2>3. Added(w, g, s) = Added(w, h, s)
        BY <1>1, <2>2 DEF Added
    <2> QED
        BY <2>1, <2>3
<1>2. IsFiniteSet(T)
    BY FS_Subset
<1>3. T \in G
    <2> HIDE DEF G
    <2> QED
        BY <1>1, <1>2, SetInduction, Zenon
<1> QED
    BY <1>3

\* A function that holds the sums over all subsets of a finite set holds Sum.
LEMMA SumMeaning ==
    ASSUME NEW w, NEW S, IsFiniteSet(S)
    PROVE  /\ \E g : Sums(w, g, SUBSET S) /\ g[S] = Sum(w, S)
           /\ \A g : Sums(w, g, SUBSET S) => g[S] = Sum(w, S)
<1>1. UpTo(S, Cardinality(S)) = SUBSET S
    BY FS_Subset DEF UpTo
<1>2. Cardinality(S) \in Nat
    BY FS_CardinalityType
<1>3. \E g : Sums(w, g, UpTo(S, Cardinality(S)))
    BY <1>2, SumsExist
<1>4. PICK g : Sums(w, g, SUBSET S)
    BY <1>1, <1>3
<1>5. g = [s \in SUBSET S |->
              IF s = {} THEN 0
              ELSE w[CHOOSE x \in s : TRUE] + g[s \ {CHOOSE x \in s : TRUE}]]
    BY <1>4 DEF Sums, Added, Some
<1>6. PICK h :
          /\ h = [s \in SUBSET S |->
                     IF s = {} THEN 0
                     ELSE w[CHOOSE x \in s : TRUE]
                              + h[s \ {CHOOSE x \in s : TRUE}]]
          /\ h[S] = Sum(w, S)
    BY <1>5 DEF Sum, MapThenSumSet, MapThenFoldSet
<1>7. Sums(w, h, SUBSET S)
    BY <1>6 DEF Sums, Added, Some
<1>8. S \in SUBSET S
    OBVIOUS
<1>9. \A f : Sums(w, f, SUBSET S) => f[S] = h[S]
    BY <1>7, <1>8, SumsAgree, Zenon
<1> QED
    BY <1>6, <1>7, <1>9

\* Nothing adds up to 0.
LEMMA SumEmpty ==
    ASSUME NEW w
    PROVE  Sum(w, {}) = 0
<1>1. IsFiniteSet({})
    BY FS_EmptySet
<1>2. PICK g : Sums(w, g, SUBSET {}) /\ g[{}] = Sum(w, {})
    BY <1>1, SumMeaning
<1>3. g[{}] = Added(w, g, {})
    BY <1>2 DEF Sums
<1> QED
    BY <1>2, <1>3 DEF Added

\* The first member and the rest.
LEMMA SumUnfold ==
    ASSUME NEW w, NEW S, IsFiniteSet(S), S # {}
    PROVE  Sum(w, S) = w[Some(S)] + Sum(w, S \ {Some(S)})
<1> DEFINE T == S \ {Some(S)}
<1>1. IsFiniteSet(T) /\ T \in SUBSET S
    BY FS_Subset
<1>2. PICK g : Sums(w, g, SUBSET S) /\ g[S] = Sum(w, S)
    BY SumMeaning
<1>3. PICK h : Sums(w, h, SUBSET T) /\ h[T] = Sum(w, T)
    BY <1>1, SumMeaning
<1>4. g[T] = h[T]
    <2>1. Sums(w, g, SUBSET S) /\ Sums(w, h, SUBSET T) /\ T \in SUBSET S
        BY <1>1, <1>2, <1>3
    <2> HIDE DEF T
    <2> QED
        BY <2>1, SumsAgree, ZenonT(40)
<1>5. g[S] = Added(w, g, S)
    BY <1>2 DEF Sums
<1> QED
    BY <1>2, <1>3, <1>4, <1>5 DEF Added

\* A sum of integers is an integer.
LEMMA SumType ==
    ASSUME NEW w, NEW S, IsFiniteSet(S), \A x \in S : w[x] \in Int
    PROVE  Sum(w, S) \in Int
<1> DEFINE G == {s \in SUBSET S : Sum(w, s) \in Int}
<1>1. ASSUME NEW s \in SUBSET S, \A x \in s : s \ {x} \in G PROVE s \in G
    <2>1. CASE s = {}
        BY <2>1, SumEmpty
    <2>2. CASE s # {}
        <3>1. Some(s) \in s /\ IsFiniteSet(s)
            BY <2>2, FS_Subset DEF Some
        <3>2. Sum(w, s) = w[Some(s)] + Sum(w, s \ {Some(s)})
            BY <2>2, <3>1, SumUnfold
        <3>3. w[Some(s)] \in Int /\ Sum(w, s \ {Some(s)}) \in Int
            BY <1>1, <3>1
        <3> QED
            BY <3>2, <3>3
    <2> QED
        BY <2>1, <2>2
<1>2. S \in G
    <2> HIDE DEF G
    <2> QED
        BY <1>1, SetInduction, Zenon
<1> QED
    BY <1>2

\* Any member may be added last.
LEMMA SumRemove ==
    ASSUME NEW w, NEW S, IsFiniteSet(S), \A x \in S : w[x] \in Int, NEW x \in S
    PROVE  Sum(w, S) = w[x] + Sum(w, S \ {x})
<1> DEFINE Any(s) == \A y \in s : Sum(w, s) = w[y] + Sum(w, s \ {y})
           G == {s \in SUBSET S : Any(s)}
<1>t. \A s \in SUBSET S : IsFiniteSet(s) /\ Sum(w, s) \in Int
    BY FS_Subset, SumType
<1>1. ASSUME NEW s \in SUBSET S, \A y \in s : s \ {y} \in G PROVE s \in G
    <2> SUFFICES ASSUME NEW y \in s
                 PROVE  Sum(w, s) = w[y] + Sum(w, s \ {y})
        OBVIOUS
    <2> DEFINE c == Some(s)
               t == s \ {c}
               u == s \ {y}
               v == s \ {y, c}
    <2>1. c \in s
        BY DEF Some
    <2>2. Sum(w, s) = w[c] + Sum(w, t)
        BY <1>t, SumUnfold
    <2>3. CASE c = y
        BY <2>2, <2>3
    <2>4. CASE c # y
        <3>1. y \in t /\ t \ {y} = v /\ c \in u /\ u \ {c} = v
            BY <2>1, <2>4
        <3>2. Any(t) /\ Any(u)
            BY <1>1, <2>1
        <3>3. Sum(w, t) = w[y] + Sum(w, v) /\ Sum(w, u) = w[c] + Sum(w, v)
            <4> HIDE DEF t, u, v, c
            <4> QED
                BY <3>1, <3>2
        <3>4. Sum(w, v) \in Int /\ w[c] \in Int /\ w[y] \in Int
            BY <1>t, <2>1
        <3> HIDE DEF t, v, c
        <3> QED
            BY <2>2, <3>3, <3>4
    <2> QED
        BY <2>3, <2>4
<1>2. S \in G
    <2> HIDE DEF G
    <2> QED
        BY <1>1, SetInduction, Zenon
<1> QED
    BY <1>2

\* Sums over two sets with nothing in common add up.
LEMMA SumUnion ==
    ASSUME NEW w, NEW S, IsFiniteSet(S), NEW T, IsFiniteSet(T),
           S \cap T = {}, \A x \in S \cup T : w[x] \in Int
    PROVE  Sum(w, S \cup T) = Sum(w, S) + Sum(w, T)
<1> DEFINE G == {s \in SUBSET S : Sum(w, s \cup T) = Sum(w, s) + Sum(w, T)}
<1>1. ASSUME NEW s \in SUBSET S, \A x \in s : s \ {x} \in G PROVE s \in G
    <2>1. IsFiniteSet(s) /\ IsFiniteSet(s \cup T)
        BY FS_Subset, FS_Union
    <2>t. Sum(w, T) \in Int
        BY SumType
    <2>2. CASE s = {}
        BY <2>2, <2>t, SumEmpty
    <2>3. CASE s # {}
        <3>1. PICK x \in s : TRUE
            BY <2>3
        <3>2. (s \cup T) \ {x} = (s \ {x}) \cup T
            BY <3>1
        <3>3. Sum(w, s \cup T) = w[x] + Sum(w, (s \ {x}) \cup T)
            BY <2>1, <3>1, <3>2, SumRemove
        <3>4. Sum(w, s) = w[x] + Sum(w, s \ {x})
            BY <2>1, <3>1, SumRemove
        <3>5. Sum(w, (s \ {x}) \cup T) = Sum(w, s \ {x}) + Sum(w, T)
            BY <1>1, <3>1
        <3>6. IsFiniteSet(s \ {x}) /\ \A y \in s \ {x} : w[y] \in Int
            BY <2>1, FS_RemoveElement
        <3>7. Sum(w, s \ {x}) \in Int /\ w[x] \in Int
            BY <3>1, <3>6, SumType
        <3> QED
            BY <3>3, <3>4, <3>5, <3>7, <2>t
    <2> QED
        BY <2>2, <2>3
<1>2. S \in G
    <2> HIDE DEF G
    <2> QED
        BY <1>1, SetInduction, Zenon
<1> QED
    BY <1>2

\* Smaller weights add up to less.
LEMMA SumLess ==
    ASSUME NEW v, NEW w, NEW S, IsFiniteSet(S),
           \A x \in S : v[x] \in Int /\ w[x] \in Int /\ v[x] <= w[x]
    PROVE  Sum(v, S) <= Sum(w, S)
<1> DEFINE G == {s \in SUBSET S : Sum(v, s) <= Sum(w, s)}
<1>1. ASSUME NEW s \in SUBSET S, \A x \in s : s \ {x} \in G PROVE s \in G
    <2>1. CASE s = {}
        BY <2>1, SumEmpty
    <2>2. CASE s # {}
        <3>1. PICK x \in s : TRUE
            BY <2>2
        <3>2. IsFiniteSet(s) /\ IsFiniteSet(s \ {x})
            BY FS_Subset, FS_RemoveElement
        <3>3. /\ Sum(v, s) = v[x] + Sum(v, s \ {x})
              /\ Sum(w, s) = w[x] + Sum(w, s \ {x})
            BY <3>2, SumRemove
        <3>4. Sum(v, s \ {x}) \in Int /\ Sum(w, s \ {x}) \in Int
            BY <3>2, SumType
        <3>5. Sum(v, s \ {x}) <= Sum(w, s \ {x}) /\ x \in S
            BY <1>1, <3>1
        <3> QED
            BY <3>3, <3>4, <3>5
    <2> QED
        BY <2>1, <2>2
<1>2. S \in G
    <2> HIDE DEF G
    <2> QED
        BY <1>1, SetInduction, Zenon
<1> QED
    BY <1>2

\* Weights that are not negative add up to what is not negative, and to no
\* more over a part than over the whole.
LEMMA SumNat ==
    ASSUME NEW w, NEW S, IsFiniteSet(S), \A x \in S : w[x] \in Nat
    PROVE  Sum(w, S) \in Nat
<1> DEFINE G == {s \in SUBSET S : Sum(w, s) \in Nat}
<1>1. ASSUME NEW s \in SUBSET S, \A x \in s : s \ {x} \in G PROVE s \in G
    <2>1. CASE s = {}
        BY <2>1, SumEmpty
    <2>2. CASE s # {}
        <3>1. Some(s) \in s /\ IsFiniteSet(s)
            BY <2>2, FS_Subset DEF Some
        <3>2. Sum(w, s) = w[Some(s)] + Sum(w, s \ {Some(s)})
            BY <2>2, <3>1, SumUnfold
        <3>3. w[Some(s)] \in Nat /\ Sum(w, s \ {Some(s)}) \in Nat
            BY <1>1, <3>1
        <3> QED
            BY <3>2, <3>3
    <2> QED
        BY <2>1, <2>2
<1>2. S \in G
    <2> HIDE DEF G
    <2> QED
        BY <1>1, SetInduction, Zenon
<1> QED
    BY <1>2

LEMMA SumPart ==
    ASSUME NEW w, NEW S, IsFiniteSet(S), \A x \in S : w[x] \in Nat,
           NEW T \in SUBSET S
    PROVE  Sum(w, T) \in Nat /\ Sum(w, T) <= Sum(w, S)
<1>1. IsFiniteSet(T) /\ IsFiniteSet(S \ T)
    BY FS_Subset
<1>2. Sum(w, T) \in Nat /\ Sum(w, S \ T) \in Nat
    BY <1>1, SumNat
<1>3. T \cup (S \ T) = S /\ T \cap (S \ T) = {}
    OBVIOUS
<1>4. Sum(w, S) = Sum(w, T) + Sum(w, S \ T)
    BY <1>1, <1>3, SumUnion
<1> QED
    BY <1>2, <1>3, <1>4

\* A sum is at most the greatest weight times the number of terms.
LEMMA SumBound ==
    ASSUME NEW w, NEW S, IsFiniteSet(S), NEW c \in Nat,
           \A x \in S : w[x] \in Nat /\ w[x] <= c
    PROVE  Sum(w, S) \in Nat /\ Sum(w, S) <= c * Cardinality(S)
<1> DEFINE G == {s \in SUBSET S : Sum(w, s) <= c * Cardinality(s)}
<1>1. ASSUME NEW s \in SUBSET S, \A x \in s : s \ {x} \in G PROVE s \in G
    <2>1. CASE s = {}
        BY <2>1, SumEmpty, FS_EmptySet
    <2>2. CASE s # {}
        <3>1. PICK x \in s : TRUE
            BY <2>2
        <3> DEFINE r == s \ {x}
                   n == Cardinality(r)
        <3>2. IsFiniteSet(s) /\ IsFiniteSet(r) /\ Cardinality(s) = n + 1
            <4>1. IsFiniteSet(s)
                BY FS_Subset
            <4>2. Cardinality(s) \in Nat
                BY <4>1, FS_CardinalityType
            <4>3. IsFiniteSet(r) /\ n = Cardinality(s) - 1
                BY <3>1, <4>1, FS_RemoveElement
            <4> QED
                BY <4>1, <4>2, <4>3
        <3>3. Sum(w, s) = w[x] + Sum(w, r)
            BY <3>1, <3>2, SumRemove
        <3>4. Sum(w, r) \in Nat /\ n \in Nat
            BY <3>2, SumNat, FS_CardinalityType
        <3>5. Sum(w, r) <= c * n /\ w[x] \in Nat /\ w[x] <= c
            BY <1>1, <3>1
        <3> HIDE DEF r, n
        <3>6. c * (n + 1) = c * n + c /\ c * n \in Nat
            BY <3>4
        <3> QED
            BY <3>2, <3>3, <3>4, <3>5, <3>6
    <2> QED
        BY <2>1, <2>2
<1>2. S \in G
    <2> HIDE DEF G
    <2> QED
        BY <1>1, SetInduction, Zenon
<1> QED
    BY <1>2, SumNat

\* A sum may be taken over the images of its terms, if no two coincide.
LEMMA SumImage ==
    ASSUME NEW v, NEW w, NEW f, NEW S, IsFiniteSet(S),
           \A x \in S : w[f[x]] \in Int /\ v[x] = w[f[x]],
           \A x, y \in S : f[x] = f[y] => x = y
    PROVE  /\ IsFiniteSet({f[x] : x \in S})
           /\ Sum(v, S) = Sum(w, {f[x] : x \in S})
<1> DEFINE im(s) == {f[x] : x \in s}
           G == {s \in SUBSET S : /\ IsFiniteSet(im(s))
                                  /\ Sum(v, s) = Sum(w, im(s))}
<1>1. ASSUME NEW s \in SUBSET S, \A x \in s : s \ {x} \in G PROVE s \in G
    <2>1. CASE s = {}
        <3>1. im(s) = {}
            BY <2>1
        <3> QED
            BY <2>1, <3>1, SumEmpty, FS_EmptySet
    <2>2. CASE s # {}
        <3>1. PICK x \in s : TRUE
            BY <2>2
        <3> DEFINE r == s \ {x}
        <3>2. im(s) = im(r) \cup {f[x]} /\ im(s) \ {f[x]} = im(r)
            BY <3>1
        <3>3. IsFiniteSet(im(r)) /\ Sum(v, r) = Sum(w, im(r))
            BY <1>1
        <3>4. f[x] \in im(s) /\ \A y \in im(s) : w[y] \in Int
            OBVIOUS
        <3>5. IsFiniteSet(s) /\ \A y \in s : v[y] \in Int
            BY FS_Subset
        <3>6. Sum(v, s) = v[x] + Sum(v, r)
            BY <3>1, <3>5, SumRemove
        <3> HIDE DEF im, r
        <3>7. IsFiniteSet(im(s))
            <4>1. IsFiniteSet(im(r) \cup {f[x]})
                BY <3>3, FS_AddElement, Zenon
            <4> QED
                BY <3>2, <4>1
        <3>8. Sum(w, im(s)) = w[f[x]] + Sum(w, im(r))
            BY <3>2, <3>4, <3>7, SumRemove
        <3>9. v[x] = w[f[x]]
            BY <3>1
        <3> QED
            BY <3>3, <3>6, <3>7, <3>8, <3>9
    <2> QED
        BY <2>1, <2>2
<1>2. S \in G
    <2> HIDE DEF G
    <2> QED
        BY <1>1, SetInduction, Zenon
<1> QED
    BY <1>2

\* g holds what the subsets of S add up to in the book b.
Totals(b, g, S) ==
    g = [s \in SUBSET S |->
            IF s = {} THEN 0
            ELSE b[CHOOSE x \in s : TRUE].amount
                     + g[s \ {CHOOSE x \in s : TRUE}]]

\* SumOf reads its value off such a function.
LEMMA TotalsMeaning ==
    ASSUME NEW b, NEW S, NEW g, Totals(b, g, S)
    PROVE  \E h : Totals(b, h, S) /\ h[S] = SumOf(b, S)
BY DEF Totals, SumOf, MapThenSumSet, MapThenFoldSet

\* What a set of rows adds up to is a sum of weights.
LEMMA SumOfRows ==
    ASSUME NEW b, NEW S, IsFiniteSet(S), NEW w,
           \A i \in S : w[i] = b[i].amount
    PROVE  SumOf(b, S) = Sum(w, S)
<1>1. PICK g : Sums(w, g, SUBSET S)
    BY SumMeaning
<1>2. \A s \in SUBSET S : s # {} => w[Some(s)] = b[Some(s)].amount
    BY DEF Some
<1>3. \A h : Totals(b, h, S) <=> Sums(w, h, SUBSET S)
    BY <1>2 DEF Totals, Sums, Added, Some
<1>4. PICK h : Totals(b, h, S) /\ h[S] = SumOf(b, S)
    BY <1>1, <1>3, TotalsMeaning
<1> QED
    BY <1>3, <1>4, SumMeaning

-----------------------------------------------------------------------------
(* The order of the pool *)

\* Keys compare from their first difference on.
KeyBefore(k, l) ==
    \E n \in 1..8 : k[n] < l[n] /\ \A m \in 1..(n - 1) : k[m] = l[m]

\* That is a strict order.
LEMMA KeysOrdered ==
    ASSUME NEW k \in [1..8 -> Int], NEW l \in [1..8 -> Int],
           NEW r \in [1..8 -> Int]
    PROVE  /\ ~KeyBefore(k, k)
           /\ KeyBefore(k, l) /\ KeyBefore(l, r) => KeyBefore(k, r)
           /\ k[8] # l[8] => KeyBefore(k, l) \/ KeyBefore(l, k)
<1>1. ~KeyBefore(k, k)
    BY DEF KeyBefore
<1>2. ASSUME KeyBefore(k, l), KeyBefore(l, r) PROVE KeyBefore(k, r)
    <2>1. PICK n \in 1..8 : k[n] < l[n] /\ \A m \in 1..(n - 1) : k[m] = l[m]
        BY <1>2 DEF KeyBefore
    <2>2. PICK o \in 1..8 : l[o] < r[o] /\ \A m \in 1..(o - 1) : l[m] = r[m]
        BY <1>2 DEF KeyBefore
    <2>3. CASE n <= o
        <3>1. k[n] < r[n] /\ \A m \in 1..(n - 1) : k[m] = r[m]
            BY <2>1, <2>2, <2>3
        <3> QED
            BY <3>1 DEF KeyBefore
    <2>4. CASE o < n
        <3>1. k[o] < r[o] /\ \A m \in 1..(o - 1) : k[m] = r[m]
            BY <2>1, <2>2, <2>4
        <3> QED
            BY <3>1 DEF KeyBefore
    <2> QED
        BY <2>3, <2>4
<1>3. ASSUME k[8] # l[8] PROVE KeyBefore(k, l) \/ KeyBefore(l, k)
    <2> DEFINE T == {n \in 1..8 : k[n] # l[n]}
    <2>1. T \subseteq Nat /\ 8 \in T
        BY <1>3
    <2>2. PICK n \in T : \A m \in T : n <= m
        <3> HIDE DEF T
        <3> QED
            BY <2>1, LeastNatural
    <2>3. n \in 1..8 /\ \A m \in 1..(n - 1) : k[m] = l[m]
        BY <2>2
    <2>4. k[n] < l[n] \/ l[n] < k[n]
        BY <2>2
    <2> QED
        BY <2>3, <2>4 DEF KeyBefore
<1> QED
    BY <1>1, <1>2, <1>3

\* The key of a row of the book is a tuple of eight numbers, the last its ID.
LEMMA KeyOfRow ==
    ASSUME NEW t \in Transaction
    PROVE  SortKey(t) \in [1..8 -> Int] /\ SortKey(t)[8] = t.id
<1>1. /\ t.day \in Int /\ t.ref \in Int /\ t.cp \in Int /\ t.amount \in Int
      /\ t.gross \in Int /\ t.id \in Int
    BY DEF Transaction
<1>2. DirectionOrder[t.dir] \in Int /\ SourceOrder[t.source] \in Int
    BY DEF Transaction, Directions, Sources, DirectionOrder, SourceOrder
<1> QED
    BY <1>1, <1>2 DEF SortKey

\* Rows of different IDs are ordered one way.
LEMMA RowsOrdered ==
    ASSUME NEW t \in Transaction, NEW u \in Transaction, NEW v \in Transaction
    PROVE  /\ ~Precedes(t, t)
           /\ Precedes(t, u) /\ Precedes(u, v) => Precedes(t, v)
           /\ t.id # u.id => Precedes(t, u) \/ Precedes(u, t)
<1>1. \A x, y : Before(x, y) <=> KeyBefore(SortKey(x), SortKey(y))
    BY DEF Before, KeyBefore
<1>2. /\ SortKey(t) \in [1..8 -> Int] /\ SortKey(t)[8] = t.id
      /\ SortKey(u) \in [1..8 -> Int] /\ SortKey(u)[8] = u.id
      /\ SortKey(v) \in [1..8 -> Int]
    BY KeyOfRow
<1>3. /\ ~Before(t, t)
      /\ Before(t, u) /\ Before(u, v) => Before(t, v)
      /\ t.id # u.id => Before(t, u) \/ Before(u, t)
    BY <1>1, <1>2, KeysOrdered
<1>4. \A x : IsExpected(x) \in BOOLEAN
    BY DEF IsExpected
<1> QED
    BY <1>3, <1>4 DEF Precedes

\* The book is finite: there are as many rows as transactions at most.
BookFinite == IsFiniteSet(Ids)

\* The rows of the book are transactions, filed under their IDs.
Filed == \A i \in Ids : book[i] \in Transaction /\ book[i].id = i

\* The pool is sorted: a row stands at the number of rows before it.
Sorted == rank = RankOf(book)

\* Places are numbers.
LEMMA RankNatural ==
    ASSUME BookFinite, Sorted
    PROVE  \A i \in Ids : rank[i] \in Nat
<1>1. \A S \in SUBSET Ids : Cardinality(S) \in Nat
    BY FS_Subset, FS_CardinalityType DEF BookFinite
<1> QED
    BY <1>1 DEF Sorted, RankOf, Ids

\* No two rows stand at the same place.
LEMMA RankInjective ==
    ASSUME Filed, BookFinite, Sorted, NEW i \in Ids, NEW j \in Ids, i # j
    PROVE  rank[i] # rank[j]
<1> DEFINE ahead(x) == {y \in Ids : Precedes(book[y], book[x])}
<1>1. \A x \in Ids : book[x] \in Transaction /\ book[x].id = x
    BY DEF Filed
<1>2. \A x \in Ids : rank[x] = Cardinality(ahead(x))
    BY DEF Sorted, RankOf, Ids
<1>3. ASSUME NEW x \in Ids, NEW y \in Ids, Precedes(book[x], book[y])
      PROVE  rank[x] # rank[y]
    <2>1. ahead(x) \subseteq ahead(y)
        BY <1>1, <1>3, RowsOrdered
    <2>2. x \in ahead(y) /\ x \notin ahead(x)
        BY <1>1, <1>3, RowsOrdered
    <2>3. ahead(x) \in SUBSET ahead(y) /\ ahead(x) # ahead(y)
        BY <2>1, <2>2
    <2>4. ahead(y) \in SUBSET Ids
        OBVIOUS
    <2> HIDE DEF ahead
    <2>5. IsFiniteSet(ahead(y))
        BY <2>4, FS_Subset DEF BookFinite
    <2>6. Cardinality(ahead(x)) # Cardinality(ahead(y))
        BY <2>3, <2>5, FS_Subset
    <2> QED
        BY <1>2, <2>6
<1>4. Precedes(book[i], book[j]) \/ Precedes(book[j], book[i])
    BY <1>1, RowsOrdered
<1> QED
    BY <1>3, <1>4

\* Every row has a place of its own.
Ranked ==
    /\ \A i \in Ids : rank[i] \in Nat
    /\ \A i, j \in Ids : rank[i] = rank[j] => i = j

\* So it is in a sorted pool.
LEMMA RowsRanked ==
    ASSUME Filed, BookFinite, Sorted
    PROVE  Ranked
BY RankNatural, RankInjective DEF Ranked

-----------------------------------------------------------------------------
(* The sets the search finds *)

\* A set found before one that is found before a third is found before that.
LEMMA FoundInOrder ==
    ASSUME Ranked, NEW S \in SUBSET Ids, NEW T \in SUBSET Ids,
           NEW U \in SUBSET Ids, FoundBefore(S, T), FoundBefore(T, U)
    PROVE  FoundBefore(S, U)
<1>1. PICK i \in S \ T : \A j \in (S \ T) \cup (T \ S) : rank[i] <= rank[j]
    BY DEF FoundBefore
<1>2. PICK k \in T \ U : \A j \in (T \ U) \cup (U \ T) : rank[k] <= rank[j]
    BY DEF FoundBefore
<1>3. \A x \in Ids : rank[x] \in Nat
    BY DEF Ranked
<1>4. rank[i] # rank[k]
    BY <1>1, <1>2 DEF Ranked
<1>5. CASE rank[i] < rank[k]
    <2>1. i \in S \ U
        BY <1>1, <1>2, <1>3, <1>5
    <2>2. \A j \in (S \ U) \cup (U \ S) : rank[i] <= rank[j]
        BY <1>1, <1>2, <1>3, <1>5
    <2> QED
        BY <2>1, <2>2 DEF FoundBefore
<1>6. CASE rank[k] < rank[i]
    <2>1. k \in S \ U
        BY <1>1, <1>2, <1>3, <1>6
    <2>2. \A j \in (S \ U) \cup (U \ S) : rank[k] <= rank[j]
        BY <1>1, <1>2, <1>3, <1>6
    <2> QED
        BY <2>1, <2>2 DEF FoundBefore
<1> QED
    BY <1>3, <1>4, <1>5, <1>6

\* Of two sets one is found before the other, and not the other way round.
LEMMA FoundApart ==
    ASSUME Ranked, NEW S \in SUBSET Ids, NEW T \in SUBSET Ids, S # T
    PROVE  /\ FoundBefore(S, T) \/ FoundBefore(T, S)
           /\ ~(FoundBefore(S, T) /\ FoundBefore(T, S))
<1> DEFINE D == (S \ T) \cup (T \ S)
           P == {rank[i] : i \in D}
<1>1. PICK n \in P : \A m \in P : n <= m
    <2>1. P \subseteq Nat /\ P # {}
        BY DEF Ranked
    <2> HIDE DEF P
    <2> QED
        BY <2>1, LeastNatural
<1>2. PICK i \in D : \A j \in D : rank[i] <= rank[j]
    BY <1>1
<1>3. FoundBefore(S, T) \/ FoundBefore(T, S)
    BY <1>2 DEF FoundBefore
<1>4. ASSUME FoundBefore(S, T), FoundBefore(T, S)
      PROVE  FALSE
    <2>1. PICK j \in S \ T : \A k \in D : rank[j] <= rank[k]
        BY <1>4 DEF FoundBefore
    <2>2. PICK k \in T \ S : \A l \in D : rank[k] <= rank[l]
        BY <1>4 DEF FoundBefore
    <2>3. rank[j] <= rank[k] /\ rank[k] <= rank[j]
        BY <2>1, <2>2
    <2>4. rank[j] = rank[k] /\ j # k
        BY <2>1, <2>2, <2>3 DEF Ranked
    <2> QED
        BY <2>1, <2>2, <2>4 DEF Ranked
<1> QED
    BY <1>3, <1>4

\* S is found before all other sets.
Leads(S, sets) == S \in sets /\ \A T \in sets \ {S} : FoundBefore(S, T)

\* One of finitely many sets is.
LEMMA OneLeads ==
    ASSUME Ranked, NEW sets, sets \subseteq SUBSET Ids, IsFiniteSet(sets),
           sets # {}
    PROVE  \E S : Leads(S, sets)
<1> DEFINE G == {F \in SUBSET sets : F # {} => \E S : Leads(S, F)}
<1>1. ASSUME NEW F \in SUBSET sets, \A S \in F : F \ {S} \in G
      PROVE  F \in G
    <2> SUFFICES ASSUME F # {} PROVE \E S : Leads(S, F)
        OBVIOUS
    <2>1. PICK S \in F : TRUE
        OBVIOUS
    <2>2. CASE F \ {S} = {}
        BY <2>1, <2>2 DEF Leads
    <2>3. CASE F \ {S} # {}
        <3>1. PICK T : Leads(T, F \ {S})
            BY <1>1, <2>1, <2>3
        <3>2. T \in F /\ T # S /\ F \subseteq SUBSET Ids
            BY <3>1 DEF Leads
        <3>3. CASE FoundBefore(T, S)
            BY <3>1, <3>2, <3>3 DEF Leads
        <3>4. CASE FoundBefore(S, T)
            <4>1. ASSUME NEW U \in F \ {S}
                  PROVE  FoundBefore(S, U)
                <5>1. CASE U = T
                    BY <3>4, <5>1
                <5>2. CASE U # T
                    <6>1. FoundBefore(T, U)
                        BY <3>1, <5>2 DEF Leads
                    <6> QED
                        BY <2>1, <3>2, <3>4, <6>1, FoundInOrder
                <5> QED
                    BY <5>1, <5>2
            <4> QED
                BY <2>1, <4>1 DEF Leads
        <3> QED
            BY <2>1, <3>2, <3>3, <3>4, FoundApart
    <2> QED
        BY <2>2, <2>3
<1>2. sets \in G
    <2> HIDE DEF G
    <2> QED
        BY <1>1, SetInduction, Zenon
<1> QED
    BY <1>2

\* It is the first one found.
LEMMA LeaderIsFirst ==
    ASSUME Ranked, NEW sets, sets \subseteq SUBSET Ids, IsFiniteSet(sets),
           NEW S, Leads(S, sets)
    PROVE  FirstFound(sets) = S
<1> DEFINE earlier(T) == {U \in sets \ {T} : FoundBefore(U, T)}
<1>1. earlier(S) = {}
    BY FoundApart DEF Leads
<1>2. ASSUME NEW T \in sets, T # S
      PROVE  ~ Cardinality(earlier(T)) < 1
    <2>1. S \in earlier(T) /\ earlier(T) \in SUBSET sets
        BY <1>2 DEF Leads
    <2> HIDE DEF earlier
    <2>2. IsFiniteSet(earlier(T))
        BY <2>1, FS_Subset
    <2>3. Cardinality(earlier(T)) \in Nat /\ Cardinality(earlier(T)) # 0
        BY <2>1, <2>2, FS_CardinalityType, FS_EmptySet
    <2> QED
        BY <2>3
<1>3. {T \in sets : Cardinality(earlier(T)) < 1} = {S}
    <2>1. Cardinality(earlier(S)) = 0
        <3> HIDE DEF earlier
        <3> QED
            BY <1>1, FS_EmptySet
    <2>2. S \in sets
        BY DEF Leads
    <2> HIDE DEF earlier
    <2> QED
        BY <1>2, <2>1, <2>2
<1> QED
    BY <1>3 DEF FirstFound, FoundFirst

\* Of more than one set, two are found with the first two.
LEMMA TwoAreFound ==
    ASSUME Ranked, NEW sets, sets \subseteq SUBSET Ids,
           IsFiniteSet(sets), Cardinality(sets) > 1
    PROVE  \E S, T \in sets : S # T /\ S \cup T \subseteq FirstTwo(sets)
<1> DEFINE earlier(S) == {T \in sets \ {S} : FoundBefore(T, S)}
           place(S) == Cardinality(earlier(S))
<1>1. sets # {}
    BY FS_EmptySet
<1>2. PICK S : Leads(S, sets)
    BY <1>1, OneLeads
<1>3. S \in sets /\ sets \ {S} # {}
    <2>1. sets # {S}
        BY FS_Singleton
    <2> QED
        BY <1>1, <1>2, <2>1 DEF Leads
<1>4. PICK T : Leads(T, sets \ {S})
    <2>1. IsFiniteSet(sets \ {S})
        BY FS_Subset
    <2> QED
        BY <1>3, <2>1, OneLeads
<1>5. T \in sets /\ T # S
    BY <1>4 DEF Leads
<1>6. earlier(S) = {}
    BY <1>2, FoundApart DEF Leads
<1>7. earlier(T) \subseteq {S}
    BY <1>4, <1>5, FoundApart DEF Leads
<1>8. place(S) < 2 /\ place(T) < 2
    <2>1. IsFiniteSet({S}) /\ Cardinality({S}) = 1
        BY FS_Singleton
    <2>2. earlier(T) \in SUBSET {S}
        BY <1>7
    <2> HIDE DEF earlier
    <2>3. Cardinality(earlier(T)) <= 1 /\ Cardinality(earlier(T)) \in Nat
        BY <2>1, <2>2, FS_Subset, FS_CardinalityType
    <2>4. Cardinality(earlier(S)) = 0
        BY <1>6, FS_EmptySet
    <2> QED
        BY <2>3, <2>4
<1>9. FirstTwo(sets) = UNION {U \in sets : place(U) < 2}
    BY DEF FirstTwo, FoundFirst
<1> HIDE DEF place
<1> QED
    BY <1>3, <1>5, <1>8, <1>9

\* Each set found lies among the rows found.
LEMMA FoundWhole ==
    ASSUME NEW sets, NEW o \in FirstTwo(sets)
    PROVE  \E S \in sets : o \in S /\ S \subseteq FirstTwo(sets)
BY DEF FirstTwo, FoundFirst

\* One set alone is found.
LEMMA OneIsFound ==
    ASSUME NEW S
    PROVE  FirstTwo({S}) = S
<1>1. {T \in {S} \ {S} : FoundBefore(T, S)} = {}
    OBVIOUS
<1>2. {U \in {S} : Cardinality({T \in {S} \ {U} : FoundBefore(T, U)}) < 2} = {S}
    BY <1>1, FS_EmptySet
<1> QED
    BY <1>2 DEF FirstTwo, FoundFirst
=============================================================================
