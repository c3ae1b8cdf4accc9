------------------------- MODULE SubsetSearchProofs -------------------------
(***************************************************************************)
(* Theorem about subsetSum: for any number of candidates of any amounts    *)
(* the pruned search returns the sets the engine is specified with.        *)
(*                                                                         *)
(* Both recursions, of the suffix sums and of walk, count a position up to *)
(* the last candidate.  Each is shown to have the value stated here: that  *)
(* value satisfies the recursion, and, from the last position down, no     *)
(* other does.                                                             *)
(***************************************************************************)
EXTENDS SubsetSearch, MatchingProofs

\* What MatchGroups hands over: positive amounts, oldest row first, and a
\* positive target.
Candidates ==
    /\ N \in Nat /\ Ids = 1..N
    /\ \A i \in Ids : rank[i] = i
    /\ \A i \in Ids : book[i].amount \in 1..MaxMoney
    /\ target \in 1..MaxMoney

\* The sets of candidates from the i-th one on that add up to r.
Fit(i, r) == {S \in SUBSET (i..N) : SumAmounts(S) = r}

-----------------------------------------------------------------------------
(* Sums of amounts *)

\* Sums of candidates are numbers, and grow with every candidate.
LEMMA SetFacts ==
    ASSUME Candidates
    PROVE  /\ IsFiniteSet(Ids) /\ IsFiniteSet(SUBSET Ids) /\ Ranked
           /\ \A S \in SUBSET Ids : SumAmounts(S) \in Nat
           /\ SumAmounts({}) = 0
           /\ \A S \in SUBSET Ids : \A i \in Ids \ S :
                  SumAmounts(S \cup {i}) = book[i].amount + SumAmounts(S)
           /\ \A S \in SUBSET Ids : \A T \in SUBSET S :
                  SumAmounts(T) <= SumAmounts(S)
<1> DEFINE w == [i \in Ids |-> book[i].amount]
<1>1. IsFiniteSet(Ids) /\ IsFiniteSet(SUBSET Ids)
    <2>1. Ids = 1..N /\ N \in Int /\ 1 \in Int
        BY DEF Candidates
    <2>2. IsFiniteSet(1..N)
        BY <2>1, FS_Interval
    <2> QED
        BY <2>1, <2>2, FS_SUBSET
<1>2. Ranked
    BY DEF Candidates, Ranked
<1>3. MaxMoney \in Nat
    BY LimitsAssumption
<1>4. \A i \in Ids : w[i] \in Nat /\ w[i] = book[i].amount
    BY <1>3 DEF Candidates
<1> HIDE DEF w
<1>5. \A S \in SUBSET Ids : IsFiniteSet(S) /\ \A i \in S : w[i] \in Nat
    BY <1>1, <1>4, FS_Subset
<1>6. ASSUME NEW S \in SUBSET Ids
      PROVE  SumAmounts(S) = Sum(w, S)
    BY <1>4, <1>5, SumOfRows DEF SumAmounts
<1>7. ASSUME NEW S \in SUBSET Ids
      PROVE  SumAmounts(S) \in Nat
    BY <1>5, <1>6, SumNat
<1>8. SumAmounts({}) = 0
    BY <1>6, SumEmpty
<1>9. ASSUME NEW S \in SUBSET Ids, NEW i \in Ids \ S
      PROVE  SumAmounts(S \cup {i}) = book[i].amount + SumAmounts(S)
    <2> DEFINE T == S \cup {i}
    <2>1. T \in SUBSET Ids /\ i \in T /\ T \ {i} = S
        OBVIOUS
    <2> HIDE DEF T
    <2>2. IsFiniteSet(T) /\ \A x \in T : w[x] \in Int
        BY <1>5, <2>1
    <2>3. Sum(w, T) = w[i] + Sum(w, S)
        BY <2>1, <2>2, SumRemove
    <2> QED
        BY <1>4, <1>6, <2>1, <2>3 DEF T
<1>10. ASSUME NEW S \in SUBSET Ids, NEW T \in SUBSET S
       PROVE  SumAmounts(T) <= SumAmounts(S)
    <2>1. IsFiniteSet(S) /\ \A x \in S : w[x] \in Nat
        BY <1>5
    <2>2. Sum(w, T) <= Sum(w, S)
        BY <2>1, SumPart
    <2> QED
        BY <1>6, <2>2
<1> QED
    BY <1>1, <1>2, <1>7, <1>8, <1>9, <1>10

\* Only the set of no candidates adds up to nothing.
LEMMA NothingFitsZero ==
    ASSUME Candidates, NEW S \in SUBSET Ids, SumAmounts(S) = 0
    PROVE  S = {}
<1> SUFFICES ASSUME NEW i \in S PROVE FALSE
    OBVIOUS
<1>1. SumAmounts({i}) <= SumAmounts(S)
    BY SetFacts
<1>2. SumAmounts({} \cup {i}) = book[i].amount + SumAmounts({})
    BY SetFacts
<1>3. {} \cup {i} = {i} /\ book[i].amount > 0 /\ book[i].amount \in Nat
    BY LimitsAssumption DEF Candidates
<1> QED
    BY <1>1, <1>2, <1>3, SetFacts

-----------------------------------------------------------------------------
(* The suffix sums *)

\* A sum, saturated at the money limit.
Saturated(n) == IF n > MaxMoney THEN MaxMoney ELSE n

\* s satisfies the recursion of the suffix sums.
SuffixSteps(s) ==
    s = [i \in 1..(N + 1) |->
            IF i = N + 1 THEN 0
            ELSE IF book[i].amount > MaxMoney - s[i + 1] THEN MaxMoney
            ELSE s[i + 1] + book[i].amount]

\* If any function does, Suffix does.
LEMMA SuffixRead ==
    ASSUME NEW s, SuffixSteps(s)
    PROVE  SuffixSteps(Suffix)
BY DEF SuffixSteps, Suffix

\* What candidates i .. n add up to.
LEMMA Tails ==
    ASSUME Candidates
    PROVE  /\ SumAmounts((N + 1)..N) = 0
           /\ \A i \in 1..(N + 1) : /\ i..N \in SUBSET Ids
                                    /\ SumAmounts(i..N) \in Nat
           /\ \A i \in 1..N :
                  SumAmounts(i..N) = book[i].amount + SumAmounts((i + 1)..N)
<1>1. N \in Nat /\ Ids = 1..N
    BY DEF Candidates
<1>2. (N + 1)..N = {}
    BY <1>1
<1>3. \A i \in 1..(N + 1) : i..N \in SUBSET Ids
    BY <1>1
<1>4. ASSUME NEW i \in 1..N
      PROVE  SumAmounts(i..N) = book[i].amount + SumAmounts((i + 1)..N)
    <2>1. /\ i..N = ((i + 1)..N) \cup {i}
          /\ i \in Ids \ ((i + 1)..N) /\ (i + 1)..N \in SUBSET Ids
        BY <1>1
    <2> QED
        BY <2>1, SetFacts
<1> QED
    BY <1>2, <1>3, <1>4, SetFacts

\* Suffix is the sum of the candidates from each one on, saturated.
LEMMA SuffixMeaning ==
    ASSUME Candidates
    PROVE  \A i \in 1..(N + 1) : Suffix[i] = Saturated(SumAmounts(i..N))
<1> DEFINE sum == [i \in 1..(N + 1) |-> SumAmounts(i..N)]
           sat == [i \in 1..(N + 1) |-> Saturated(sum[i])]
<1>1. N \in Nat /\ Ids = 1..N /\ MaxMoney \in Nat
    BY LimitsAssumption DEF Candidates
<1>2. /\ sum[N + 1] = 0
      /\ \A i \in 1..(N + 1) : sum[i] \in Nat
      /\ \A i \in 1..N : sum[i] = book[i].amount + sum[i + 1]
    BY <1>1, Tails
<1>3. \A i \in 1..N : book[i].amount \in Nat
    BY <1>1 DEF Candidates
<1>4. \A i \in 1..(N + 1) : sum[i] = SumAmounts(i..N)
    OBVIOUS
<1> HIDE DEF sum
<1>5. \A i \in 1..(N + 1) :
          sat[i] = IF i = N + 1 THEN 0
                   ELSE IF book[i].amount > MaxMoney - sat[i + 1] THEN MaxMoney
                   ELSE sat[i + 1] + book[i].amount
    <2> SUFFICES ASSUME NEW i \in 1..(N + 1)
                 PROVE  sat[i] = IF i = N + 1 THEN 0
                                 ELSE IF book[i].amount > MaxMoney - sat[i + 1]
                                 THEN MaxMoney
                                 ELSE sat[i + 1] + book[i].amount
        OBVIOUS
    <2>1. CASE i = N + 1
        BY <1>1, <1>2, <2>1 DEF Saturated
    <2>2. CASE i # N + 1
        <3>1. i \in 1..N /\ i + 1 \in 1..(N + 1)
            BY <1>1, <2>2
        <3>2. /\ sat[i] = Saturated(book[i].amount + sum[i + 1])
              /\ sat[i + 1] = Saturated(sum[i + 1])
            BY <1>2, <3>1
        <3>3. sum[i + 1] \in Nat /\ book[i].amount \in Nat
            BY <1>2, <1>3, <3>1
        <3> HIDE DEF sat
        <3> QED
            BY <1>1, <2>2, <3>2, <3>3, SMTT(20) DEF Saturated
    <2> QED
        BY <2>1, <2>2
<1>6. SuffixSteps(sat)
    BY <1>5 DEF SuffixSteps
<1>7. SuffixSteps(Suffix)
    BY <1>6, SuffixRead
<1> DEFINE Bad == {k \in 0..N : Suffix[N + 1 - k] # sat[N + 1 - k]}
<1>8. \A i \in 1..(N + 1) :
          Suffix[i] = IF i = N + 1 THEN 0
                      ELSE IF book[i].amount > MaxMoney - Suffix[i + 1]
                      THEN MaxMoney
                      ELSE Suffix[i + 1] + book[i].amount
    BY <1>7 DEF SuffixSteps
<1>9. Bad = {}
    <2> SUFFICES ASSUME Bad # {} PROVE FALSE
        OBVIOUS
    <2>1. PICK k \in Bad : \A m \in Bad : k <= m
        <3>1. Bad \subseteq Nat
            BY <1>1
        <3> HIDE DEF Bad
        <3> QED
            BY <3>1, LeastNatural
    <2>2. k \in 0..N /\ Suffix[N + 1 - k] # sat[N + 1 - k]
        BY <2>1
    <2>3. k # 0
        BY <1>1, <1>5, <1>8, <2>2
    <2>4. k - 1 \in 0..N /\ k - 1 \notin Bad
        BY <1>1, <2>1, <2>2, <2>3
    <2>5. Suffix[N + 2 - k] = sat[N + 2 - k]
        <3>1. N + 1 - (k - 1) = N + 2 - k
            BY <1>1, <2>2
        <3> QED
            BY <2>4, <3>1
    <2> DEFINE i == N + 1 - k
    <2>6. i \in 1..N /\ i + 1 = N + 2 - k /\ i # N + 1 /\ i \in 1..(N + 1)
        BY <1>1, <2>2, <2>3
    <2> HIDE DEF i, sat, Bad
    <2>7. Suffix[i] = sat[i]
        BY <1>5, <1>8, <2>5, <2>6
    <2> QED
        BY <2>2, <2>7 DEF i
<1>10. ASSUME NEW i \in 1..(N + 1)
       PROVE  Suffix[i] = sat[i]
    <2>1. N + 1 - i \in 0..N /\ N + 1 - (N + 1 - i) = i
        BY <1>1
    <2> QED
        BY <1>9, <2>1
<1> QED
    BY <1>4, <1>10

\* Where the search turns back, nothing fits: the saturation never hides a set,
\* because no target is beyond the limit.
LEMMA NothingInDeadEnd ==
    ASSUME Candidates, NEW i \in 1..(N + 1), NEW r \in Int, r <= target, r # 0,
           DeadEnd(Suffix, i, r)
    PROVE  Fit(i, r) = {}
<1> SUFFICES ASSUME NEW S \in SUBSET (i..N), SumAmounts(S) = r PROVE FALSE
    BY DEF Fit
<1>1. N \in Nat /\ MaxMoney \in Nat /\ target <= MaxMoney /\ target \in Nat
    BY LimitsAssumption DEF Candidates
<1>2. i..N \in SUBSET Ids /\ SumAmounts(i..N) \in Nat
    BY Tails
<1>3. S \in SUBSET Ids /\ SumAmounts(S) \in Nat /\ SumAmounts(S) <= SumAmounts(i..N)
    BY <1>2, SetFacts
<1>4. CASE i = N + 1
    <2>1. i..N = {}
        BY <1>1, <1>4
    <2>2. S = {}
        BY <2>1
    <2> QED
        BY <2>2, SetFacts
<1>5. CASE r < 0
    BY <1>3, <1>5
<1>6. CASE Suffix[i] < r
    <2>1. Saturated(SumAmounts(i..N)) < r
        BY <1>6, SuffixMeaning
    <2> QED
        BY <1>1, <1>2, <1>3, <2>1 DEF Saturated
<1> QED
    BY <1>4, <1>5, <1>6 DEF DeadEnd

-----------------------------------------------------------------------------
(* The sets in the order they are found *)

\* The set found first.
Best(F) == CHOOSE S : Leads(S, F)

\* It is the only one before all others.
LEMMA BestLeads ==
    ASSUME Ranked, NEW F, F \subseteq SUBSET Ids
    PROVE  /\ \A S : Leads(S, F) => Best(F) = S
           /\ IsFiniteSet(F) /\ F # {} => Leads(Best(F), F)
<1>1. ASSUME NEW S, NEW T, Leads(S, F), Leads(T, F)
      PROVE  S = T
    BY <1>1, FoundApart DEF Leads
<1>2. ASSUME NEW S, Leads(S, F)
      PROVE  Best(F) = S /\ Leads(Best(F), F)
    BY <1>1, <1>2 DEF Best
<1> QED
    BY <1>2, OneLeads

\* The sets of T, with candidate i.
With(i, T) == {S \cup {i} : S \in T}

\* A set that fits takes candidate i, or does not.
LEMMA FitSplits ==
    ASSUME Candidates, NEW i \in 1..N, NEW r \in Int
    PROVE  Fit(i, r) = With(i, Fit(i + 1, r - book[i].amount)) \cup Fit(i + 1, r)
<1>1. N \in Nat /\ Ids = 1..N /\ book[i].amount \in Nat
    BY LimitsAssumption DEF Candidates
<1>2. i..N = ((i + 1)..N) \cup {i} /\ i \notin (i + 1)..N
    BY <1>1
<1>3. (i + 1)..N \subseteq Ids /\ i \in Ids
    BY <1>1
<1>4. ASSUME NEW S \in SUBSET ((i + 1)..N)
      PROVE  /\ SumAmounts(S) \in Nat
             /\ SumAmounts(S \cup {i}) = book[i].amount + SumAmounts(S)
    <2>1. S \in SUBSET Ids /\ i \in Ids \ S
        BY <1>2, <1>3
    <2> QED
        BY <2>1, SetFacts
<1>5. ASSUME NEW S \in Fit(i, r), i \in S
      PROVE  S \in With(i, Fit(i + 1, r - book[i].amount))
    <2>1. S \ {i} \in SUBSET ((i + 1)..N) /\ (S \ {i}) \cup {i} = S
        BY <1>2, <1>5 DEF Fit
    <2>2. SumAmounts(S) = r
        BY DEF Fit
    <2>3. SumAmounts(S \ {i}) = r - book[i].amount
        BY <1>1, <1>4, <2>1, <2>2
    <2> QED
        BY <2>1, <2>3 DEF Fit, With
<1>6. ASSUME NEW S \in Fit(i, r), i \notin S
      PROVE  S \in Fit(i + 1, r)
    BY <1>2, <1>6 DEF Fit
<1>7. ASSUME NEW S \in Fit(i + 1, r - book[i].amount)
      PROVE  S \cup {i} \in Fit(i, r)
    BY <1>1, <1>2, <1>4 DEF Fit
<1>8. Fit(i + 1, r) \subseteq Fit(i, r)
    BY <1>2 DEF Fit
<1> QED
    BY <1>5, <1>6, <1>7, <1>8 DEF With

\* The first of the sets that take candidate i or are in K is the first of T,
\* with i; the rest is what it leaves of T, with i, and K.
TakenFirst(i, T, K) ==
    /\ Best(With(i, T) \cup K) = Best(T) \cup {i}
    /\ (With(i, T) \cup K) \ {Best(T) \cup {i}} = With(i, T \ {Best(T)}) \cup K
    /\ With(i, T) \cup K # {}

\* Sets that take candidate i are found before those that skip it, in the
\* order of what they take besides.
LEMMA BestWith ==
    ASSUME NEW i \in 1..N, NEW T, NEW K, Candidates,
           T \subseteq SUBSET ((i + 1)..N), K \subseteq SUBSET ((i + 1)..N),
           T # {}
    PROVE  TakenFirst(i, T, K)
<1>1. N \in Nat /\ Ids = 1..N /\ \A j \in Ids : rank[j] = j
    BY DEF Candidates
<1>2. (i + 1)..N \subseteq Ids /\ i \in Ids /\ i \notin (i + 1)..N
    BY <1>1
<1>3. T \subseteq SUBSET Ids /\ With(i, T) \cup K \subseteq SUBSET Ids /\ Ranked
    <2>1. \A V \in T \cup K : V \in SUBSET Ids
        BY <1>2
    <2>2. ASSUME NEW V \in With(i, T)
          PROVE  V \in SUBSET Ids
        <3>1. PICK S \in T : V = S \cup {i}
            BY DEF With
        <3> QED
            BY <1>2, <2>1, <3>1
    <2> QED
        BY <2>1, <2>2, SetFacts
<1>4. IsFiniteSet(T)
    BY <1>3, SetFacts, FS_Subset
<1> DEFINE S == Best(T)
<1>5. Leads(S, T) /\ S \in T
    BY <1>3, <1>4, BestLeads DEF Leads
<1> HIDE DEF S
<1>6. ASSUME NEW U \in K
      PROVE  FoundBefore(S \cup {i}, U)
    <2>1. i \in (S \cup {i}) \ U
        BY <1>2
    <2>2. ASSUME NEW j \in ((S \cup {i}) \ U) \cup (U \ (S \cup {i}))
          PROVE  rank[i] <= rank[j]
        <3>1. j = i \/ j \in (i + 1)..N
            BY <1>5
        <3> QED
            BY <1>1, <1>2, <3>1
    <2> QED
        BY <2>1, <2>2 DEF FoundBefore
<1>7. ASSUME NEW V \in T, V # S
      PROVE  FoundBefore(S \cup {i}, V \cup {i})
    <2>1. FoundBefore(S, V)
        BY <1>5, <1>7 DEF Leads
    <2>2. PICK k \in S \ V : \A j \in (S \ V) \cup (V \ S) : rank[k] <= rank[j]
        BY <2>1 DEF FoundBefore
    <2>3. k # i
        BY <1>2, <1>5, <2>2
    <2>4. k \in (S \cup {i}) \ (V \cup {i})
        BY <2>2, <2>3
    <2>5. ((S \cup {i}) \ (V \cup {i})) \cup ((V \cup {i}) \ (S \cup {i}))
              \subseteq (S \ V) \cup (V \ S)
        OBVIOUS
    <2> QED
        BY <2>2, <2>4, <2>5 DEF FoundBefore
<1>8. Leads(S \cup {i}, With(i, T) \cup K)
    <2>1. S \cup {i} \in With(i, T)
        BY <1>5 DEF With
    <2>2. ASSUME NEW U \in (With(i, T) \cup K) \ {S \cup {i}}
          PROVE  FoundBefore(S \cup {i}, U)
        <3>1. CASE U \in K
            BY <1>6, <3>1
        <3>2. CASE U \in With(i, T)
            <4>1. PICK V \in T : U = V \cup {i}
                BY <3>2 DEF With
            <4> QED
                BY <1>7, <4>1
        <3> QED
            BY <3>1, <3>2
    <2> QED
        BY <2>1, <2>2 DEF Leads
<1>9. Best(With(i, T) \cup K) = S \cup {i}
    BY <1>3, <1>8, BestLeads
<1>10. (With(i, T) \cup K) \ {S \cup {i}} = With(i, T \ {S}) \cup K
    <2>1. \A U \in K : i \notin U
        BY <1>2
    <2>2. \A V \in T : V \cup {i} = S \cup {i} => V = S
        <3>1. \A V \in T : i \notin V
            BY <1>2
        <3>2. i \notin S
            BY <1>5, <3>1
        <3>3. ASSUME NEW V \in T, V \cup {i} = S \cup {i}
              PROVE  V = S
            <4>1. V = (V \cup {i}) \ {i} /\ S = (S \cup {i}) \ {i}
                BY <3>1, <3>2
            <4> QED
                BY <3>3, <4>1
        <3> QED
            BY <3>3
    <2>3. (With(i, T) \cup K) \ {S \cup {i}} \subseteq With(i, T \ {S}) \cup K
        BY DEF With
    <2>4. With(i, T \ {S}) \cup K \subseteq (With(i, T) \cup K) \ {S \cup {i}}
        BY <2>1, <2>2 DEF With
    <2> QED
        BY <2>3, <2>4
<1>11. With(i, T) \cup K # {}
    BY <1>8 DEF Leads
<1> QED
    BY <1>9, <1>10, <1>11 DEF S, TakenFirst

-----------------------------------------------------------------------------
(* What walk returns *)

\* The sets found after sets, when the sets F of undecided candidates fit what
\* is left beside the candidates of pick.
Listed(sets, pick, F) ==
    IF F = {} THEN sets
    ELSE IF Len(sets) = 1 \/ F = {Best(F)} THEN Append(sets, pick \cup Best(F))
    ELSE <<pick \cup Best(F), pick \cup Best(F \ {Best(F)})>>

\* Fewer than two sets.
FewerThanTwo(sets) == sets = <<>> \/ \E S \in SUBSET Ids : sets = <<S>>

\* A short sequence is a list of none or one.
LEMMA ShortSequence ==
    ASSUME NEW q \in Seq(SUBSET Ids)
    PROVE  Len(q) < 2 <=> FewerThanTwo(q)
<1>1. Len(q) \in Nat /\ DOMAIN q = 1..Len(q)
    OBVIOUS
<1>2. CASE Len(q) = 0
    <2>1. q = <<>>
        BY <1>2, EmptySeq
    <2> QED
        BY <1>2, <2>1 DEF FewerThanTwo
<1>3. CASE Len(q) = 1
    <2>1. q[1] \in SUBSET Ids
        BY <1>3, ElementOfSeq
    <2>2. <<q[1]>> \in Seq(SUBSET Ids) /\ Len(<<q[1]>>) = 1
        BY <2>1
    <2>3. q = <<q[1]>>
        BY <1>3, <2>2, SeqEqual
    <2> QED
        BY <1>3, <2>1, <2>3 DEF FewerThanTwo
<1>4. CASE Len(q) > 1
    <2>1. Len(<<>>) = 0 /\ \A S \in SUBSET Ids : Len(<<S>>) = 1
        OBVIOUS
    <2> QED
        BY <1>1, <1>4, <2>1 DEF FewerThanTwo
<1> QED
    BY <1>1, <1>2, <1>3, <1>4

\* Appending to a short list.
LEMMA Lists ==
    ASSUME NEW a, NEW b
    PROVE  /\ Append(<<>>, a) = <<a>> /\ Append(<<a>>, b) = <<a, b>>
           /\ Len(<<>>) = 0 /\ Len(<<a>>) = 1 /\ Len(<<a, b>>) = 2
<1> DEFINE A == {a, b}
<1>1. a \in A /\ b \in A
    OBVIOUS
<1> HIDE DEF A
<1>2. /\ <<>> \in Seq(A) /\ Len(<<>>) = 0
      /\ <<a>> \in Seq(A) /\ Len(<<a>>) = 1 /\ <<a>>[1] = a
      /\ <<a, b>> \in Seq(A) /\ Len(<<a, b>>) = 2
      /\ <<a, b>>[1] = a /\ <<a, b>>[2] = b
    BY <1>1
<1>3. Append(<<>>, a) = <<a>>
    BY <1>1
<1>4. /\ Append(<<a>>, b) \in Seq(A) /\ Len(Append(<<a>>, b)) = 2
      /\ Append(<<a>>, b)[1] = a /\ Append(<<a>>, b)[2] = b
    BY <1>1, <1>2
<1>5. \A k \in 1..2 : Append(<<a>>, b)[k] = <<a, b>>[k]
    BY <1>2, <1>4
<1> QED
    BY <1>2, <1>3, <1>4, <1>5, SeqEqual

\* Either the search stops with both sets found when candidate i was taken, or
\* it goes on to the sets K that skip it.
StopsOrGoesOn(taken, both, pick, K) ==
    \/ Len(taken) = 2 /\ both = taken
    \/ FewerThanTwo(taken) /\ both = Listed(taken, pick, K)

\* Candidate i is taken, then skipped: T are the sets that fit what is left
\* beside it, K those that fit without it.
LEMMA ListedStep ==
    ASSUME NEW i \in 1..N, NEW T, NEW K, NEW sets, NEW pick \in SUBSET Ids,
           NEW taken, NEW both, Candidates, FewerThanTwo(sets),
           T \subseteq SUBSET ((i + 1)..N), K \subseteq SUBSET ((i + 1)..N),
           taken = Listed(sets, pick \cup {i}, T),
           both = Listed(sets, pick, With(i, T) \cup K)
    PROVE  StopsOrGoesOn(taken, both, pick, K)
<1> SUFFICES \/ Len(taken) = 2 /\ both = taken
             \/ FewerThanTwo(taken) /\ both = Listed(taken, pick, K)
    BY DEF StopsOrGoesOn
<1>1. CASE T = {}
    <2>1. taken = sets
        BY <1>1 DEF Listed
    <2>2. With(i, T) \cup K = K
        BY <1>1 DEF With
    <2> QED
        BY <2>1, <2>2
<1>2. CASE T # {}
    <2> DEFINE F == With(i, T) \cup K
               S == Best(T)
               R == T \ {S}
               rest == With(i, R) \cup K
               put == pick \cup (S \cup {i})
    <2>0. R \subseteq SUBSET ((i + 1)..N)
        OBVIOUS
    <2>1. Best(F) = S \cup {i} /\ F \ {S \cup {i}} = rest /\ F # {}
        <3> HIDE DEF F, S, R, rest, put
        <3>1. TakenFirst(i, T, K)
            BY <1>2, BestWith, Zenon
        <3> QED
            BY <3>1 DEF TakenFirst, F, S, R, rest
    <2>2. S \in T /\ S \in SUBSET Ids /\ i \in Ids
        <3>1. (i + 1)..N \subseteq Ids /\ i \in Ids
            BY DEF Candidates
        <3>2. T \subseteq SUBSET Ids
            BY <3>1
        <3>3. IsFiniteSet(T)
            BY <3>2, SetFacts, FS_Subset
        <3>4. Leads(S, T)
            BY <1>2, <3>2, <3>3, SetFacts, BestLeads
        <3> QED
            BY <3>1, <3>2, <3>4 DEF Leads
    <2>3. S \cup {i} \in F
        BY <2>2 DEF With
    <2>4. rest = {} <=> R = {} /\ K = {}
        <3>1. \A V \in R : V \cup {i} \in With(i, R)
            BY DEF With
        <3>2. R = {} => With(i, R) = {}
            BY DEF With
        <3> HIDE DEF R, rest
        <3>3. With(i, R) = {} <=> R = {}
            BY <3>1, <3>2
        <3> QED
            BY <3>3 DEF rest
    <2>5. put = (pick \cup {i}) \cup S /\ put \in SUBSET Ids
        BY <2>2
    <2>6. T = {S} <=> R = {}
        BY <2>2
    <2>7. R # {} => Best(rest) = Best(R) \cup {i}
        <3> SUFFICES ASSUME R # {} PROVE Best(With(i, R) \cup K) = Best(R) \cup {i}
            OBVIOUS
        <3> HIDE DEF R
        <3>1. TakenFirst(i, R, K)
            BY <2>0, BestWith, Zenon
        <3> QED
            BY <3>1 DEF TakenFirst
    <2>8. R = {} => rest = K
        BY DEF With
    <2> HIDE DEF F, S, R, rest
    <2>9. F = {Best(F)} <=> rest = {}
        BY <2>1, <2>3
    <2>10. /\ F # {} /\ pick \cup Best(F) = put
           /\ F \ {Best(F)} = rest /\ T \ {S} = R /\ Best(T) = S
        BY <2>1 DEF R, S
    <2>11. Len(sets) = 1 \/ R = {} => taken = Append(sets, put)
        BY <1>2, <2>5, <2>6, <2>10 DEF Listed
    <2>12. Len(sets) # 1 /\ R # {}
               => taken = <<put, (pick \cup {i}) \cup Best(R)>>
        BY <1>2, <2>5, <2>6, <2>10 DEF Listed
    <2>13. Len(sets) = 1 \/ rest = {} => both = Append(sets, put)
        BY <2>9, <2>10 DEF Listed, F
    <2>14. Len(sets) # 1 /\ rest # {} => both = <<put, pick \cup Best(rest)>>
        BY <2>9, <2>10 DEF Listed, F
    <2>15. R # {} => (pick \cup {i}) \cup Best(R) = pick \cup Best(rest)
        BY <2>7
    <2> HIDE DEF put
    <2>16. CASE sets # <<>>
        <3>1. PICK X \in SUBSET Ids : sets = <<X>>
            BY <2>16 DEF FewerThanTwo
        <3>2. Len(sets) = 1 /\ Append(sets, put) = <<X, put>>
            BY <3>1, Lists
        <3>3. both = <<X, put>> /\ taken = <<X, put>>
            BY <2>11, <2>13, <3>2
        <3> QED
            BY <3>3, Lists
    <2>17. CASE sets = <<>> /\ R = {}
        <3>1. Len(sets) # 1 /\ Append(sets, put) = <<put>>
            BY <2>17, Lists
        <3>2. taken = <<put>> /\ Len(taken) = 1
            BY <2>11, <2>17, <3>1, Lists
        <3>3. FewerThanTwo(taken)
            BY <2>5, <3>2 DEF FewerThanTwo
        <3>4. CASE K = {}
            <4>1. both = <<put>>
                BY <2>4, <2>13, <2>17, <3>1, <3>4
            <4> QED
                BY <3>2, <3>3, <3>4, <4>1 DEF Listed
        <3>5. CASE K # {}
            <4>1. both = <<put, pick \cup Best(K)>>
                BY <2>4, <2>8, <2>14, <2>17, <3>1, <3>5
            <4>2. Listed(taken, pick, K) = Append(taken, pick \cup Best(K))
                BY <3>2, <3>5 DEF Listed
            <4>3. Append(taken, pick \cup Best(K)) = <<put, pick \cup Best(K)>>
                BY <3>2, Lists
            <4> QED
                BY <3>3, <4>1, <4>2, <4>3
        <3> QED
            BY <3>4, <3>5
    <2>18. CASE sets = <<>> /\ R # {}
        <3>1. Len(sets) # 1
            BY <2>18, Lists
        <3>2. taken = both /\ taken = <<put, pick \cup Best(rest)>>
            BY <2>4, <2>12, <2>14, <2>15, <2>18, <3>1
        <3> QED
            BY <3>2, Lists
    <2> QED
        BY <2>16, <2>17, <2>18
<1> QED
    BY <1>1, <1>2

-----------------------------------------------------------------------------
(* What walk computes *)

\* What a call holds.
LEMMA CallTypes ==
    ASSUME NEW call \in Calls
    PROVE  /\ call.remaining \in Int /\ call.remaining <= target
           /\ call.pick \in SUBSET Ids /\ FewerThanTwo(call.sets)
<1>1. /\ call.remaining \in {r \in Int : r <= target}
      /\ call.pick \in SUBSET Ids
      /\ call.sets \in {q \in Seq(SUBSET Ids) : Len(q) < 2}
    BY DEF Calls
<1> QED
    BY <1>1, ShortSequence

\* What makes a call.
LEMMA CallMade ==
    ASSUME NEW r \in Int, NEW pick \in SUBSET Ids, NEW sets,
           r <= target, FewerThanTwo(sets)
    PROVE  [remaining |-> r, pick |-> pick, sets |-> sets] \in Calls
<1>1. sets \in Seq(SUBSET Ids)
    <2> DEFINE A == SUBSET Ids
    <2>1. <<>> \in Seq(A) /\ \A S \in A : <<S>> \in Seq(A)
        <3> HIDE DEF A
        <3> QED
            OBVIOUS
    <2>2. sets = <<>> \/ \E S \in A : sets = <<S>>
        BY DEF FewerThanTwo
    <2> HIDE DEF A
    <2>3. sets \in Seq(A)
        BY <2>1, <2>2, Zenon
    <2> QED
        BY <2>3 DEF A
<1>2. Len(sets) < 2
    BY <1>1, ShortSequence
<1>3. /\ r \in {x \in Int : x <= target}
      /\ sets \in {q \in Seq(SUBSET Ids) : Len(q) < 2}
    BY <1>1, <1>2
<1> QED
    BY <1>3 DEF Calls

\* The body of walk at candidate i, when next is what walk is from the next
\* candidate on.
Body(i, next, call) ==
    IF call.remaining = 0 THEN Append(call.sets, call.pick)
    ELSE IF DeadEnd(Suffix, i, call.remaining) THEN call.sets
    ELSE LET taken == next[[remaining |-> call.remaining - book[i].amount,
                            pick |-> call.pick \cup {i}, sets |-> call.sets]]
         IN  IF Len(taken) = 2 THEN taken
             ELSE next[[call EXCEPT !.sets = taken]]

\* g satisfies the recursion of walk.
WalkSteps(g) ==
    g = [i \in 1..(N + 1) |-> [call \in Calls |-> Body(i, g[i + 1], call)]]

\* If any function does, Walk does.
LEMMA WalkRead ==
    ASSUME NEW g, WalkSteps(g)
    PROVE  WalkSteps(Walk(Suffix))
BY Zenon DEF WalkSteps, Body, Walk

\* What walk returns for a call from candidate i on.
Value(i, call) == Listed(call.sets, call.pick, Fit(i, call.remaining))

\* Nothing is left to be found: the set of no more candidates fits.
LEMMA NothingLeft ==
    ASSUME NEW i \in 1..(N + 1), NEW sets, NEW pick, Candidates
    PROVE  Listed(sets, pick, Fit(i, 0)) = Append(sets, pick)
<1> DEFINE F == Fit(i, 0)
<1>1. i..N \in SUBSET Ids
    BY Tails
<1>2. {} \in F
    BY SetFacts DEF Fit
<1>3. \A S \in F : S = {}
    BY <1>1, NothingFitsZero DEF Fit
<1> HIDE DEF F
<1>4. F = {{}} /\ F \subseteq SUBSET Ids /\ IsFiniteSet(F)
    <2>1. F = {{}} /\ F \subseteq SUBSET Ids
        BY <1>2, <1>3
    <2> QED
        BY <2>1, FS_Singleton
<1>5. Leads(Best(F), F)
    BY <1>2, <1>4, SetFacts, BestLeads
<1>6. Best(F) = {}
    BY <1>4, <1>5 DEF Leads
<1>7. Listed(sets, pick, F) = Append(sets, pick \cup {})
    BY <1>4, <1>6 DEF Listed
<1>8. pick \cup {} = pick
    OBVIOUS
<1> QED
    BY <1>7, <1>8 DEF F

\* The body computes that value when the rest of walk does.
LEMMA ValueStep ==
    ASSUME NEW i \in 1..(N + 1), NEW next, NEW call \in Calls, Candidates,
           i # N + 1 => \A c \in Calls : next[c] = Value(i + 1, c)
    PROVE  Body(i, next, call) = Value(i, call)
<1> DEFINE r == call.remaining
           sets == call.sets
           pick == call.pick
<1>1. /\ r \in Int /\ r <= target /\ pick \in SUBSET Ids /\ FewerThanTwo(sets)
    BY CallTypes
<1>2. CASE r = 0
    <2>1. Value(i, call) = Append(sets, pick)
        BY <1>2, NothingLeft DEF Value
    <2> QED
        BY <1>2, <2>1 DEF Body
<1>3. CASE r # 0 /\ DeadEnd(Suffix, i, r)
    <2>1. Fit(i, r) = {}
        BY <1>1, <1>3, NothingInDeadEnd
    <2> QED
        BY <1>3, <2>1 DEF Body, Value, Listed
<1>4. CASE r # 0 /\ ~DeadEnd(Suffix, i, r)
    <2> DEFINE amount == book[i].amount
               T == Fit(i + 1, r - amount)
               K == Fit(i + 1, r)
               left == [remaining |-> r - amount, pick |-> pick \cup {i},
                        sets |-> sets]
               taken == next[left]
               skip == [call EXCEPT !.sets = taken]
    <2>1. N \in Nat /\ i \in 1..N /\ i + 1 \in 1..(N + 1) /\ i \in Ids
        BY <1>4 DEF Candidates, DeadEnd
    <2>2. amount \in Nat
        BY <2>1, LimitsAssumption DEF Candidates
    <2>3. r - amount \in Int /\ r - amount <= target /\ target \in Int
        <3>1. target \in Int
            BY LimitsAssumption DEF Candidates
        <3> HIDE DEF r, amount
        <3> QED
            BY <1>1, <2>2, <3>1
    <2>4. left \in Calls
        <3>1. pick \cup {i} \in SUBSET Ids
            BY <1>1, <2>1
        <3> HIDE DEF r, amount, pick, sets
        <3> QED
            BY <1>1, <2>3, <3>1, CallMade
    <2>5. taken = Listed(sets, pick \cup {i}, T)
        <3>1. i # N + 1
            BY <2>1
        <3>2. taken = Value(i + 1, left)
            BY <2>4, <3>1
        <3>3. Value(i + 1, left) = Listed(sets, pick \cup {i}, T)
            BY DEF Value
        <3> QED
            BY <3>2, <3>3
    <2>6. Value(i, call) = Listed(sets, pick, With(i, T) \cup K)
        <3>1. Fit(i, r) = With(i, T) \cup K
            BY <1>1, <2>1, FitSplits
        <3> QED
            BY <3>1 DEF Value
    <2>7. T \subseteq SUBSET ((i + 1)..N) /\ K \subseteq SUBSET ((i + 1)..N)
        BY DEF Fit
    <2>8. Body(i, next, call)
              = IF Len(taken) = 2 THEN taken ELSE next[skip]
        BY <1>4 DEF Body
    <2>9. \/ Len(taken) = 2 /\ Value(i, call) = taken
          \/ FewerThanTwo(taken) /\ Value(i, call) = Listed(taken, pick, K)
        <3> DEFINE both == Value(i, call)
        <3>1. both = Listed(sets, pick, With(i, T) \cup K)
            BY <2>6
        <3> HIDE DEF T, K, taken, both, sets, pick, r, amount, left, skip
        <3>2. StopsOrGoesOn(taken, both, pick, K)
            BY <1>1, <2>1, <2>5, <2>7, <3>1, ListedStep, Zenon
        <3> QED
            BY <3>2 DEF both, StopsOrGoesOn
    <2>10. ASSUME FewerThanTwo(taken)
           PROVE  Len(taken) # 2 /\ next[skip] = Listed(taken, pick, K)
        <3>1. Len(taken) # 2
            <4> HIDE DEF taken
            <4>1. taken = <<>> \/ \E S : taken = <<S>>
                BY <2>10 DEF FewerThanTwo
            <4> QED
                BY <4>1, Lists
        <3>2. skip = [remaining |-> r, pick |-> pick, sets |-> taken]
            BY DEF Calls
        <3>3. skip \in Calls
            <4> HIDE DEF r, pick, taken, skip
            <4> QED
                BY <1>1, <2>10, <3>2, CallMade
        <3>4. next[skip] = Value(i + 1, skip)
            BY <2>1, <3>3
        <3>5. Value(i + 1, skip) = Listed(taken, pick, K)
            <4> HIDE DEF taken, skip
            <4> QED
                BY <3>2 DEF Value
        <3> QED
            BY <3>1, <3>4, <3>5
    <2> HIDE DEF taken, skip, T, K
    <2> QED
        BY <2>8, <2>9, <2>10
<1> QED
    BY <1>2, <1>3, <1>4

\* walk returns that value, from every candidate on.
LEMMA WalkMeaning ==
    ASSUME Candidates
    PROVE  \A i \in 1..(N + 1) : \A call \in Calls :
               Walk(Suffix)[i][call] = Value(i, call)
<1> DEFINE D == 1..(N + 1)
           values == [i \in D |-> [call \in Calls |-> Value(i, call)]]
           walk == Walk(Suffix)
<1>1. N \in Nat
    BY DEF Candidates
<1>2. \A i \in D : i # N + 1 => i + 1 \in D
    BY <1>1
<1>3. ASSUME NEW i \in D, NEW call \in Calls
      PROVE  Body(i, values[i + 1], call) = Value(i, call)
    <2>1. i # N + 1 => \A c \in Calls : values[i + 1][c] = Value(i + 1, c)
        BY <1>2
    <2> HIDE DEF values
    <2> QED
        BY <2>1, ValueStep
<1>4. WalkSteps(values)
    BY <1>3 DEF WalkSteps
<1>5. WalkSteps(walk)
    BY <1>4, WalkRead
<1>6. \A i \in D : \A call \in Calls :
          walk[i][call] = Body(i, walk[i + 1], call)
    <2> HIDE DEF walk
    <2>1. walk = [i \in D |-> [call \in Calls |-> Body(i, walk[i + 1], call)]]
        BY <1>5 DEF WalkSteps
    <2>2. \A i \in D :
              walk[i] = [call \in Calls |-> Body(i, walk[i + 1], call)]
        BY <2>1, Zenon
    <2> QED
        BY <2>2
<1> DEFINE Right(i) == \A call \in Calls : walk[i][call] = Value(i, call)
           Bad == {k \in 0..N : ~Right(N + 1 - k)}
<1>7. ASSUME NEW i \in D, i # N + 1 => Right(i + 1)
      PROVE  Right(i)
    <2> SUFFICES ASSUME NEW call \in Calls
                 PROVE  walk[i][call] = Value(i, call)
        OBVIOUS
    <2> DEFINE next == walk[i + 1]
    <2>1. i # N + 1 => \A c \in Calls : next[c] = Value(i + 1, c)
        BY <1>7
    <2>2. walk[i][call] = Body(i, next, call)
        BY <1>6
    <2> HIDE DEF next, walk
    <2>3. Body(i, next, call) = Value(i, call)
        BY <2>1, ValueStep
    <2> QED
        BY <2>2, <2>3
<1> HIDE DEF Right
<1>8. Bad = {}
    <2> SUFFICES ASSUME Bad # {} PROVE FALSE
        OBVIOUS
    <2>1. PICK k \in Bad : \A m \in Bad : k <= m
        <3>1. Bad \subseteq Nat
            BY <1>1
        <3> HIDE DEF Bad
        <3> QED
            BY <3>1, LeastNatural
    <2>2. k \in 0..N /\ N + 1 - k \in D
        BY <1>1, <2>1
    <2>3. N + 1 - k # N + 1 => Right((N + 1 - k) + 1)
        <3> SUFFICES ASSUME k # 0 PROVE Right((N + 1 - k) + 1)
            BY <1>1, <2>2
        <3>1. k - 1 \in 0..N /\ ~(k <= k - 1)
            BY <1>1, <2>2
        <3>2. N + 1 - (k - 1) = (N + 1 - k) + 1
            BY <1>1, <2>2
        <3>3. Right(N + 1 - (k - 1))
            BY <2>1, <3>1
        <3> QED
            BY <3>2, <3>3
    <2>4. Right(N + 1 - k)
        BY <1>7, <2>2, <2>3
    <2> QED
        BY <2>1, <2>4
<1>9. ASSUME NEW i \in D
      PROVE  Right(i)
    <2>1. N + 1 - i \in 0..N /\ N + 1 - (N + 1 - i) = i
        BY <1>1
    <2> QED
        BY <1>8, <2>1
<1> QED
    BY <1>9 DEF Right

-----------------------------------------------------------------------------
(* The search *)

\* A search from the first candidate finds the first two sets that fit.
LEMMA SearchMeaning ==
    ASSUME Candidates
    PROVE  LET all == Walk(Suffix)[1][[remaining |-> target, pick |-> {},
                                       sets |-> <<>>]]
               rest == Fitting \ {FirstFound(Fitting)}
           IN  all = IF Fitting = {} THEN <<>>
                     ELSE IF rest = {} THEN <<FirstFound(Fitting)>>
                     ELSE <<FirstFound(Fitting), FirstFound(rest)>>
<1> DEFINE first == [remaining |-> target, pick |-> {}, sets |-> <<>>]
           all == Walk(Suffix)[1][first]
           rest == Fitting \ {FirstFound(Fitting)}
<1>1. N \in Nat /\ Ids = 1..N /\ target \in Int
    BY LimitsAssumption DEF Candidates
<1>2. first \in Calls
    <2>1. {} \in SUBSET Ids /\ FewerThanTwo(<<>>) /\ target <= target
        BY <1>1 DEF FewerThanTwo
    <2> QED
        BY <1>1, <2>1, CallMade
<1>3. Fitting = Fit(1, target)
    BY <1>1 DEF Fitting, Fit
<1>4. all = Listed(<<>>, {}, Fitting)
    <2>1. 1 \in 1..(N + 1)
        BY <1>1
    <2>2. all = Value(1, first)
        BY <1>2, <2>1, WalkMeaning
    <2> QED
        BY <1>3, <2>2 DEF Value
<1>5. ASSUME NEW F, F \subseteq Fitting, F # {}
      PROVE  Best(F) = FirstFound(F) /\ Best(F) \in F
    <2>1. F \subseteq SUBSET Ids
        BY <1>5 DEF Fitting
    <2>2. IsFiniteSet(F) /\ Ranked
        BY <2>1, SetFacts, FS_Subset
    <2>3. Leads(Best(F), F)
        BY <1>5, <2>1, <2>2, BestLeads
    <2>4. FirstFound(F) = Best(F)
        BY <2>1, <2>2, <2>3, LeaderIsFirst
    <2> QED
        BY <2>3, <2>4 DEF Leads
<1>6. CASE Fitting = {}
    BY <1>4, <1>6 DEF Listed
<1>7. CASE Fitting # {}
    <2>1. Best(Fitting) = FirstFound(Fitting) /\ Best(Fitting) \in Fitting
        BY <1>5, <1>7
    <2>2. Fitting = {Best(Fitting)} <=> rest = {}
        BY <2>1
    <2>3. Len(<<>>) # 1 /\ \A S : Append(<<>>, {} \cup S) = <<S>>
        <3>1. \A S : {} \cup S = S
            OBVIOUS
        <3> QED
            BY <3>1, Lists
    <2>4. CASE rest = {}
        BY <1>4, <1>7, <2>1, <2>2, <2>3, <2>4 DEF Listed
    <2>5. CASE rest # {}
        <3>1. Best(rest) = FirstFound(rest)
            BY <1>5, <2>5
        <3>2. rest = Fitting \ {Best(Fitting)}
            BY <2>1
        <3> HIDE DEF rest
        <3>3. all = <<{} \cup Best(Fitting), {} \cup Best(rest)>>
            BY <1>4, <1>7, <2>2, <2>3, <2>5, <3>2 DEF Listed
        <3> QED
            BY <1>7, <2>1, <2>5, <3>1, <3>3 DEF rest
    <2> QED
        BY <2>4, <2>5
<1> QED
    BY <1>6, <1>7

\* The candidates are as MatchGroups hands them over, and what was returned
\* is what fits.
SearchInv == Candidates /\ FindsTheFirstTwo

\* A search starts with candidates, and has not returned.
LEMMA SearchInit ==
    ASSUME Init
    PROVE  SearchInv
<1>1. PICK n \in 0..MaxCandidates :
          \E a \in [1..n -> Amounts] :
              /\ book = [i \in 1..n |-> Order(a[i])]
              /\ rank = [i \in 1..n |-> i]
    BY DEF Init
<1>2. PICK a \in [1..n -> Amounts] :
          /\ book = [i \in 1..n |-> Order(a[i])]
          /\ rank = [i \in 1..n |-> i]
    BY <1>1
<1>3. n \in Nat
    BY SearchAssumption
<1>4. Ids = 1..n
    BY <1>2 DEF Ids
<1>5. Cardinality(1..n) = n
    BY <1>3, FS_Interval
<1>6. N = n
    BY <1>4, <1>5 DEF N
<1>7. \A i \in 1..n : book[i].amount = a[i] /\ rank[i] = i
    BY <1>2 DEF Order
<1>8. \A i \in 1..n : a[i] \in 1..MaxMoney
    BY SearchAssumption
<1>9. target \in 1..MaxMoney
    BY SearchAssumption DEF Init
<1>10. ~returned
    BY DEF Init
<1> QED
    BY <1>3, <1>4, <1>6, <1>7, <1>8, <1>9, <1>10
    DEF SearchInv, Candidates, FindsTheFirstTwo

\* A search keeps the candidates and returns what fits.
LEMMA SearchNext ==
    ASSUME SearchInv, [Next]_vars
    PROVE  SearchInv'
<1>1. UNCHANGED <<book, rank, target>>
    BY DEF Next, Search, Returned, vars
<1>2. Candidates'
    BY <1>1 DEF SearchInv, Candidates, Ids, N
<1> DEFINE rest == Fitting \ {FirstFound(Fitting)}
           want == IF Fitting = {} THEN <<>>
                   ELSE IF rest = {} THEN <<FirstFound(Fitting)>>
                   ELSE <<FirstFound(Fitting), FirstFound(rest)>>
<1>3. want' = want
    BY <1>1 DEF Fitting, FirstFound, FoundFirst, FoundBefore, SumAmounts, Ids
<1>4. FindsTheFirstTwo <=> (returned => found = want)
    BY DEF FindsTheFirstTwo
<1>5. FindsTheFirstTwo' <=> (returned' => found' = want')
    BY DEF FindsTheFirstTwo
<1>6. CASE Search
    <2>1. found' = want
        BY <1>6, SearchMeaning DEF SearchInv, Search
    <2> HIDE DEF want
    <2> QED
        BY <1>2, <1>3, <1>5, <2>1 DEF SearchInv
<1>7. CASE UNCHANGED vars
    <2> HIDE DEF want
    <2>1. found' = found /\ returned' = returned
        BY <1>7 DEF vars
    <2> QED
        BY <1>2, <1>3, <1>4, <1>5, <2>1 DEF SearchInv
<1> QED
    BY <1>6, <1>7 DEF Next, Returned

\* The search the group pass makes in bounded steps, cutting off what cannot
\* add up, returns the first set that fits and the second, if there are any
\* (subsetSum).
THEOREM SearchFindsFirstTwo == Spec => []FindsTheFirstTwo
<1>1. Init => SearchInv
    BY SearchInit
<1>2. SearchInv /\ [Next]_vars => SearchInv'
    BY SearchNext
<1>3. SearchInv => FindsTheFirstTwo
    BY DEF SearchInv
<1> QED
    BY <1>1, <1>2, <1>3, PTL DEF Spec
=============================================================================
