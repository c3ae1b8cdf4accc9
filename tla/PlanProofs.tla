---------------------------- MODULE PlanProofs ----------------------------
(***************************************************************************)
(* What the generator means to be matched is what the engine matches, for  *)
(* books of any size and whatever is drawn (IntendedAreMatched).  Plan     *)
(* says what a book must be like for that.  The first half shows that each *)
(* slot and each group leaves the book like that: their own rows are, and  *)
(* they have nothing to do with the rows before.  The second half shows    *)
(* that each pass takes the teams meant for it, whole, and nothing else.   *)
(***************************************************************************)
EXTENDS BenchmarkProofs, Plan

-----------------------------------------------------------------------------
(* Rows added apart from the others leave the plan of the others alone *)

\* The rows R of the book b are in the book c among the rows U, and none of the
\* others has to do with them.
Apart(c, u, U, i, j) ==
    /\ ~RefsAgree(c[i], c[j])
    /\ Meant(u, i) => u[j].label # u[i].label
    /\ ~Alike(c, U, i, j) /\ ~Alike(c, U, j, i)
    /\ IsPayout(c, i) => j \notin OrdersOf(c, U, i)

Embedded(b, t, R, c, u, U) ==
    /\ R \subseteq U
    /\ \A i \in R : c[i] = b[i] /\ u[i] = t[i]
    /\ \A i \in R, j \in U \ R : Apart(c, u, U, i, j)

\* What such a row is part of is the same.
LEMMA SameRows ==
    ASSUME NEW b, NEW t, NEW R, NEW c, NEW u, NEW U, Embedded(b, t, R, c, u, U),
           NEW i \in R
    PROVE  /\ Meant(u, i) <=> Meant(t, i)
           /\ Meant(t, i) => Team(u, U, i) = Team(t, R, i)
           /\ Rec(c, U, i) = Rec(b, R, i)
           /\ Lines(c, U, i) = Lines(b, R, i)
           /\ IsPayout(c, i) <=> IsPayout(b, i)
           /\ IsPayout(b, i) => OrdersOf(c, U, i) = OrdersOf(b, R, i)
<1>1. /\ R \subseteq U
      /\ \A j \in R : c[j] = b[j] /\ u[j] = t[j]
      /\ \A j \in U \ R : Apart(c, u, U, i, j)
    BY DEF Embedded
<1>2. /\ Meant(u, i) <=> Meant(t, i)
      /\ IsPayout(c, i) <=> IsPayout(b, i)
    BY <1>1 DEF Meant, IsPayout
<1>3. Meant(t, i) => Team(u, U, i) = Team(t, R, i)
    BY <1>1, <1>2 DEF Team, Apart
<1>4. Rec(c, U, i) = Rec(b, R, i)
    <2>1. \A j \in U \ R : ~RefsAgree(c[j], c[i])
        BY <1>1 DEF Apart, RefsAgree
    <2> QED
        BY <1>1, <2>1 DEF Rec
<1>5. Lines(c, U, i) = Lines(b, R, i)
    <2>1. \A j \in Rec(b, R, i) : j \in R
        BY DEF Rec
    <2> QED
        BY <1>1, <1>4, <2>1 DEF Lines
<1>6. IsPayout(b, i) => OrdersOf(c, U, i) = OrdersOf(b, R, i)
    <2> SUFFICES ASSUME IsPayout(b, i)
                 PROVE  OrdersOf(c, U, i) = OrdersOf(b, R, i)
        OBVIOUS
    <2>1. \A j \in OrdersOf(c, U, i) : j \in R
        BY <1>1, <1>2 DEF Apart, OrdersOf
    <2>2. \A j \in R : j \in OrdersOf(c, U, i) <=> j \in OrdersOf(b, R, i)
        BY <1>1 DEF OrdersOf
    <2>3. OrdersOf(b, R, i) \subseteq R
        BY DEF OrdersOf
    <2> QED
        BY <2>1, <2>2, <2>3
<1> QED
    BY <1>2, <1>3, <1>4, <1>5, <1>6

\* Two of them fit, or are alike, as they did.
LEMMA SamePairs ==
    ASSUME NEW b, NEW t, NEW R, NEW c, NEW u, NEW U, Embedded(b, t, R, c, u, U),
           NEW i \in R, NEW j \in R
    PROVE  /\ Fits(c, i, j) <=> Fits(b, i, j)
           /\ NearInTime(c, i, j) <=> NearInTime(b, i, j)
           /\ Copy(c, i, j) <=> Copy(b, i, j)
           /\ Alike(c, U, i, j) <=> Alike(b, R, i, j)
<1>1. \A k \in R : c[k] = b[k]
    BY DEF Embedded
<1>2. Rec(c, U, i) = Rec(b, R, i) /\ Rec(c, U, j) = Rec(b, R, j)
    BY SameRows
<1>3. Rec(b, R, i) \subseteq R /\ Rec(b, R, j) \subseteq R
    BY DEF Rec
<1>4. Alike(c, U, i, j) <=> Alike(b, R, i, j)
    BY <1>1, <1>2, <1>3 DEF Alike
<1> QED
    BY <1>1, <1>4 DEF Fits, NearInTime, Copy

\* They add up to the same.
LEMMA SameSums ==
    ASSUME NEW b, NEW t, NEW R, NEW c, NEW u, NEW U, Embedded(b, t, R, c, u, U),
           IsFiniteSet(R), NEW T \in SUBSET R
    PROVE  SumOf(c, T) = SumOf(b, T)
<1> DEFINE w == [i \in R |-> b[i].amount]
<1>1. \A i \in R : w[i] = b[i].amount /\ w[i] = c[i].amount
    BY DEF Embedded
<1>2. IsFiniteSet(T)
    BY FS_Subset
<1> HIDE DEF w
<1>3. SumOf(c, T) = Sum(w, T)
    BY <1>1, <1>2, SumOfRows
<1>4. SumOf(b, T) = Sum(w, T)
    BY <1>1, <1>2, SumOfRows
<1> QED
    BY <1>3, <1>4

\* Their teams are the same.
LEMMA SameTeams ==
    ASSUME NEW b, NEW t, NEW R, NEW c, NEW u, NEW U, Embedded(b, t, R, c, u, U),
           IsFiniteSet(R), NEW e \in R
    PROVE  /\ \A a : PairTeam(b, t, R, e, a) => PairTeam(c, u, U, e, a)
           /\ SplitTeam(b, t, R, e) => SplitTeam(c, u, U, e)
           /\ \A d : ReversalTeam(b, t, R, e, d) => ReversalTeam(c, u, U, e, d)
           /\ \A a : AmountTeam(b, t, R, e, a) => AmountTeam(c, u, U, e, a)
           /\ GroupTeam(b, t, R, e) => GroupTeam(c, u, U, e)
           /\ IsPayout(b, e) /\ UnclearGroup(b, t, R, e)
                  => UnclearGroup(c, u, U, e)
<1>1. /\ R \subseteq U
      /\ \A j \in R : c[j] = b[j] /\ u[j] = t[j]
    BY DEF Embedded
<1>2. /\ Meant(u, e) <=> Meant(t, e)
      /\ Meant(t, e) => Team(u, U, e) = Team(t, R, e)
      /\ Rec(c, U, e) = Rec(b, R, e)
      /\ Lines(c, U, e) = Lines(b, R, e)
      /\ IsPayout(c, e) <=> IsPayout(b, e)
      /\ IsPayout(b, e) => OrdersOf(c, U, e) = OrdersOf(b, R, e)
    BY SameRows
<1>3. Team(t, R, e) \subseteq R /\ Rec(b, R, e) \subseteq R /\ OrdersOf(b, R, e) \subseteq R
    BY DEF Team, Rec, OrdersOf
<1>4. ASSUME NEW a, PairTeam(b, t, R, e, a) PROVE PairTeam(c, u, U, e, a)
    <2>1. a \in R
        BY <1>3, <1>4 DEF PairTeam
    <2> QED
        BY <1>2, <1>4, <2>1, SamePairs DEF PairTeam
<1>5. ASSUME SplitTeam(b, t, R, e) PROVE SplitTeam(c, u, U, e)
    <2> DEFINE L == Lines(b, R, e)
    <2>1. L \subseteq R
        BY <1>3 DEF Lines
    <2>2. /\ Meant(t, e) /\ Team(t, R, e) = {e} \cup L
          /\ IsExpected(b[e]) /\ b[e].ref # NoRef
          /\ \A x \in Rec(b, R, e) : IsExpected(b[x]) => x = e
          /\ \A a \in L : NearInTime(b, e, a)
          /\ Cardinality(L) >= 2
          /\ SumOf(b, L) = b[e].amount
        BY <1>5 DEF SplitTeam
    <2>3. Lines(c, U, e) = L
        BY <1>2
    <2> HIDE DEF L
    <2>4. SumOf(c, L) = c[e].amount
        BY <1>1, <2>1, <2>2, SameSums
    <2>5. \A a \in L : NearInTime(c, e, a)
        BY <2>1, <2>2, SamePairs
    <2>6. \A x \in Rec(c, U, e) : IsExpected(c[x]) => x = e
        BY <1>1, <1>2, <1>3, <2>2
    <2>7. IsExpected(c[e]) /\ c[e].ref # NoRef
        BY <1>1, <2>2
    <2> QED
        BY <1>2, <2>2, <2>3, <2>4, <2>5, <2>6, <2>7 DEF SplitTeam
<1>6. ASSUME NEW d, ReversalTeam(b, t, R, e, d) PROVE ReversalTeam(c, u, U, e, d)
    <2>1. d \in R
        BY <1>3, <1>6 DEF ReversalTeam
    <2> QED
        BY <1>1, <1>2, <1>6, <2>1, SamePairs DEF ReversalTeam
<1>7. ASSUME NEW a, AmountTeam(b, t, R, e, a) PROVE AmountTeam(c, u, U, e, a)
    <2>1. a \in R
        BY <1>3, <1>7 DEF AmountTeam
    <2>2. /\ Meant(t, e) /\ Team(t, R, e) = {e, a}
          /\ Alike(b, R, e, a) /\ NearInTime(b, e, a) /\ b[e].dir = "credit"
          /\ \A y \in R : Alike(b, R, e, y) => y = a
          /\ \A x \in R : Alike(b, R, x, a) => x = e
        BY <1>7 DEF AmountTeam
    <2>3. \A y \in U : Alike(c, U, e, y) => y = a
        <3>1. \A y \in U \ R : ~Alike(c, U, e, y)
            BY DEF Embedded, Apart
        <3>2. \A y \in R : Alike(c, U, e, y) <=> Alike(b, R, e, y)
            BY SamePairs
        <3> QED
            BY <2>2, <3>1, <3>2
    <2>4. \A x \in U : Alike(c, U, x, a) => x = e
        <3>1. \A y \in U \ R : ~Alike(c, U, y, a)
            BY <2>1 DEF Embedded, Apart
        <3>2. \A y \in R : Alike(c, U, y, a) <=> Alike(b, R, y, a)
            BY <2>1, SamePairs
        <3> QED
            BY <2>2, <3>1, <3>2
    <2>5. Alike(c, U, e, a) /\ NearInTime(c, e, a) /\ c[e].dir = "credit"
        BY <1>1, <2>1, <2>2, SamePairs
    <2> QED
        BY <1>2, <2>2, <2>3, <2>4, <2>5 DEF AmountTeam
<1>8. ASSUME GroupTeam(b, t, R, e) PROVE GroupTeam(c, u, U, e)
    <2> DEFINE O == OrdersOf(b, R, e)
    <2>1. /\ Meant(t, e) /\ Team(t, R, e) = {e} \cup O
          /\ IsPayout(b, e) /\ SumOf(b, O) = b[e].gross
        BY <1>8 DEF GroupTeam
    <2>2. O \subseteq R /\ OrdersOf(c, U, e) = O
        BY <1>2, <1>3, <2>1
    <2> HIDE DEF O
    <2>3. SumOf(c, O) = c[e].gross
        BY <1>1, <2>1, <2>2, SameSums
    <2> QED
        BY <1>2, <2>1, <2>2, <2>3 DEF GroupTeam
<1>9. ASSUME UnclearGroup(b, t, R, e), IsPayout(b, e)
      PROVE  UnclearGroup(c, u, U, e)
    <2> DEFINE O == OrdersOf(b, R, e)
    <2>1. /\ ~Meant(t, e) /\ \A i \in O : ~Meant(t, i)
          /\ \E x, y \in O : /\ x # y /\ b[x].amount = b[y].amount
                             /\ SumOf(b, O) = b[e].gross + b[x].amount
        BY <1>9 DEF UnclearGroup
    <2>2. O \subseteq R /\ OrdersOf(c, U, e) = O
        BY <1>2, <1>3, <1>9
    <2> HIDE DEF O
    <2>3. SumOf(c, O) = SumOf(b, O)
        BY <2>2, SameSums
    <2>4. \A i \in O : ~Meant(u, i)
        BY <1>1, <2>1, <2>2 DEF Meant
    <2>5. \E x, y \in O : /\ x # y /\ c[x].amount = c[y].amount
                          /\ SumOf(c, O) = c[e].gross + c[x].amount
        <3>1. PICK x \in O, y \in O :
                  /\ x # y /\ b[x].amount = b[y].amount
                  /\ SumOf(b, O) = b[e].gross + b[x].amount
            BY <2>1
        <3>2. c[x] = b[x] /\ c[y] = b[y] /\ c[e] = b[e]
            BY <1>1, <2>2
        <3> QED
            BY <2>3, <3>1, <3>2
    <2> QED
        BY <1>2, <2>1, <2>2, <2>4, <2>5 DEF UnclearGroup
<1> QED
    BY <1>4, <1>5, <1>6, <1>7, <1>8, <1>9

\* Two plans that have nothing to do with one another are one plan.
LEMMA JoinedPlans ==
    ASSUME NEW b, NEW t, NEW R, NEW c, NEW u, NEW S,
           IsFiniteSet(R), IsFiniteSet(S),
           Embedded(b, t, R, c, u, R \cup S), Embedded(c, u, S, c, u, R \cup S),
           WellPlanned(b, t, R), WellPlanned(c, u, S)
    PROVE  WellPlanned(c, u, R \cup S)
<1> DEFINE U == R \cup S
<1>0. /\ \A i \in R : c[i] = b[i]
      /\ \A i \in U : i \in R \/ i \in S
      /\ R \subseteq U /\ S \subseteq U
    BY DEF Embedded
<1>1. ASSUME NEW i \in U, NEW j \in U, ~(i \in R /\ j \in R),
             ~(i \in S /\ j \in S)
      PROVE  ~RefsAgree(c[i], c[j]) /\ ~Alike(c, U, i, j)
    <2>1. (i \in R /\ j \in U \ R) \/ (i \in S /\ j \in U \ S)
        BY <1>1
    <2> QED
        BY <2>1 DEF Embedded, Apart
<1>r. RefsMeant(b, R) /\ RefsMeant(c, S)
    BY DEF WellPlanned
<1> HIDE DEF U
<1>e. Embedded(b, t, R, c, u, U) /\ Embedded(c, u, S, c, u, U)
    BY DEF U
<1>3. RefsMeant(c, U)
    BY <1>0, <1>r DEF RefsMeant
<1>4. ExactMeant(c, u, U)
    <2> SUFFICES ASSUME NEW e \in U, NEW a \in U, Fits(c, e, a)
                 PROVE  \E f \in U : PairTeam(c, u, U, f, a) /\ (f = e \/ Copy(c, f, e))
        BY DEF ExactMeant
    <2>1. (e \in R /\ a \in R) \/ (e \in S /\ a \in S)
        BY <1>1 DEF Fits
    <2>2. CASE e \in R /\ a \in R
        <3>1. PICK f \in R : PairTeam(b, t, R, f, a) /\ (f = e \/ Copy(b, f, e))
            BY <1>e, <2>2, SamePairs DEF WellPlanned, ExactMeant
        <3> QED
            BY <1>0, <1>e, <2>2, <3>1, SamePairs, SameTeams
    <2>3. CASE e \in S /\ a \in S
        <3>1. PICK f \in S : PairTeam(c, u, S, f, a) /\ (f = e \/ Copy(c, f, e))
            BY <1>e, <2>3, SamePairs DEF WellPlanned, ExactMeant
        <3> QED
            BY <1>0, <1>e, <2>3, <3>1, SamePairs, SameTeams
    <2> QED
        BY <2>1, <2>2, <2>3
<1>5. PartsMeant(c, u, U)
    <2> SUFFICES ASSUME NEW e \in U, IsExpected(c[e]), NEW a \in Lines(c, U, e),
                        NEW x \in Lines(c, U, e), a # x
                 PROVE  SplitTeam(c, u, U, e)
        BY DEF PartsMeant
    <2>1. CASE e \in R
        <3>1. Lines(c, U, e) = Lines(b, R, e) /\ IsExpected(b[e])
            BY <1>0, <1>e, <2>1, SameRows
        <3>2. SplitTeam(b, t, R, e)
            BY <2>1, <3>1 DEF WellPlanned, PartsMeant
        <3> QED
            BY <1>e, <2>1, <3>2, SameTeams
    <2>2. CASE e \in S
        <3>1. Lines(c, U, e) = Lines(c, S, e)
            BY <1>e, <2>2, SameRows
        <3>2. SplitTeam(c, u, S, e)
            BY <2>2, <3>1 DEF WellPlanned, PartsMeant
        <3> QED
            BY <1>e, <2>2, <3>2, SameTeams
    <2> QED
        BY <1>0, <2>1, <2>2
<1>6. CloseMeant(c, u, U)
    <2> SUFFICES ASSUME NEW e \in U, IsExpected(c[e]), NEW a \in Lines(c, U, e),
                        NearInTime(c, e, a),
                        AbsDiff(c[e].amount, c[a].amount) <= TolerantLimit(c[e].amount)
                 PROVE  Fits(c, e, a) \/ SplitTeam(c, u, U, e)
        BY DEF CloseMeant
    <2>1. CASE e \in R
        <3>1. Lines(c, U, e) = Lines(b, R, e) /\ IsExpected(b[e])
            BY <1>0, <1>e, <2>1, SameRows
        <3>2. a \in R
            BY <3>1 DEF Lines, Rec
        <3>3. NearInTime(b, e, a) /\ c[e] = b[e] /\ c[a] = b[a]
            BY <1>0, <1>e, <2>1, <3>2, SamePairs
        <3>4. Fits(b, e, a) \/ SplitTeam(b, t, R, e)
            BY <2>1, <3>1, <3>3 DEF WellPlanned, CloseMeant
        <3> QED
            BY <1>e, <2>1, <3>2, <3>4, SamePairs, SameTeams
    <2>2. CASE e \in S
        <3>1. Lines(c, U, e) = Lines(c, S, e)
            BY <1>e, <2>2, SameRows
        <3>4. Fits(c, e, a) \/ SplitTeam(c, u, S, e)
            BY <2>2, <3>1 DEF WellPlanned, CloseMeant
        <3> QED
            BY <1>e, <2>2, <3>4, SameTeams
    <2> QED
        BY <1>0, <2>1, <2>2
<1>7. ReversalMeant(c, u, U)
    <2> SUFFICES ASSUME NEW e \in U, NEW d \in U,
                        IsExpected(c[e]), IsExpected(c[d]), RefsAgree(c[e], c[d]),
                        c[e].dir = "credit", c[d].dir = "debit"
                 PROVE  ReversalTeam(c, u, U, e, d)
        BY DEF ReversalMeant
    <2>1. (e \in R /\ d \in R) \/ (e \in S /\ d \in S)
        BY <1>1
    <2>2. CASE e \in R /\ d \in R
        <3>1. ReversalTeam(b, t, R, e, d)
            BY <1>0, <2>2 DEF WellPlanned, ReversalMeant
        <3> QED
            BY <1>e, <2>2, <3>1, SameTeams
    <2>3. CASE e \in S /\ d \in S
        <3>1. ReversalTeam(c, u, S, e, d)
            BY <2>3 DEF WellPlanned, ReversalMeant
        <3> QED
            BY <1>e, <2>3, <3>1, SameTeams
    <2> QED
        BY <2>1, <2>2, <2>3
<1>8. AmountMeant(c, u, U)
    <2> SUFFICES ASSUME NEW e \in U, NEW a \in U, Alike(c, U, e, a)
                 PROVE  \/ AmountTeam(c, u, U, e, a)
                        \/ /\ ~Meant(u, e)
                           /\ NearInTime(c, e, a) =>
                                  \E y \in U \ {a} : Alike(c, U, e, y) /\ ~Meant(u, y)
        BY DEF AmountMeant
    <2>1. (e \in R /\ a \in R) \/ (e \in S /\ a \in S)
        BY <1>1 DEF U
    <2>2. CASE e \in R /\ a \in R
        <3>1. Alike(b, R, e, a)
            BY <1>e, <2>2, SamePairs
        <3>2. \/ AmountTeam(b, t, R, e, a)
              \/ /\ ~Meant(t, e)
                 /\ NearInTime(b, e, a) =>
                        \E y \in R \ {a} : Alike(b, R, e, y) /\ ~Meant(t, y)
            BY <2>2, <3>1 DEF WellPlanned, AmountMeant
        <3>3. /\ Meant(u, e) <=> Meant(t, e)
              /\ NearInTime(c, e, a) <=> NearInTime(b, e, a)
              /\ \A y \in R : /\ Alike(c, U, e, y) <=> Alike(b, R, e, y)
                              /\ Meant(u, y) <=> Meant(t, y)
            BY <1>e, <2>2, SamePairs, SameRows
        <3>4. AmountTeam(b, t, R, e, a) => AmountTeam(c, u, U, e, a)
            BY <1>e, <2>2, SameTeams
        <3> QED
            BY <1>0, <3>2, <3>3, <3>4
    <2>3. CASE e \in S /\ a \in S
        <3>1. Alike(c, S, e, a)
            BY <1>e, <2>3, SamePairs
        <3>2. \/ AmountTeam(c, u, S, e, a)
              \/ /\ ~Meant(u, e)
                 /\ NearInTime(c, e, a) =>
                        \E y \in S \ {a} : Alike(c, S, e, y) /\ ~Meant(u, y)
            BY <2>3, <3>1 DEF WellPlanned, AmountMeant
        <3>3. \A y \in S : Alike(c, U, e, y) <=> Alike(c, S, e, y)
            BY <1>e, <2>3, SamePairs
        <3>4. AmountTeam(c, u, S, e, a) => AmountTeam(c, u, U, e, a)
            BY <1>e, <2>3, SameTeams
        <3> QED
            BY <1>0, <3>2, <3>3, <3>4
    <2> QED
        BY <2>1, <2>2, <2>3
<1>9. PayoutMeant(c, u, U)
    <2> SUFFICES ASSUME NEW p \in U, IsPayout(c, p)
                 PROVE  /\ Cardinality(OrdersOf(c, U, p)) <= 9
                        /\ GroupTeam(c, u, U, p) \/ UnclearGroup(c, u, U, p)
        BY DEF PayoutMeant
    <2>1. CASE p \in R
        <3>1. IsPayout(b, p) /\ OrdersOf(c, U, p) = OrdersOf(b, R, p)
            BY <1>e, <2>1, SameRows
        <3> QED
            BY <1>e, <2>1, <3>1, SameTeams DEF WellPlanned, PayoutMeant
    <2>2. CASE p \in S
        <3>1. OrdersOf(c, U, p) = OrdersOf(c, S, p)
            BY <1>e, <2>2, SameRows
        <3> QED
            BY <1>e, <2>2, <3>1, SameTeams DEF WellPlanned, PayoutMeant
    <2> QED
        BY <1>0, <2>1, <2>2
<1>10. TeamsKnown(c, u, U)
    <2> SUFFICES ASSUME NEW i \in U, Meant(u, i)
                 PROVE  \E e \in Team(u, U, i) :
                            \/ \E a \in U : PairTeam(c, u, U, e, a)
                            \/ SplitTeam(c, u, U, e)
                            \/ \E d \in U : ReversalTeam(c, u, U, e, d)
                            \/ \E a \in U : AmountTeam(c, u, U, e, a)
                            \/ GroupTeam(c, u, U, e)
        BY DEF TeamsKnown
    <2>1. CASE i \in R
        <3>1. Meant(t, i) /\ Team(u, U, i) = Team(t, R, i)
            BY <1>e, <2>1, SameRows
        <3>2. PICK e \in Team(t, R, i) :
                  \/ \E a \in R : PairTeam(b, t, R, e, a)
                  \/ SplitTeam(b, t, R, e)
                  \/ \E d \in R : ReversalTeam(b, t, R, e, d)
                  \/ \E a \in R : AmountTeam(b, t, R, e, a)
                  \/ GroupTeam(b, t, R, e)
            BY <2>1, <3>1 DEF WellPlanned, TeamsKnown
        <3>3. e \in R
            BY DEF Team
        <3> QED
            BY <1>0, <1>e, <3>1, <3>2, <3>3, SameTeams
    <2>2. CASE i \in S
        <3>1. Team(u, U, i) = Team(u, S, i)
            BY <1>e, <2>2, SameRows
        <3>2. PICK e \in Team(u, S, i) :
                  \/ \E a \in S : PairTeam(c, u, S, e, a)
                  \/ SplitTeam(c, u, S, e)
                  \/ \E d \in S : ReversalTeam(c, u, S, e, d)
                  \/ \E a \in S : AmountTeam(c, u, S, e, a)
                  \/ GroupTeam(c, u, S, e)
            BY <2>2 DEF WellPlanned, TeamsKnown
        <3>3. e \in S
            BY DEF Team
        <3> QED
            BY <1>0, <1>e, <3>1, <3>2, <3>3, SameTeams
    <2> QED
        BY <1>0, <2>1, <2>2
<1> QED
    BY <1>3, <1>4, <1>5, <1>6, <1>7, <1>8, <1>9, <1>10 DEF WellPlanned, U

-----------------------------------------------------------------------------
(* What a slot draws is planned *)

\* Row i carries these fields; it is an order, or a line of the bank.
RowAt(b, i, source, ref, cp, amount, day, dir) ==
    /\ b[i].source = source /\ b[i].dir = dir
    /\ b[i].ref = ref /\ b[i].cp = cp
    /\ b[i].amount = amount /\ b[i].day = day

OrderAt(b, i, ref, cp, amount, day) ==
    RowAt(b, i, "psp", ref, cp, amount, day, "credit")
LineAt(b, i, ref, cp, amount, day) ==
    RowAt(b, i, "bank", ref, cp, amount, day, "credit")

\* Without payouts there is nothing to say about them.
LEMMA NoPayouts ==
    ASSUME NEW b, NEW t, NEW S, \A i \in S : b[i].source # "marketplace"
    PROVE  PayoutMeant(b, t, S)
BY DEF PayoutMeant, IsPayout

\* Nor about teams where nothing is meant.
LEMMA NothingMeant ==
    ASSUME NEW b, NEW t, NEW S, \A i \in S : ~Meant(t, i)
    PROVE  TeamsKnown(b, t, S)
BY DEF TeamsKnown

\* A row on its own.
LEMMA SingleRow ==
    ASSUME NEW b, NEW t, NEW x, b[x].source \in {"psp", "bank"},
           IsExpected(b[x]) => b[x].ref # NoRef, ~Meant(t, x)
    PROVE  WellPlanned(b, t, {x})
<1>1. Lines(b, {x}, x) \subseteq {x}
    BY DEF Lines, Rec
<1>2. ExactMeant(b, t, {x})
    BY DEF ExactMeant, Fits
<1>3. PartsMeant(b, t, {x})
    BY <1>1 DEF PartsMeant
<1>4. CloseMeant(b, t, {x})
    BY <1>1 DEF CloseMeant, Lines, IsExpected
<1>5. ReversalMeant(b, t, {x}) /\ AmountMeant(b, t, {x}) /\ RefsMeant(b, {x})
    BY DEF ReversalMeant, AmountMeant, RefsMeant, Alike, IsExpected
<1> QED
    BY <1>2, <1>3, <1>4, <1>5, NoPayouts, NothingMeant DEF WellPlanned

\* An order and a line of its reference.
LEMMA OrderAndLine ==
    ASSUME NEW b, NEW x, NEW y, x # y, NEW ref, ref # NoRef, NEW cp,
           NEW amount, NEW paid, NEW d, NEW late,
           OrderAt(b, x, ref, cp, amount, d), LineAt(b, y, ref, cp, paid, late)
    PROVE  /\ Rec(b, {x, y}, x) = {x, y} /\ Rec(b, {x, y}, y) = {x, y}
           /\ Lines(b, {x, y}, x) = {y} /\ Lines(b, {x, y}, y) = {y}
           /\ IsExpected(b[x]) /\ ~IsExpected(b[y])
           /\ \A i, j \in {x, y} : ~Alike(b, {x, y}, i, j)
<1>1. IsExpected(b[x]) /\ ~IsExpected(b[y])
    BY DEF OrderAt, LineAt, RowAt, IsExpected
<1>2. Rec(b, {x, y}, x) = {x, y} /\ Rec(b, {x, y}, y) = {x, y}
    BY DEF OrderAt, LineAt, RowAt, Rec, RefsAgree
<1>3. Lines(b, {x, y}, x) = {y} /\ Lines(b, {x, y}, y) = {y}
    BY <1>2 DEF OrderAt, LineAt, RowAt, Lines
<1> QED
    BY <1>1, <1>2, <1>3 DEF Alike

\* An order paid short or late.
LEMMA UnpaidPair ==
    ASSUME NEW b, NEW t, NEW x, NEW y, x # y, NEW ref, ref # NoRef, NEW cp,
           NEW amount \in Nat, NEW paid \in Nat, NEW d \in Int, NEW late \in Int,
           OrderAt(b, x, ref, cp, amount, d), LineAt(b, y, ref, cp, paid, late),
           ~Meant(t, x), ~Meant(t, y),
           ~ /\ AbsDiff(late, d) <= MatchWindowDays
             /\ AbsDiff(amount, paid) <= TolerantLimit(amount)
    PROVE  WellPlanned(b, t, {x, y})
<1>1. /\ Lines(b, {x, y}, x) = {y} /\ IsExpected(b[x]) /\ ~IsExpected(b[y])
      /\ \A i, j \in {x, y} : ~Alike(b, {x, y}, i, j)
    BY OrderAndLine, ZenonT(40)
<1>2. /\ b[x].amount = amount /\ b[y].amount = paid
      /\ b[x].day = d /\ b[y].day = late /\ b[x].ref = ref
      /\ b[x].dir = "credit" /\ b[y].dir = "credit"
      /\ b[x].source = "psp" /\ b[y].source = "bank"
    BY DEF OrderAt, LineAt, RowAt
<1>3. ~ /\ NearInTime(b, x, y)
        /\ AbsDiff(b[x].amount, b[y].amount) <= TolerantLimit(b[x].amount)
    BY <1>2 DEF NearInTime, DayDiff
<1>4. ~Fits(b, x, y)
    <2>1. 0 <= TolerantLimit(amount) /\ AbsDiff(amount, amount) = 0
        BY LimitsOfTheCode DEF TolerantLimit, AbsDiff
    <2> QED
        BY <1>2, <1>3, <2>1 DEF Fits
<1>5. ExactMeant(b, t, {x, y})
    BY <1>1, <1>4 DEF ExactMeant, Fits
<1>6. PartsMeant(b, t, {x, y}) /\ CloseMeant(b, t, {x, y})
    BY <1>1, <1>3 DEF PartsMeant, CloseMeant
<1>7. ReversalMeant(b, t, {x, y}) /\ AmountMeant(b, t, {x, y}) /\ RefsMeant(b, {x, y})
    BY <1>1, <1>2 DEF ReversalMeant, AmountMeant, RefsMeant
<1>8. PayoutMeant(b, t, {x, y}) /\ TeamsKnown(b, t, {x, y})
    BY <1>2, NoPayouts, NothingMeant
<1> QED
    BY <1>5, <1>6, <1>7, <1>8 DEF WellPlanned

\* An order and its line.
LEMMA PaidPair ==
    ASSUME NEW b, NEW t, NEW x, NEW y, x # y, NEW ref, ref # NoRef, NEW cp,
           NEW amount, NEW d, NEW paid,
           OrderAt(b, x, ref, cp, amount, d), LineAt(b, y, ref, cp, amount, paid),
           Meant(t, x), t[y].label = t[x].label,
           AbsDiff(paid, d) <= MatchWindowDays
    PROVE  WellPlanned(b, t, {x, y})
<1>1. /\ Lines(b, {x, y}, x) = {y} /\ IsExpected(b[x]) /\ ~IsExpected(b[y])
      /\ \A i, j \in {x, y} : ~Alike(b, {x, y}, i, j)
    BY OrderAndLine, ZenonT(40)
<1>2. /\ b[x].amount = amount /\ b[y].amount = amount
      /\ b[x].day = d /\ b[y].day = paid /\ b[x].ref = ref
      /\ b[x].dir = "credit" /\ b[y].dir = "credit"
      /\ b[x].source = "psp" /\ b[y].source = "bank"
      /\ RefsAgree(b[x], b[y])
    BY DEF OrderAt, LineAt, RowAt, RefsAgree
<1>3. Fits(b, x, y)
    BY <1>1, <1>2 DEF Fits, NearInTime, DayDiff
<1>4. Team(t, {x, y}, x) = {x, y} /\ Team(t, {x, y}, y) = {x, y}
    BY DEF Team
<1>5. PairTeam(b, t, {x, y}, x, y)
    BY <1>3, <1>4 DEF PairTeam
<1>6. ExactMeant(b, t, {x, y})
    BY <1>1, <1>5 DEF ExactMeant, Fits
<1>7. PartsMeant(b, t, {x, y}) /\ CloseMeant(b, t, {x, y})
    BY <1>1, <1>3 DEF PartsMeant, CloseMeant
<1>8. ReversalMeant(b, t, {x, y}) /\ AmountMeant(b, t, {x, y}) /\ RefsMeant(b, {x, y})
    BY <1>1, <1>2 DEF ReversalMeant, AmountMeant, RefsMeant
<1>9. PayoutMeant(b, t, {x, y})
    BY <1>2, NoPayouts
<1>10. TeamsKnown(b, t, {x, y})
    BY <1>4, <1>5 DEF TeamsKnown
<1> QED
    BY <1>6, <1>7, <1>8, <1>9, <1>10 DEF WellPlanned

\* An order entered twice, and its line.
LEMMA PaidTwice ==
    ASSUME NEW b, NEW t, NEW x, NEW y, NEW z, x # y, x # z, y # z,
           NEW ref, ref # NoRef, NEW cp, NEW amount, NEW d, NEW paid,
           OrderAt(b, x, ref, cp, amount, d), OrderAt(b, y, ref, cp, amount, d),
           Copy(b, x, y),
           LineAt(b, z, ref, cp, amount, paid),
           Meant(t, x), ~Meant(t, y), t[z].label = t[x].label,
           AbsDiff(paid, d) <= MatchWindowDays
    PROVE  WellPlanned(b, t, {x, y, z})
<1> DEFINE S == {x, y, z}
<1>2. /\ b[x].amount = amount /\ b[y].amount = amount /\ b[z].amount = amount
      /\ b[x].day = d /\ b[y].day = d /\ b[z].day = paid
      /\ b[x].ref = ref /\ b[y].ref = ref
      /\ b[x].dir = "credit" /\ b[y].dir = "credit" /\ b[z].dir = "credit"
      /\ b[x].source = "psp" /\ b[y].source = "psp" /\ b[z].source = "bank"
      /\ RefsAgree(b[x], b[z]) /\ RefsAgree(b[y], b[z]) /\ RefsAgree(b[z], b[y])
      /\ RefsAgree(b[z], b[x])
    BY DEF OrderAt, LineAt, RowAt, RefsAgree
<1>1. IsExpected(b[x]) /\ IsExpected(b[y]) /\ ~IsExpected(b[z])
    BY <1>2 DEF IsExpected
<1>3. \A i \in {x, y} : Lines(b, S, i) = {z} /\ Fits(b, i, z)
    BY <1>1, <1>2 DEF Lines, Rec, Fits, NearInTime, DayDiff
<1>4. Team(t, S, x) = {x, z} /\ Team(t, S, z) = {x, z}
    BY DEF Team, Meant
<1>5. PairTeam(b, t, S, x, z)
    BY <1>3, <1>4 DEF PairTeam
<1>6. ExactMeant(b, t, S)
    BY <1>1, <1>5 DEF ExactMeant, Fits
<1>7. PartsMeant(b, t, S) /\ CloseMeant(b, t, S)
    BY <1>1, <1>3 DEF PartsMeant, CloseMeant
<1>8. AmountMeant(b, t, S)
    <2>1. \A i \in {x, y} : z \in Rec(b, S, i)
        BY <1>2 DEF Rec
    <2> QED
        BY <1>1, <2>1 DEF AmountMeant, Alike
<1>9. ReversalMeant(b, t, S) /\ RefsMeant(b, S)
    BY <1>1, <1>2 DEF ReversalMeant, RefsMeant
<1>10. PayoutMeant(b, t, S)
    BY <1>2, NoPayouts
<1>11. TeamsKnown(b, t, S)
    BY <1>4, <1>5 DEF TeamsKnown, Meant
<1> QED
    BY <1>6, <1>7, <1>8, <1>9, <1>10, <1>11 DEF WellPlanned

\* An order, its line and a debit of the same reference.
LEMMA PaidAndRefunded ==
    ASSUME NEW b, NEW t, NEW x, NEW y, NEW z, x # y, x # z, y # z,
           NEW ref, ref # NoRef, NEW cp, NEW amount, NEW d, NEW paid, NEW back,
           OrderAt(b, x, ref, cp, amount, d), LineAt(b, y, ref, cp, amount, paid),
           RowAt(b, z, "bank", ref, cp, amount, back, "debit"),
           Meant(t, x), t[y].label = t[x].label, ~Meant(t, z),
           AbsDiff(paid, d) <= MatchWindowDays
    PROVE  WellPlanned(b, t, {x, y, z})
<1> DEFINE S == {x, y, z}
<1>2. /\ b[x].amount = amount /\ b[y].amount = amount
      /\ b[x].day = d /\ b[y].day = paid /\ b[x].ref = ref
      /\ b[x].dir = "credit" /\ b[y].dir = "credit" /\ b[z].dir = "debit"
      /\ b[x].source = "psp" /\ b[y].source = "bank" /\ b[z].source = "bank"
      /\ RefsAgree(b[x], b[y]) /\ RefsAgree(b[y], b[x]) /\ RefsAgree(b[z], b[x])
    BY DEF OrderAt, LineAt, RowAt, RefsAgree
<1>1. IsExpected(b[x]) /\ ~IsExpected(b[y]) /\ ~IsExpected(b[z])
    BY <1>2 DEF IsExpected
<1>3. Lines(b, S, x) = {y} /\ Fits(b, x, y)
    BY <1>1, <1>2 DEF Lines, Rec, Fits, NearInTime, DayDiff
<1>4. Team(t, S, x) = {x, y} /\ Team(t, S, y) = {x, y}
    BY DEF Team, Meant
<1>5. PairTeam(b, t, S, x, y)
    BY <1>3, <1>4 DEF PairTeam
<1>6. ExactMeant(b, t, S)
    BY <1>1, <1>2, <1>5 DEF ExactMeant, Fits
<1>7. PartsMeant(b, t, S) /\ CloseMeant(b, t, S)
    BY <1>1, <1>3 DEF PartsMeant, CloseMeant
<1>8. AmountMeant(b, t, S)
    <2>1. y \in Rec(b, S, x)
        BY <1>2 DEF Rec
    <2> QED
        BY <1>1, <2>1 DEF AmountMeant, Alike
<1>9. ReversalMeant(b, t, S) /\ RefsMeant(b, S)
    BY <1>1, <1>2 DEF ReversalMeant, RefsMeant
<1>10. PayoutMeant(b, t, S)
    BY <1>2, NoPayouts
<1>11. TeamsKnown(b, t, S)
    BY <1>4, <1>5 DEF TeamsKnown, Meant
<1> QED
    BY <1>6, <1>7, <1>8, <1>9, <1>10, <1>11 DEF WellPlanned

\* A charge and its cancellation.
LEMMA ChargeAndReversal ==
    ASSUME NEW b, NEW t, NEW x, NEW y, x # y, NEW ref, ref # NoRef, NEW cp,
           NEW amount, NEW d, NEW back, amount > 0,
           OrderAt(b, x, ref, cp, amount, d),
           RowAt(b, y, "psp", ref, cp, amount, back, "debit"),
           Meant(t, x), t[y].label = t[x].label,
           AbsDiff(back, d) <= MatchWindowDays
    PROVE  WellPlanned(b, t, {x, y})
<1> DEFINE S == {x, y}
<1>2. /\ b[x].amount = amount /\ b[y].amount = amount
      /\ b[x].day = d /\ b[y].day = back /\ b[x].ref = ref /\ b[y].ref = ref
      /\ b[x].dir = "credit" /\ b[y].dir = "debit"
      /\ b[x].source = "psp" /\ b[y].source = "psp"
      /\ RefsAgree(b[x], b[y]) /\ RefsAgree(b[y], b[x]) /\ RefsAgree(b[x], b[x])
    BY DEF OrderAt, RowAt, RefsAgree
<1>1. IsExpected(b[x]) /\ IsExpected(b[y])
    BY <1>2 DEF IsExpected
<1>3. Lines(b, S, x) = {} /\ Lines(b, S, y) = {}
    BY <1>2 DEF Lines, Rec
<1>4. Team(t, S, x) = {x, y} /\ Team(t, S, y) = {x, y} /\ Rec(b, S, x) = {x, y}
    BY <1>2 DEF Team, Rec
<1>5. ReversalTeam(b, t, S, x, y)
    BY <1>1, <1>2, <1>4 DEF ReversalTeam, NearInTime, DayDiff
<1>6. ExactMeant(b, t, S)
    BY <1>1 DEF ExactMeant, Fits
<1>7. PartsMeant(b, t, S) /\ CloseMeant(b, t, S)
    BY <1>3 DEF PartsMeant, CloseMeant
<1>8. AmountMeant(b, t, S) /\ ReversalMeant(b, t, S) /\ RefsMeant(b, S)
    BY <1>1, <1>2, <1>5 DEF AmountMeant, Alike, ReversalMeant, RefsMeant
<1>9. PayoutMeant(b, t, S)
    BY <1>2, NoPayouts
<1>10. TeamsKnown(b, t, S)
    BY <1>4, <1>5 DEF TeamsKnown
<1> QED
    BY <1>6, <1>7, <1>8, <1>9, <1>10 DEF WellPlanned

\* An order and a line without a reference.
LEMMA UnreferencedPair ==
    ASSUME NEW b, NEW t, NEW x, NEW y, x # y, NEW ref, ref # NoRef, NEW cp,
           NEW amount, NEW d \in Int, NEW paid \in Int,
           OrderAt(b, x, ref, cp, amount, d), LineAt(b, y, NoRef, cp, amount, paid),
           Meant(t, x), t[y].label = t[x].label,
           AbsDiff(paid, d) <= MatchWindowDays
    PROVE  WellPlanned(b, t, {x, y})
<1> DEFINE S == {x, y}
<1>2. /\ b[x].amount = amount /\ b[y].amount = amount
      /\ b[x].day = d /\ b[y].day = paid /\ b[x].ref = ref /\ b[y].ref = NoRef
      /\ b[x].dir = "credit" /\ b[y].dir = "credit"
      /\ b[x].source = "psp" /\ b[y].source = "bank"
      /\ b[x].cp = cp /\ b[y].cp = cp
    BY DEF OrderAt, LineAt, RowAt
<1>1. IsExpected(b[x]) /\ ~IsExpected(b[y])
    BY <1>2 DEF IsExpected
<1>3. /\ ~RefsAgree(b[x], b[y]) /\ ~RefsAgree(b[y], b[x])
      /\ ~RefsAgree(b[y], b[y])
    BY <1>2 DEF RefsAgree
<1>4. Rec(b, S, x) \subseteq {x} /\ Rec(b, S, y) = {} /\ Lines(b, S, x) = {}
    BY <1>2, <1>3 DEF Rec, Lines
<1>5. Team(t, S, x) = {x, y} /\ Team(t, S, y) = {x, y}
    BY DEF Team
<1>6. NearInTime(b, x, y)
    BY <1>2 DEF NearInTime, DayDiff
<1>7. DayDiff(b[y], b[x]) <= AmountHorizonDays
    BY <1>2, <1>6, LimitsOfTheCode DEF NearInTime, DayDiff, AbsDiff
<1>8. AmountTeam(b, t, S, x, y)
    <2>1. Alike(b, S, x, y)
        BY <1>1, <1>2, <1>4, <1>7 DEF Alike
    <2> QED
        BY <1>1, <1>2, <1>5, <1>6, <2>1 DEF AmountTeam, Alike
<1>9. ExactMeant(b, t, S) /\ PartsMeant(b, t, S) /\ CloseMeant(b, t, S)
    BY <1>1, <1>3, <1>4 DEF ExactMeant, Fits, PartsMeant, CloseMeant
<1>10. AmountMeant(b, t, S) /\ ReversalMeant(b, t, S) /\ RefsMeant(b, S)
    BY <1>1, <1>2, <1>8 DEF AmountMeant, Alike, ReversalMeant, RefsMeant
<1>11. PayoutMeant(b, t, S)
    BY <1>2, NoPayouts
<1>12. TeamsKnown(b, t, S)
    BY <1>5, <1>8 DEF TeamsKnown
<1> QED
    BY <1>9, <1>10, <1>11, <1>12 DEF WellPlanned

\* Two orders and two lines that might pay either.
LEMMA TwoChoices ==
    ASSUME NEW b, NEW t, NEW w, NEW x, NEW y, NEW z, w # x, y # z,
           NEW refW, NEW refX, refW # NoRef, refX # NoRef, NEW cp,
           NEW amount, NEW dw \in Int, NEW dx \in Int, NEW dy \in Int, NEW dz \in Int,
           OrderAt(b, w, refW, cp, amount, dw), OrderAt(b, x, refX, cp, amount, dx),
           LineAt(b, y, NoRef, cp, amount, dy), LineAt(b, z, NoRef, cp, amount, dz),
           \A i \in {w, x, y, z} : ~Meant(t, i),
           \A d \in {dw, dx}, e \in {dy, dz} : AbsDiff(e, d) <= AmountHorizonDays
    PROVE  WellPlanned(b, t, {w, x, y, z})
<1> DEFINE S == {w, x, y, z}
<1>2. /\ \A i \in {w, x} : /\ b[i].source = "psp" /\ b[i].dir = "credit"
                           /\ b[i].amount = amount /\ b[i].cp = cp
                           /\ b[i].ref # NoRef
      /\ \A i \in {y, z} : /\ b[i].source = "bank" /\ b[i].dir = "credit"
                           /\ b[i].amount = amount /\ b[i].cp = cp
                           /\ b[i].ref = NoRef
      /\ b[w].day = dw /\ b[x].day = dx /\ b[y].day = dy /\ b[z].day = dz
    BY DEF OrderAt, LineAt, RowAt
<1>1. /\ \A i \in {w, x} : IsExpected(b[i])
      /\ \A i \in {y, z} : ~IsExpected(b[i])
    BY <1>2 DEF IsExpected
<1>3. \A i \in S, j \in {y, z} : ~RefsAgree(b[i], b[j]) /\ ~RefsAgree(b[j], b[i])
    BY <1>2 DEF RefsAgree
<1>4. /\ \A i \in {w, x} : Rec(b, S, i) \subseteq {w, x} /\ Lines(b, S, i) = {}
      /\ \A i \in {y, z} : Rec(b, S, i) = {}
    BY <1>1, <1>2, <1>3 DEF Rec, Lines
<1>5. \A i \in {w, x}, j \in {y, z} : Alike(b, S, i, j)
    <2>1. \A i \in {w, x}, j \in {y, z} : DayDiff(b[j], b[i]) <= AmountHorizonDays
        BY <1>2 DEF DayDiff
    <2> QED
        BY <1>1, <1>2, <1>4, <2>1 DEF Alike
<1>6. ExactMeant(b, t, S) /\ PartsMeant(b, t, S) /\ CloseMeant(b, t, S)
    <2>1. \A i, j \in S : ~Fits(b, i, j)
        BY <1>1, <1>3 DEF Fits
    <2> QED
        BY <1>1, <1>4, <2>1 DEF ExactMeant, PartsMeant, CloseMeant
<1>7. AmountMeant(b, t, S)
    <2> SUFFICES ASSUME NEW e \in S, NEW a \in S, Alike(b, S, e, a)
                 PROVE  \E i \in S \ {a} : Alike(b, S, e, i) /\ ~Meant(t, i)
        BY DEF AmountMeant
    <2>1. e \in {w, x}
        BY <1>1 DEF Alike
    <2>2. Alike(b, S, e, y) /\ Alike(b, S, e, z)
        BY <1>5, <2>1
    <2> QED
        BY <2>2
<1>8. ReversalMeant(b, t, S) /\ RefsMeant(b, S)
    BY <1>1, <1>2 DEF ReversalMeant, RefsMeant
<1>9. PayoutMeant(b, t, S) /\ TeamsKnown(b, t, S)
    <2>1. \A i \in S : b[i].source # "marketplace"
        BY <1>2
    <2> QED
        BY <2>1, NoPayouts, NothingMeant
<1> QED
    BY <1>6, <1>7, <1>8, <1>9 DEF WellPlanned

\* An order with its line, beside a line of another counterparty.
LEMMA PaidBesideStranger ==
    ASSUME NEW b, NEW t, NEW x, NEW y, NEW z, x # y, x # z, y # z,
           NEW ref, ref # NoRef, NEW cp, NEW amount, NEW d, NEW paid,
           OrderAt(b, x, ref, cp, amount, d), LineAt(b, y, ref, cp, amount, paid),
           Meant(t, x), t[y].label = t[x].label,
           AbsDiff(paid, d) <= MatchWindowDays,
           b[z].source = "bank", b[z].cp # cp, ~ Meant(t, z)
    PROVE  WellPlanned(b, t, {x, y, z})
<1> DEFINE R == {x, y}
           S == {z}
           U == R \cup S
<1>1. IsFiniteSet(R) /\ IsFiniteSet(S) /\ U = {x, y, z}
    <2>1. IsFiniteSet({x}) /\ IsFiniteSet({y}) /\ IsFiniteSet(S)
        BY FS_Singleton
    <2>2. IsFiniteSet({x} \cup {y}) /\ R = {x} \cup {y}
        BY <2>1, FS_Union
    <2> QED
        BY <2>1, <2>2
<1>2. WellPlanned(b, t, R)
    BY PaidPair
<1>3. WellPlanned(b, t, S)
    BY SingleRow DEF IsExpected
<1>4. /\ b[x].cp = cp /\ b[y].cp = cp
      /\ b[x].source = "psp" /\ b[y].source = "bank"
    BY DEF OrderAt, LineAt, RowAt
<1>5. \A i \in R : Apart(b, t, U, i, z) /\ Apart(b, t, U, z, i)
    BY <1>4 DEF Apart, RefsAgree, Meant, Alike, IsPayout
<1>6. Embedded(b, t, R, b, t, U) /\ Embedded(b, t, S, b, t, U)
    BY <1>5 DEF Embedded
<1>7. WellPlanned(b, t, U)
    <2> HIDE DEF R, S
    <2> QED
        BY <1>1, <1>2, <1>3, <1>6, JoinedPlans
<1> QED
    BY <1>1, <1>7

\* An order on its own, beside one paid short by a line of its amount.
LEMMA UnpaidBesideShort ==
    ASSUME NEW b, NEW t, NEW x, NEW y, NEW z, x # y, x # z, y # z,
           NEW ref, ref # NoRef, NEW refY, refY # NoRef, refY # ref, NEW cp,
           NEW amount \in Nat, NEW full \in Nat, NEW d \in Int, NEW paid \in Int,
           OrderAt(b, x, ref, cp, amount, d), OrderAt(b, y, refY, cp, full, d),
           LineAt(b, z, refY, cp, amount, paid),
           \A i \in {x, y, z} : ~ Meant(t, i),
           ~ AbsDiff(full, amount) <= TolerantLimit(full)
    PROVE  WellPlanned(b, t, {x, y, z})
<1> DEFINE R == {x}
           S == {y, z}
           U == R \cup S
<1>1. IsFiniteSet(R) /\ IsFiniteSet(S) /\ U = {x, y, z}
    <2>1. IsFiniteSet({y}) /\ IsFiniteSet({z}) /\ IsFiniteSet(R)
        BY FS_Singleton
    <2>2. IsFiniteSet({y} \cup {z}) /\ S = {y} \cup {z}
        BY <2>1, FS_Union
    <2> QED
        BY <2>1, <2>2
<1>2. /\ b[x].cp = cp /\ b[y].cp = cp /\ b[z].cp = cp
      /\ b[x].source = "psp" /\ b[y].source = "psp" /\ b[z].source = "bank"
      /\ b[x].ref = ref /\ b[y].ref = refY /\ b[z].ref = refY
    BY DEF OrderAt, LineAt, RowAt
<1>3. WellPlanned(b, t, R)
    BY <1>2, SingleRow
<1>4. WellPlanned(b, t, S)
    BY UnpaidPair
<1>5. y \in Rec(b, U, z)
    BY <1>2 DEF Rec, RefsAgree
<1>6. \A i \in S : Apart(b, t, U, i, x) /\ Apart(b, t, U, x, i)
    BY <1>2, <1>5 DEF Apart, RefsAgree, Meant, Alike, IsPayout, IsExpected
<1>7. Embedded(b, t, R, b, t, U) /\ Embedded(b, t, S, b, t, U)
    BY <1>6 DEF Embedded
<1>8. WellPlanned(b, t, U)
    <2> HIDE DEF R, S
    <2> QED
        BY <1>1, <1>3, <1>4, <1>7, JoinedPlans
<1> QED
    BY <1>1, <1>8

\* An order paid in parts.
LEMMA PaidInParts ==
    ASSUME NEW b, NEW t, NEW x, NEW A, x \notin A, IsFiniteSet(A),
           Cardinality(A) >= 2, NEW ref, ref # NoRef, NEW cp, NEW amount, NEW d,
           OrderAt(b, x, ref, cp, amount, d), Meant(t, x),
           \A a \in A : /\ LineAt(b, a, ref, cp, b[a].amount, b[a].day)
                        /\ AbsDiff(b[a].day, d) <= MatchWindowDays
                        /\ b[a].amount # amount /\ t[a].label = t[x].label,
           SumOf(b, A) = amount
    PROVE  WellPlanned(b, t, {x} \cup A)
<1> DEFINE S == {x} \cup A
<1>1. /\ b[x].source = "psp" /\ b[x].ref = ref /\ b[x].cp = cp
      /\ b[x].amount = amount /\ b[x].day = d /\ b[x].dir = "credit"
    BY DEF OrderAt, RowAt
<1>2. \A a \in A : /\ b[a].source = "bank" /\ b[a].ref = ref /\ b[a].cp = cp
                   /\ b[a].dir = "credit"
    BY DEF LineAt, RowAt
<1>3. IsExpected(b[x]) /\ \A a \in A : ~ IsExpected(b[a])
    BY <1>1, <1>2 DEF IsExpected
<1>4. Rec(b, S, x) = S /\ Lines(b, S, x) = A /\ Team(t, S, x) = S
    <2>1. Rec(b, S, x) = S
        BY <1>1, <1>2 DEF Rec, RefsAgree
    <2>2. Lines(b, S, x) = A
        BY <1>1, <1>2, <2>1 DEF Lines
    <2>3. Team(t, S, x) = S
        BY DEF Team
    <2> QED
        BY <2>1, <2>2, <2>3
<1>5. SplitTeam(b, t, S, x)
    <2>1. \A a \in A : NearInTime(b, x, a)
        BY <1>1 DEF NearInTime, DayDiff
    <2> QED
        BY <1>1, <1>3, <1>4, <2>1 DEF SplitTeam
<1>6. \A a \in A : ~ Fits(b, x, a) /\ ~ Alike(b, S, x, a)
    BY <1>1, <1>3, <1>4 DEF Fits, Alike
<1>7. ExactMeant(b, t, S) /\ AmountMeant(b, t, S)
    <2>1. \A i, j \in S : ~ Fits(b, i, j) /\ ~ Alike(b, S, i, j)
        BY <1>1, <1>3, <1>6 DEF Fits, Alike
    <2> QED
        BY <2>1 DEF ExactMeant, AmountMeant
<1>8. PartsMeant(b, t, S) /\ CloseMeant(b, t, S)
    BY <1>3, <1>5 DEF PartsMeant, CloseMeant
<1>9. ReversalMeant(b, t, S) /\ RefsMeant(b, S)
    BY <1>1, <1>2, <1>3 DEF ReversalMeant, RefsMeant
<1>10. PayoutMeant(b, t, S)
    BY <1>1, <1>2, NoPayouts
<1>11. TeamsKnown(b, t, S)
    BY <1>5 DEF TeamsKnown, Team
<1> QED
    BY <1>7, <1>8, <1>9, <1>10, <1>11 DEF WellPlanned

\* A payout and the orders it is made of, or might be.
LEMMA PayoutAndOrders ==
    ASSUME NEW b, NEW t, NEW p, NEW O, p \notin O, Cardinality(O) <= 9,
           NEW cp, NEW day, b[p].source = "marketplace", b[p].dir = "credit",
           b[p].gross > 0, b[p].cp = cp, b[p].day = day,
           \A e \in O : /\ OrderAt(b, e, b[e].ref, cp, b[e].amount, b[e].day)
                        /\ b[e].ref # NoRef /\ b[e].ref # b[p].ref
                        /\ b[e].amount > 0
                        /\ b[e].day <= day /\ b[e].day >= day - GroupWindowDays,
           \/ /\ Meant(t, p) /\ \A e \in O : t[e].label = t[p].label
              /\ SumOf(b, O) = b[p].gross
           \/ /\ ~ Meant(t, p) /\ \A e \in O : ~ Meant(t, e)
              /\ \E x, y \in O : /\ x # y /\ b[x].amount = b[y].amount
                                 /\ SumOf(b, O) = b[p].gross + b[x].amount
    PROVE  WellPlanned(b, t, O \cup {p})
<1> DEFINE S == O \cup {p}
<1>1. \A e \in O : /\ b[e].source = "psp" /\ b[e].dir = "credit" /\ b[e].cp = cp
                   /\ IsExpected(b[e])
    BY DEF OrderAt, RowAt, IsExpected
<1>2. ~ IsExpected(b[p])
    BY DEF IsExpected
<1>3. OrdersOf(b, S, p) = O
    BY <1>1, <1>2 DEF OrdersOf
<1>4. IsPayout(b, p) /\ \A i \in S : IsPayout(b, i) => i = p
    BY <1>1 DEF IsPayout
<1>5. Meant(t, p) => GroupTeam(b, t, S, p)
    <2>1. Meant(t, p) => Team(t, S, p) = {p} \cup O
        BY DEF Team
    <2> QED
        BY <1>3, <1>4, <2>1 DEF GroupTeam
<1>6. ~ Meant(t, p) => UnclearGroup(b, t, S, p)
    BY <1>3 DEF UnclearGroup
<1>7. PayoutMeant(b, t, S)
    BY <1>3, <1>4, <1>5, <1>6 DEF PayoutMeant
<1>8. \A i \in S : Lines(b, S, i) = {}
    BY <1>1 DEF Lines, Rec
<1>9. ExactMeant(b, t, S)
    BY <1>1 DEF ExactMeant, Fits, RefsAgree
<1>10. PartsMeant(b, t, S) /\ CloseMeant(b, t, S)
    BY <1>8 DEF PartsMeant, CloseMeant
<1>11. ReversalMeant(b, t, S) /\ AmountMeant(b, t, S) /\ RefsMeant(b, S)
    BY <1>1, <1>2 DEF ReversalMeant, AmountMeant, Alike, RefsMeant
<1>12. TeamsKnown(b, t, S)
    <2> SUFFICES ASSUME NEW i \in S, Meant(t, i)
                 PROVE  GroupTeam(b, t, S, p) /\ p \in Team(t, S, i)
        BY DEF TeamsKnown
    <2>1. Meant(t, p) /\ t[i].label = t[p].label
        BY DEF Meant
    <2> QED
        BY <1>5, <2>1 DEF Team
<1> QED
    BY <1>7, <1>9, <1>10, <1>11, <1>12 DEF WellPlanned

-----------------------------------------------------------------------------
(* The rows of a slot join the book *)

\* Row x is drawn as given.
Enters(x, row) ==
    /\ all'[x] = [row[1] EXCEPT !.id = x]
    /\ truth'[x] = row[2]

\* The rows S are new; the others stay as they are.
Joins(S) ==
    /\ IsFiniteSet(DOMAIN all) /\ IsFiniteSet(S)
    /\ S \cap DOMAIN all = {} /\ DOMAIN all' = DOMAIN all \cup S
    /\ \A i \in DOMAIN all : all'[i] = all[i] /\ truth'[i] = truth[i]

\* As many truths as rows.
TruthKept == truth \in Seq(Truths) /\ Len(truth) = Len(all)

Numbered(n) == BookOfAtMost(n) /\ TruthKept

\* Emitted rows are the next ones, in order.
LEMMA RowsEnter ==
    ASSUME NEW n \in Nat, Numbered(n), NEW drawn \in Seq(Drawn), G!Emit(drawn)
    PROVE  /\ TruthKept'
           /\ Joins((Len(all) + 1)..(Len(all) + Len(drawn)))
           /\ \A k \in 1..Len(drawn) : Enters(Len(all) + k, drawn[k])
<1> DEFINE new == [k \in DOMAIN drawn |->
                      [drawn[k][1] EXCEPT !.id = Len(all) + k]]
           meant == [k \in DOMAIN drawn |-> drawn[k][2]]
           m == Len(all)
           l == Len(drawn)
<1>1. /\ all \in Seq(Transaction) /\ m \in Nat /\ l \in Nat
      /\ truth \in Seq(Truths) /\ Len(truth) = m
    BY DEF Numbered, BookOfAtMost, TruthKept
<1>2. DOMAIN drawn = 1..l
    OBVIOUS
<1>3. ASSUME NEW k \in 1..l
      PROVE  /\ new[k] = [drawn[k][1] EXCEPT !.id = m + k]
             /\ new[k] \in Transaction
             /\ meant[k] = drawn[k][2] /\ meant[k] \in Truths
    <2> DEFINE t == drawn[k][1]
    <2>1. k \in DOMAIN drawn /\ t \in Transaction /\ drawn[k][2] \in Truths
        BY <1>2 DEF Drawn, SoundRows
    <2>2. m + k \in Nat /\ new[k] = [t EXCEPT !.id = m + k]
        BY <1>1, <2>1
    <2> HIDE DEF t, new, m
    <2>3. new[k] \in Transaction
        BY <2>1, <2>2 DEF Transaction
    <2> QED
        BY <2>1, <2>2, <2>3 DEF t
<1>4. /\ new \in Seq(Transaction) /\ Len(new) = l
      /\ meant \in Seq(Truths) /\ Len(meant) = l
    <2>1. new = [k \in 1..l |-> new[k]] /\ meant = [k \in 1..l |-> meant[k]]
        BY <1>2
    <2> HIDE DEF new, meant, l
    <2>2. new \in [1..l -> Transaction] /\ meant \in [1..l -> Truths]
        BY <1>3, <2>1
    <2> QED
        BY <1>1, <2>2
<1>5. all' = all \o new /\ truth' = truth \o meant
    BY DEF G!Emit
<1> HIDE DEF new, meant
<1>6. /\ all' \in Seq(Transaction) /\ Len(all') = m + l
      /\ \A k \in 1..m + l : all'[k] = IF k <= m THEN all[k] ELSE new[k - m]
    <2>1. /\ all \o new \in Seq(Transaction)
          /\ Len(all \o new) = Len(all) + Len(new)
          /\ \A k \in 1..Len(all) + Len(new) :
                 (all \o new)[k] = IF k <= Len(all) THEN all[k]
                                   ELSE new[k - Len(all)]
        BY <1>1, <1>4, ConcatProperties
    <2> QED
        BY <1>4, <1>5, <2>1
<1>7. /\ truth' \in Seq(Truths) /\ Len(truth') = m + l
      /\ \A k \in 1..m + l : truth'[k] = IF k <= m THEN truth[k] ELSE meant[k - m]
    <2>1. /\ truth \o meant \in Seq(Truths)
          /\ Len(truth \o meant) = Len(truth) + Len(meant)
          /\ \A k \in 1..Len(truth) + Len(meant) :
                 (truth \o meant)[k] = IF k <= Len(truth) THEN truth[k]
                                       ELSE meant[k - Len(truth)]
        BY <1>1, <1>4, ConcatProperties
    <2> QED
        BY <1>1, <1>4, <1>5, <2>1
<1>8. DOMAIN all = 1..m /\ DOMAIN all' = 1..(m + l)
    BY <1>1, <1>6
<1>9. TruthKept'
    BY <1>6, <1>7 DEF TruthKept
<1> HIDE DEF m, l
<1>10. Joins((m + 1)..(m + l))
    <2>1. IsFiniteSet(1..m) /\ IsFiniteSet((m + 1)..(m + l))
        <3>1. 1 \in Int /\ m \in Int /\ m + 1 \in Int /\ m + l \in Int
            BY <1>1
        <3> QED
            BY <3>1, FS_Interval
    <2>2. \A i \in 1..m : all'[i] = all[i] /\ truth'[i] = truth[i]
        BY <1>1, <1>6, <1>7
    <2>3. /\ ((m + 1)..(m + l)) \cap (1..m) = {}
          /\ 1..(m + l) = (1..m) \cup ((m + 1)..(m + l))
        BY <1>1
    <2> QED
        BY <1>8, <2>1, <2>2, <2>3 DEF Joins
<1>11. ASSUME NEW k \in 1..l
       PROVE  Enters(m + k, drawn[k])
    <2>1. /\ m + k \in 1..m + l /\ ~ m + k <= m /\ (m + k) - m = k
        BY <1>1
    <2>2. all'[m + k] = new[k] /\ truth'[m + k] = meant[k]
        BY <1>6, <1>7, <2>1
    <2> QED
        BY <1>3, <2>2 DEF Enters
<1> QED
    BY <1>9, <1>10, <1>11 DEF m, l

\* One to four rows.
LEMMA OneEnters ==
    ASSUME NEW n \in Nat, Numbered(n), NEW a \in Drawn, G!Emit(<<a>>)
    PROVE  TruthKept' /\ \E x : Joins({x}) /\ Enters(x, a)
<1> DEFINE drawn == <<a>>
           m == Len(all)
<1>1. /\ drawn \in Seq(Drawn) /\ Len(drawn) = 1 /\ drawn[1] = a
      /\ G!Emit(drawn)
    BY ShortLists
<1>2. m \in Nat
    BY DEF Numbered, BookOfAtMost
<1> HIDE DEF drawn
<1>3. /\ TruthKept' /\ Joins((Len(all) + 1)..(Len(all) + 1))
      /\ \A k \in 1..1 : Enters(Len(all) + k, drawn[k])
    BY <1>1, RowsEnter
<1> HIDE DEF m
<1>4. (m + 1)..(m + 1) = {m + 1}
    BY <1>2
<1>5. Joins({m + 1}) /\ Enters(m + 1, a)
    BY <1>1, <1>3, <1>4 DEF m
<1> QED
    BY <1>3, <1>5

\* Two rows.
LEMMA TwoEnter ==
    ASSUME NEW n \in Nat, Numbered(n), NEW a \in Drawn, NEW b \in Drawn,
           G!Emit(<<a, b>>)
    PROVE  TruthKept' /\ \E x, y : /\ x # y /\ Joins({x, y})
                                   /\ Enters(x, a) /\ Enters(y, b)
<1> DEFINE drawn == <<a, b>>
           m == Len(all)
<1>1. /\ drawn \in Seq(Drawn) /\ Len(drawn) = 2
      /\ drawn[1] = a /\ drawn[2] = b /\ G!Emit(drawn)
    BY ShortLists
<1>2. m \in Nat
    BY DEF Numbered, BookOfAtMost
<1> HIDE DEF drawn
<1>3. /\ TruthKept' /\ Joins((Len(all) + 1)..(Len(all) + 2))
      /\ \A k \in 1..2 : Enters(Len(all) + k, drawn[k])
    BY <1>1, RowsEnter
<1> HIDE DEF m
<1>4. (m + 1)..(m + 2) = {m + 1, m + 2} /\ m + 1 # m + 2
    BY <1>2
<1>5. Joins({m + 1, m + 2}) /\ Enters(m + 1, a) /\ Enters(m + 2, b)
    <2>1. Enters(m + 1, a)
        BY <1>1, <1>3 DEF m
    <2>2. Enters(m + 2, b)
        BY <1>1, <1>3 DEF m
    <2>3. Joins({m + 1, m + 2})
        BY <1>3, <1>4 DEF m
    <2> QED
        BY <2>1, <2>2, <2>3
<1> QED
    BY <1>3, <1>4, <1>5

\* The numbers of three or four rows are in order.
LEMMA ThreeEnter ==
    ASSUME NEW n \in Nat, Numbered(n), NEW a \in Drawn, NEW b \in Drawn,
           NEW c \in Drawn, G!Emit(<<a, b, c>>)
    PROVE  /\ TruthKept'
           /\ \E x, y, z : /\ x < y /\ x # y /\ x # z /\ y # z /\ Joins({x, y, z})
                           /\ Enters(x, a) /\ Enters(y, b) /\ Enters(z, c)
<1> DEFINE drawn == <<a, b, c>>
           m == Len(all)
<1>1. /\ drawn \in Seq(Drawn) /\ Len(drawn) = 3
      /\ drawn[1] = a /\ drawn[2] = b /\ drawn[3] = c /\ G!Emit(drawn)
    BY ShortLists
<1>2. m \in Nat
    BY DEF Numbered, BookOfAtMost
<1> HIDE DEF drawn
<1>3. /\ TruthKept' /\ Joins((Len(all) + 1)..(Len(all) + 3))
      /\ \A k \in 1..3 : Enters(Len(all) + k, drawn[k])
    BY <1>1, RowsEnter
<1> HIDE DEF m
<1>4. /\ (m + 1)..(m + 3) = {m + 1, m + 2, m + 3}
      /\ m + 1 < m + 2 /\ m + 1 # m + 2 /\ m + 1 # m + 3 /\ m + 2 # m + 3
    BY <1>2
<1>5. /\ Joins({m + 1, m + 2, m + 3})
      /\ Enters(m + 1, a) /\ Enters(m + 2, b) /\ Enters(m + 3, c)
    <2>1. Enters(m + 1, a)
        BY <1>1, <1>3 DEF m
    <2>2. Enters(m + 2, b)
        BY <1>1, <1>3 DEF m
    <2>3. Enters(m + 3, c)
        BY <1>1, <1>3 DEF m
    <2>4. Joins({m + 1, m + 2, m + 3})
        BY <1>3, <1>4 DEF m
    <2> QED
        BY <2>1, <2>2, <2>3, <2>4
<1> QED
    BY <1>3, <1>4, <1>5

\* The rows of four entries are new.
FourJoin(a, b, c, d) ==
    \E w, x, y, z :
        /\ w # x /\ w # y /\ w # z /\ x # y /\ x # z /\ y # z
        /\ Joins({w, x, y, z})
        /\ Enters(w, a) /\ Enters(x, b) /\ Enters(y, c) /\ Enters(z, d)

\* Four rows.
LEMMA FourEnter ==
    ASSUME NEW n \in Nat, Numbered(n), NEW a \in Drawn, NEW b \in Drawn,
           NEW c \in Drawn, NEW d \in Drawn, G!Emit(<<a, b, c, d>>)
    PROVE  TruthKept' /\ FourJoin(a, b, c, d)
<1> DEFINE drawn == <<a, b, c, d>>
           m == Len(all)
<1>1. /\ drawn \in Seq(Drawn) /\ Len(drawn) = 4
      /\ drawn[1] = a /\ drawn[2] = b /\ drawn[3] = c /\ drawn[4] = d
      /\ G!Emit(drawn)
    BY ShortLists
<1>2. m \in Nat
    BY DEF Numbered, BookOfAtMost
<1> HIDE DEF drawn
<1>3. /\ TruthKept' /\ Joins((Len(all) + 1)..(Len(all) + 4))
      /\ \A k \in 1..4 : Enters(Len(all) + k, drawn[k])
    BY <1>1, RowsEnter
<1> HIDE DEF m
<1>4. /\ (m + 1)..(m + 4) = {m + 1, m + 2, m + 3, m + 4}
      /\ m + 1 # m + 2 /\ m + 1 # m + 3 /\ m + 1 # m + 4
      /\ m + 2 # m + 3 /\ m + 2 # m + 4 /\ m + 3 # m + 4
    BY <1>2
<1>5. /\ Joins({m + 1, m + 2, m + 3, m + 4})
      /\ Enters(m + 1, a) /\ Enters(m + 2, b) /\ Enters(m + 3, c)
      /\ Enters(m + 4, d)
    <2>1. Enters(m + 1, a)
        BY <1>1, <1>3 DEF m
    <2>2. Enters(m + 2, b)
        BY <1>1, <1>3 DEF m
    <2>3. Enters(m + 3, c)
        BY <1>1, <1>3 DEF m
    <2>4. Enters(m + 4, d)
        BY <1>1, <1>3 DEF m
    <2>5. Joins({m + 1, m + 2, m + 3, m + 4})
        BY <1>3, <1>4 DEF m
    <2> QED
        BY <2>1, <2>2, <2>3, <2>4, <2>5
<1> QED
    BY <1>3, <1>4, <1>5 DEF FourJoin

\* What is entered as an order or as a line is one.
LEMMA EnteredRows ==
    ASSUME NEW x, NEW ref, NEW cp, NEW amount, NEW d, NEW t
    PROVE  /\ Enters(x, <<G!Order(ref, cp, amount, d), t>>)
                  => /\ OrderAt(all', x, ref, cp, amount, d) /\ truth'[x] = t
           /\ Enters(x, <<G!Line(ref, cp, amount, d), t>>)
                  => /\ LineAt(all', x, ref, cp, amount, d) /\ truth'[x] = t
           /\ Enters(x, <<G!mkTx("bank", ref, cp, amount, d, "debit"), t>>)
                  => /\ RowAt(all', x, "bank", ref, cp, amount, d, "debit")
                     /\ truth'[x] = t
           /\ Enters(x, <<G!mkTx("psp", ref, cp, amount, d, "debit"), t>>)
                  => /\ RowAt(all', x, "psp", ref, cp, amount, d, "debit")
                     /\ truth'[x] = t
<1>1. ASSUME NEW source, NEW dir,
             Enters(x, <<G!mkTx(source, ref, cp, amount, d, dir), t>>)
      PROVE  RowAt(all', x, source, ref, cp, amount, d, dir) /\ truth'[x] = t
    BY <1>1 DEF Enters, G!mkTx, RowAt
<1> QED
    BY <1>1 DEF G!Order, G!Line, OrderAt, LineAt

-----------------------------------------------------------------------------
(* How the rows of a generated book are kept apart *)

\* A record of row i was reserved.
Kept(b, i, kept) == \E o \in kept : o.amount = b[i].amount /\ o.day = b[i].day

\* Row i and one of the other side carry the same reference.
Answered(b, R, i) ==
    \E x \in R : RefsAgree(b[x], b[i]) /\ IsExpected(b[x]) # IsExpected(b[i])

\* Order or line i of a slot is answered, reserved, or a debit of the payment
\* provider, which no slot pays.
SlotRow(b, R, i, orders, lines) ==
    /\ b[i].source \in {"psp", "bank"}
    /\ \/ Answered(b, R, i)
       \/ b[i].source = "psp" /\ (b[i].dir = "debit" \/ Kept(b, i, orders))
       \/ b[i].source = "bank" /\ b[i].dir = "credit" /\ Kept(b, i, lines)

\* A row of a group is of one of the groups added, in its period, under one of
\* their references.
GroupRow(i) ==
    /\ all[i].source \in {"psp", "marketplace"}
    /\ all[i].cp < GroupSellers /\ all[i].cp < groups
    /\ all[i].day <= 26 \/ all[i].cp < groups - GroupSellers
    /\ \/ all[i].ref <= G!OrderRef(0)
       \/ /\ budget.pairs + 10 * (budget.groups + budget.pairs) <= all[i].ref
          /\ all[i].ref < G!PayoutRef

\* Every row is one a slot reserved or answered, a stranger's line, or a group's.
BookRow(i) ==
    \/ /\ all[i].source = "bank" /\ all[i].cp = G!Stranger
       /\ all[i].ref <= slots.filled
    \/ /\ all[i].cp \in Sellers /\ all[i].ref < G!Ref
       /\ SlotRow(all, DOMAIN all, i,
                  openExpected[all[i].cp], openActual[all[i].cp])
    \/ GroupRow(i)

\* A generated book: its rows are kept apart, and planned.
BookPlanned ==
    /\ TruthKept
    /\ groups > 0 => slots.filled = budget.pairs
    /\ \A i \in DOMAIN all : truth[i].label \in Nat /\ truth[i].label < G!Ref + groups
    /\ \A i \in DOMAIN all : BookRow(i)
    /\ WellPlanned(all, truth, DOMAIN all)

\* What a slot reserves is compared with what is there, and is added to it.
Reserves(cp, orders, lines) ==
    /\ \A e \in orders, a \in openActual[cp] : ~ G!inWindow(e, a)
    /\ \A a \in lines, e \in openExpected[cp] : ~ G!inWindow(e, a)
    /\ \A s \in Sellers : /\ openExpected[s] \subseteq openExpected'[s]
                          /\ openActual[s] \subseteq openActual'[s]
    /\ orders \subseteq openExpected'[cp] /\ lines \subseteq openActual'[cp]

\* The rows a slot adds.
SlotAdds(S, i, cp, orders, lines) ==
    \/ /\ all'[i].source = "bank" /\ all'[i].cp = G!Stranger
       /\ all'[i].ref = G!AlienRef
    \/ /\ all'[i].cp = cp
       /\ all'[i].ref = NoRef \/ all'[i].ref \in G!Ref..(G!Ref + 9)
       /\ SlotRow(all', S, i, orders, lines)

\* What reserve accepts is apart from what is there.
LEMMA ReserveReserves ==
    ASSUME BySeller, NEW cp \in Sellers, NEW orders, NEW lines,
           G!reserve(cp, orders, lines)
    PROVE  Reserves(cp, orders, lines)
BY DEF BySeller, G!reserve, Reserves

\* Nothing is apart from anything.
LEMMA NothingReserves ==
    ASSUME BySeller, NEW cp \in Sellers, G!NotReserved
    PROVE  Reserves(cp, {}, {})
BY DEF BySeller, G!NotReserved, Reserves

\* Answered or reserved, a row stays it.
LEMMA SlotRowStays ==
    ASSUME NEW b, NEW R, NEW c, NEW U, R \subseteq U, \A j \in R : c[j] = b[j],
           NEW i \in R, NEW orders, NEW lines, NEW orders2, NEW lines2,
           orders \subseteq orders2, lines \subseteq lines2,
           SlotRow(b, R, i, orders, lines)
    PROVE  SlotRow(c, U, i, orders2, lines2)
<1>1. c[i] = b[i]
    OBVIOUS
<1>2. Answered(b, R, i) => Answered(c, U, i)
    BY <1>1 DEF Answered
<1>3. /\ Kept(b, i, orders) => Kept(c, i, orders2)
      /\ Kept(b, i, lines) => Kept(c, i, lines2)
    BY <1>1 DEF Kept
<1> QED
    BY <1>1, <1>2, <1>3 DEF SlotRow

\* Rows whose records cannot meet are not taken for one payment.
LEMMA NotTakenForPaid ==
    ASSUME NEW c, NEW U, NEW e \in U, NEW a \in U,
           c[e].day \in Int, c[a].day \in Int,
           NEW orders, NEW lines, NEW others, NEW payers,
           SlotRow(c, U, e, orders, others), SlotRow(c, U, a, payers, lines),
           \A o \in orders, l \in lines : ~ G!inWindow(o, l)
    PROVE  ~ Alike(c, U, e, a)
<1> SUFFICES ASSUME Alike(c, U, e, a) PROVE FALSE
    OBVIOUS
<1>1. /\ c[e].source = "psp" /\ c[a].source = "bank" /\ c[a].dir = c[e].dir
      /\ c[a].amount = c[e].amount
      /\ AbsDiff(c[a].day, c[e].day) <= AmountHorizonDays
    BY DEF Alike, IsExpected, DayDiff
<1>2. ~ Answered(c, U, e)
    BY <1>1 DEF Answered, Alike, Rec, IsExpected
<1>3. ~ Answered(c, U, a)
    BY <1>1 DEF Answered, Alike, Rec, IsExpected
<1>4. c[a].dir = "credit" /\ Kept(c, a, lines)
    BY <1>1, <1>3 DEF SlotRow
<1>5. Kept(c, e, orders)
    BY <1>1, <1>2, <1>4 DEF SlotRow
<1>6. PICK o \in orders : o.amount = c[e].amount /\ o.day = c[e].day
    BY <1>5 DEF Kept
<1>7. PICK l \in lines : l.amount = c[a].amount /\ l.day = c[a].day
    BY <1>4 DEF Kept
<1>8. AbsDiff(c[e].day, c[a].day) <= AmountHorizonDays
    BY <1>1 DEF AbsDiff
<1>9. G!inWindow(o, l)
    BY <1>1, <1>6, <1>7, <1>8 DEF G!inWindow, G!AbsDiff, AbsDiff
<1> QED
    BY <1>9

\* A slot's rows leave the book planned.
LEMMA SlotJoins ==
    ASSUME BookPlanned, BySeller, DrawnInv, all' \in Seq(Transaction), TruthKept',
           NEW case, G!Slot(case), NEW cp \in Sellers, NEW S, Joins(S),
           NEW orders, NEW lines, Reserves(cp, orders, lines),
           \A i \in S : SlotAdds(S, i, cp, orders, lines),
           \A i \in S : truth'[i].label \in {0, G!Ref},
           WellPlanned(all', truth', S)
    PROVE  BookPlanned'
<1> DEFINE R == DOMAIN all
           U == R \cup S
<1>1. /\ budget.pairs \in Nat /\ budget.groups \in Nat
      /\ slots.filled \in Nat /\ groups \in Nat
      /\ slots.filled < budget.pairs /\ slots'.filled = slots.filled + 1
      /\ budget' = budget /\ groups' = groups
    BY BudgetTypes DEF DrawnInv, G!Slot
<1>2. groups = 0
    BY <1>1 DEF BookPlanned
<1>3. /\ GroupSellers \in Nat /\ G!Stranger = GroupSellers + 300
      /\ \A s \in Sellers : s \in Nat /\ s >= GroupSellers /\ s < GroupSellers + 300
    BY DrawBounds DEF G!Stranger
<1>4. /\ IsFiniteSet(R) /\ IsFiniteSet(S) /\ S \cap R = {} /\ DOMAIN all' = U
      /\ \A i \in R : all'[i] = all[i] /\ truth'[i] = truth[i]
    BY DEF Joins
<1>5. /\ \A i \in R : all[i] \in Transaction
      /\ \A i \in U : all'[i] \in Transaction
    <2>1. all \in Seq(Transaction)
        BY DEF DrawnInv, BookOfAtMost
    <2> QED
        BY <2>1, <1>4
<1>6. \A i \in U : all'[i].day \in Int /\ all'[i].ref \in Nat /\ all'[i].cp \in Nat
    BY <1>5 DEF Transaction
<1>7. /\ G!Ref \in Nat /\ G!Ref > 0 /\ G!AlienRef = slots.filled + 1
      /\ G!Ref' = G!Ref + 10
    <2>1. /\ G!Ref = budget.pairs + 10 * (budget.groups + slots.filled)
          /\ G!Ref' = budget.pairs + 10 * (budget.groups + (slots.filled + 1))
          /\ G!AlienRef = slots.filled + 1
        BY <1>1 DEF G!Ref, G!AlienRef
    <2>2. ASSUME NEW p \in Nat, NEW g \in Nat, NEW s \in Nat, s < p
          PROVE  /\ p + 10 * (g + s) \in Nat /\ p + 10 * (g + s) > 0
                 /\ p + 10 * (g + (s + 1)) = (p + 10 * (g + s)) + 10
        BY <2>2
    <2> QED
        BY <1>1, <2>1, <2>2
<1>8. \A i \in R : BookRow(i) /\ ~ GroupRow(i)
    <2>1. \A i \in R : all[i].cp \in Nat
        BY <1>5 DEF Transaction
    <2> QED
        BY <1>2, <2>1 DEF BookPlanned, GroupRow
<1> DEFINE old(i) == /\ all'[i].cp \in Sellers /\ all'[i].ref < G!Ref
                     /\ SlotRow(all', U, i, openExpected[all'[i].cp],
                                openActual[all'[i].cp])
           oldAlien(i) == /\ all'[i].source = "bank" /\ all'[i].cp = G!Stranger
                          /\ all'[i].ref <= slots.filled
           new(i) == /\ all'[i].cp = cp
                     /\ all'[i].ref = NoRef \/ all'[i].ref \in G!Ref..(G!Ref + 9)
                     /\ SlotRow(all', U, i, orders, lines)
           newAlien(i) == /\ all'[i].source = "bank" /\ all'[i].cp = G!Stranger
                          /\ all'[i].ref = G!AlienRef
<1>9. ASSUME NEW i \in R PROVE old(i) \/ oldAlien(i)
    <2>1. all'[i] = all[i]
        BY <1>4
    <2>2. SlotRow(all, R, i, openExpected[all[i].cp], openActual[all[i].cp])
              => SlotRow(all', U, i, openExpected[all[i].cp], openActual[all[i].cp])
        BY <1>4, SlotRowStays
    <2> QED
        BY <1>8, <2>1, <2>2 DEF BookRow
<1>10. ASSUME NEW i \in S PROVE new(i) \/ newAlien(i)
    <2>1. SlotRow(all', S, i, orders, lines) => SlotRow(all', U, i, orders, lines)
        BY SlotRowStays
    <2> QED
        BY <2>1 DEF SlotAdds
<1> HIDE DEF U
<1>u. R \subseteq U /\ S \subseteq U /\ \A i \in U : i \in R \/ i \in S
    BY DEF U
<1>11. ASSUME NEW i \in R, NEW j \in S
       PROVE  ~ RefsAgree(all'[i], all'[j]) /\ ~ RefsAgree(all'[j], all'[i])
    <2>1. /\ all'[i].ref \in Nat /\ all'[j].ref \in Nat
          /\ all'[i].cp \in Nat /\ all'[j].cp \in Nat
        BY <1>6, <1>u
    <2>2. CASE oldAlien(i) /\ newAlien(j)
        BY <1>1, <1>7, <2>1, <2>2 DEF RefsAgree
    <2>3. CASE oldAlien(i) /\ new(j)
        BY <1>3, <2>3 DEF RefsAgree
    <2>4. CASE old(i) /\ newAlien(j)
        BY <1>3, <2>4 DEF RefsAgree
    <2>5. CASE old(i) /\ new(j)
        BY <1>7, <2>1, <2>5 DEF RefsAgree
    <2> QED
        BY <1>9, <1>10, <2>2, <2>3, <2>4, <2>5
<1>12. ASSUME NEW i \in R, NEW j \in S
       PROVE  ~ Alike(all', U, i, j) /\ ~ Alike(all', U, j, i)
    <2>1. all'[i].day \in Int /\ all'[j].day \in Int /\ i \in U /\ j \in U
        BY <1>6, <1>u
    <2>2. CASE oldAlien(i) \/ newAlien(j)
        <3>1. CASE oldAlien(i) /\ newAlien(j)
            BY <3>1 DEF Alike, IsExpected
        <3>2. CASE all'[i].cp # all'[j].cp
            BY <3>2 DEF Alike
        <3> QED
            BY <1>3, <1>9, <1>10, <2>2, <3>1, <3>2
    <2>3. CASE old(i) /\ new(j)
        <3>1. CASE all'[i].cp # cp
            BY <2>3, <3>1 DEF Alike
        <3>2. CASE all'[i].cp = cp
            <4>1. /\ SlotRow(all', U, i, openExpected[cp], openActual[cp])
                  /\ SlotRow(all', U, j, orders, lines)
                BY <2>3, <3>2
            <4>2. ~ Alike(all', U, i, j)
                <5>1. \A o \in openExpected[cp], l \in lines : ~ G!inWindow(o, l)
                    BY DEF Reserves
                <5> QED
                    BY <2>1, <4>1, <5>1, NotTakenForPaid
            <4>3. ~ Alike(all', U, j, i)
                <5>1. \A o \in orders, l \in openActual[cp] : ~ G!inWindow(o, l)
                    BY DEF Reserves
                <5> QED
                    BY <2>1, <4>1, <5>1, NotTakenForPaid
            <4> QED
                BY <4>2, <4>3
        <3> QED
            BY <3>1, <3>2
    <2> QED
        BY <1>9, <1>10, <2>2, <2>3
<1>13. ASSUME NEW i \in R, NEW j \in S
       PROVE  /\ Meant(truth', i) => truth'[j].label # truth'[i].label
              /\ Meant(truth', j) => truth'[i].label # truth'[j].label
    <2>1. truth'[i].label \in Nat /\ truth'[i].label < G!Ref
        BY <1>2, <1>4, <1>7 DEF BookPlanned
    <2> QED
        BY <1>7, <2>1 DEF Meant
<1>14. \A i \in U : ~ IsPayout(all', i)
    BY <1>9, <1>10, <1>u DEF IsPayout, SlotRow
<1>15. /\ \A i \in U \ R : i \in S
       /\ \A i \in U \ S : i \in R
    BY <1>u
<1>16. Embedded(all, truth, R, all', truth', U)
    BY <1>4, <1>11, <1>12, <1>13, <1>14, <1>15, <1>u DEF Embedded, Apart
<1>17. Embedded(all', truth', S, all', truth', U)
    BY <1>11, <1>12, <1>13, <1>14, <1>15, <1>u DEF Embedded, Apart
<1>18. WellPlanned(all', truth', U)
    <2>1. WellPlanned(all, truth, R)
        BY DEF BookPlanned
    <2> QED
        BY <1>4, <1>16, <1>17, <2>1, JoinedPlans DEF U
<1>19. ASSUME NEW i \in U
       PROVE  truth'[i].label \in Nat /\ truth'[i].label < G!Ref + 10
    <2>1. CASE i \in R
        BY <1>2, <1>4, <1>7, <2>1 DEF BookPlanned
    <2>2. CASE i \in S
        BY <1>7, <2>2
    <2> QED
        BY <1>u, <2>1, <2>2
<1>20. ASSUME NEW i \in U PROVE BookRow(i)'
    <2>1. CASE oldAlien(i) \/ newAlien(i)
        <3>1. G!Stranger' = G!Stranger /\ all'[i].ref <= slots'.filled
            BY <1>1, <1>6, <1>7, <2>1 DEF G!Stranger
        <3> QED
            BY <2>1, <3>1 DEF BookRow
    <2>2. CASE old(i)
        <3>1. SlotRow(all', U, i, openExpected'[all'[i].cp], openActual'[all'[i].cp])
            <4>1. /\ openExpected[all'[i].cp] \subseteq openExpected'[all'[i].cp]
                  /\ openActual[all'[i].cp] \subseteq openActual'[all'[i].cp]
                BY <2>2 DEF Reserves
            <4> QED
                BY <2>2, <4>1, SlotRowStays
        <3>2. all'[i].ref < G!Ref + 10
            BY <1>6, <1>7, <2>2
        <3> QED
            BY <1>4, <1>7, <2>2, <3>1, <3>2 DEF BookRow, U
    <2>3. CASE new(i)
        <3>1. SlotRow(all', U, i, openExpected'[cp], openActual'[cp])
            <4>1. orders \subseteq openExpected'[cp] /\ lines \subseteq openActual'[cp]
                BY DEF Reserves
            <4> QED
                BY <2>3, <4>1, SlotRowStays
        <3>2. all'[i].ref < G!Ref + 10
            BY <1>6, <1>7, <2>3 DEF NoRef
        <3> QED
            BY <1>4, <1>7, <2>3, <3>1, <3>2 DEF BookRow, U
    <2> QED
        BY <1>9, <1>10, <1>u, <2>1, <2>2, <2>3
<1> QED
    BY <1>1, <1>2, <1>4, <1>7, <1>18, <1>19, <1>20 DEF BookPlanned, U

-----------------------------------------------------------------------------
(* Each slot leaves the book planned *)

\* The state in which a slot or a group is drawn.
Ready == BookPlanned /\ BySeller /\ DrawnInv /\ all' \in Seq(Transaction)

\* References of a slot are its own.
LEMMA SlotTypes ==
    ASSUME DrawnInv, BookPlanned, NEW case, G!Slot(case)
    PROVE  /\ budget.pairs \in Nat /\ budget.groups \in Nat
           /\ slots.filled \in Nat /\ groups \in Nat
           /\ \E n \in Nat : Numbered(n)
           /\ G!Ref \in Nat /\ G!Ref # 0
           /\ \A ref \in {G!Ref, G!RefA, G!RefB, G!RefY} :
                  ref \in Nat /\ ref # NoRef /\ ref \in G!Ref..(G!Ref + 9)
           /\ G!NoRef = NoRef /\ NoRef \in Nat
           /\ G!AlienRef \in Nat /\ G!AlienRef # NoRef /\ G!Stranger \in Nat
           /\ G!RefA # G!RefB /\ G!RefY # G!Ref
<1>1. /\ budget.pairs \in Nat /\ budget.groups \in Nat
      /\ slots.filled \in Nat /\ groups \in Nat /\ RowsAdded \in Nat
    BY BudgetTypes DEF DrawnInv
<1>2. \E n \in Nat : Numbered(n)
    BY <1>1 DEF DrawnInv, BookPlanned, Numbered
<1>3. /\ G!Ref \in Nat /\ G!AlienRef \in Nat /\ G!Stranger \in Nat
    BY <1>1, RefTypes
<1>4. G!Ref # 0
    <2>1. slots.filled < budget.pairs
        BY DEF G!Slot
    <2>2. ASSUME NEW p \in Nat, NEW g \in Nat, NEW s \in Nat, s < p
          PROVE  p + 10 * (g + s) # 0
        BY <2>2
    <2> QED
        BY <1>1, <2>1, <2>2 DEF G!Ref
<1>5. G!AlienRef # NoRef /\ G!NoRef = NoRef /\ NoRef = 0
    BY <1>1 DEF G!AlienRef, G!NoRef, NoRef
<1>6. G!RefA = G!Ref + 1 /\ G!RefB = G!Ref + 2 /\ G!RefY = G!Ref + 3
    BY DEF G!RefA, G!RefB, G!RefY
<1>7. ASSUME NEW ref \in {G!Ref, G!RefA, G!RefB, G!RefY}
      PROVE  ref \in Nat /\ ref # NoRef /\ ref \in G!Ref..(G!Ref + 9)
    BY <1>3, <1>4, <1>5, <1>6
<1> QED
    BY <1>1, <1>2, <1>3, <1>4, <1>5, <1>6, <1>7

\* What the truths say.
LEMMA TruthLabels ==
    /\ \A label : G!Match(label).label = label
    /\ \A type : G!Injected(type).label = 0
    /\ G!Nothing.label = 0
BY DEF G!Match, G!Injected, G!Nothing, G!NoLabel

\* An order that was reserved is among what a slot adds.
LEMMA OrderKept ==
    ASSUME NEW S, NEW i, NEW cp, NEW orders, NEW lines, NEW ref, NEW amount, NEW d,
           OrderAt(all', i, ref, cp, amount, d),
           ref = NoRef \/ ref \in G!Ref..(G!Ref + 9), G!Open(amount, d) \in orders
    PROVE  SlotAdds(S, i, cp, orders, lines)
<1>1. Kept(all', i, orders)
    BY DEF Kept, OrderAt, RowAt, G!Open
<1> QED
    BY <1>1 DEF SlotAdds, SlotRow, OrderAt, RowAt

\* So is a line that was reserved.
LEMMA LineKept ==
    ASSUME NEW S, NEW i, NEW cp, NEW orders, NEW lines, NEW ref, NEW amount, NEW d,
           LineAt(all', i, ref, cp, amount, d),
           ref = NoRef \/ ref \in G!Ref..(G!Ref + 9), G!Open(amount, d) \in lines
    PROVE  SlotAdds(S, i, cp, orders, lines)
<1>1. Kept(all', i, lines)
    BY DEF Kept, LineAt, RowAt, G!Open
<1> QED
    BY <1>1 DEF SlotAdds, SlotRow, LineAt, RowAt

\* So is a row that one of the other side answers.
LEMMA RowAnswered ==
    ASSUME NEW S, NEW i \in S, NEW x \in S, NEW cp, NEW orders, NEW lines,
           NEW ref \in G!Ref..(G!Ref + 9), ref # NoRef,
           all'[i].ref = ref, all'[i].cp = cp, all'[x].ref = ref, all'[x].cp = cp,
           \/ all'[i].source = "psp" /\ all'[x].source = "bank"
           \/ all'[i].source = "bank" /\ all'[x].source = "psp"
    PROVE  SlotAdds(S, i, cp, orders, lines)
<1>1. Answered(all', S, i)
    BY DEF Answered, RefsAgree, IsExpected
<1> QED
    BY <1>1 DEF SlotAdds, SlotRow

\* Eight per cent and more are beyond the tolerance.
LEMMA CutShows ==
    ASSUME NEW amt \in Amounts
    PROVE  /\ \A rate \in FeeRates : G!FeeCut(amt, rate) > TolerantLimit(amt)
           /\ \A rate \in CutRates : G!ShortCut(amt, rate) > TolerantLimit(amt)
<1>1. amt \in Nat /\ amt >= 1000
    BY AmountType
<1> DEFINE q == TolerantLimit(amt)
<1>2. q \in Nat /\ 200 * q <= amt
    BY <1>1, Quotient, LimitsOfTheCode DEF TolerantLimit
<1> HIDE DEF q
<1>3. ASSUME NEW rate \in FeeRates PROVE G!FeeCut(amt, rate) > q
    <2>1. G!FeeCut(amt, rate) \in Nat
        BY <1>1, CutTypes
    <2>2. (G!FeeCut(amt, rate) * 10000) \div amt >= 800
        BY FeeStaysInBand, SMTT(30) DEF BasisPoints, commissionMinBP, commissionMaxBP
    <2>3. ~ (G!FeeCut(amt, rate) * 10000 < amt * 800)
        <3> DEFINE c == G!FeeCut(amt, rate) * 10000
        <3>1. c \in Nat /\ c \div amt >= 800
            BY <2>1, <2>2
        <3> HIDE DEF c
        <3>2. c \div amt \in Nat
            BY <1>1, <3>1, Quotient
        <3>3. c < amt * 800 => c \div amt < 800
            BY <1>1, <3>1, QuotientBounds
        <3> QED
            BY <3>1, <3>2, <3>3 DEF c
    <2> QED
        BY <1>1, <1>2, <2>1, <2>3
<1>4. ASSUME NEW rate \in CutRates PROVE G!ShortCut(amt, rate) > q
    <2>1. rate \in 3000..6999
        BY DrawBounds
    <2>2. PICK s \in Nat : rate = 3000 + s
        BY <2>1
    <2>3. amt * rate = amt * 3000 + amt * s /\ amt * s \in Nat
        BY <1>1, <2>2
    <2>4. amt * rate \in Nat /\ 10000 * (q + 1) <= amt * rate
        BY <1>1, <1>2, <2>3
    <2>5. q + 1 <= (amt * rate) \div 10000
        <3>1. q + 1 \in Nat /\ 10000 \in Nat \ {0}
            BY <1>2
        <3> QED
            BY <2>4, <3>1, QuotientBounds
    <2>6. (amt * rate) \div 10000 \in Nat
        BY <2>4, Quotient
    <2> QED
        BY <1>2, <2>5, <2>6 DEF G!ShortCut
<1> QED
    BY <1>3, <1>4 DEF q

\* An order paid short.
LEMMA ShortJoins ==
    ASSUME Ready, NEW cp \in Sellers, NEW amt \in Amounts, NEW d \in Days,
           NEW shift \in Shifts, NEW case, NEW type \in DiscrepancyTypes,
           NEW cut \in 0..amt, cut > TolerantLimit(amt),
           G!Short(case, type, cp, amt, cut, d, shift)
    PROVE  BookPlanned'
<1> DEFINE ref == G!Ref
           paid == amt - cut
           late == d + shift
           order == <<G!Order(ref, cp, amt, d), G!Injected(type)>>
           line == <<G!Line(ref, cp, paid, late), G!Nothing>>
           orders == {G!Open(amt, d)}
           lines == {G!Open(paid, late)}
<1>1. BookPlanned /\ BySeller /\ DrawnInv /\ G!Slot(case)
    BY DEF Ready, G!Short
<1>2. /\ ref \in Nat /\ ref # NoRef /\ ref \in G!Ref..(G!Ref + 9)
      /\ \E n \in Nat : Numbered(n)
    BY <1>1, SlotTypes
<1>3. /\ cp \in Nat /\ amt \in Nat /\ d \in Int /\ late \in Int
      /\ amt \in 0..MostOnRow /\ paid \in 0..MostOnRow /\ paid \in Nat
      /\ AbsDiff(amt, paid) = cut
    <2>1. /\ cp \in Nat /\ amt \in Nat /\ d \in Int /\ shift \in Int
          /\ \A x \in 0..amt : x \in 0..MostOnRow
        BY DrawTypes
    <2> QED
        BY <2>1 DEF AbsDiff
<1>4. G!Emit(<<order, line>>) /\ G!reserve(cp, orders, lines)
    BY DEF G!Short
<1> HIDE DEF ref, paid, late
<1>5. order \in Drawn /\ line \in Drawn
    BY <1>2, <1>3, TruthNames, DrawnRow, Zenon
<1> HIDE DEF order, line
<1>6. TruthKept' /\ \E x, y : /\ x # y /\ Joins({x, y})
                              /\ Enters(x, order) /\ Enters(y, line)
    BY <1>2, <1>4, <1>5, TwoEnter
<1>7. PICK x, y : x # y /\ Joins({x, y}) /\ Enters(x, order) /\ Enters(y, line)
    BY <1>6
<1>8. /\ OrderAt(all', x, ref, cp, amt, d) /\ truth'[x] = G!Injected(type)
      /\ LineAt(all', y, ref, cp, paid, late) /\ truth'[y] = G!Nothing
    BY <1>7, EnteredRows DEF order, line
<1>9. truth'[x].label = 0 /\ truth'[y].label = 0
    BY <1>8, TruthLabels
<1>10. WellPlanned(all', truth', {x, y})
    <2>1. ~ Meant(truth', x) /\ ~ Meant(truth', y)
        BY <1>9 DEF Meant
    <2>2. ~ AbsDiff(amt, paid) <= TolerantLimit(amt)
        <3>1. TolerantLimit(amt) \in Nat
            BY <1>3, LimitsOfTheCode, Quotient DEF TolerantLimit
        <3> QED
            BY <1>3, <3>1
    <2> QED
        BY <1>2, <1>3, <1>7, <1>8, <2>1, <2>2, UnpaidPair
<1>11. \A i \in {x, y} : SlotAdds({x, y}, i, cp, orders, lines)
    <2>1. SlotAdds({x, y}, x, cp, orders, lines)
        BY <1>2, <1>8, OrderKept
    <2>2. SlotAdds({x, y}, y, cp, orders, lines)
        BY <1>2, <1>8, LineKept
    <2> QED
        BY <2>1, <2>2
<1>12. Reserves(cp, orders, lines)
    BY <1>1, <1>4, ReserveReserves
<1> DEFINE S == {x, y}
<1>13. /\ Joins(S) /\ WellPlanned(all', truth', S)
       /\ \A i \in S : SlotAdds(S, i, cp, orders, lines)
       /\ \A i \in S : truth'[i].label \in {0, G!Ref}
    BY <1>7, <1>9, <1>10, <1>11
<1> HIDE DEF S, orders, lines
<1> QED
    BY <1>1, <1>6, <1>12, <1>13, SlotJoins DEF Ready

\* An order paid too late.
LEMMA TimingJoins ==
    ASSUME Ready, NEW cp \in Sellers, NEW amt \in Amounts, NEW d \in Days,
           G!Timing(cp, amt, d)
    PROVE  BookPlanned'
<1>0. PICK delay \in Delays :
          /\ G!Slot(2)
          /\ G!reserve(cp, {G!Open(amt, d)}, {G!Open(amt, d + delay)})
          /\ G!Emit(<< <<G!Order(G!Ref, cp, amt, d), G!Injected("timing")>>,
                       <<G!Line(G!Ref, cp, amt, d + delay), G!Nothing>> >>)
    BY DEF G!Timing
<1> DEFINE ref == G!Ref
           late == d + delay
           order == <<G!Order(ref, cp, amt, d), G!Injected("timing")>>
           line == <<G!Line(ref, cp, amt, late), G!Nothing>>
           orders == {G!Open(amt, d)}
           lines == {G!Open(amt, late)}
<1>1. BookPlanned /\ BySeller /\ DrawnInv /\ G!Slot(2)
    BY <1>0 DEF Ready
<1>2. /\ ref \in Nat /\ ref # NoRef /\ ref \in G!Ref..(G!Ref + 9)
      /\ \E n \in Nat : Numbered(n)
    BY <1>1, SlotTypes
<1>3. /\ cp \in Nat /\ amt \in Nat /\ d \in Int /\ late \in Int
      /\ amt \in 0..MostOnRow /\ ~ AbsDiff(late, d) <= MatchWindowDays
    <2>1. /\ cp \in Nat /\ amt \in Nat /\ d \in Int
          /\ \A x \in 0..amt : x \in 0..MostOnRow
        BY DrawTypes
    <2>2. delay \in 4..10
        BY DrawBounds
    <2> QED
        BY <2>1, <2>2, LimitsOfTheCode DEF AbsDiff
<1>4. G!Emit(<<order, line>>) /\ G!reserve(cp, orders, lines)
    BY <1>0
<1> HIDE DEF ref, late
<1>5. order \in Drawn /\ line \in Drawn
    <2>1. "timing" \in DiscrepancyTypes
        BY DEF DiscrepancyTypes
    <2> QED
        BY <1>2, <1>3, <2>1, TruthNames, DrawnRow, Zenon
<1> HIDE DEF order, line
<1>6. TruthKept' /\ \E x, y : /\ x # y /\ Joins({x, y})
                              /\ Enters(x, order) /\ Enters(y, line)
    BY <1>2, <1>4, <1>5, TwoEnter
<1>7. PICK x, y : x # y /\ Joins({x, y}) /\ Enters(x, order) /\ Enters(y, line)
    BY <1>6
<1>8. /\ OrderAt(all', x, ref, cp, amt, d) /\ truth'[x] = G!Injected("timing")
      /\ LineAt(all', y, ref, cp, amt, late) /\ truth'[y] = G!Nothing
    BY <1>7, EnteredRows DEF order, line
<1>9. truth'[x].label = 0 /\ truth'[y].label = 0
    BY <1>8, TruthLabels
<1>10. WellPlanned(all', truth', {x, y})
    <2>1. ~ Meant(truth', x) /\ ~ Meant(truth', y)
        BY <1>9 DEF Meant
    <2> QED
        BY <1>2, <1>3, <1>7, <1>8, <2>1, UnpaidPair
<1>11. \A i \in {x, y} : SlotAdds({x, y}, i, cp, orders, lines)
    <2>1. SlotAdds({x, y}, x, cp, orders, lines)
        BY <1>2, <1>8, OrderKept
    <2>2. SlotAdds({x, y}, y, cp, orders, lines)
        BY <1>2, <1>8, LineKept
    <2> QED
        BY <2>1, <2>2
<1>12. Reserves(cp, orders, lines)
    BY <1>1, <1>4, ReserveReserves
<1> DEFINE S == {x, y}
<1>13. /\ Joins(S) /\ WellPlanned(all', truth', S)
       /\ \A i \in S : SlotAdds(S, i, cp, orders, lines)
       /\ \A i \in S : truth'[i].label \in {0, G!Ref}
    BY <1>7, <1>9, <1>10, <1>11
<1> HIDE DEF S, orders, lines
<1> QED
    BY <1>1, <1>6, <1>12, <1>13, SlotJoins DEF Ready

\* An order never paid.
LEMMA MissingJoins ==
    ASSUME Ready, NEW cp \in Sellers, NEW amt \in Amounts, NEW d \in Days,
           G!Missing(cp, amt, d)
    PROVE  BookPlanned'
<1> DEFINE ref == G!Ref
           order == <<G!Order(ref, cp, amt, d), G!Injected("missing")>>
           orders == {G!Open(amt, d)}
<1>1. BookPlanned /\ BySeller /\ DrawnInv /\ G!Slot(4)
    BY DEF Ready, G!Missing
<1>2. /\ ref \in Nat /\ ref # NoRef /\ ref \in G!Ref..(G!Ref + 9)
      /\ \E n \in Nat : Numbered(n)
    BY <1>1, SlotTypes
<1>3. cp \in Nat /\ d \in Int /\ amt \in 0..MostOnRow
    BY DrawTypes
<1>4. G!Emit(<<order>>) /\ G!reserve(cp, orders, {})
    BY DEF G!Missing
<1> HIDE DEF ref
<1>5. order \in Drawn
    <2>1. "missing" \in DiscrepancyTypes
        BY DEF DiscrepancyTypes
    <2> QED
        BY <1>2, <1>3, <2>1, TruthNames, DrawnRow, Zenon
<1> HIDE DEF order
<1>6. TruthKept' /\ \E x : Joins({x}) /\ Enters(x, order)
    BY <1>2, <1>4, <1>5, OneEnters
<1>7. PICK x : Joins({x}) /\ Enters(x, order)
    BY <1>6
<1>8. OrderAt(all', x, ref, cp, amt, d) /\ truth'[x] = G!Injected("missing")
    BY <1>7, EnteredRows DEF order
<1>9. truth'[x].label = 0
    BY <1>8, TruthLabels
<1>10. WellPlanned(all', truth', {x})
    BY <1>2, <1>8, <1>9, SingleRow DEF Meant, OrderAt, RowAt
<1>11. SlotAdds({x}, x, cp, orders, {})
    BY <1>2, <1>8, OrderKept
<1>12. Reserves(cp, orders, {})
    BY <1>1, <1>4, ReserveReserves
<1> DEFINE S == {x}
<1>13. /\ Joins(S) /\ WellPlanned(all', truth', S)
       /\ \A i \in S : SlotAdds(S, i, cp, orders, {})
       /\ \A i \in S : truth'[i].label \in {0, G!Ref}
    BY <1>7, <1>9, <1>10, <1>11
<1> HIDE DEF S, orders
<1> QED
    BY <1>1, <1>6, <1>12, <1>13, SlotJoins DEF Ready

\* A list of two and one of one are a list of three.
LEMMA OneMore ==
    ASSUME NEW S, NEW a \in S, NEW b \in S, NEW c \in S
    PROVE  <<a, b>> \o <<c>> = <<a, b, c>>
<1> DEFINE s == <<a, b>>
           t == <<c>>
           u == <<a, b, c>>
<1>1. /\ s \in Seq(S) /\ Len(s) = 2 /\ t \in Seq(S) /\ Len(t) = 1
      /\ u \in Seq(S) /\ Len(u) = 3
    BY ShortLists
<1>2. /\ s[1] = a /\ s[2] = b /\ t[1] = c
      /\ u[1] = a /\ u[2] = b /\ u[3] = c
    OBVIOUS
<1> HIDE DEF s, t, u
<1>3. /\ s \o t \in Seq(S) /\ Len(s \o t) = 3
      /\ \A k \in 1..3 : (s \o t)[k] = IF k <= 2 THEN s[k] ELSE t[k - 2]
    <2>1. /\ s \o t \in Seq(S) /\ Len(s \o t) = Len(s) + Len(t)
          /\ \A k \in 1..Len(s) + Len(t) :
                 (s \o t)[k] = IF k <= Len(s) THEN s[k] ELSE t[k - Len(s)]
        BY <1>1, ConcatProperties
    <2>2. Len(s) + Len(t) = 3
        BY <1>1
    <2> QED
        BY <1>1, <2>1, <2>2
<1>4. \A k \in 1..3 : (s \o t)[k] = u[k]
    BY <1>2, <1>3
<1>5. s \o t = u
    BY <1>1, <1>3, <1>4, SeqEqual
<1> QED
    BY <1>5 DEF s, t, u

\* An order and a line of its amount inside the window.
LEMMA PairTypes ==
    ASSUME DrawnInv, BookPlanned, NEW case, G!Slot(case),
           NEW cp \in Sellers, NEW amt \in Amounts, NEW d \in Days,
           NEW shift \in Shifts
    PROVE  /\ <<G!Order(G!Ref, cp, amt, d), G!Match(G!Ref)>> \in Drawn
           /\ <<G!Line(G!Ref, cp, amt, d + shift), G!Match(G!Ref)>> \in Drawn
           /\ cp \in Nat /\ d \in Int /\ amt \in Nat /\ amt > 0
           /\ d + shift \in Int /\ d + shift + 2 \in Int
           /\ amt \in 0..MostOnRow
           /\ AbsDiff(d + shift, d) <= MatchWindowDays
<1>1. /\ cp \in Nat /\ d \in Int /\ shift \in Int /\ amt \in Nat /\ amt > 0
      /\ d + shift \in Int /\ d + shift + 2 \in Int /\ amt \in 0..MostOnRow
      /\ AbsDiff(d + shift, d) <= MatchWindowDays
    <2>1. /\ cp \in Nat /\ d \in Int /\ amt \in Nat /\ amt >= 1000
          /\ \A x \in 0..amt : x \in 0..MostOnRow
        BY DrawTypes
    <2>2. shift \in 0..3
        BY DrawBounds
    <2> QED
        BY <2>1, <2>2, LimitsOfTheCode DEF AbsDiff
<1>2. G!Ref \in Nat
    BY SlotTypes
<1>3. G!Match(G!Ref) \in Truths
    BY <1>2, TruthNames
<1> QED
    BY <1>1, <1>2, <1>3, DrawnRow, Zenon

\* A paid order.
LEMMA CleanJoins ==
    ASSUME Ready, NEW cp \in Sellers, NEW amt \in Amounts, NEW d \in Days,
           NEW shift \in Shifts, G!Clean(cp, amt, d, shift)
    PROVE  BookPlanned'
<1> DEFINE ref == G!Ref
           late == d + shift
           order == <<G!Order(ref, cp, amt, d), G!Match(ref)>>
           line == <<G!Line(ref, cp, amt, late), G!Match(ref)>>
<1>1. BookPlanned /\ BySeller /\ DrawnInv /\ G!Slot(14)
    BY DEF Ready, G!Clean
<1>2. /\ ref \in Nat /\ ref # 0 /\ ref # NoRef /\ ref \in G!Ref..(G!Ref + 9)
      /\ \E n \in Nat : Numbered(n)
    BY <1>1, SlotTypes
<1>3. /\ order \in Drawn /\ line \in Drawn
      /\ AbsDiff(late, d) <= MatchWindowDays
    BY <1>1, PairTypes
<1>4. G!Emit(<<order, line>>) /\ G!NotReserved
    BY DEF G!Clean, G!CleanPair
<1> HIDE DEF order, line, late
<1>6. TruthKept' /\ \E x, y : /\ x # y /\ Joins({x, y})
                              /\ Enters(x, order) /\ Enters(y, line)
    BY <1>2, <1>3, <1>4, TwoEnter
<1>7. PICK x, y : x # y /\ Joins({x, y}) /\ Enters(x, order) /\ Enters(y, line)
    BY <1>6
<1>8. /\ OrderAt(all', x, ref, cp, amt, d) /\ truth'[x] = G!Match(ref)
      /\ LineAt(all', y, ref, cp, amt, late) /\ truth'[y] = G!Match(ref)
    <2>1. OrderAt(all', x, ref, cp, amt, d) /\ truth'[x] = G!Match(ref)
        BY <1>7, EnteredRows DEF order
    <2>2. LineAt(all', y, ref, cp, amt, late) /\ truth'[y] = G!Match(ref)
        BY <1>7, EnteredRows DEF line
    <2> QED
        BY <2>1, <2>2
<1>9. truth'[x].label = ref /\ truth'[y].label = ref
    BY <1>8, TruthLabels
<1>10. WellPlanned(all', truth', {x, y})
    <2>1. Meant(truth', x) /\ truth'[y].label = truth'[x].label
        BY <1>2, <1>9 DEF Meant
    <2> QED
        BY <1>2, <1>3, <1>7, <1>8, <2>1, PaidPair
<1>11. \A i \in {x, y} : SlotAdds({x, y}, i, cp, {}, {})
    <2>1. /\ all'[x].ref = ref /\ all'[x].cp = cp /\ all'[x].source = "psp"
          /\ all'[y].ref = ref /\ all'[y].cp = cp /\ all'[y].source = "bank"
        BY <1>8 DEF OrderAt, LineAt, RowAt
    <2>2. SlotAdds({x, y}, x, cp, {}, {}) /\ SlotAdds({x, y}, y, cp, {}, {})
        BY <1>2, <2>1, RowAnswered
    <2> QED
        BY <2>2
<1>12. Reserves(cp, {}, {})
    BY <1>1, <1>4, NothingReserves
<1> DEFINE S == {x, y}
<1>13. /\ Joins(S) /\ WellPlanned(all', truth', S)
       /\ \A i \in S : SlotAdds(S, i, cp, {}, {})
       /\ \A i \in S : truth'[i].label \in {0, G!Ref}
    BY <1>7, <1>9, <1>10, <1>11
<1> HIDE DEF S
<1> QED
    BY <1>1, <1>6, <1>12, <1>13, SlotJoins DEF Ready

\* A paid order and a debit of its reference.
LEMMA RefundJoins ==
    ASSUME Ready, NEW cp \in Sellers, NEW amt \in Amounts, NEW d \in Days,
           NEW shift \in Shifts, G!Refund(cp, amt, d, shift)
    PROVE  BookPlanned'
<1> DEFINE ref == G!Ref
           late == d + shift
           back == d + shift + 2
           order == <<G!Order(ref, cp, amt, d), G!Match(ref)>>
           line == <<G!Line(ref, cp, amt, late), G!Match(ref)>>
           debit == <<G!mkTx("bank", ref, cp, amt, back, "debit"),
                      G!Injected("refund")>>
<1>1. BookPlanned /\ BySeller /\ DrawnInv /\ G!Slot(5)
    BY DEF Ready, G!Refund
<1>2. /\ ref \in Nat /\ ref # 0 /\ ref # NoRef /\ ref \in G!Ref..(G!Ref + 9)
      /\ \E n \in Nat : Numbered(n)
    BY <1>1, SlotTypes
<1>3. /\ order \in Drawn /\ line \in Drawn
      /\ AbsDiff(late, d) <= MatchWindowDays
      /\ cp \in Nat /\ amt \in 0..MostOnRow /\ back \in Int
    BY <1>1, PairTypes
<1>4. G!Emit(<<order, line>> \o <<debit>>) /\ G!NotReserved
    BY DEF G!Refund, G!CleanPair
<1> HIDE DEF order, line, late, back, ref
<1>5. debit \in Drawn
    <2>1. "refund" \in DiscrepancyTypes
        BY DEF DiscrepancyTypes
    <2> QED
        BY <1>2, <1>3, <2>1, TruthNames, DrawnRow, Zenon
<1> HIDE DEF debit
<1>e. G!Emit(<<order, line, debit>>)
    <2>1. <<order, line>> \o <<debit>> = <<order, line, debit>>
        BY <1>3, <1>5, OneMore
    <2> QED
        BY <1>4, <2>1
<1>6. TruthKept' /\ \E x, y, z :
                        /\ x < y /\ x # y /\ x # z /\ y # z /\ Joins({x, y, z})
                        /\ Enters(x, order) /\ Enters(y, line) /\ Enters(z, debit)
    BY <1>2, <1>3, <1>5, <1>e, ThreeEnter
<1>7. PICK x, y, z : /\ x # y /\ x # z /\ y # z /\ Joins({x, y, z})
                     /\ Enters(x, order) /\ Enters(y, line) /\ Enters(z, debit)
    BY <1>6
<1>8. /\ OrderAt(all', x, ref, cp, amt, d) /\ truth'[x] = G!Match(ref)
      /\ LineAt(all', y, ref, cp, amt, late) /\ truth'[y] = G!Match(ref)
      /\ RowAt(all', z, "bank", ref, cp, amt, back, "debit")
      /\ truth'[z] = G!Injected("refund")
    <2>1. OrderAt(all', x, ref, cp, amt, d) /\ truth'[x] = G!Match(ref)
        BY <1>7, EnteredRows DEF order
    <2>2. LineAt(all', y, ref, cp, amt, late) /\ truth'[y] = G!Match(ref)
        BY <1>7, EnteredRows DEF line
    <2>3. RowAt(all', z, "bank", ref, cp, amt, back, "debit") /\ truth'[z] = G!Injected("refund")
        BY <1>7, EnteredRows DEF debit
    <2> QED
        BY <2>1, <2>2, <2>3
<1>9. truth'[x].label = ref /\ truth'[y].label = ref /\ truth'[z].label = 0
    BY <1>8, TruthLabels
<1>10. WellPlanned(all', truth', {x, y, z})
    <2>1. /\ Meant(truth', x) /\ truth'[y].label = truth'[x].label
          /\ ~ Meant(truth', z)
        BY <1>2, <1>9 DEF Meant
    <2> QED
        BY <1>2, <1>3, <1>7, <1>8, <2>1, PaidAndRefunded
<1> DEFINE S == {x, y, z}
<1>11. \A i \in S : SlotAdds(S, i, cp, {}, {})
    <2>1. /\ all'[x].ref = ref /\ all'[x].cp = cp /\ all'[x].source = "psp"
          /\ \A i \in {y, z} : /\ all'[i].ref = ref /\ all'[i].cp = cp
                               /\ all'[i].source = "bank"
        BY <1>8 DEF OrderAt, LineAt, RowAt
    <2>2. SlotAdds(S, x, cp, {}, {})
        BY <1>2, <2>1, RowAnswered
    <2>3. SlotAdds(S, y, cp, {}, {})
        BY <1>2, <2>1, RowAnswered
    <2>4. SlotAdds(S, z, cp, {}, {})
        BY <1>2, <2>1, RowAnswered
    <2> QED
        BY <2>2, <2>3, <2>4
<1>12. Reserves(cp, {}, {})
    BY <1>1, <1>4, NothingReserves
<1>13. /\ Joins(S) /\ WellPlanned(all', truth', S)
       /\ \A i \in S : truth'[i].label \in {0, G!Ref}
    BY <1>7, <1>9, <1>10 DEF ref
<1> HIDE DEF S
<1> QED
    BY <1>1, <1>6, <1>11, <1>12, <1>13, SlotJoins DEF Ready

\* A paid order and a line of nobody's order.
LEMMA UnknownJoins ==
    ASSUME Ready, NEW cp \in Sellers, NEW amt \in Amounts, NEW d \in Days,
           NEW shift \in Shifts, G!Unknown(cp, amt, d, shift)
    PROVE  BookPlanned'
<1>0. PICK amt2 \in Amounts, d2 \in Days :
           G!Emit(G!CleanPair(cp, amt, d, shift) \o
                  << <<G!Line(G!AlienRef, G!Stranger, amt2, d2),
                       G!Injected("unknown")>> >>)
    BY DEF G!Unknown
<1> DEFINE ref == G!Ref
           alien == G!AlienRef
           stranger == G!Stranger
           late == d + shift
           order == <<G!Order(ref, cp, amt, d), G!Match(ref)>>
           line == <<G!Line(ref, cp, amt, late), G!Match(ref)>>
           other == <<G!Line(alien, stranger, amt2, d2), G!Injected("unknown")>>
<1>1. BookPlanned /\ BySeller /\ DrawnInv /\ G!Slot(7)
    BY DEF Ready, G!Unknown
<1>2. /\ ref \in Nat /\ ref # 0 /\ ref # NoRef /\ ref \in G!Ref..(G!Ref + 9)
      /\ alien \in Nat /\ stranger \in Nat
      /\ \E n \in Nat : Numbered(n)
    BY <1>1, SlotTypes
<1>3. /\ order \in Drawn /\ line \in Drawn
      /\ AbsDiff(late, d) <= MatchWindowDays
    BY <1>1, PairTypes
<1>4. G!Emit(<<order, line>> \o <<other>>) /\ G!NotReserved
    BY <1>0 DEF G!Unknown, G!CleanPair
<1>s. stranger # cp
    BY DrawBounds DEF G!Stranger
<1>a. amt2 \in 0..MostOnRow /\ d2 \in Int
    <2>1. amt2 \in Nat /\ d2 \in Int /\ \A x \in 0..amt2 : x \in 0..MostOnRow
        BY DrawTypes
    <2> QED
        BY <2>1
<1> HIDE DEF order, line, late, ref, alien, stranger
<1>5. other \in Drawn
    <2>1. "unknown" \in DiscrepancyTypes
        BY DEF DiscrepancyTypes
    <2> QED
        BY <1>2, <1>a, <2>1, TruthNames, DrawnRow, Zenon
<1> HIDE DEF other
<1>e. G!Emit(<<order, line, other>>)
    <2>1. <<order, line>> \o <<other>> = <<order, line, other>>
        BY <1>3, <1>5, OneMore
    <2> QED
        BY <1>4, <2>1
<1>6. TruthKept' /\ \E x, y, z :
                        /\ x < y /\ x # y /\ x # z /\ y # z /\ Joins({x, y, z})
                        /\ Enters(x, order) /\ Enters(y, line) /\ Enters(z, other)
    BY <1>2, <1>3, <1>5, <1>e, ThreeEnter
<1>7. PICK x, y, z : /\ x # y /\ x # z /\ y # z /\ Joins({x, y, z})
                     /\ Enters(x, order) /\ Enters(y, line) /\ Enters(z, other)
    BY <1>6
<1>8. /\ OrderAt(all', x, ref, cp, amt, d) /\ truth'[x] = G!Match(ref)
      /\ LineAt(all', y, ref, cp, amt, late) /\ truth'[y] = G!Match(ref)
      /\ LineAt(all', z, alien, stranger, amt2, d2)
      /\ truth'[z] = G!Injected("unknown")
    <2>1. OrderAt(all', x, ref, cp, amt, d) /\ truth'[x] = G!Match(ref)
        BY <1>7, EnteredRows DEF order
    <2>2. LineAt(all', y, ref, cp, amt, late) /\ truth'[y] = G!Match(ref)
        BY <1>7, EnteredRows DEF line
    <2>3. LineAt(all', z, alien, stranger, amt2, d2) /\ truth'[z] = G!Injected("unknown")
        BY <1>7, EnteredRows DEF other
    <2> QED
        BY <2>1, <2>2, <2>3
<1>9. truth'[x].label = ref /\ truth'[y].label = ref /\ truth'[z].label = 0
    BY <1>8, TruthLabels
<1>10. WellPlanned(all', truth', {x, y, z})
    <2>1. /\ Meant(truth', x) /\ truth'[y].label = truth'[x].label
          /\ ~ Meant(truth', z)
        BY <1>2, <1>9 DEF Meant
    <2>2. all'[z].source = "bank" /\ all'[z].cp # cp
        BY <1>s, <1>8 DEF LineAt, RowAt
    <2> QED
        BY <1>2, <1>3, <1>7, <1>8, <2>1, <2>2, PaidBesideStranger
<1> DEFINE S == {x, y, z}
<1>11. \A i \in S : SlotAdds(S, i, cp, {}, {})
    <2>1. /\ all'[x].ref = ref /\ all'[x].cp = cp /\ all'[x].source = "psp"
          /\ all'[y].ref = ref /\ all'[y].cp = cp /\ all'[y].source = "bank"
          /\ all'[z].ref = alien /\ all'[z].cp = stranger
          /\ all'[z].source = "bank"
        BY <1>8 DEF OrderAt, LineAt, RowAt
    <2>2. SlotAdds(S, x, cp, {}, {})
        BY <1>2, <2>1, RowAnswered
    <2>3. SlotAdds(S, y, cp, {}, {})
        BY <1>2, <2>1, RowAnswered
    <2>4. SlotAdds(S, z, cp, {}, {})
        BY <2>1 DEF SlotAdds, alien, stranger
    <2> QED
        BY <2>2, <2>3, <2>4
<1>12. Reserves(cp, {}, {})
    BY <1>1, <1>4, NothingReserves
<1>13. /\ Joins(S) /\ WellPlanned(all', truth', S)
       /\ \A i \in S : truth'[i].label \in {0, G!Ref}
    BY <1>7, <1>9, <1>10 DEF ref
<1> HIDE DEF S
<1> QED
    BY <1>1, <1>6, <1>11, <1>12, <1>13, SlotJoins DEF Ready

\* An order entered twice.
LEMMA DuplicateJoins ==
    ASSUME Ready, NEW cp \in Sellers, NEW amt \in Amounts, NEW d \in Days,
           NEW shift \in Shifts, G!Duplicate(cp, amt, d, shift)
    PROVE  BookPlanned'
<1> DEFINE ref == G!Ref
           late == d + shift
           order == <<G!Order(ref, cp, amt, d), G!Match(ref)>>
           again == <<G!Order(ref, cp, amt, d), G!Injected("duplicate")>>
           line == <<G!Line(ref, cp, amt, late), G!Match(ref)>>
           orders == {G!Open(amt, d)}
<1>1. BookPlanned /\ BySeller /\ DrawnInv /\ G!Slot(3)
    BY DEF Ready, G!Duplicate
<1>2. /\ ref \in Nat /\ ref # 0 /\ ref # NoRef /\ ref \in G!Ref..(G!Ref + 9)
      /\ \E n \in Nat : Numbered(n)
    BY <1>1, SlotTypes
<1>3. /\ order \in Drawn /\ line \in Drawn
      /\ AbsDiff(late, d) <= MatchWindowDays
      /\ cp \in Nat /\ amt \in 0..MostOnRow /\ d \in Int
    BY <1>1, PairTypes
<1>4. G!Emit(<<order, again, line>>) /\ G!reserve(cp, orders, {})
    BY DEF G!Duplicate
<1> HIDE DEF order, line, late, ref
<1>5. again \in Drawn
    <2>1. "duplicate" \in DiscrepancyTypes
        BY DEF DiscrepancyTypes
    <2> QED
        BY <1>2, <1>3, <2>1, TruthNames, DrawnRow, Zenon
<1> HIDE DEF again
<1>6. TruthKept' /\ \E x, y, z :
                        /\ x < y /\ x # y /\ x # z /\ y # z /\ Joins({x, y, z})
                        /\ Enters(x, order) /\ Enters(y, again) /\ Enters(z, line)
    BY <1>2, <1>3, <1>4, <1>5, ThreeEnter
<1>7. PICK x, y, z : /\ x < y /\ x # y /\ x # z /\ y # z /\ Joins({x, y, z})
                     /\ Enters(x, order) /\ Enters(y, again) /\ Enters(z, line)
    BY <1>6
<1>8. /\ OrderAt(all', x, ref, cp, amt, d) /\ truth'[x] = G!Match(ref)
      /\ OrderAt(all', y, ref, cp, amt, d) /\ truth'[y] = G!Injected("duplicate")
      /\ LineAt(all', z, ref, cp, amt, late) /\ truth'[z] = G!Match(ref)
    <2>1. OrderAt(all', x, ref, cp, amt, d) /\ truth'[x] = G!Match(ref)
        BY <1>7, EnteredRows DEF order
    <2>2. OrderAt(all', y, ref, cp, amt, d) /\ truth'[y] = G!Injected("duplicate")
        BY <1>7, EnteredRows DEF again
    <2>3. LineAt(all', z, ref, cp, amt, late) /\ truth'[z] = G!Match(ref)
        BY <1>7, EnteredRows DEF line
    <2> QED
        BY <2>1, <2>2, <2>3
<1>c. Copy(all', x, y)
    <2>1. /\ all'[x] = [G!Order(ref, cp, amt, d) EXCEPT !.id = x]
          /\ all'[y] = [G!Order(ref, cp, amt, d) EXCEPT !.id = y]
        BY <1>7 DEF Enters, order, again
    <2>2. all'[y] = [all'[x] EXCEPT !.id = y]
        BY <2>1 DEF G!Order, G!mkTx
    <2> QED
        BY <1>7, <2>2 DEF Copy
<1>9. truth'[x].label = ref /\ truth'[y].label = 0 /\ truth'[z].label = ref
    BY <1>8, TruthLabels
<1>10. WellPlanned(all', truth', {x, y, z})
    <2>1. /\ Meant(truth', x) /\ truth'[z].label = truth'[x].label
          /\ ~ Meant(truth', y)
        BY <1>2, <1>9 DEF Meant
    <2> QED
        BY <1>2, <1>3, <1>7, <1>8, <1>c, <2>1, PaidTwice
<1> DEFINE S == {x, y, z}
<1>11. \A i \in S : SlotAdds(S, i, cp, orders, {})
    <2>1. /\ all'[x].ref = ref /\ all'[x].cp = cp /\ all'[x].source = "psp"
          /\ all'[z].ref = ref /\ all'[z].cp = cp /\ all'[z].source = "bank"
        BY <1>8 DEF OrderAt, LineAt, RowAt
    <2>2. SlotAdds(S, x, cp, orders, {})
        BY <1>2, <1>8, OrderKept
    <2>3. SlotAdds(S, y, cp, orders, {})
        BY <1>2, <1>8, OrderKept
    <2>4. SlotAdds(S, z, cp, orders, {})
        BY <1>2, <2>1, RowAnswered
    <2> QED
        BY <2>2, <2>3, <2>4
<1>12. Reserves(cp, orders, {})
    BY <1>1, <1>4, ReserveReserves
<1>13. /\ Joins(S) /\ WellPlanned(all', truth', S)
       /\ \A i \in S : truth'[i].label \in {0, G!Ref}
    BY <1>7, <1>9, <1>10 DEF ref
<1> HIDE DEF S, orders
<1> QED
    BY <1>1, <1>6, <1>11, <1>12, <1>13, SlotJoins DEF Ready

\* An order and a line without a reference.
LEMMA UnreferencedJoins ==
    ASSUME Ready, NEW cp \in Sellers, NEW amt \in Amounts, NEW d \in Days,
           NEW shift \in Shifts, G!Unreferenced(cp, amt, d, shift)
    PROVE  BookPlanned'
<1> DEFINE ref == G!Ref
           late == d + shift
           order == <<G!Order(ref, cp, amt, d), G!Match(ref)>>
           line == <<G!Line(NoRef, cp, amt, late), G!Match(ref)>>
           orders == {G!Open(amt, d)}
           lines == {G!Open(amt, late)}
<1>1. BookPlanned /\ BySeller /\ DrawnInv /\ G!Slot(8)
    BY DEF Ready, G!Unreferenced
<1>2. /\ ref \in Nat /\ ref # 0 /\ ref # NoRef /\ ref \in G!Ref..(G!Ref + 9)
      /\ NoRef \in Nat /\ G!NoRef = NoRef
      /\ \E n \in Nat : Numbered(n)
    BY <1>1, SlotTypes
<1>3. /\ order \in Drawn /\ AbsDiff(late, d) <= MatchWindowDays
      /\ cp \in Nat /\ amt \in 0..MostOnRow /\ d \in Int /\ late \in Int
    BY <1>1, PairTypes
<1>4. G!Emit(<<order, line>>) /\ G!reserve(cp, orders, lines)
    BY <1>2 DEF G!Unreferenced
<1> HIDE DEF order, late, ref
<1>5. line \in Drawn
    <2>1. G!Match(ref) \in Truths
        BY <1>2, TruthNames
    <2> QED
        BY <1>2, <1>3, <2>1, DrawnRow, Zenon
<1> HIDE DEF line
<1>6. TruthKept' /\ \E x, y : /\ x # y /\ Joins({x, y})
                              /\ Enters(x, order) /\ Enters(y, line)
    BY <1>2, <1>3, <1>4, <1>5, TwoEnter
<1>7. PICK x, y : x # y /\ Joins({x, y}) /\ Enters(x, order) /\ Enters(y, line)
    BY <1>6
<1>8. /\ OrderAt(all', x, ref, cp, amt, d) /\ truth'[x] = G!Match(ref)
      /\ LineAt(all', y, NoRef, cp, amt, late) /\ truth'[y] = G!Match(ref)
    <2>1. OrderAt(all', x, ref, cp, amt, d) /\ truth'[x] = G!Match(ref)
        BY <1>7, EnteredRows DEF order
    <2>2. LineAt(all', y, NoRef, cp, amt, late) /\ truth'[y] = G!Match(ref)
        BY <1>7, EnteredRows DEF line
    <2> QED
        BY <2>1, <2>2
<1>9. truth'[x].label = ref /\ truth'[y].label = ref
    BY <1>8, TruthLabels
<1>10. WellPlanned(all', truth', {x, y})
    <2>1. Meant(truth', x) /\ truth'[y].label = truth'[x].label
        BY <1>2, <1>9 DEF Meant
    <2> QED
        BY <1>2, <1>3, <1>7, <1>8, <2>1, UnreferencedPair
<1> DEFINE S == {x, y}
<1>11. \A i \in S : SlotAdds(S, i, cp, orders, lines)
    <2>1. SlotAdds(S, x, cp, orders, lines)
        BY <1>2, <1>8, OrderKept
    <2>2. SlotAdds(S, y, cp, orders, lines)
        BY <1>8, LineKept
    <2> QED
        BY <2>1, <2>2
<1>12. Reserves(cp, orders, lines)
    BY <1>1, <1>4, ReserveReserves
<1>13. /\ Joins(S) /\ WellPlanned(all', truth', S)
       /\ \A i \in S : truth'[i].label \in {0, G!Ref}
    BY <1>7, <1>9, <1>10 DEF ref
<1> HIDE DEF S, orders, lines
<1> QED
    BY <1>1, <1>6, <1>11, <1>12, <1>13, SlotJoins DEF Ready

\* Two orders and two lines that might pay either.
LEMMA TwoPairsJoin ==
    ASSUME Ready, NEW cp \in Sellers, NEW amt \in Amounts, NEW d \in Days,
           NEW shift \in Shifts, G!TwoPairs(cp, amt, d, shift)
    PROVE  BookPlanned'
<1> DEFINE refA == G!RefA
           refB == G!RefB
           late == d + shift
           unclear == G!Injected("ambiguous")
           orderA == <<G!Order(refA, cp, amt, d), unclear>>
           orderB == <<G!Order(refB, cp, amt, d), unclear>>
           line == <<G!Line(NoRef, cp, amt, late), unclear>>
           orders == {G!Open(amt, d)}
           lines == {G!Open(amt, late)}
<1>1. BookPlanned /\ BySeller /\ DrawnInv /\ G!Slot(9)
    BY DEF Ready, G!TwoPairs
<1>2. /\ refA \in Nat /\ refA # NoRef /\ refA \in G!Ref..(G!Ref + 9)
      /\ refB \in Nat /\ refB # NoRef /\ refB \in G!Ref..(G!Ref + 9)
      /\ NoRef \in Nat /\ G!NoRef = NoRef
      /\ \E n \in Nat : Numbered(n)
    BY <1>1, SlotTypes
<1>3. /\ AbsDiff(late, d) <= AmountHorizonDays
      /\ cp \in Nat /\ amt \in 0..MostOnRow /\ d \in Int /\ late \in Int
    <2>1. /\ AbsDiff(late, d) <= MatchWindowDays
          /\ cp \in Nat /\ amt \in 0..MostOnRow /\ d \in Int /\ late \in Int
        BY <1>1, PairTypes
    <2> QED
        BY <2>1, LimitsOfTheCode DEF AbsDiff
<1>4. G!Emit(<<orderA, line, orderB, line>>) /\ G!reserve(cp, orders, lines)
    BY <1>2 DEF G!TwoPairs
<1>t. unclear \in Truths /\ unclear.label = 0
    <2>1. "ambiguous" \in DiscrepancyTypes
        BY DEF DiscrepancyTypes
    <2> QED
        BY <2>1, TruthNames, TruthLabels
<1> HIDE DEF late, refA, refB, unclear
<1>5. orderA \in Drawn /\ orderB \in Drawn /\ line \in Drawn
    BY <1>2, <1>3, <1>t, DrawnRow, Zenon
<1> HIDE DEF line, orderA, orderB
<1>6. TruthKept' /\ FourJoin(orderA, line, orderB, line)
    <2>1. PICK n \in Nat : Numbered(n)
        BY <1>2
    <2> QED
        BY <1>4, <1>5, <2>1, FourEnter
<1>7. PICK w, x, y, z : /\ w # x /\ w # y /\ w # z /\ x # y /\ x # z /\ y # z
                        /\ Joins({w, x, y, z})
                        /\ Enters(w, orderA) /\ Enters(x, line)
                        /\ Enters(y, orderB) /\ Enters(z, line)
    BY <1>6 DEF FourJoin
<1>8. /\ OrderAt(all', w, refA, cp, amt, d) /\ truth'[w] = unclear
      /\ LineAt(all', x, NoRef, cp, amt, late) /\ truth'[x] = unclear
      /\ OrderAt(all', y, refB, cp, amt, d) /\ truth'[y] = unclear
      /\ LineAt(all', z, NoRef, cp, amt, late) /\ truth'[z] = unclear
    <2>1. OrderAt(all', w, refA, cp, amt, d) /\ truth'[w] = unclear
        BY <1>7, EnteredRows DEF orderA
    <2>2. LineAt(all', x, NoRef, cp, amt, late) /\ truth'[x] = unclear
        BY <1>7, EnteredRows DEF line
    <2>3. OrderAt(all', y, refB, cp, amt, d) /\ truth'[y] = unclear
        BY <1>7, EnteredRows DEF orderB
    <2>4. LineAt(all', z, NoRef, cp, amt, late) /\ truth'[z] = unclear
        BY <1>7, EnteredRows DEF line
    <2> QED
        BY <2>1, <2>2, <2>3, <2>4
<1> DEFINE S == {w, x, y, z}
<1>9. \A i \in S : truth'[i].label = 0
    BY <1>t, <1>8
<1>10. WellPlanned(all', truth', S)
    <2>1. \A i \in {w, y, x, z} : ~ Meant(truth', i)
        BY <1>9 DEF Meant
    <2>2. \A i \in {d}, j \in {late} : AbsDiff(j, i) <= AmountHorizonDays
        BY <1>3
    <2>3. \A i \in {d, d}, j \in {late, late} : AbsDiff(j, i) <= AmountHorizonDays
        BY <2>2
    <2>4. WellPlanned(all', truth', {w, y, x, z})
        BY <1>2, <1>3, <1>7, <1>8, <2>1, <2>3, TwoChoices
    <2>5. S = {w, y, x, z}
        OBVIOUS
    <2> QED
        BY <2>4, <2>5
<1>11. \A i \in S : SlotAdds(S, i, cp, orders, lines)
    <2>1. SlotAdds(S, w, cp, orders, lines) /\ SlotAdds(S, y, cp, orders, lines)
        BY <1>2, <1>8, OrderKept
    <2>2. SlotAdds(S, x, cp, orders, lines) /\ SlotAdds(S, z, cp, orders, lines)
        BY <1>8, LineKept
    <2> QED
        BY <2>1, <2>2
<1>12. Reserves(cp, orders, lines)
    BY <1>1, <1>4, ReserveReserves
<1>13. /\ Joins(S) /\ \A i \in S : truth'[i].label \in {0, G!Ref}
    BY <1>7, <1>9
<1> HIDE DEF S, orders, lines
<1> QED
    BY <1>1, <1>6, <1>10, <1>11, <1>12, <1>13, SlotJoins DEF Ready

\* Two checks that clear late.
LEMMA LateChecksJoin ==
    ASSUME Ready, NEW cp \in Sellers, NEW amt \in Amounts, NEW d \in Days,
           G!LateChecks(cp, amt, d)
    PROVE  BookPlanned'
<1> DEFINE refA == G!RefA
           refB == G!RefB
           unclear == G!Injected("ambiguous")
           orderA == <<G!Order(refA, cp, amt, d), G!Injected("timing")>>
           orderB == <<G!Order(refB, cp, amt, d + 7), unclear>>
           lineA == <<G!Line(NoRef, cp, amt, d + 8), unclear>>
           lineB == <<G!Line(NoRef, cp, amt, d + 16), G!Nothing>>
           orders == {G!Open(amt, d), G!Open(amt, d + 7)}
           lines == {G!Open(amt, d + 8), G!Open(amt, d + 16)}
<1>1. BookPlanned /\ BySeller /\ DrawnInv /\ G!Slot(13)
    BY DEF Ready, G!LateChecks
<1>2. /\ refA \in Nat /\ refA # NoRef /\ refA \in G!Ref..(G!Ref + 9)
      /\ refB \in Nat /\ refB # NoRef /\ refB \in G!Ref..(G!Ref + 9)
      /\ NoRef \in Nat /\ G!NoRef = NoRef
      /\ \E n \in Nat : Numbered(n)
    BY <1>1, SlotTypes
<1>3. /\ cp \in Nat /\ amt \in 0..MostOnRow /\ d \in Int
      /\ d + 7 \in Int /\ d + 8 \in Int /\ d + 16 \in Int
      /\ AbsDiff(d + 8, d) <= AmountHorizonDays
      /\ AbsDiff(d + 16, d) <= AmountHorizonDays
      /\ AbsDiff(d + 8, d + 7) <= AmountHorizonDays
      /\ AbsDiff(d + 16, d + 7) <= AmountHorizonDays
    <2>1. /\ cp \in Nat /\ amt \in Nat /\ d \in Int
          /\ \A x \in 0..amt : x \in 0..MostOnRow
        BY DrawTypes
    <2> QED
        BY <2>1, LimitsOfTheCode DEF AbsDiff
<1>4. G!Emit(<<orderA, orderB, lineA, lineB>>) /\ G!reserve(cp, orders, lines)
    BY <1>2 DEF G!LateChecks
<1>t. /\ unclear \in Truths /\ unclear.label = 0
      /\ G!Injected("timing") \in Truths /\ G!Injected("timing").label = 0
      /\ G!Nothing \in Truths /\ G!Nothing.label = 0
    <2>1. "ambiguous" \in DiscrepancyTypes /\ "timing" \in DiscrepancyTypes
        BY DEF DiscrepancyTypes
    <2> QED
        BY <2>1, TruthNames, TruthLabels
<1> HIDE DEF refA, refB, unclear
<1>5. orderA \in Drawn /\ orderB \in Drawn /\ lineA \in Drawn /\ lineB \in Drawn
    BY <1>2, <1>3, <1>t, DrawnRow, Zenon
<1> HIDE DEF lineA, lineB, orderA, orderB
<1>6. TruthKept' /\ FourJoin(orderA, orderB, lineA, lineB)
    <2>1. PICK n \in Nat : Numbered(n)
        BY <1>2
    <2> QED
        BY <1>4, <1>5, <2>1, FourEnter
<1>7. PICK w, x, y, z : /\ w # x /\ w # y /\ w # z /\ x # y /\ x # z /\ y # z
                        /\ Joins({w, x, y, z})
                        /\ Enters(w, orderA) /\ Enters(x, orderB)
                        /\ Enters(y, lineA) /\ Enters(z, lineB)
    BY <1>6 DEF FourJoin
<1>8. /\ OrderAt(all', w, refA, cp, amt, d) /\ truth'[w] = G!Injected("timing")
      /\ OrderAt(all', x, refB, cp, amt, d + 7) /\ truth'[x] = unclear
      /\ LineAt(all', y, NoRef, cp, amt, d + 8) /\ truth'[y] = unclear
      /\ LineAt(all', z, NoRef, cp, amt, d + 16) /\ truth'[z] = G!Nothing
    <2>1. OrderAt(all', w, refA, cp, amt, d) /\ truth'[w] = G!Injected("timing")
        BY <1>7, EnteredRows DEF orderA
    <2>2. OrderAt(all', x, refB, cp, amt, d + 7) /\ truth'[x] = unclear
        BY <1>7, EnteredRows DEF orderB
    <2>3. LineAt(all', y, NoRef, cp, amt, d + 8) /\ truth'[y] = unclear
        BY <1>7, EnteredRows DEF lineA
    <2>4. LineAt(all', z, NoRef, cp, amt, d + 16) /\ truth'[z] = G!Nothing
        BY <1>7, EnteredRows DEF lineB
    <2> QED
        BY <2>1, <2>2, <2>3, <2>4
<1> DEFINE S == {w, x, y, z}
<1>9. \A i \in S : truth'[i].label = 0
    BY <1>t, <1>8
<1>10. WellPlanned(all', truth', S)
    <2>1. \A i \in {w, x, y, z} : ~ Meant(truth', i)
        BY <1>9 DEF Meant
    <2>2. \A i \in {d, d + 7}, j \in {d + 8, d + 16} :
              AbsDiff(j, i) <= AmountHorizonDays
        BY <1>3
    <2> QED
        BY <1>2, <1>3, <1>7, <1>8, <2>1, <2>2, TwoChoices
<1>11. \A i \in S : SlotAdds(S, i, cp, orders, lines)
    <2>1. SlotAdds(S, w, cp, orders, lines)
        BY <1>2, <1>8, OrderKept
    <2>2. SlotAdds(S, x, cp, orders, lines)
        BY <1>2, <1>8, OrderKept
    <2>3. SlotAdds(S, y, cp, orders, lines)
        BY <1>8, LineKept
    <2>4. SlotAdds(S, z, cp, orders, lines)
        BY <1>8, LineKept
    <2> QED
        BY <2>1, <2>2, <2>3, <2>4
<1>12. Reserves(cp, orders, lines)
    BY <1>1, <1>4, ReserveReserves
<1>13. /\ Joins(S) /\ \A i \in S : truth'[i].label \in {0, G!Ref}
    BY <1>7, <1>9
<1> HIDE DEF S, orders, lines
<1> QED
    BY <1>1, <1>6, <1>10, <1>11, <1>12, <1>13, SlotJoins DEF Ready

\* A charge and its cancellation.
LEMMA ReversalJoins ==
    ASSUME Ready, NEW cp \in Sellers, NEW amt \in Amounts, NEW d \in Days,
           G!Reversal(cp, amt, d)
    PROVE  BookPlanned'
<1>0. PICK later \in {0, 1} :
          /\ G!Slot(11)
          /\ G!reserve(cp, {G!Open(amt, d)}, {})
          /\ G!Emit(<< <<G!Order(G!Ref, cp, amt, d), G!Match(G!Ref)>>,
                       <<G!mkTx("psp", G!Ref, cp, amt, d + later, "debit"),
                         G!Match(G!Ref)>> >>)
    BY DEF G!Reversal
<1> DEFINE ref == G!Ref
           back == d + later
           order == <<G!Order(ref, cp, amt, d), G!Match(ref)>>
           debit == <<G!mkTx("psp", ref, cp, amt, back, "debit"), G!Match(ref)>>
           orders == {G!Open(amt, d)}
<1>1. BookPlanned /\ BySeller /\ DrawnInv /\ G!Slot(11)
    BY <1>0 DEF Ready
<1>2. /\ ref \in Nat /\ ref # 0 /\ ref # NoRef /\ ref \in G!Ref..(G!Ref + 9)
      /\ \E n \in Nat : Numbered(n)
    BY <1>1, SlotTypes
<1>3. /\ cp \in Nat /\ d \in Int /\ amt \in 0..MostOnRow /\ amt > 0
      /\ back \in Int /\ AbsDiff(back, d) <= MatchWindowDays
    <2>1. /\ cp \in Nat /\ amt \in Nat /\ amt >= 1000 /\ d \in Int
          /\ \A x \in 0..amt : x \in 0..MostOnRow
        BY DrawTypes
    <2> QED
        BY <2>1, LimitsOfTheCode DEF AbsDiff
<1>4. G!Emit(<<order, debit>>) /\ G!reserve(cp, orders, {})
    BY <1>0
<1> HIDE DEF ref, back
<1>5. order \in Drawn /\ debit \in Drawn
    <2>1. G!Match(ref) \in Truths
        BY <1>2, TruthNames
    <2> QED
        BY <1>2, <1>3, <2>1, DrawnRow, Zenon
<1> HIDE DEF order, debit
<1>6. TruthKept' /\ \E x, y : /\ x # y /\ Joins({x, y})
                              /\ Enters(x, order) /\ Enters(y, debit)
    BY <1>2, <1>4, <1>5, TwoEnter
<1>7. PICK x, y : x # y /\ Joins({x, y}) /\ Enters(x, order) /\ Enters(y, debit)
    BY <1>6
<1>8. /\ OrderAt(all', x, ref, cp, amt, d) /\ truth'[x] = G!Match(ref)
      /\ RowAt(all', y, "psp", ref, cp, amt, back, "debit")
      /\ truth'[y] = G!Match(ref)
    <2>1. OrderAt(all', x, ref, cp, amt, d) /\ truth'[x] = G!Match(ref)
        BY <1>7, EnteredRows DEF order
    <2>2. /\ RowAt(all', y, "psp", ref, cp, amt, back, "debit")
          /\ truth'[y] = G!Match(ref)
        BY <1>7, EnteredRows DEF debit
    <2> QED
        BY <2>1, <2>2
<1>9. truth'[x].label = ref /\ truth'[y].label = ref
    BY <1>8, TruthLabels
<1>10. WellPlanned(all', truth', {x, y})
    <2>1. Meant(truth', x) /\ truth'[y].label = truth'[x].label
        BY <1>2, <1>9 DEF Meant
    <2> QED
        BY <1>2, <1>3, <1>7, <1>8, <2>1, ChargeAndReversal
<1> DEFINE S == {x, y}
<1>11. \A i \in S : SlotAdds(S, i, cp, orders, {})
    <2>1. SlotAdds(S, x, cp, orders, {})
        BY <1>2, <1>8, OrderKept
    <2>2. SlotAdds(S, y, cp, orders, {})
        BY <1>2, <1>8 DEF RowAt, SlotAdds, SlotRow
    <2> QED
        BY <2>1, <2>2
<1>12. Reserves(cp, orders, {})
    BY <1>1, <1>4, ReserveReserves
<1>13. /\ Joins(S) /\ WellPlanned(all', truth', S)
       /\ \A i \in S : truth'[i].label \in {0, G!Ref}
    BY <1>7, <1>9, <1>10 DEF ref
<1> HIDE DEF S, orders
<1> QED
    BY <1>1, <1>6, <1>11, <1>12, <1>13, SlotJoins DEF Ready

\* An order never paid beside one paid short by its amount.
LEMMA MissingBesideShortJoins ==
    ASSUME Ready, NEW cp \in Sellers, NEW amt \in Amounts, NEW d \in Days,
           NEW shift \in Shifts, G!MissingBesideShort(cp, amt, d, shift)
    PROVE  BookPlanned'
<1>0. PICK rate \in CutRates :
          LET part == amt - G!ShortCut(amt, rate)
          IN  /\ G!Slot(12)
              /\ G!reserve(cp, {G!Open(part, d), G!Open(amt, d)},
                               {G!Open(part, d + shift)})
              /\ G!Emit(<< <<G!Order(G!Ref, cp, part, d),
                             G!Injected("missing")>>,
                           <<G!Order(G!RefY, cp, amt, d),
                             G!Injected("partial")>>,
                           <<G!Line(G!RefY, cp, part, d + shift),
                             G!Nothing>> >>)
    BY DEF G!MissingBesideShort
<1> DEFINE ref == G!Ref
           refY == G!RefY
           part == amt - G!ShortCut(amt, rate)
           late == d + shift
           order == <<G!Order(ref, cp, part, d), G!Injected("missing")>>
           orderY == <<G!Order(refY, cp, amt, d), G!Injected("partial")>>
           line == <<G!Line(refY, cp, part, late), G!Nothing>>
           orders == {G!Open(part, d), G!Open(amt, d)}
           lines == {G!Open(part, late)}
<1>1. BookPlanned /\ BySeller /\ DrawnInv /\ G!Slot(12)
    BY <1>0 DEF Ready
<1>2. /\ ref \in Nat /\ ref # NoRef /\ ref \in G!Ref..(G!Ref + 9)
      /\ refY \in Nat /\ refY # NoRef /\ refY \in G!Ref..(G!Ref + 9)
      /\ refY # ref /\ \E n \in Nat : Numbered(n)
    BY <1>1, SlotTypes
<1>3. /\ cp \in Nat /\ amt \in Nat /\ d \in Int /\ late \in Int
      /\ amt \in 0..MostOnRow
    BY <1>1, PairTypes
<1>p. /\ part \in Nat /\ part \in 0..MostOnRow
      /\ ~ AbsDiff(amt, part) <= TolerantLimit(amt)
    <2> DEFINE cut == G!ShortCut(amt, rate)
    <2>1. cut \in 0..amt
        BY CutTypes
    <2>2. cut > TolerantLimit(amt)
        BY CutShows
    <2>3. \A x \in 0..amt : x \in 0..MostOnRow
        BY DrawTypes
    <2>4. TolerantLimit(amt) \in Nat
        BY <1>3, LimitsOfTheCode, Quotient DEF TolerantLimit
    <2> HIDE DEF cut
    <2>5. amt - cut \in 0..amt /\ AbsDiff(amt, amt - cut) = cut
        BY <1>3, <2>1 DEF AbsDiff
    <2> QED
        BY <2>1, <2>2, <2>3, <2>4, <2>5 DEF cut
<1>4. G!Emit(<<order, orderY, line>>) /\ G!reserve(cp, orders, lines)
    BY <1>0
<1> HIDE DEF ref, refY, part, late
<1>t. /\ G!Injected("missing") \in Truths /\ G!Injected("missing").label = 0
      /\ G!Injected("partial") \in Truths /\ G!Injected("partial").label = 0
      /\ G!Nothing \in Truths /\ G!Nothing.label = 0
    <2>1. "missing" \in DiscrepancyTypes /\ "partial" \in DiscrepancyTypes
        BY DEF DiscrepancyTypes
    <2> QED
        BY <2>1, TruthNames, TruthLabels
<1>5. order \in Drawn /\ orderY \in Drawn /\ line \in Drawn
    BY <1>2, <1>3, <1>p, <1>t, DrawnRow, Zenon
<1> HIDE DEF order, orderY, line
<1>6. TruthKept' /\ \E x, y, z :
                        /\ x < y /\ x # y /\ x # z /\ y # z /\ Joins({x, y, z})
                        /\ Enters(x, order) /\ Enters(y, orderY) /\ Enters(z, line)
    BY <1>2, <1>4, <1>5, ThreeEnter
<1>7. PICK x, y, z : /\ x # y /\ x # z /\ y # z /\ Joins({x, y, z})
                     /\ Enters(x, order) /\ Enters(y, orderY) /\ Enters(z, line)
    BY <1>6
<1>8. /\ OrderAt(all', x, ref, cp, part, d) /\ truth'[x] = G!Injected("missing")
      /\ OrderAt(all', y, refY, cp, amt, d) /\ truth'[y] = G!Injected("partial")
      /\ LineAt(all', z, refY, cp, part, late) /\ truth'[z] = G!Nothing
    <2>1. OrderAt(all', x, ref, cp, part, d) /\ truth'[x] = G!Injected("missing")
        BY <1>7, EnteredRows DEF order
    <2>2. OrderAt(all', y, refY, cp, amt, d) /\ truth'[y] = G!Injected("partial")
        BY <1>7, EnteredRows DEF orderY
    <2>3. LineAt(all', z, refY, cp, part, late) /\ truth'[z] = G!Nothing
        BY <1>7, EnteredRows DEF line
    <2> QED
        BY <2>1, <2>2, <2>3
<1> DEFINE S == {x, y, z}
<1>9. \A i \in S : truth'[i].label = 0
    BY <1>t, <1>8
<1>10. WellPlanned(all', truth', S)
    <2>1. \A i \in {x, y, z} : ~ Meant(truth', i)
        BY <1>9 DEF Meant
    <2> QED
        BY <1>2, <1>3, <1>p, <1>7, <1>8, <2>1, UnpaidBesideShort
<1>11. \A i \in S : SlotAdds(S, i, cp, orders, lines)
    <2>1. SlotAdds(S, x, cp, orders, lines)
        BY <1>2, <1>8, OrderKept
    <2>2. SlotAdds(S, y, cp, orders, lines)
        BY <1>2, <1>8, OrderKept
    <2>3. SlotAdds(S, z, cp, orders, lines)
        BY <1>2, <1>8, LineKept
    <2> QED
        BY <2>1, <2>2, <2>3
<1>12. Reserves(cp, orders, lines)
    BY <1>1, <1>4, ReserveReserves
<1>13. /\ Joins(S) /\ \A i \in S : truth'[i].label \in {0, G!Ref}
    BY <1>7, <1>9
<1> HIDE DEF S, orders, lines
<1> QED
    BY <1>1, <1>6, <1>10, <1>11, <1>12, <1>13, SlotJoins DEF Ready

\* f takes the terms v over S to the terms w over T, one by one.
Renames(f, v, S, w, T) ==
    /\ \A x \in S : w[f[x]] \in Int /\ v[x] = w[f[x]]
    /\ \A x, y \in S : f[x] = f[y] => x = y
    /\ T = {f[x] : x \in S}

\* Renamed terms add up to the same.
LEMMA SumRenamed ==
    ASSUME NEW S, NEW T, NEW f, NEW v, NEW w, IsFiniteSet(S), Renames(f, v, S, w, T)
    PROVE  Sum(v, S) = Sum(w, T)
<1>1. /\ \A x \in S : w[f[x]] \in Int /\ v[x] = w[f[x]]
      /\ \A x, y \in S : f[x] = f[y] => x = y
      /\ T = {f[x] : x \in S}
    BY DEF Renames
<1> QED
    BY <1>1, SumImage

\* Rows m+1 to m+k carry the amounts v.
Listed(b, m, k, v) == \A j \in 1..k : v[j] \in Int /\ b[m + j].amount = v[j]

\* Rows T are k rows, and make up v.
Listing(b, T, k, v) ==
    IsFiniteSet(T) /\ Cardinality(T) = k /\ SumOf(b, T) = Sum(v, 1..k)

\* Rows entered one after another add up to the amounts they were drawn with.
LEMMA RowsOfList ==
    ASSUME NEW b, NEW m \in Nat, NEW k \in Nat, NEW v, Listed(b, m, k, v)
    PROVE  Listing(b, (m + 1)..(m + k), k, v)
<1> DEFINE T == (m + 1)..(m + k)
           K == 1..k
           w == [i \in T |-> b[i].amount]
           f == [j \in K |-> m + j]
<1>0. \A j \in K : v[j] \in Int /\ b[m + j].amount = v[j]
    BY DEF Listed
<1>1. IsFiniteSet(T) /\ Cardinality(T) = k /\ IsFiniteSet(K)
    <2>1. m + 1 \in Int /\ m + k \in Int /\ 1 \in Int /\ k \in Int
        OBVIOUS
    <2>2. /\ IsFiniteSet(T) /\ IsFiniteSet(K)
          /\ Cardinality(T) = IF m + 1 > m + k THEN 0 ELSE (m + k) - (m + 1) + 1
        BY <2>1, FS_Interval
    <2> QED
        BY <2>2
<1>2. \A j \in K : f[j] = m + j /\ f[j] \in T
    OBVIOUS
<1>3. \A j \in K : w[f[j]] \in Int /\ v[j] = w[f[j]]
    BY <1>0, <1>2
<1>4. \A i, j \in K : f[i] = f[j] => i = j
    BY <1>2
<1>5. T = {f[j] : j \in K}
    <2>1. \A i \in T : i - m \in K /\ f[i - m] = i
        OBVIOUS
    <2> QED
        BY <1>2, <2>1
<1>6. \A i \in T : w[i] = b[i].amount
    OBVIOUS
<1> HIDE DEF w, f, K, T
<1>7. Sum(v, K) = Sum(w, T)
    <2>1. Renames(f, v, K, w, T)
        BY <1>3, <1>4, <1>5 DEF Renames
    <2> QED
        BY <1>1, <2>1, SumRenamed
<1>8. SumOf(b, T) = Sum(w, T)
    BY <1>1, <1>6, SumOfRows
<1>9. IsFiniteSet(T) /\ Cardinality(T) = k /\ SumOf(b, T) = Sum(v, K)
    BY <1>1, <1>7, <1>8
<1> QED
    BY <1>9 DEF Listing, T, K

\* An amount in parts, the last one what the others leave.
InParts(amt, k, parts, v) ==
    /\ DOMAIN parts = 1..(k - 1)
    /\ \A j \in DOMAIN parts : parts[j] \in Nat \ {0}
    /\ amt - G!TotalOf(parts) > 0
    /\ \A j \in 1..k : v[j] = IF j < k THEN parts[j]
                               ELSE amt - G!TotalOf(parts)

\* The parts are less than the whole, and make it up.
Makes(v, k, amt) ==
    /\ \A j \in 1..k : v[j] \in Nat /\ v[j] < amt
    /\ Sum(v, 1..k) = amt

\* The parts of an order make it up.
LEMMA PartsAndRest ==
    ASSUME NEW amt \in Nat, NEW k \in {2, 3}, NEW parts, NEW v,
           InParts(amt, k, parts, v)
    PROVE  Makes(v, k, amt)
<1> DEFINE D == DOMAIN parts
           total == Sum(parts, D)
<1>0. /\ D = 1..(k - 1) /\ \A j \in D : parts[j] \in Nat \ {0}
      /\ amt - G!TotalOf(parts) > 0
      /\ \A j \in 1..k : v[j] = IF j < k THEN parts[j]
                                 ELSE amt - G!TotalOf(parts)
    BY DEF InParts
<1>1. IsFiniteSet(D) /\ IsFiniteSet(1..k)
    BY <1>0, FS_Interval
<1>2. G!TotalOf(parts) = total
    BY <1>1, DrawnTotal
<1>3. total \in Nat /\ \A j \in D : parts[j] <= total
    <2>1. \A j \in D : parts[j] \in Nat
        BY <1>0
    <2>2. total \in Nat
        BY <1>1, <2>1, SumNat
    <2>3. ASSUME NEW j \in D PROVE parts[j] <= total
        <3>1. total = parts[j] + Sum(parts, D \ {j})
            BY <1>1, <2>1, SumRemove
        <3>2. Sum(parts, D \ {j}) \in Nat
            <4>1. IsFiniteSet(D \ {j})
                BY <1>1, FS_Subset
            <4> QED
                BY <2>1, <4>1, SumNat
        <3> QED
            BY <2>1, <3>1, <3>2
    <2> QED
        BY <2>2, <2>3
<1>4. /\ 1 \in D /\ k \in 1..k /\ (1..k) \ {k} = D
      /\ \A j \in D : j \in 1..k /\ j < k
    BY <1>0
<1>5. total >= 1
    <2>1. parts[1] \in Nat /\ parts[1] >= 1 /\ parts[1] <= total
        BY <1>0, <1>3, <1>4
    <2> QED
        BY <1>3, <2>1
<1> HIDE DEF total
<1>6. v[k] = amt - total /\ v[k] \in Nat /\ v[k] < amt
    BY <1>0, <1>2, <1>3, <1>4, <1>5
<1>7. \A j \in D : v[j] = parts[j] /\ v[j] \in Nat /\ v[j] < amt
    BY <1>0, <1>2, <1>3, <1>4
<1>8. \A j \in 1..k : j = k \/ j \in D
    BY <1>4
<1>9. Sum(v, 1..k) = v[k] + Sum(v, D)
    <2>1. \A j \in 1..k : v[j] \in Int
        BY <1>6, <1>7, <1>8
    <2>2. Sum(v, 1..k) = v[k] + Sum(v, (1..k) \ {k})
        BY <1>1, <1>4, <2>1, SumRemove
    <2> QED
        BY <1>4, <2>2
<1>10. Sum(v, D) = total
    <2>1. \A j \in D : /\ v[j] \in Int /\ parts[j] \in Int
                       /\ v[j] <= parts[j] /\ parts[j] <= v[j]
        BY <1>7
    <2>2. Sum(v, D) <= Sum(parts, D) /\ Sum(parts, D) <= Sum(v, D)
        BY <1>1, <2>1, SumLess
    <2>3. Sum(v, D) \in Int /\ Sum(parts, D) \in Int
        BY <1>1, <2>1, SumType
    <2> QED
        BY <2>2, <2>3 DEF total
<1> QED
    BY <1>3, <1>6, <1>7, <1>8, <1>9, <1>10 DEF Makes

\* An order paid in parts.
LEMMA SplitJoins ==
    ASSUME Ready, NEW cp \in Sellers, NEW amt \in Amounts, NEW d \in Days,
           G!Split(cp, amt, d)
    PROVE  BookPlanned'
<1>0. PICK parts \in [1..1 -> Portions] \cup [1..2 -> Portions] :
          LET k == Len(parts) + 1
              last == amt - G!TotalOf(parts)
          IN  /\ last > 0
              /\ G!Slot(10)
              /\ G!NotReserved
              /\ \E shift \in [1..k -> Shifts] :
                     G!Emit(<< <<G!Order(G!Ref, cp, amt, d), G!Match(G!Ref)>> >> \o
                          [j \in 1..k |->
                              <<G!Line(G!Ref, cp, IF j < k THEN parts[j] ELSE last,
                                       d + shift[j]),
                                G!Match(G!Ref)>>])
    BY DEF G!Split
<1> DEFINE k == Len(parts) + 1
           ref == G!Ref
           last == amt - G!TotalOf(parts)
           order == <<G!Order(ref, cp, amt, d), G!Match(ref)>>
           v == [j \in 1..k |-> IF j < k THEN parts[j] ELSE last]
<1>1. BookPlanned /\ BySeller /\ DrawnInv /\ G!Slot(10)
    BY <1>0 DEF Ready
<1>2. /\ ref \in Nat /\ ref # 0 /\ ref # NoRef /\ ref \in G!Ref..(G!Ref + 9)
      /\ \E n \in Nat : Numbered(n)
    BY <1>1, SlotTypes
<1>3. /\ k \in {2, 3} /\ DOMAIN parts = 1..(k - 1)
      /\ \A j \in DOMAIN parts : parts[j] \in Portions
    <2>1. CASE parts \in [1..1 -> Portions]
        <3>1. parts \in Seq(Portions) /\ Len(parts) = 1
            BY <2>1, FunctionIsList
        <3> QED
            BY <2>1, <3>1
    <2>2. CASE parts \in [1..2 -> Portions]
        <3>1. parts \in Seq(Portions) /\ Len(parts) = 2
            BY <2>2, FunctionIsList
        <3> QED
            BY <2>2, <3>1
    <2> QED
        BY <2>1, <2>2
<1>4. /\ cp \in Nat /\ amt \in Nat /\ d \in Int /\ amt \in 0..MostOnRow
      /\ \A x \in 0..amt : x \in 0..MostOnRow
    BY DrawTypes
<1>5. /\ \A j \in 1..k : v[j] \in Nat /\ v[j] < amt
      /\ Sum(v, 1..k) = amt
    <2>1. \A j \in DOMAIN parts : parts[j] \in Nat \ {0}
        BY <1>3, DrawBounds
    <2>2. amt - G!TotalOf(parts) > 0
        BY <1>0
    <2>3. \A j \in 1..k : v[j] = IF j < k THEN parts[j]
                                 ELSE amt - G!TotalOf(parts)
        OBVIOUS
    <2> HIDE DEF k, v
    <2>4. InParts(amt, k, parts, v)
        BY <1>3, <2>1, <2>2, <2>3 DEF InParts
    <2>5. Makes(v, k, amt)
        BY <1>3, <1>4, <2>4, PartsAndRest
    <2> QED
        BY <2>5 DEF Makes
<1>6. PICK shift \in [1..k -> Shifts] :
          G!Emit(<<order>> \o
                 [j \in 1..k |->
                     <<G!Line(ref, cp, IF j < k THEN parts[j] ELSE last,
                              d + shift[j]),
                       G!Match(ref)>>])
    BY <1>0
<1> DEFINE line(j) == <<G!Line(ref, cp, v[j], d + shift[j]), G!Match(ref)>>
           lines == [j \in 1..k |-> line(j)]
<1>7. G!NotReserved /\ G!Emit(<<order>> \o lines)
    <2>1. lines = [j \in 1..k |->
                      <<G!Line(ref, cp, IF j < k THEN parts[j] ELSE last,
                               d + shift[j]),
                        G!Match(ref)>>]
        OBVIOUS
    <2> HIDE DEF lines
    <2> QED
        BY <1>0, <1>6, <2>1
<1> HIDE DEF v, ref, k
<1>8. \A j \in 1..k : d + shift[j] \in Int /\ AbsDiff(d + shift[j], d) <= MatchWindowDays
    <2> SUFFICES ASSUME NEW j \in 1..k
                 PROVE  /\ d + shift[j] \in Int
                        /\ AbsDiff(d + shift[j], d) <= MatchWindowDays
        OBVIOUS
    <2>1. shift[j] \in 0..3
        BY DrawBounds
    <2> QED
        BY <1>4, <2>1, LimitsOfTheCode DEF AbsDiff
<1>t. G!Match(ref) \in Truths /\ G!Match(ref).label = ref
    BY <1>2, TruthNames, TruthLabels
<1>9. order \in Drawn /\ \A j \in 1..k : line(j) \in Drawn
    <2>1. order \in Drawn
        BY <1>2, <1>4, <1>t, DrawnRow, Zenon
    <2>2. ASSUME NEW j \in 1..k PROVE line(j) \in Drawn
        <3>1. v[j] \in 0..MostOnRow /\ d + shift[j] \in Int
            BY <1>4, <1>5, <1>8
        <3> QED
            BY <1>2, <1>4, <1>t, <3>1, DrawnRow, Zenon
    <2> QED
        BY <2>1, <2>2
<1> HIDE DEF order, line
<1>10. k \in Nat /\ lines \in Seq(Drawn) /\ Len(lines) = k
    BY <1>3, <1>9
<1>11. \A j \in 1..k : lines[j] = line(j)
    OBVIOUS
<1> HIDE DEF lines
<1> DEFINE first == <<order>>
           drawn == first \o lines
<1>12. /\ drawn \in Seq(Drawn) /\ Len(drawn) = k + 1 /\ drawn[1] = order
       /\ \A j \in 1..k : drawn[j + 1] = line(j)
    <2>1. first \in Seq(Drawn) /\ Len(first) = 1 /\ first[1] = order
        BY <1>9, ShortLists
    <2> HIDE DEF first
    <2>2. /\ drawn \in Seq(Drawn) /\ Len(drawn) = Len(first) + Len(lines)
          /\ \A i \in 1..Len(first) + Len(lines) :
                 drawn[i] = IF i <= Len(first) THEN first[i]
                            ELSE lines[i - Len(first)]
        BY <1>10, <2>1, ConcatProperties
    <2> HIDE DEF drawn
    <2>3. \A j \in 1..k : j + 1 \in 1..Len(first) + Len(lines)
                          /\ ~ (j + 1 <= Len(first)) /\ (j + 1) - Len(first) = j
        BY <1>10, <2>1
    <2> QED
        BY <1>10, <1>11, <2>1, <2>2, <2>3
<1>13. PICK n \in Nat : Numbered(n)
    BY <1>2
<1>14. G!Emit(drawn)
    BY <1>7
<1> HIDE DEF drawn, first
<1> DEFINE l == Len(all)
           m == l + 1
           A == (m + 1)..(m + k)
           S == {m} \cup A
<1>15. l \in Nat
    BY <1>13 DEF Numbered, BookOfAtMost
<1>16. /\ TruthKept' /\ Joins((Len(all) + 1)..(Len(all) + (k + 1)))
       /\ \A i \in 1..(k + 1) : Enters(Len(all) + i, drawn[i])
    BY <1>12, <1>13, <1>14, RowsEnter
<1> HIDE DEF l
<1>17. Joins(S)
    <2>1. (l + 1)..(l + (k + 1)) = S
        BY <1>10, <1>15
    <2> QED
        BY <1>16, <2>1 DEF l
<1>18. Enters(m, order) /\ \A j \in 1..k : Enters(m + j, line(j))
    <2>1. 1 \in 1..(k + 1) /\ \A j \in 1..k : j + 1 \in 1..(k + 1)
        BY <1>10
    <2>2. Enters(m, order)
        BY <1>12, <1>16, <2>1 DEF l
    <2>3. ASSUME NEW j \in 1..k PROVE Enters(m + j, line(j))
        <3>1. Enters(l + (j + 1), drawn[j + 1])
            BY <1>16, <2>1 DEF l
        <3>2. l + (j + 1) = m + j
            BY <1>10, <1>15
        <3> QED
            BY <1>12, <3>1, <3>2
    <2> QED
        BY <2>2, <2>3
<1>19. m \in Nat
    BY <1>15
<1> HIDE DEF m
<1>20. OrderAt(all', m, ref, cp, amt, d) /\ truth'[m] = G!Match(ref)
    BY <1>18, EnteredRows DEF order
<1>21. \A j \in 1..k : /\ LineAt(all', m + j, ref, cp, v[j], d + shift[j])
                       /\ truth'[m + j] = G!Match(ref)
    BY <1>18, EnteredRows DEF line
<1>22. \A a \in A : a - m \in 1..k /\ a = m + (a - m)
    BY <1>10, <1>19
<1>23. ASSUME NEW a \in A
       PROVE  /\ LineAt(all', a, ref, cp, all'[a].amount, all'[a].day)
              /\ AbsDiff(all'[a].day, d) <= MatchWindowDays
              /\ all'[a].amount # amt /\ truth'[a].label = ref
              /\ all'[a].ref = ref /\ all'[a].cp = cp
              /\ all'[a].source = "bank"
    <2> DEFINE j == a - m
    <2>1. j \in 1..k /\ a = m + j
        BY <1>22
    <2> HIDE DEF j
    <2>2. /\ LineAt(all', a, ref, cp, v[j], d + shift[j])
          /\ truth'[a] = G!Match(ref)
        BY <1>21, <2>1
    <2>3. v[j] # amt /\ AbsDiff(d + shift[j], d) <= MatchWindowDays
        BY <1>5, <1>8, <2>1
    <2> QED
        BY <1>t, <2>2, <2>3 DEF LineAt, RowAt
<1>24. /\ IsFiniteSet(A) /\ Cardinality(A) = k /\ SumOf(all', A) = amt
    <2> DEFINE b == all'
    <2>1. Listed(b, m, k, v)
        BY <1>5, <1>21 DEF LineAt, RowAt, Listed
    <2> HIDE DEF b
    <2>2. Listing(b, (m + 1)..(m + k), k, v)
        BY <1>10, <1>19, <2>1, RowsOfList
    <2> QED
        BY <1>5, <2>2 DEF b, Listing
<1>25. m \notin A
    BY <1>19
<1> HIDE DEF A
<1>26. WellPlanned(all', truth', S)
    <2>1. Meant(truth', m) /\ \A a \in A : truth'[a].label = truth'[m].label
        BY <1>2, <1>t, <1>20, <1>23 DEF Meant
    <2>2. Cardinality(A) >= 2
        BY <1>3, <1>24
    <2> QED
        BY <1>2, <1>20, <1>23, <1>24, <1>25, <2>1, <2>2, PaidInParts
<1>27. \A i \in S : SlotAdds(S, i, cp, {}, {})
    <2>1. /\ all'[m].ref = ref /\ all'[m].cp = cp /\ all'[m].source = "psp"
        BY <1>20 DEF OrderAt, RowAt
    <2>2. ASSUME NEW a \in A PROVE SlotAdds(S, a, cp, {}, {})
        BY <1>2, <1>23, <2>1, RowAnswered
    <2>3. SlotAdds(S, m, cp, {}, {})
        <3>1. PICK a : a \in A
            BY <1>3, <1>24, FS_EmptySet
        <3> QED
            BY <1>2, <1>23, <2>1, <3>1, RowAnswered
    <2> QED
        BY <2>2, <2>3
<1>28. Reserves(cp, {}, {})
    BY <1>1, <1>7, NothingReserves
<1>29. \A i \in S : truth'[i].label \in {0, G!Ref}
    BY <1>t, <1>20, <1>23 DEF ref
<1> HIDE DEF S
<1> QED
    BY <1>1, <1>16, <1>17, <1>26, <1>27, <1>28, <1>29, SlotJoins DEF Ready

-----------------------------------------------------------------------------
(* Groups leave the book planned *)

\* The references of a group's orders, and of payouts.
FirstPayout == budget.pairs + 10 * (budget.groups + budget.pairs)

\* The rows a group adds.  A seller's second group is a period later.
GroupAdds(i) ==
    /\ all'[i].source \in {"psp", "marketplace"}
    /\ all'[i].cp = G!GroupSeller
    /\ groups < GroupSellers => all'[i].day <= 26
    /\ groups >= GroupSellers =>
           all'[i].day >= 35 /\ (IsPayout(all', i) => all'[i].day >= 42)
    /\ \/ all'[i].ref \in G!OrderRef(1)..G!OrderRef(9)
       \/ all'[i].ref = G!PayoutRef

\* References of the groups, in order.
LEMMA GroupRefs ==
    ASSUME DrawnInv, slots.filled = budget.pairs, groups < budget.groups,
           groups' = groups + 1, budget' = budget, slots' = slots
    PROVE  /\ FirstPayout \in Nat /\ FirstPayout # 0 /\ groups \in Nat
           /\ G!Ref = FirstPayout /\ G!Ref' = FirstPayout
           /\ G!PayoutRef = FirstPayout + groups
           /\ G!PayoutRef' = (FirstPayout + groups) + 1
           /\ G!OrderRef(0) \in Nat
           /\ \A j \in 1..9 : G!OrderRef(j) = G!OrderRef(0) + j
           /\ G!OrderRef(0)' = G!OrderRef(0) + 10
           /\ G!OrderRef(0) + 10 <= FirstPayout
<1>1. /\ budget.pairs \in Nat /\ budget.groups \in Nat
      /\ slots.filled \in Nat /\ groups \in Nat
    BY BudgetTypes DEF DrawnInv
<1>2. ASSUME NEW p \in Nat, NEW g \in Nat, NEW n \in Nat, n < g
      PROVE  /\ p + 10 * (g + p) \in Nat /\ p + 10 * (g + p) # 0
             /\ p + 10 * (g + p) + (n + 1) = (p + 10 * (g + p) + n) + 1
             /\ p + 10 * n + 0 \in Nat
             /\ \A j \in 1..9 : p + 10 * n + j = (p + 10 * n + 0) + j
             /\ p + 10 * (n + 1) + 0 = (p + 10 * n + 0) + 10
             /\ (p + 10 * n + 0) + 10 <= p + 10 * (g + p)
    BY <1>2
<1>3. /\ G!Ref = FirstPayout /\ G!Ref' = FirstPayout
      /\ G!PayoutRef = FirstPayout + groups
      /\ G!PayoutRef' = FirstPayout + (groups + 1)
    BY DEF G!Ref, G!PayoutRef, FirstPayout
<1>4. /\ \A j : G!OrderRef(j) = budget.pairs + 10 * groups + j
      /\ G!OrderRef(0)' = budget.pairs + 10 * (groups + 1) + 0
    BY DEF G!OrderRef
<1>5. FirstPayout = budget.pairs + 10 * (budget.groups + budget.pairs)
    BY DEF FirstPayout
<1> QED
    BY <1>1, <1>2, <1>3, <1>4, <1>5

\* A seller is paid in a group twice at most.
LEMMA SellersTurn ==
    ASSUME DrawnInv, groups < budget.groups
    PROVE  /\ GroupSellers \in Nat \ {0} /\ G!GroupSeller \in Nat
           /\ G!GroupSeller < GroupSellers
           /\ groups < GroupSellers => G!GroupSeller = groups
           /\ groups >= GroupSellers => G!GroupSeller = groups - GroupSellers
<1>1. budget.groups \in 0..2 * GroupSellers
    <2>1. budget \in [pairs : Nat, groups : 0..2 * GroupSellers]
        BY BooksAssumption DEF G!DrawsAssumption, DrawnInv, BudgetKept
    <2> QED
        BY <2>1
<1>2. GroupSellers \in Nat \ {0} /\ groups \in Nat /\ budget.groups \in Nat
    BY DrawBounds, BudgetTypes DEF DrawnInv
<1>3. groups < 2 * GroupSellers
    BY <1>1, <1>2
<1>4. ASSUME NEW n \in Nat, NEW s \in Nat \ {0}, n < 2 * s
      PROVE  n % s = IF n < s THEN n ELSE n - s
    <2>1. PICK q : q = n \div s
        OBVIOUS
    <2>2. q \in Nat /\ s * q <= n /\ n < s * q + s /\ n % s = n - s * q
        BY <1>4, <2>1, SMT
    <2>3. CASE q = 0
        BY <2>2, <2>3
    <2>4. CASE q = 1
        BY <2>2, <2>4
    <2>5. CASE q >= 2
        <3>1. PICK r \in Nat : q = 2 + r
            BY <2>2, <2>5
        <3>2. s * q = 2 * s + s * r /\ s * r \in Nat
            BY <3>1
        <3> QED
            BY <1>4, <2>2, <3>2
    <2> QED
        BY <2>2, <2>3, <2>4, <2>5
<1>5. groups % GroupSellers
          = IF groups < GroupSellers THEN groups ELSE groups - GroupSellers
    BY <1>2, <1>3, <1>4
<1> QED
    BY <1>2, <1>3, <1>5 DEF G!GroupSeller

\* A group's rows leave the book planned.
LEMMA GroupRowsJoin ==
    ASSUME BookPlanned, DrawnInv, all' \in Seq(Transaction), TruthKept',
           slots.filled = budget.pairs, groups < budget.groups,
           groups' = groups + 1, budget' = budget, slots' = slots,
           openExpected' = openExpected, openActual' = openActual,
           NEW S, Joins(S), \A i \in S : GroupAdds(i),
           \A i \in S : truth'[i].label \in {0, G!PayoutRef},
           WellPlanned(all', truth', S)
    PROVE  BookPlanned'
<1> DEFINE R == DOMAIN all
           U == R \cup S
           base == FirstPayout
           start == G!OrderRef(0)
           cp == G!GroupSeller
<1>1. /\ base \in Nat /\ base # 0 /\ groups \in Nat
      /\ G!Ref = base /\ G!Ref' = base
      /\ G!PayoutRef = base + groups /\ G!PayoutRef' = (base + groups) + 1
      /\ start \in Nat /\ G!OrderRef(1) = start + 1 /\ G!OrderRef(9) = start + 9
      /\ G!OrderRef(0)' = start + 10 /\ start + 10 <= base
    BY GroupRefs
<1>2. /\ GroupSellers \in Nat \ {0} /\ cp \in Nat /\ cp < GroupSellers
      /\ groups < GroupSellers => cp = groups
      /\ groups >= GroupSellers => cp = groups - GroupSellers
    BY SellersTurn
<1>3. /\ G!Stranger = GroupSellers + 300 /\ G!Stranger' = G!Stranger
      /\ \A s \in Sellers : s \in Nat /\ s >= GroupSellers /\ s < GroupSellers + 300
    BY DrawBounds DEF G!Stranger
<1>4. /\ IsFiniteSet(R) /\ IsFiniteSet(S) /\ S \cap R = {} /\ DOMAIN all' = U
      /\ \A i \in R : all'[i] = all[i] /\ truth'[i] = truth[i]
    BY DEF Joins
<1>5. /\ \A i \in R : all[i] \in Transaction
      /\ \A i \in U : all'[i] \in Transaction
    <2>1. all \in Seq(Transaction)
        BY DEF DrawnInv, BookOfAtMost
    <2>2. \A i \in R : all[i] \in Transaction
        BY <2>1
    <2>3. \A i \in DOMAIN all' : all'[i] \in Transaction
        OBVIOUS
    <2> QED
        BY <1>4, <2>2, <2>3
<1>6. \A i \in U : all'[i].day \in Int /\ all'[i].ref \in Nat /\ all'[i].cp \in Nat
    BY <1>5 DEF Transaction
<1> HIDE DEF base, start, cp
<1> DEFINE slot(i) == /\ all'[i].cp \in Sellers /\ all'[i].ref < base
                      /\ SlotRow(all', U, i, openExpected[all'[i].cp],
                                 openActual[all'[i].cp])
           alien(i) == /\ all'[i].source = "bank" /\ all'[i].cp = G!Stranger
                       /\ all'[i].ref <= slots.filled
           old(i) == /\ all'[i].source \in {"psp", "marketplace"}
                     /\ all'[i].cp < GroupSellers /\ all'[i].cp < groups
                     /\ all'[i].day <= 26 \/ all'[i].cp < groups - GroupSellers
                     /\ \/ all'[i].ref <= start
                        \/ base <= all'[i].ref /\ all'[i].ref < base + groups
           new(i) == /\ all'[i].source \in {"psp", "marketplace"}
                     /\ all'[i].cp = cp
                     /\ groups < GroupSellers => all'[i].day <= 26
                     /\ groups >= GroupSellers =>
                            /\ all'[i].day >= 35
                            /\ IsPayout(all', i) => all'[i].day >= 42
                     /\ \/ start < all'[i].ref /\ all'[i].ref < start + 10
                        \/ all'[i].ref = base + groups
<1>7. ASSUME NEW i \in R PROVE slot(i) \/ alien(i) \/ old(i)
    <2>1. all'[i] = all[i] /\ BookRow(i)
        BY <1>4 DEF BookPlanned
    <2>2. SlotRow(all, R, i, openExpected[all[i].cp], openActual[all[i].cp])
              => SlotRow(all', U, i, openExpected[all[i].cp], openActual[all[i].cp])
        BY <1>4, SlotRowStays
    <2>3. GroupRow(i) => old(i)
        BY <1>1, <2>1 DEF GroupRow, FirstPayout, base, start
    <2> QED
        BY <1>1, <2>1, <2>2, <2>3 DEF BookRow
<1>8. ASSUME NEW i \in S PROVE new(i)
    <2>1. all'[i].ref \in Nat
        BY <1>6
    <2>2. GroupAdds(i)
        OBVIOUS
    <2>3. /\ all'[i].source \in {"psp", "marketplace"} /\ all'[i].cp = cp
          /\ groups < GroupSellers => all'[i].day <= 26
          /\ groups >= GroupSellers =>
                 all'[i].day >= 35 /\ (IsPayout(all', i) => all'[i].day >= 42)
        BY <2>2 DEF GroupAdds, cp
    <2>4. all'[i].ref \in G!OrderRef(1)..G!OrderRef(9) \/ all'[i].ref = G!PayoutRef
        BY <2>2 DEF GroupAdds
    <2>5. \/ start < all'[i].ref /\ all'[i].ref < start + 10
          \/ all'[i].ref = base + groups
        BY <1>1, <2>1, <2>4, SMTT(30)
    <2> QED
        BY <2>3, <2>5
<1> HIDE DEF U
<1>u. /\ R \subseteq U /\ S \subseteq U /\ \A i \in U : i \in R \/ i \in S
      /\ \A i \in U \ R : i \in S
      /\ \A i \in U \ S : i \in R
    BY DEF U
<1>9. ASSUME NEW i \in R, NEW j \in S
      PROVE  ~ RefsAgree(all'[i], all'[j]) /\ ~ RefsAgree(all'[j], all'[i])
    <2>1. /\ all'[i].ref \in Nat /\ all'[j].ref \in Nat
          /\ all'[i].cp \in Nat /\ all'[j].cp \in Nat /\ new(j)
        BY <1>6, <1>8, <1>u
    <2>2. CASE slot(i) \/ alien(i)
        <3>1. all'[i].cp >= GroupSellers
            BY <1>2, <1>3, <2>2
        <3>2. all'[i].cp # all'[j].cp
            BY <1>2, <2>1, <3>1
        <3> QED
            BY <3>2 DEF RefsAgree
    <2>3. CASE old(i)
        <3>1. all'[i].ref # all'[j].ref
            <4>1. \/ all'[i].ref <= start
                  \/ base <= all'[i].ref /\ all'[i].ref < base + groups
                BY <2>3
            <4>2. \/ start < all'[j].ref /\ all'[j].ref < start + 10
                  \/ all'[j].ref = base + groups
                BY <2>1
            <4>3. ASSUME NEW x \in Nat, NEW y \in Nat,
                         x <= start \/ (base <= x /\ x < base + groups),
                         (start < y /\ y < start + 10) \/ y = base + groups
                  PROVE  x # y
                BY <1>1, <4>3
            <4> QED
                BY <2>1, <4>1, <4>2, <4>3
        <3> QED
            BY <3>1 DEF RefsAgree
    <2> QED
        BY <1>7, <2>2, <2>3
<1>10. ASSUME NEW i \in R, NEW j \in S
       PROVE  ~ Alike(all', U, i, j) /\ ~ Alike(all', U, j, i)
    <2>1. new(j) /\ all'[j].cp < GroupSellers /\ all'[j].source # "bank"
        BY <1>2, <1>8
    <2>2. CASE all'[i].cp # all'[j].cp
        BY <2>1, <2>2 DEF Alike
    <2>3. CASE all'[i].source # "bank"
        BY <2>1, <2>3 DEF Alike
    <2>4. all'[i].source = "bank" => all'[i].cp >= GroupSellers
        BY <1>2, <1>3, <1>7
    <2> QED
        BY <1>2, <2>1, <2>2, <2>3, <2>4
<1>11. ASSUME NEW i \in R, NEW j \in S
       PROVE  /\ IsPayout(all', i) => j \notin OrdersOf(all', U, i)
              /\ IsPayout(all', j) => i \notin OrdersOf(all', U, j)
    <2>1. new(j) /\ all'[i].cp \in Nat /\ all'[i].day \in Int /\ all'[j].day \in Int
        BY <1>6, <1>8, <1>u
    <2>2. CASE all'[i].cp # cp
        BY <2>1, <2>2 DEF OrdersOf
    <2>3. CASE all'[i].cp = cp
        <3>1. old(i)
            BY <1>2, <1>3, <1>7, <2>3
        <3>2. groups >= GroupSellers /\ all'[i].day <= 26
            BY <1>1, <1>2, <2>3, <3>1, SMTT(30)
        <3>3. all'[j].day >= 35 /\ (IsPayout(all', j) => all'[j].day >= 42)
            BY <2>1, <3>2
        <3>4. /\ ~ all'[j].day <= all'[i].day
              /\ IsPayout(all', j) => ~ all'[i].day >= all'[j].day - GroupWindowDays
            BY <2>1, <3>2, <3>3, LimitsOfTheCode, SMTT(30)
        <3> QED
            BY <3>4 DEF OrdersOf
    <2> QED
        BY <2>2, <2>3
<1>12. ASSUME NEW i \in R, NEW j \in S
       PROVE  /\ Meant(truth', i) => truth'[j].label # truth'[i].label
              /\ Meant(truth', j) => truth'[i].label # truth'[j].label
    <2>1. truth'[i].label \in Nat /\ truth'[i].label < base + groups
        BY <1>1, <1>4 DEF BookPlanned
    <2>2. truth'[j].label \in {0, base + groups}
        BY <1>1
    <2> QED
        BY <1>1, <2>1, <2>2 DEF Meant
<1>13. Embedded(all, truth, R, all', truth', U)
    BY <1>4, <1>9, <1>10, <1>11, <1>12, <1>u DEF Embedded, Apart
<1>14. Embedded(all', truth', S, all', truth', U)
    BY <1>9, <1>10, <1>11, <1>12, <1>u DEF Embedded, Apart
<1>15. WellPlanned(all', truth', U)
    <2>1. WellPlanned(all, truth, R)
        BY DEF BookPlanned
    <2> QED
        BY <1>4, <1>13, <1>14, <2>1, JoinedPlans DEF U
<1>16. ASSUME NEW i \in U
       PROVE  truth'[i].label \in Nat /\ truth'[i].label < base + (groups + 1)
    <2>1. CASE i \in R
        <3>1. truth'[i].label \in Nat /\ truth'[i].label < base + groups
            BY <1>1, <1>4, <2>1 DEF BookPlanned
        <3> QED
            BY <1>1, <3>1
    <2>2. CASE i \in S
        <3>1. truth'[i].label \in {0, base + groups}
            BY <1>1, <2>2
        <3> QED
            BY <1>1, <3>1, SMTT(30)
    <2> QED
        BY <1>u, <2>1, <2>2
<1>17. ASSUME NEW i \in U PROVE BookRow(i)'
    <2>0. all'[i].ref \in Nat /\ all'[i].cp \in Nat /\ all'[i].day \in Int
        BY <1>6
    <2>1. CASE alien(i)
        BY <1>3, <2>1 DEF BookRow
    <2>2. CASE slot(i)
        BY <1>1, <1>4, <2>2 DEF BookRow, U
    <2>3. CASE old(i) \/ new(i)
        <3>1. all'[i].cp < GroupSellers /\ all'[i].cp < groups + 1
            BY <1>1, <1>2, <2>0, <2>3, SMTT(30)
        <3>2. all'[i].day <= 26 \/ all'[i].cp < (groups + 1) - GroupSellers
            BY <1>1, <1>2, <2>0, <2>3, SMTT(30)
        <3>3. \/ all'[i].ref <= start + 10
              \/ base <= all'[i].ref /\ all'[i].ref < (base + groups) + 1
            BY <1>1, <2>0, <2>3, SMTT(30)
        <3>4. all'[i].source \in {"psp", "marketplace"}
            BY <2>3
        <3>5. base = FirstPayout /\ FirstPayout' = FirstPayout
            BY DEF base, FirstPayout
        <3>6. GroupRow(i)'
            BY <1>1, <3>1, <3>2, <3>3, <3>4, <3>5 DEF GroupRow, FirstPayout
        <3> QED
            BY <3>6 DEF BookRow
    <2> QED
        BY <1>7, <1>8, <1>u, <2>1, <2>2, <2>3
<1> QED
    BY <1>1, <1>4, <1>15, <1>16, <1>17 DEF BookPlanned, U

\* Terms that agree add up to the same.
LEMMA SumAgrees ==
    ASSUME NEW v, NEW w, NEW S, IsFiniteSet(S),
           \A x \in S : v[x] \in Int /\ v[x] = w[x]
    PROVE  Sum(v, S) = Sum(w, S)
<1>1. \A x \in S : /\ v[x] \in Int /\ w[x] \in Int
                   /\ v[x] <= w[x] /\ w[x] <= v[x]
    OBVIOUS
<1>2. Sum(v, S) <= Sum(w, S) /\ Sum(w, S) <= Sum(v, S)
    BY <1>1, SumLess
<1>3. Sum(v, S) \in Int /\ Sum(w, S) \in Int
    BY <1>1, SumType
<1> QED
    BY <1>2, <1>3

\* The amounts of k orders and, if there is a stray one, the first again.
Amounted(amount, k, stray, v) ==
    /\ DOMAIN amount = 1..k
    /\ \A j \in 1..k : amount[j] \in Nat /\ amount[j] > 0
    /\ \A j \in 1..(k + stray) : v[j] = amount[IF j <= k THEN j ELSE 1]

\* The totals of a group and of its gross.
GroupTotals(amount, k, stray, v) ==
    /\ G!TotalOf(amount) \in Nat /\ G!TotalOf(amount) > 0
    /\ stray = 0 => Sum(v, 1..(k + stray)) = G!TotalOf(amount)
    /\ stray = 1 => Sum(v, 1..(k + stray)) = G!TotalOf(amount) + amount[1]

\* A group's orders make up its gross, but for the stray one.
LEMMA GroupSums ==
    ASSUME NEW amount, NEW k \in 2..8, NEW stray \in 0..1, NEW v,
           Amounted(amount, k, stray, v)
    PROVE  GroupTotals(amount, k, stray, v)
<1> DEFINE K == 1..k
           C == 1..(k + stray)
           total == Sum(amount, K)
<1>0. /\ DOMAIN amount = K
      /\ \A j \in K : amount[j] \in Nat /\ amount[j] > 0
      /\ \A j \in C : v[j] = amount[IF j <= k THEN j ELSE 1]
    BY DEF Amounted
<1>1. IsFiniteSet(K) /\ IsFiniteSet(C)
    <2>1. k \in Int /\ k + stray \in Int /\ 1 \in Int
        OBVIOUS
    <2> QED
        BY <2>1, FS_Interval
<1>2. /\ 1 \in K
      /\ \A j \in K : j \in C /\ j <= k
      /\ stray = 0 => C = K
      /\ stray = 1 => k + 1 \in C /\ ~ k + 1 <= k /\ C \ {k + 1} = K
    OBVIOUS
<1>3. G!TotalOf(amount) = total
    BY <1>0, <1>1, DrawnTotal
<1>4. \A j \in K : v[j] = amount[j] /\ v[j] \in Nat
    BY <1>0, <1>2
<1>5. stray = 1 => v[k + 1] = amount[1] /\ v[k + 1] \in Nat
    BY <1>0, <1>2
<1>6. \A j \in C : j \in K \/ (stray = 1 /\ j = k + 1)
    OBVIOUS
<1> HIDE DEF K, C
<1>7. Sum(v, K) = total
    <2>1. \A j \in K : v[j] \in Int /\ v[j] = amount[j]
        BY <1>4
    <2> QED
        BY <1>1, <2>1, SumAgrees
<1>8. total \in Nat /\ total > 0
    <2>1. \A j \in K : amount[j] \in Nat /\ amount[j] \in Int
        BY <1>0
    <2>2. total \in Nat
        BY <1>1, <2>1, SumNat
    <2>3. total = amount[1] + Sum(amount, K \ {1})
        BY <1>1, <1>2, <2>1, SumRemove
    <2>4. Sum(amount, K \ {1}) \in Nat
        <3>1. IsFiniteSet(K \ {1})
            BY <1>1, FS_Subset
        <3> QED
            BY <2>1, <3>1, SumNat
    <2>5. amount[1] \in Nat /\ amount[1] > 0
        BY <1>0, <1>2
    <2> HIDE DEF total
    <2> QED
        BY <2>2, <2>3, <2>4, <2>5
<1>9. stray = 1 => Sum(v, C) = total + amount[1]
    <2> SUFFICES ASSUME stray = 1 PROVE Sum(v, C) = total + amount[1]
        OBVIOUS
    <2>1. \A j \in C : v[j] \in Int
        BY <1>4, <1>5, <1>6
    <2>2. Sum(v, C) = v[k + 1] + Sum(v, C \ {k + 1})
        BY <1>1, <1>2, <2>1, SumRemove
    <2>3. amount[1] \in Nat
        BY <1>0, <1>2
    <2>4. Sum(v, C) = amount[1] + total
        BY <1>2, <1>5, <1>7, <2>2
    <2> HIDE DEF total
    <2> QED
        BY <1>8, <2>3, <2>4
<1>10. stray = 0 => Sum(v, C) = total
    BY <1>2, <1>7
<1> QED
    BY <1>3, <1>8, <1>9, <1>10 DEF GroupTotals, C

\* What is entered as a payout is one.
LEMMA EnteredPayout ==
    ASSUME NEW p, NEW gross, NEW commission, NEW d, NEW t,
           Enters(p, <<G!Payout(gross, commission, d), t>>)
    PROVE  /\ all'[p].source = "marketplace" /\ all'[p].dir = "credit"
           /\ all'[p].gross = gross /\ all'[p].cp = G!GroupSeller
           /\ all'[p].day = d /\ all'[p].ref = G!PayoutRef /\ truth'[p] = t
BY ZenonT(40) DEF Enters, G!Payout, G!mkTx

\* What the k orders of a payout may carry.
PaidAmounts(amount, k) ==
    DOMAIN amount = 1..k /\ \A j \in 1..k : amount[j] \in Amounts

\* A gross and its commission are money of a row.
MoneyOfGroup(amount, rate) ==
    /\ G!TotalOf(amount) \in 0..MostOnRow
    /\ (G!TotalOf(amount) * rate) \div 10000 \in 0..G!TotalOf(amount)

\* The orders of a payout are money of a row.
LEMMA GroupMoney ==
    ASSUME NEW k \in 2..8, NEW rate \in Nat, rate < 10000,
           NEW amount, PaidAmounts(amount, k)
    PROVE  MoneyOfGroup(amount, rate)
<1> DEFINE gross == G!TotalOf(amount)
           commission == (gross * rate) \div 10000
<1>1. gross \in 0..MostOnRow
    <2>1. IsFiniteSet(1..k) /\ Cardinality(1..k) = k
        <3>1. k \in Nat
            OBVIOUS
        <3> QED
            BY <3>1, FS_Interval
    <2>2. \A j \in 1..k : amount[j] \in Nat /\ amount[j] <= G!maxAmount
        BY AmountType DEF PaidAmounts
    <2>3. /\ Sum(amount, 1..k) \in Nat
          /\ Sum(amount, 1..k) <= G!maxAmount * Cardinality(1..k)
        <3> DEFINE K == 1..k
                   most == G!maxAmount
        <3>1. /\ IsFiniteSet(K) /\ most \in Nat
              /\ \A j \in K : amount[j] \in Nat /\ amount[j] <= most
            BY <2>1, <2>2, MostType
        <3> HIDE DEF K, most
        <3>2. Sum(amount, K) \in Nat /\ Sum(amount, K) <= most * Cardinality(K)
            BY <3>1, SumBound
        <3> QED
            BY <3>2 DEF K, most
    <2>4. gross = Sum(amount, 1..k)
        BY <2>1, DrawnTotal DEF PaidAmounts
    <2>5. G!maxAmount * k <= MostOnRow
        <3>1. PICK r \in Nat : 8 = k + r
            OBVIOUS
        <3>2. /\ G!maxAmount * 8 = G!maxAmount * k + G!maxAmount * r
              /\ G!maxAmount * r \in Nat /\ G!maxAmount * k \in Nat
            BY <3>1, MostType
        <3> QED
            BY <3>2, MostType
    <2> HIDE DEF gross
    <2>6. G!maxAmount * k \in Nat
        BY MostType
    <2> QED
        BY <2>1, <2>3, <2>4, <2>5, <2>6, MostType
<1> HIDE DEF gross
<1>2. commission \in 0..gross
    <2>1. gross \in Nat /\ rate \in Nat /\ rate < 10000
        BY <1>1, MostType
    <2>2. PICK r \in Nat : 10000 = rate + r
        BY <2>1
    <2>3. /\ gross * 10000 = gross * rate + gross * r
          /\ gross * rate \in Nat /\ gross * r \in Nat
        BY <2>1, <2>2
    <2>4. commission \in Nat /\ 10000 * commission <= gross * rate
        BY <2>3, Quotient
    <2> HIDE DEF commission
    <2> QED
        <3>1. commission \in Nat /\ 10000 * commission <= 10000 * gross
            BY <2>1, <2>3, <2>4
        <3> QED
            BY <2>1, <3>1
<1> QED
    BY <1>1, <1>2 DEF MoneyOfGroup, gross

\* A payout, a week after the group's first day, has its orders in its window.
LEMMA OrdersInWindow ==
    ASSUME NEW first \in 0..54, NEW d \in first..(first + 4)
    PROVE  d <= first + 7 /\ d >= (first + 7) - GroupWindowDays
BY LimitsOfTheCode

\* A payout and its orders.
LEMMA GroupJoins ==
    ASSUME Ready, G!Group
    PROVE  BookPlanned'
<1>1. PICK k \in GroupSizes, first \in GroupDays, rate \in FeeRates,
           stray \in 0..1 :
       \E amount \in [1..k -> Amounts], offset \in [1..(k + stray) -> Offsets] :
           G!Emit(G!GroupRows(k, first, rate, stray, amount, offset))
    BY Zenon DEF G!Group
<1>r. /\ k \in 2..8 /\ stray \in 0..1 /\ first \in 0..19
      /\ rate \in 800..2499
    <2>1. k \in 2..8
        BY DrawBounds
    <2>2. first \in 0..19
        BY DrawBounds
    <2>3. rate \in 800..2499
        BY DrawBounds
    <2> QED
        BY <2>1, <2>2, <2>3
<1>2. PICK amount \in [1..k -> Amounts], offset \in [1..(k + stray) -> Offsets] :
           G!Emit(G!GroupRows(k, first, rate, stray, amount, offset))
    BY <1>1, Zenon
<1>m. MoneyOfGroup(amount, rate)
    <2>1. k \in 2..8
        BY <1>r
    <2>2. rate \in Nat /\ rate < 10000
        BY <1>r
    <2>3. PaidAmounts(amount, k)
        BY DEF PaidAmounts
    <2> QED
        BY <2>1, <2>2, <2>3, GroupMoney
<1>3. /\ BookPlanned /\ DrawnInv /\ all' \in Seq(Transaction)
      /\ slots.filled = budget.pairs /\ groups < budget.groups
      /\ groups' = groups + 1 /\ budget' = budget /\ slots' = slots
      /\ openExpected' = openExpected /\ openActual' = openActual
    BY DEF Ready, G!Group
<1>4. /\ k \in 2..8 /\ stray \in 0..1 /\ first \in 0..19
      /\ rate \in 800..2499 /\ \A j \in 1..(k + stray) : offset[j] \in 0..4
    <2>1. \A j \in 1..(k + stray) : offset[j] \in 0..4
        BY DrawBounds
    <2> QED
        BY <1>r, <2>1
<1>5. /\ FirstPayout \in Nat /\ FirstPayout # 0 /\ groups \in Nat
      /\ G!PayoutRef = FirstPayout + groups
      /\ G!OrderRef(0) \in Nat
      /\ \A j \in 1..9 : G!OrderRef(j) = G!OrderRef(0) + j
      /\ G!OrderRef(0) + 10 <= FirstPayout
    BY <1>3, GroupRefs
<1>6. GroupSellers \in Nat \ {0} /\ G!GroupSeller \in Nat
    BY <1>3, SellersTurn
<1> DEFINE c == k + stray
           day == first + (IF groups >= GroupSellers THEN 35 ELSE 0)
           gross == G!TotalOf(amount)
           commission == (gross * rate) \div 10000
           meant == IF stray = 1 THEN G!Injected("ambiguous")
                    ELSE G!Match(G!PayoutRef)
           v == [j \in 1..c |-> amount[IF j <= k THEN j ELSE 1]]
           order(j) == <<G!Order(G!OrderRef(j), G!GroupSeller, v[j],
                                 day + offset[j]), meant>>
           orders == [j \in 1..c |-> order(j)]
           paid == G!Payout(gross, commission, day + 7)
           payout == <<paid, meant>>
           last == <<payout>>
<1>7. G!Emit(orders \o last)
    <2>1. orders = [j \in 1..(k + stray) |->
                      <<G!Order(G!OrderRef(j), G!GroupSeller,
                              amount[IF j <= k THEN j ELSE 1],
                              day + offset[j]), meant>>]
        OBVIOUS
    <2> HIDE DEF orders
    <2>2. orders \o last = G!GroupRows(k, first, rate, stray, amount, offset)
        BY <2>1 DEF G!GroupRows
    <2> HIDE DEF last
    <2> QED
        BY <1>2, <2>2
<1>8. c \in 2..9 /\ c \in Nat /\ (stray = 0 => c = k) /\ (stray = 1 => c = k + 1)
    BY <1>4
<1>9. day \in 0..54 /\ (groups < GroupSellers => day <= 19)
      /\ (groups >= GroupSellers => day >= 35)
    <2>0. first \in 0..19 /\ groups \in Nat /\ GroupSellers \in Nat
        BY <1>4, <1>5, <1>6
    <2>1. CASE groups >= GroupSellers
        <3>1. day = first + 35
            BY <2>1
        <3> HIDE DEF day
        <3> QED
            BY <2>0, <2>1, <3>1
    <2>2. CASE ~ groups >= GroupSellers
        <3>1. day = first
            BY <1>4, <2>2
        <3> HIDE DEF day
        <3> QED
            BY <2>0, <2>2, <3>1
    <2> QED
        BY <2>1, <2>2
<1>10. GroupTotals(amount, k, stray, v)
    <2>1. \A j \in 1..k : amount[j] \in Nat /\ amount[j] > 0
        <3> SUFFICES ASSUME NEW j \in 1..k PROVE amount[j] \in Nat /\ amount[j] > 0
            OBVIOUS
        <3>1. amount[j] \in Nat /\ amount[j] >= 1000
            BY AmountType
        <3> QED
            BY <3>1
    <2>2. DOMAIN amount = 1..k
        OBVIOUS
    <2>3. \A j \in 1..(k + stray) : v[j] = amount[IF j <= k THEN j ELSE 1]
        OBVIOUS
    <2> HIDE DEF v
    <2>4. Amounted(amount, k, stray, v)
        BY <2>1, <2>2, <2>3 DEF Amounted
    <2>5. k \in 2..8
        BY <1>r
    <2> QED
        BY <2>4, <2>5, GroupSums
<1>11. /\ \A j \in 1..c : v[j] \in Amounts /\ v[j] \in Nat /\ v[j] > 0
       /\ stray = 1 => v[c] = v[1]
    <2>1. ASSUME NEW j \in 1..c PROVE v[j] \in Amounts
        BY <1>4
    <2>2. stray = 1 => v[c] = amount[1] /\ v[1] = amount[1]
        BY <1>4
    <2>3. ASSUME NEW j \in 1..c PROVE v[j] \in Nat /\ v[j] > 0
        <3> HIDE DEF v
        <3>1. v[j] \in Nat /\ v[j] >= 1000
            BY <2>1, AmountType
        <3> QED
            BY <3>1
    <2> QED
        BY <2>1, <2>2, <2>3
<1>12. gross \in Nat /\ gross > 0 /\ amount[1] = v[1]
       /\ Sum(v, 1..c) = gross + (IF stray = 1 THEN v[1] ELSE 0)
    <2>1. amount[1] = v[1]
        BY <1>4
    <2>2. /\ G!TotalOf(amount) \in Nat /\ G!TotalOf(amount) > 0
          /\ stray = 0 => Sum(v, 1..c) = G!TotalOf(amount)
          /\ stray = 1 => Sum(v, 1..c) = G!TotalOf(amount) + amount[1]
        BY <1>10 DEF GroupTotals
    <2> HIDE DEF v, c
    <2> QED
        BY <1>4, <2>1, <2>2
<1>13. meant \in Truths /\ meant.label = IF stray = 1 THEN 0 ELSE G!PayoutRef
    <2>1. G!PayoutRef \in Nat /\ "ambiguous" \in DiscrepancyTypes
        BY <1>5 DEF DiscrepancyTypes
    <2> QED
        BY <2>1, TruthNames, TruthLabels
<1> HIDE DEF c, day, gross, meant, v
<1>14. commission \in 0..gross /\ gross \in 0..MostOnRow
    BY <1>m DEF MoneyOfGroup, gross
<1> HIDE DEF commission
<1>15. /\ \A j \in 1..c : j \in Nat /\ j \in 1..9 /\ order(j) \in Drawn
       /\ payout \in Drawn
    <2>1. ASSUME NEW j \in 1..c
          PROVE  j \in Nat /\ j \in 1..9 /\ order(j) \in Drawn
        <3>1. j \in Nat /\ j \in 1..9
            BY <1>8
        <3>2. G!OrderRef(j) \in Nat
            <4>1. G!OrderRef(j) = G!OrderRef(0) + j
                BY <1>5, <3>1
            <4>2. G!OrderRef(0) \in Nat
                BY <1>5
            <4> QED
                BY <3>1, <4>1, <4>2
        <3>3. v[j] \in 0..MostOnRow
            <4>1. v[j] \in Nat /\ v[j] <= G!maxAmount
                BY <1>11, AmountType
            <4> QED
                BY <4>1, MostType
        <3>4. day + offset[j] \in Int
            <4>1. offset[j] \in 0..4 /\ day \in 0..54
                BY <1>4, <1>9 DEF c
            <4> QED
                BY <4>1
        <3> QED
            BY <1>6, <1>13, <3>1, <3>2, <3>3, <3>4, DrawnRow, Zenon
    <2>2. payout \in Drawn
        <3>1. day + 7 \in Int
            BY <1>9
        <3>2. budget.pairs \in Nat /\ budget.groups \in Nat
            BY <1>3, BudgetTypes DEF DrawnInv
        <3>3. paid \in SoundRows
            BY <1>5, <1>14, <3>1, <3>2, PayoutRow
        <3> HIDE DEF paid
        <3> QED
            BY <1>13, <3>3 DEF Drawn
    <2> QED
        BY <2>1, <2>2
<1> HIDE DEF order, payout
<1>16. orders \in Seq(Drawn) /\ Len(orders) = c /\ \A j \in 1..c : orders[j] = order(j)
    BY <1>8, <1>15
<1>17. last \in Seq(Drawn) /\ Len(last) = 1 /\ last[1] = payout
    BY <1>15, ShortLists
<1> HIDE DEF orders, last
<1> DEFINE drawn == orders \o last
<1>18. /\ drawn \in Seq(Drawn) /\ Len(drawn) = c + 1 /\ drawn[c + 1] = payout
       /\ \A j \in 1..c : drawn[j] = order(j)
    <2>1. /\ drawn \in Seq(Drawn) /\ Len(drawn) = Len(orders) + Len(last)
          /\ \A i \in 1..Len(orders) + Len(last) :
                 drawn[i] = IF i <= Len(orders) THEN orders[i]
                            ELSE last[i - Len(orders)]
        BY <1>16, <1>17, ConcatProperties
    <2> HIDE DEF drawn
    <2>2. \A j \in 1..c : j \in 1..Len(orders) + Len(last) /\ j <= Len(orders)
        BY <1>8, <1>16, <1>17
    <2>3. /\ c + 1 \in 1..Len(orders) + Len(last) /\ ~ (c + 1 <= Len(orders))
          /\ (c + 1) - Len(orders) = 1
        BY <1>8, <1>16, <1>17
    <2> QED
        BY <1>16, <1>17, <2>1, <2>2, <2>3
<1>19. G!Emit(drawn)
    BY <1>7
<1> HIDE DEF drawn
<1>20. PICK n \in Nat : Numbered(n)
    <2>1. RowsAdded \in Nat
        BY <1>3, BudgetTypes DEF DrawnInv
    <2> QED
        BY <1>3, <2>1 DEF DrawnInv, BookPlanned, Numbered
<1> DEFINE m == Len(all)
           p == m + (c + 1)
           O == (m + 1)..(m + c)
           S == O \cup {p}
<1>21. m \in Nat
    BY <1>20 DEF Numbered, BookOfAtMost
<1>22. /\ TruthKept' /\ Joins((Len(all) + 1)..(Len(all) + (c + 1)))
       /\ \A i \in 1..(c + 1) : Enters(Len(all) + i, drawn[i])
    BY <1>18, <1>19, <1>20, RowsEnter
<1>23. Joins(S) /\ Enters(p, payout) /\ \A j \in 1..c : Enters(m + j, order(j))
    <2> HIDE DEF m
    <2>1. (m + 1)..(m + (c + 1)) = S
        BY <1>8, <1>21
    <2>2. c + 1 \in 1..(c + 1) /\ \A j \in 1..c : j \in 1..(c + 1)
        BY <1>8
    <2>3. Joins(S)
        BY <1>22, <2>1 DEF m
    <2>4. Enters(p, payout)
        BY <1>18, <1>22, <2>2 DEF m
    <2>5. \A j \in 1..c : Enters(m + j, order(j))
        BY <1>18, <1>22, <2>2 DEF m
    <2> QED
        BY <2>3, <2>4, <2>5
<1> HIDE DEF m
<1>24. /\ \A o \in O : o - m \in 1..c /\ o = m + (o - m)
       /\ \A j \in 1..c : m + j \in O
       /\ p \notin O
    BY <1>8, <1>21
<1>25. ASSUME NEW j \in 1..c
       PROVE  /\ OrderAt(all', m + j, G!OrderRef(j), G!GroupSeller, v[j],
                          day + offset[j])
              /\ truth'[m + j] = meant
    <2>1. Enters(m + j, order(j))
        BY <1>23
    <2> QED
        BY <2>1, EnteredRows DEF order
<1>26. /\ all'[p].source = "marketplace" /\ all'[p].dir = "credit"
       /\ all'[p].gross = gross /\ all'[p].cp = G!GroupSeller
       /\ all'[p].day = day + 7 /\ all'[p].ref = G!PayoutRef /\ truth'[p] = meant
    <2> HIDE DEF p
    <2>1. Enters(p, <<G!Payout(gross, commission, day + 7), meant>>)
        BY <1>23 DEF payout, paid
    <2> QED
        BY <2>1, EnteredPayout
<1> HIDE DEF p
<1>27. /\ IsFiniteSet(O) /\ Cardinality(O) = c
       /\ SumOf(all', O) = gross + (IF stray = 1 THEN v[1] ELSE 0)
    <2> DEFINE b == all'
    <2>1. Listed(b, m, c, v)
        BY <1>11, <1>25 DEF OrderAt, RowAt, Listed
    <2> HIDE DEF b
    <2>2. Listing(b, (m + 1)..(m + c), c, v)
        BY <1>8, <1>21, <2>1, RowsOfList
    <2> QED
        BY <1>12, <2>2 DEF b, Listing
<1>28. ASSUME NEW o \in O
       PROVE  /\ OrderAt(all', o, all'[o].ref, G!GroupSeller, all'[o].amount,
                          all'[o].day)
              /\ all'[o].ref \in G!OrderRef(1)..G!OrderRef(9)
              /\ all'[o].ref # NoRef /\ all'[o].ref # G!PayoutRef
              /\ all'[o].amount > 0 /\ all'[o].day \in day..(day + 4)
              /\ truth'[o] = meant
    <2> DEFINE j == o - m
    <2>1. j \in 1..c /\ o = m + j
        BY <1>24
    <2> HIDE DEF j
    <2>2. /\ OrderAt(all', o, G!OrderRef(j), G!GroupSeller, v[j], day + offset[j])
          /\ truth'[o] = meant
        BY <1>25, <2>1
    <2>3. /\ G!OrderRef(j) \in G!OrderRef(1)..G!OrderRef(9)
          /\ G!OrderRef(j) # NoRef /\ G!OrderRef(j) # G!PayoutRef
        <3>1. j \in 1..9 /\ 1 \in 1..9 /\ 9 \in 1..9
            BY <1>15, <2>1
        <3>2. /\ G!OrderRef(j) = G!OrderRef(0) + j
              /\ G!OrderRef(1) = G!OrderRef(0) + 1
              /\ G!OrderRef(9) = G!OrderRef(0) + 9
            BY <1>5, <3>1
        <3>3. /\ FirstPayout \in Nat /\ groups \in Nat /\ G!OrderRef(0) \in Nat
              /\ G!PayoutRef = FirstPayout + groups
              /\ G!OrderRef(0) + 10 <= FirstPayout
            BY <1>5
        <3> QED
            BY <3>1, <3>2, <3>3 DEF NoRef
    <2>4. v[j] > 0
        BY <1>11, <2>1
    <2>5. day + offset[j] \in day..(day + 4)
        <3>1. offset[j] \in 0..4 /\ day \in 0..54
            BY <1>4, <1>9, <2>1 DEF c
        <3> QED
            BY <3>1
    <2> QED
        BY <2>2, <2>3, <2>4, <2>5 DEF OrderAt, RowAt
<1>29. ASSUME stray = 1
       PROVE  \E x, y \in O : /\ x # y /\ all'[x].amount = all'[y].amount
                             /\ SumOf(all', O) = gross + all'[x].amount
    <2>1. 1 \in 1..c /\ c \in 1..c /\ m + 1 # m + c
        BY <1>8, <1>21
    <2>2. m + 1 \in O /\ m + c \in O
        BY <1>24, <2>1
    <2>3. all'[m + 1].amount = v[1] /\ all'[m + c].amount = v[c]
        BY <1>25, <2>1 DEF OrderAt, RowAt
    <2>4. v[c] = v[1] /\ SumOf(all', O) = gross + v[1]
        BY <1>11, <1>27, <1>29
    <2> QED
        BY <2>1, <2>2, <2>3, <2>4
<1>30. stray = 0 => SumOf(all', O) = gross
    BY <1>12, <1>27
<1> HIDE DEF O
<1>31. WellPlanned(all', truth', S)
    <2>1. Cardinality(O) <= 9
        BY <1>8, <1>27
    <2>2. ASSUME NEW e \in O
          PROVE  all'[e].day <= day + 7 /\ all'[e].day >= (day + 7) - GroupWindowDays
        <3>1. all'[e].day \in day..(day + 4) /\ day \in 0..54
            BY <1>9, <1>28
        <3> QED
            BY <3>1, OrdersInWindow
    <2>3. \A e \in O : /\ OrderAt(all', e, all'[e].ref, G!GroupSeller,
                                  all'[e].amount, all'[e].day)
                       /\ all'[e].ref # NoRef /\ all'[e].ref # all'[p].ref
                       /\ all'[e].amount > 0
                       /\ all'[e].day <= day + 7
                       /\ all'[e].day >= (day + 7) - GroupWindowDays
        BY <1>26, <1>28, <2>2
    <2>4. G!PayoutRef # 0
        <3>1. /\ FirstPayout \in Nat /\ FirstPayout # 0 /\ groups \in Nat
              /\ G!PayoutRef = FirstPayout + groups
            BY <1>5
        <3> QED
            BY <3>1
    <2>5. \/ /\ Meant(truth', p) /\ \A e \in O : truth'[e].label = truth'[p].label
             /\ SumOf(all', O) = all'[p].gross
          \/ /\ ~ Meant(truth', p) /\ \A e \in O : ~ Meant(truth', e)
             /\ \E x, y \in O : /\ x # y /\ all'[x].amount = all'[y].amount
                                /\ SumOf(all', O) = all'[p].gross + all'[x].amount
        <3>1. CASE stray = 1
            <4>1. meant.label = 0
                BY <1>13, <3>1
            <4> QED
                BY <1>26, <1>28, <1>29, <3>1, <4>1 DEF Meant
        <3>2. CASE stray = 0
            <4>1. meant.label = G!PayoutRef
                BY <1>13, <3>2
            <4> QED
                BY <1>26, <1>28, <1>30, <2>4, <3>2, <4>1 DEF Meant
        <3> QED
            BY <1>4, <3>1, <3>2
    <2>6. all'[p].gross > 0
        BY <1>12, <1>26
    <2> DEFINE b == all'
               t == truth'
               seller == G!GroupSeller
               pay == day + 7
    <2>7. /\ b[p].source = "marketplace" /\ b[p].dir = "credit"
          /\ b[p].gross > 0 /\ b[p].cp = seller /\ b[p].day = pay
        BY <1>26, <2>6
    <2>8. \A e \in O : /\ OrderAt(b, e, b[e].ref, seller, b[e].amount, b[e].day)
                       /\ b[e].ref # NoRef /\ b[e].ref # b[p].ref
                       /\ b[e].amount > 0
                       /\ b[e].day <= pay /\ b[e].day >= pay - GroupWindowDays
        BY <2>3
    <2>9. \/ /\ Meant(t, p) /\ \A e \in O : t[e].label = t[p].label
             /\ SumOf(b, O) = b[p].gross
          \/ /\ ~ Meant(t, p) /\ \A e \in O : ~ Meant(t, e)
             /\ \E x, y \in O : /\ x # y /\ b[x].amount = b[y].amount
                                /\ SumOf(b, O) = b[p].gross + b[x].amount
        BY <2>5
    <2> HIDE DEF b, t, seller, pay
    <2>10. WellPlanned(b, t, S)
        BY <1>24, <2>1, <2>7, <2>8, <2>9, PayoutAndOrders
    <2> QED
        BY <2>10 DEF b, t
<1>32. \A i \in S : GroupAdds(i)
    <2>1. ASSUME NEW o \in O PROVE GroupAdds(o)
        <3>1. /\ all'[o].source = "psp" /\ all'[o].cp = G!GroupSeller
              /\ all'[o].day \in day..(day + 4) /\ day \in 0..54
              /\ all'[o].ref \in G!OrderRef(1)..G!OrderRef(9)
            BY <1>9, <1>28 DEF OrderAt, RowAt
        <3>2. /\ groups < GroupSellers => all'[o].day <= 26
              /\ groups >= GroupSellers => all'[o].day >= 35
            <4>1. ASSUME NEW x \in day..(day + 4)
                  PROVE  (day <= 19 => x <= 26) /\ (day >= 35 => x >= 35)
                <5>1. day \in Nat
                    BY <1>9
                <5> QED
                    BY <5>1
            <4> QED
                BY <1>9, <3>1, <4>1
        <3> QED
            BY <3>1, <3>2 DEF GroupAdds, IsPayout
    <2>2. GroupAdds(p)
        <3>1. /\ groups < GroupSellers => all'[p].day <= 26
              /\ groups >= GroupSellers => all'[p].day >= 42 /\ all'[p].day >= 35
            BY <1>9, <1>26
        <3> QED
            BY <1>26, <3>1 DEF GroupAdds
    <2> QED
        BY <2>1, <2>2
<1>33. \A i \in S : truth'[i].label \in {0, G!PayoutRef}
    <2>1. meant.label \in {0, G!PayoutRef}
        BY <1>13
    <2> QED
        BY <1>26, <1>28, <2>1
<1> HIDE DEF S
<1> QED
    BY <1>3, <1>22, <1>23, <1>31, <1>32, <1>33, GroupRowsJoin

-----------------------------------------------------------------------------
(* The engine matches what is meant to be matched *)

\* The rows of one team have one label.
LEMMA OneTeam ==
    ASSUME NEW t, NEW R, NEW i, NEW j \in Team(t, R, i)
    PROVE  /\ j \in R
           /\ Team(t, R, j) = Team(t, R, i)
           /\ Meant(t, j) <=> Meant(t, i)
BY DEF Team, Meant

\* The passes have taken nothing but whole teams, and set aside no member of
\* one.
TeamsTaken ==
    /\ \A n \in DOMAIN matches :
           \E i \in Ids : Meant(truth, i) /\ matches[n].rows = Team(truth, Ids, i)
    /\ capped = {}
    /\ \A i \in unsure : ~Meant(truth, i)

\* The book the passes work on: sorted, and planned by the generator.
Planned ==
    /\ PlaceInv /\ BookFinite /\ Sorted
    /\ WellPlanned(book, truth, Ids)

\* So a team is in the pool as a whole or not at all.
LEMMA TeamsWhole ==
    ASSUME Planned, TeamsTaken, NEW i \in open, Meant(truth, i)
    PROVE  Team(truth, Ids, i) \subseteq open
<1> SUFFICES ASSUME NEW j \in Team(truth, Ids, i), j \notin open PROVE FALSE
    OBVIOUS
<1>1. Partition
    BY DEF Planned, PlaceInv
<1>2. j \in Ids /\ Team(truth, Ids, j) = Team(truth, Ids, i) /\ i \in Ids
    BY <1>1, OneTeam DEF Partition
<1>3. PICK n \in DOMAIN matches : j \in matches[n].rows
    BY <1>1, <1>2 DEF Partition, TeamsTaken, Matched
<1>4. PICK k \in Ids : matches[n].rows = Team(truth, Ids, k)
    BY DEF TeamsTaken
<1>5. Team(truth, Ids, j) = Team(truth, Ids, k)
    BY <1>3, <1>4, OneTeam
<1>6. i \in Team(truth, Ids, i)
    BY <1>2 DEF Team
<1>7. i \in Matched
    BY <1>2, <1>4, <1>5, <1>6 DEF Matched
<1> QED
    BY <1>1, <1>7 DEF Partition

\* Rows that belong to no team stay in the pool.
LEMMA OthersStay ==
    ASSUME Planned, TeamsTaken, NEW i \in Ids, ~Meant(truth, i)
    PROVE  i \in open
<1> SUFFICES ASSUME i \notin open PROVE FALSE
    OBVIOUS
<1>1. Partition
    BY DEF Planned, PlaceInv
<1>3. PICK n \in DOMAIN matches : i \in matches[n].rows
    BY <1>1 DEF Partition, TeamsTaken, Matched
<1>4. PICK k \in Ids : Meant(truth, k) /\ matches[n].rows = Team(truth, Ids, k)
    BY DEF TeamsTaken
<1> QED
    BY <1>3, <1>4, OneTeam

\* A row entered twice: the first one comes first.
LEMMA CopyRanked ==
    ASSUME Planned, NEW f \in Ids, NEW e \in Ids, Copy(book, f, e)
    PROVE  rank[f] < rank[e]
<1> DEFINE ahead(x) == {y \in Ids : Precedes(book[y], book[x])}
<1>1. \A x \in Ids : book[x] \in Transaction /\ book[x].id = x
    BY DEF Planned, PlaceInv, TypeInv, TypeOK
<1>2. \A x \in Ids : rank[x] = Cardinality(ahead(x))
    BY DEF Planned, Sorted, RankOf, Ids
<1>3. Precedes(book[f], book[e])
    <2>1. /\ book[e].day = book[f].day /\ book[e].ref = book[f].ref
          /\ book[e].cp = book[f].cp /\ book[e].amount = book[f].amount
          /\ book[e].dir = book[f].dir /\ book[e].source = book[f].source
          /\ book[e].gross = book[f].gross
          /\ book[f].id < book[e].id
        BY <1>1 DEF Copy, Transaction
    <2> DEFINE k == SortKey(book[f])
               l == SortKey(book[e])
    <2>2. k[8] < l[8] /\ \A m \in 1..7 : k[m] = l[m]
        BY <2>1 DEF SortKey
    <2>3. Before(book[f], book[e])
        <3>1. 8 \in 1..8 /\ 8 - 1 = 7
            OBVIOUS
        <3> HIDE DEF k, l
        <3>2. \E n \in 1..8 : k[n] < l[n] /\ \A m \in 1..(n - 1) : k[m] = l[m]
            BY <2>2, <3>1
        <3> QED
            BY <3>2 DEF Before, k, l
    <2>4. IsExpected(book[f]) = IsExpected(book[e])
        BY <2>1 DEF IsExpected
    <2> QED
        BY <2>3, <2>4 DEF Precedes
<1>4. ahead(f) \subseteq ahead(e) /\ f \in ahead(e) /\ f \notin ahead(f)
    BY <1>1, <1>3, RowsOrdered
<1>5. ahead(f) \in SUBSET ahead(e) /\ ahead(f) # ahead(e)
    BY <1>4
<1>6. ahead(e) \in SUBSET Ids /\ ahead(f) \in SUBSET Ids
    OBVIOUS
<1> HIDE DEF ahead
<1>7. IsFiniteSet(ahead(e)) /\ IsFiniteSet(ahead(f))
    BY <1>6, FS_Subset DEF Planned, BookFinite
<1>8. /\ Cardinality(ahead(f)) <= Cardinality(ahead(e))
      /\ Cardinality(ahead(f)) # Cardinality(ahead(e))
      /\ Cardinality(ahead(f)) \in Nat /\ Cardinality(ahead(e)) \in Nat
    BY <1>5, <1>7, FS_Subset, FS_CardinalityType
<1> QED
    BY <1>2, <1>8

\* What Fits means for open rows.
LEMMA FitsExactly ==
    ASSUME Planned, NEW e, NEW a
    PROVE  /\ e \in OpenExpected /\ a \in ExactFits(e) =>
                  /\ e \in Ids /\ a \in Ids /\ e \in open /\ a \in open
                  /\ Fits(book, e, a)
           /\ e \in open /\ a \in open /\ Fits(book, e, a) =>
                  e \in OpenExpected /\ a \in ExactFits(e)
<1>1. open \subseteq Ids
    BY DEF Planned, PlaceInv, TypeInv, TypeOK
<1> QED
    BY <1>1 DEF ExactFits, OpenExpected, OpenActual, Expected, Actual, Fits,
                NearInTime

\* The exact pass takes a team.
LEMMA ExactTakesTeam ==
    ASSUME Planned, TeamsTaken, NEW e \in ExactRows, NEW a \in ExactFits(e),
           IsFirst(e, ExactRows)
    PROVE  Meant(truth, e) /\ {e, a} = Team(truth, Ids, e)
<1>1. /\ e \in Ids /\ a \in Ids /\ e \in open /\ a \in open
      /\ Fits(book, e, a)
    BY FitsExactly DEF ExactRows
<1>2. PICK f \in Ids : /\ PairTeam(book, truth, Ids, f, a)
                       /\ f = e \/ Copy(book, f, e)
    BY <1>1 DEF Planned, WellPlanned, ExactMeant
<1>3. /\ Meant(truth, f) /\ Team(truth, Ids, f) = {f, a}
      /\ Fits(book, f, a)
    BY <1>2 DEF PairTeam
<1>4. Meant(truth, a) /\ Team(truth, Ids, a) = {f, a}
    BY <1>3, OneTeam
<1>5. f \in open
    BY <1>1, <1>4, TeamsWhole
<1>6. f \in ExactRows
    BY <1>1, <1>3, <1>5, FitsExactly DEF ExactRows
<1>7. rank[e] <= rank[f] /\ rank[e] \in Nat /\ rank[f] \in Nat
    BY <1>1, <1>6, RankNatural DEF IsFirst, Planned
<1>8. ~(rank[f] < rank[e])
    BY <1>7
<1>9. f = e
    BY <1>1, <1>2, <1>8, CopyRanked
<1> QED
    BY <1>3, <1>9

\* The parts of a split are open with the order.
LEMMA SplitIsOpen ==
    ASSUME Planned, TeamsTaken, NEW e \in open, SplitTeam(book, truth, Ids, e)
    PROVE  /\ SplitParts(e) = Lines(book, Ids, e)
           /\ SplitFits(e) /\ e \in OpenExpected
<1>1. /\ Meant(truth, e) /\ IsExpected(book[e]) /\ book[e].ref # NoRef
      /\ Team(truth, Ids, e) = {e} \cup Lines(book, Ids, e)
      /\ \A x \in Rec(book, Ids, e) : IsExpected(book[x]) => x = e
      /\ \A a \in Lines(book, Ids, e) : NearInTime(book, e, a)
      /\ Cardinality(Lines(book, Ids, e)) >= 2
      /\ SumOf(book, Lines(book, Ids, e)) = book[e].amount
    BY DEF SplitTeam
<1>2. open \subseteq Ids
    BY DEF Planned, PlaceInv, TypeInv, TypeOK
<1>3. Lines(book, Ids, e) \subseteq open
    BY <1>1, TeamsWhole
<1>4. SplitParts(e) = Lines(book, Ids, e)
    <2>1. \A a \in Ids : RefsAgree(book[e], book[a]) <=> RefsAgree(book[a], book[e])
        BY DEF RefsAgree
    <2>2. \A a \in Ids : book[a].source = "bank" => a \in Actual
        BY DEF Actual, Expected, IsExpected
    <2> QED
        BY <1>1, <1>2, <1>3, <2>1, <2>2
           DEF SplitParts, Lines, Rec, OpenActual, NearInTime
<1>5. e \in OpenExpected
    BY <1>1, <1>2 DEF OpenExpected, Expected
<1>6. SameRecord(e) \cap OpenExpected = {e}
    <2>1. SameRecord(e) = Rec(book, Ids, e)
        BY DEF SameRecord, Rec
    <2>2. e \in Rec(book, Ids, e)
        BY <1>1, <1>2 DEF Rec, RefsAgree
    <2> QED
        BY <1>1, <1>5, <2>1, <2>2 DEF OpenExpected, Expected
<1> QED
    BY <1>1, <1>4, <1>5, <1>6 DEF SplitFits, SumAmounts

\* The split pass takes a team: two open parts belong to a split.
LEMMA SplitTakesTeam ==
    ASSUME Planned, TeamsTaken, NEW e \in SplitRows
    PROVE  /\ Meant(truth, e)
           /\ {e} \cup SplitParts(e) = Team(truth, Ids, e)
<1>1. /\ e \in open /\ IsExpected(book[e]) /\ e \in Ids
      /\ SplitFits(e) /\ open \subseteq Ids
    BY DEF SplitRows, OpenExpected, Expected, Planned, PlaceInv, TypeInv, TypeOK
<1>2. SplitParts(e) \subseteq Lines(book, Ids, e)
    <2>1. \A a \in Ids : RefsAgree(book[e], book[a]) <=> RefsAgree(book[a], book[e])
        BY DEF RefsAgree
    <2> QED
        BY <1>1, <2>1 DEF SplitParts, Lines, Rec, OpenActual
<1>3. \E a, c \in SplitParts(e) : a # c
    <2>1. SplitParts(e) \in SUBSET Ids
        BY <1>1 DEF SplitParts, OpenActual
    <2>2. IsFiniteSet(SplitParts(e)) /\ Cardinality(SplitParts(e)) >= 2
        BY <1>1, <2>1, FS_Subset DEF Planned, BookFinite, SplitFits
    <2>3. SplitParts(e) # {}
        BY <2>2, FS_EmptySet
    <2>4. PICK a \in SplitParts(e) : TRUE
        BY <2>3
    <2>5. SplitParts(e) # {a}
        BY <2>2, FS_Singleton
    <2> QED
        BY <2>4, <2>5
<1>4. SplitTeam(book, truth, Ids, e)
    BY <1>1, <1>2, <1>3 DEF Planned, WellPlanned, PartsMeant
<1>5. SplitParts(e) = Lines(book, Ids, e)
    BY <1>1, <1>4, SplitIsOpen
<1> QED
    BY <1>4, <1>5 DEF SplitTeam

\* Which teams the passes have taken so far.
PairsGone ==
    \A e, a \in Ids : PairTeam(book, truth, Ids, e, a) => e \notin open
SplitsGone ==
    \A e \in Ids : SplitTeam(book, truth, Ids, e) => e \notin open
ReversalsGone ==
    \A c, d \in Ids : ReversalTeam(book, truth, Ids, c, d) => c \notin open
AmountsGone ==
    \A e, a \in Ids : AmountTeam(book, truth, Ids, e, a) => e \notin open
GroupsGone ==
    \A p \in Ids : GroupTeam(book, truth, Ids, p) => p \notin open

\* Likeness, as the pool sees it.
LEMMA AlikeInPool ==
    ASSUME Planned, NEW e \in Expected, NEW a \in Actual,
           book[a].source = "bank", book[a].cp = book[e].cp,
           book[a].dir = book[e].dir, book[a].amount = book[e].amount,
           DayDiff(book[a], book[e]) <= AmountHorizonDays
    PROVE  Alike(book, Ids, e, a) <=>
               ~RefConflict(e, a) /\ ~RefsAgree(book[e], book[a])
<1>1. SameRecord(e) = Rec(book, Ids, e) /\ SameRecord(a) = Rec(book, Ids, a)
    BY DEF SameRecord, Rec
<1>2. IsExpected(book[e]) /\ ~IsExpected(book[a]) /\ e \in Ids /\ a \in Ids
    BY DEF Expected, Actual
<1>3. /\ (\A x \in Rec(book, Ids, e) : IsExpected(book[x])) <=>
             SameRecord(e) \cap Actual = {}
      /\ (\A x \in Rec(book, Ids, a) : ~IsExpected(book[x])) <=>
             SameRecord(a) \cap Expected = {}
    BY <1>1 DEF Rec, Actual, Expected
<1>4. RefsAgree(book[e], book[a]) => a \in SameRecord(e)
    BY <1>2 DEF SameRecord, RefsAgree
<1>5. Alike(book, Ids, e, a) <=> /\ SameRecord(e) \cap Actual = {}
                                 /\ SameRecord(a) \cap Expected = {}
    BY <1>2, <1>3 DEF Alike
<1> QED
    BY <1>4, <1>5 DEF RefConflict

\* A pair the tolerant pass takes on its reference is a reversal.
LEMMA RefTakesTeam ==
    ASSUME Planned, TeamsTaken, Counted, phase = "tolerant",
           PairsGone, SplitsGone, NEW e, NEW o, Accepts(edges, e, o),
           RefsAgree(book[e], book[o])
    PROVE  Meant(truth, e) /\ {e, o} = Team(truth, Ids, e)
<1>1. /\ e \in Expected \cap open /\ o \in open /\ e # o
      /\ o \in Expected => ReversalEdge(e, o)
      /\ o \in Actual => BankEdge(e, o)
    BY PairFacts DEF Counted, Planned, PlaceInv
<1>2. e \in Ids /\ o \in Ids /\ IsExpected(book[e]) /\ open \subseteq Ids
    BY <1>1 DEF Expected, Planned, PlaceInv, TypeInv, TypeOK
<1>3. CASE o \in Expected
    <2>1. ReversalTeam(book, truth, Ids, e, o)
        BY <1>1, <1>2, <1>3
           DEF ReversalEdge, Expected, Planned, WellPlanned, ReversalMeant
    <2> QED
        BY <2>1 DEF ReversalTeam
<1>4. CASE o \in Actual
    <2>1. /\ o \in Lines(book, Ids, e) /\ NearInTime(book, e, o)
          /\ AbsDiff(book[e].amount, book[o].amount)
                 <= TolerantLimit(book[e].amount)
        BY <1>1, <1>2, <1>4
           DEF BankEdge, Lines, Rec, RefsAgree, NearInTime, AmountDiff
    <2>2. Fits(book, e, o) \/ SplitTeam(book, truth, Ids, e)
        BY <1>2, <2>1 DEF Planned, WellPlanned, CloseMeant
    <2>3. Fits(book, e, o)
        BY <1>1, <1>2, <2>2 DEF SplitsGone
    <2>4. PICK f \in Ids : PairTeam(book, truth, Ids, f, o)
        BY <1>2, <2>3 DEF Planned, WellPlanned, ExactMeant
    <2>5. Meant(truth, f) /\ Team(truth, Ids, f) = {f, o}
        BY <2>4 DEF PairTeam
    <2>6. Meant(truth, o) /\ Team(truth, Ids, o) = {f, o}
        BY <2>5, OneTeam
    <2>7. f \in open
        BY <1>1, <2>6, TeamsWhole
    <2> QED
        BY <1>2, <2>4, <2>7 DEF PairsGone
<1> QED
    BY <1>2, <1>3, <1>4 DEF Actual

\* A pair it takes on its amount is meant: where another choice was injected,
\* that is still in the pool, and the rival check sees it.
LEMMA AmountTakesTeam ==
    ASSUME Planned, TeamsTaken, Counted, phase = "tolerant",
           NEW e, NEW o, Accepts(edges, e, o),
           ~RefsAgree(book[e], book[o])
    PROVE  Meant(truth, e) /\ {e, o} = Team(truth, Ids, e)
<1>1. /\ e \in Expected \cap open /\ o \in open /\ e # o
      /\ o \in Actual => BankEdge(e, o)
    BY PairFacts DEF Counted, Planned, PlaceInv
<1>2. o \in Actual /\ Tier(e, o) = TierAmount /\ RivalFree(e, o)
    BY DEF Accepts, Tier, TierRef, TierAmount, TierTolerance
<1>3. e \in Ids /\ o \in Ids /\ IsExpected(book[e]) /\ open \subseteq Ids
    BY <1>1 DEF Expected, Planned, PlaceInv, TypeInv, TypeOK
<1>4. /\ book[e].amount \in Int /\ book[o].amount \in Int
      /\ book[e].day \in Int /\ book[o].day \in Int
    BY <1>3 DEF Planned, PlaceInv, TypeInv, TypeOK, Transaction
<1>5. book[o].amount = book[e].amount
    BY <1>2, <1>4 DEF Tier, TierRef, TierAmount, TierTolerance, AmountDiff, AbsDiff
<1>6. /\ book[o].source = "bank" /\ book[o].cp = book[e].cp
      /\ book[o].dir = book[e].dir /\ ~RefConflict(e, o)
      /\ NearInTime(book, e, o)
    BY <1>1, <1>2 DEF BankEdge, NearInTime
<1>7. DayDiff(book[o], book[e]) <= AmountHorizonDays
    BY <1>4, <1>6, LimitsOfTheCode DEF NearInTime, DayDiff, AbsDiff
<1>8. Alike(book, Ids, e, o)
    BY <1>1, <1>2, <1>5, <1>6, <1>7, AlikeInPool
<1>9. CASE AmountTeam(book, truth, Ids, e, o)
    BY <1>9 DEF AmountTeam
<1>10. CASE ~AmountTeam(book, truth, Ids, e, o)
    <2>1. PICK y \in Ids \ {o} : Alike(book, Ids, e, y) /\ ~Meant(truth, y)
        BY <1>3, <1>6, <1>8, <1>10 DEF Planned, WellPlanned, AmountMeant
    <2>2. y \in open
        BY <2>1, OthersStay
    <2>3. /\ book[y].source = "bank" /\ book[y].cp = book[e].cp
          /\ book[y].dir = book[e].dir /\ book[y].amount = book[e].amount
          /\ DayDiff(book[y], book[e]) <= AmountHorizonDays
        BY <2>1 DEF Alike
    <2>4. y \in Actual
        BY <2>1, <2>3 DEF Actual, Expected, IsExpected
    <2>5. ~RefConflict(e, y)
        BY <1>1, <2>1, <2>3, <2>4, AlikeInPool
    <2>6. RefConflict(e, y)
        BY <1>2, <2>1, <2>2, <2>3, <2>4 DEF RivalFree, RivalOf, OpenActual
    <2> QED
        BY <2>5, <2>6
<1> QED
    BY <1>9, <1>10

\* The tolerant pass takes a team.
LEMMA PairTakesTeam ==
    ASSUME Planned, TeamsTaken, Counted, phase = "tolerant",
           PairsGone, SplitsGone, NEW e, NEW o, Accepts(edges, e, o)
    PROVE  Meant(truth, e) /\ {e, o} = Team(truth, Ids, e)
BY RefTakesTeam, AmountTakesTeam

\* A row on one candidate pair.
LEMMA DegreeOne ==
    ASSUME NEW i, NEW p \in edges, i \in {p[1], p[2]},
           \A q \in edges : i \in {q[1], q[2]} => q = p
    PROVE  Degree(edges, i) = 1
<1>1. {q \in edges : i \in {q[1], q[2]}} = {p}
    OBVIOUS
<1> QED
    BY <1>1, FS_Singleton DEF Degree

\* A reversal whose rows are open is taken when it is visited.
LEMMA ReversalAccepted ==
    ASSUME Planned, TeamsTaken, Counted, phase = "tolerant", tier = TierRef,
           NEW c \in open, NEW d \in Ids, ReversalTeam(book, truth, Ids, c, d)
    PROVE  Accepts(edges, c, d)
<1>1. /\ Meant(truth, c) /\ Team(truth, Ids, c) = {c, d}
      /\ Rec(book, Ids, c) = {c, d}
      /\ IsExpected(book[c]) /\ IsExpected(book[d])
      /\ book[c].dir = "credit" /\ book[d].dir = "debit"
      /\ book[c].amount > 0 /\ book[d].amount = book[c].amount
      /\ DayDiff(book[d], book[c]) <= MatchWindowDays
    BY DEF ReversalTeam, NearInTime
<1>2. /\ open \subseteq Ids /\ edges \subseteq Ids \X Ids
      /\ Edges(tier) \subseteq edges
      /\ \A p \in edges : p[1] \in Expected /\ Candidate(p[1], p[2], tier)
    BY DEF Planned, PlaceInv, TypeInv, TypeOK, Counted
<1>3. d \in open /\ c \in Ids /\ c \in Expected /\ d \in Expected
    BY <1>1, <1>2, TeamsWhole DEF Expected
<1>4. RefsAgree(book[c], book[d])
    BY <1>1 DEF Rec, RefsAgree
<1>5. ReversalEdge(c, d) /\ Tier(c, d) = TierRef
    BY <1>1, <1>3, <1>4 DEF ReversalEdge, RefsAgree, Tier
<1>6. <<c, d>> \in edges
    BY <1>2, <1>3, <1>5 DEF Edges, Candidate, OpenExpected, TierRef
<1>7. ASSUME NEW p \in edges, c \in {p[1], p[2]} \/ d \in {p[1], p[2]}
      PROVE  p = <<c, d>>
    <2>1. PICK x \in Ids, y \in Ids : p = <<x, y>>
        BY <1>2
    <2>2. x \in Expected /\ Candidate(x, y, tier)
        BY <1>2, <2>1
    <2>3. RefsAgree(book[x], book[y])
        BY <2>2 DEF Candidate, Tier, TierRef, TierAmount, TierTolerance
    <2>4. x \in Rec(book, Ids, c) /\ y \in Rec(book, Ids, c)
        BY <1>4, <1>7, <2>1, <2>3 DEF Rec, RefsAgree
    <2>5. y \notin Actual
        BY <1>1, <1>3, <2>4 DEF Actual
    <2>6. ReversalEdge(x, y)
        BY <2>2, <2>5 DEF Candidate, BankEdge
    <2>7. x = c /\ y = d
        BY <1>1, <2>4, <2>6 DEF ReversalEdge
    <2> QED
        BY <2>1, <2>7
<1>8. Degree(edges, c) = 1 /\ Degree(edges, d) = 1
    <2> DEFINE p == <<c, d>>
    <2>1. p \in edges /\ p[1] = c /\ p[2] = d
        BY <1>6
    <2>2. \A q \in edges : c \in {q[1], q[2]} \/ d \in {q[1], q[2]} => q = p
        BY <1>7
    <2> HIDE DEF p
    <2> QED
        BY <2>1, <2>2, DegreeOne
<1> QED
    BY <1>3, <1>5, <1>6, <1>8 DEF Accepts

\* Money is not negative, so equal amounts are within the tolerance.
LEMMA SameAmountClose ==
    ASSUME Planned, NEW e \in Ids, NEW a \in Ids, book[a].amount = book[e].amount
    PROVE  AmountDiff(e, a) = 0 /\ 0 <= TolerantLimit(book[e].amount)
<1>1. book[e].amount \in Nat
    BY DEF Planned, PlaceInv, TypeInv, SoundBook, Transaction, ValidateMoney
<1> QED
    BY <1>1, LimitsOfTheCode DEF AmountDiff, AbsDiff, TolerantLimit

\* Candidates of the first two tiers that do not agree are alike.
LEMMA CandidateAlike ==
    ASSUME Planned, NEW x \in Expected, NEW y \in Ids, BankEdge(x, y),
           Candidate(x, y, TierAmount)
    PROVE  RefsAgree(book[x], book[y]) \/ Alike(book, Ids, x, y)
<1> SUFFICES ASSUME ~RefsAgree(book[x], book[y]) PROVE Alike(book, Ids, x, y)
    OBVIOUS
<1>1. AmountDiff(x, y) = 0
    BY DEF Candidate, Tier, TierRef, TierAmount, TierTolerance
<1>2. /\ book[x].amount \in Int /\ book[y].amount \in Int
      /\ book[x].day \in Int /\ book[y].day \in Int
    BY DEF Planned, PlaceInv, TypeInv, TypeOK, Transaction, Expected
<1>3. book[y].amount = book[x].amount
    BY <1>1, <1>2 DEF AmountDiff, AbsDiff
<1>4. DayDiff(book[y], book[x]) <= AmountHorizonDays
    BY <1>2, LimitsOfTheCode DEF BankEdge, DayDiff, AbsDiff
<1> QED
    BY <1>3, <1>4, AlikeInPool DEF BankEdge

\* A meant pair without a common reference is taken when it is visited.
LEMMA AmountAccepted ==
    ASSUME Planned, TeamsTaken, Counted, phase = "tolerant", tier = TierAmount,
           NEW e \in open, NEW a \in Ids, AmountTeam(book, truth, Ids, e, a)
    PROVE  Accepts(edges, e, a)
<1>1. /\ Meant(truth, e) /\ Team(truth, Ids, e) = {e, a}
      /\ Alike(book, Ids, e, a) /\ NearInTime(book, e, a)
      /\ book[e].dir = "credit"
      /\ \A y \in Ids : Alike(book, Ids, e, y) => y = a
      /\ \A x \in Ids : Alike(book, Ids, x, a) => x = e
    BY DEF AmountTeam
<1>2. /\ open \subseteq Ids /\ edges \subseteq Ids \X Ids
      /\ Edges(tier) \subseteq edges
      /\ \A p \in edges : p[1] \in Expected /\ Candidate(p[1], p[2], tier)
    BY DEF Planned, PlaceInv, TypeInv, TypeOK, Counted
<1>3. /\ a \in open /\ e \in Ids
      /\ e \in Expected /\ a \in Actual /\ a \notin Expected /\ e \notin Actual
    BY <1>1, <1>2, TeamsWhole DEF Alike, Expected, Actual, IsExpected
<1>4. /\ book[a].source = "bank" /\ book[a].cp = book[e].cp
      /\ book[a].dir = book[e].dir /\ book[a].amount = book[e].amount
      /\ DayDiff(book[a], book[e]) <= AmountHorizonDays
      /\ \A x \in Rec(book, Ids, e) : IsExpected(book[x])
      /\ \A x \in Rec(book, Ids, a) : ~IsExpected(book[x])
    BY <1>1 DEF Alike
<1>5. ~RefConflict(e, a) /\ ~RefsAgree(book[e], book[a])
    BY <1>1, <1>3, <1>4, AlikeInPool
<1>6. BankEdge(e, a) /\ Tier(e, a) = TierAmount
    BY <1>1, <1>3, <1>4, <1>5, SameAmountClose
       DEF BankEdge, Tier, NearInTime
<1>7. <<e, a>> \in edges
    BY <1>2, <1>3, <1>6 DEF Edges, Candidate, OpenExpected, TierAmount
<1>8. \A x \in Ids : RefsAgree(book[e], book[x]) => x \in Expected
    BY <1>4 DEF Rec, RefsAgree, Expected
<1>9. \A x \in Ids : RefsAgree(book[x], book[a]) => x \notin Expected
    BY <1>4 DEF Rec, Expected
<1>10. ASSUME NEW p \in edges, e \in {p[1], p[2]}
       PROVE  p = <<e, a>>
    <2>1. PICK x \in Ids, y \in Ids : p = <<x, y>>
        BY <1>2
    <2>2. x \in Expected /\ Candidate(x, y, tier)
        BY <1>2, <2>1
    <2>3. x = e
        BY <1>1, <1>3, <1>10, <2>1, <2>2 DEF Candidate, BankEdge, ReversalEdge
    <2>4. ~ReversalEdge(e, y)
        <3> SUFFICES ASSUME ReversalEdge(e, y) PROVE FALSE
            OBVIOUS
        <3>1. book[e].ref # NoRef
            BY <1>3 DEF Planned, WellPlanned, RefsMeant, Expected
        <3>2. ReversalTeam(book, truth, Ids, e, y)
            BY <1>3, <3>1
               DEF ReversalEdge, Planned, WellPlanned, ReversalMeant, Expected
        <3>3. y = a
            BY <1>1, <1>3, <3>2 DEF ReversalTeam, ReversalEdge
        <3> QED
            BY <1>3, <3>3 DEF ReversalEdge
    <2>5. BankEdge(e, y)
        BY <2>2, <2>3, <2>4 DEF Candidate
    <2>6. y \notin Expected
        BY <2>5 DEF BankEdge, Actual
    <2>7. Alike(book, Ids, e, y)
        BY <1>3, <1>8, <2>2, <2>3, <2>5, <2>6, CandidateAlike
    <2> QED
        BY <1>1, <2>1, <2>3, <2>7
<1>11. ASSUME NEW p \in edges, a \in {p[1], p[2]}
       PROVE  p = <<e, a>>
    <2>1. PICK x \in Ids, y \in Ids : p = <<x, y>>
        BY <1>2
    <2>2. x \in Expected /\ Candidate(x, y, tier)
        BY <1>2, <2>1
    <2>3. y = a
        BY <1>3, <1>11, <2>1, <2>2
    <2>4. BankEdge(x, a)
        BY <1>3, <2>2, <2>3 DEF Candidate, ReversalEdge
    <2>5. Alike(book, Ids, x, a)
        BY <1>9, <2>2, <2>3, <2>4, CandidateAlike
    <2> QED
        BY <1>1, <2>1, <2>3, <2>5
<1>12. Degree(edges, e) = 1 /\ Degree(edges, a) = 1
    <2> DEFINE p == <<e, a>>
    <2>1. p \in edges /\ p[1] = e /\ p[2] = a
        BY <1>7
    <2>2. \A q \in edges : e \in {q[1], q[2]} \/ a \in {q[1], q[2]} => q = p
        BY <1>10, <1>11
    <2> HIDE DEF p
    <2> QED
        BY <2>1, <2>2, DegreeOne
<1>13. RivalFree(e, a)
    <2>1. ASSUME NEW j \in OpenActual \ {a}, book[j].source = "bank",
                 RivalOf(e, j, e)
          PROVE  RefConflict(e, j)
        <3>1. j \in Actual /\ j \in Ids /\ j \notin Expected
            BY <1>2 DEF OpenActual, Actual
        <3>2. ~RefsAgree(book[e], book[j])
            BY <1>8, <3>1
        <3>3. ~Alike(book, Ids, e, j)
            BY <1>1, <3>1
        <3> QED
            BY <1>3, <2>1, <3>1, <3>2, <3>3, AlikeInPool DEF RivalOf
    <2>2. ASSUME NEW x \in OpenExpected \ {e}, RivalOf(e, x, a)
          PROVE  RefConflict(x, a)
        <3>1. x \in Expected /\ x \in Ids
            BY <1>2 DEF OpenExpected, Expected
        <3>2. ~RefsAgree(book[x], book[a])
            BY <1>9, <3>1
        <3>3. ~Alike(book, Ids, x, a)
            BY <1>1, <3>1
        <3>4. book[x].day \in Int /\ book[a].day \in Int
            BY <3>1 DEF Planned, PlaceInv, TypeInv, TypeOK, Transaction
        <3>5. DayDiff(book[a], book[x]) = DayDiff(book[x], book[a])
            BY <3>4 DEF DayDiff, AbsDiff
        <3>6. /\ book[a].cp = book[x].cp /\ book[a].dir = book[x].dir
              /\ book[a].amount = book[x].amount
              /\ DayDiff(book[a], book[x]) <= AmountHorizonDays
            BY <1>4, <2>2, <3>5 DEF RivalOf
        <3> QED
            BY <1>3, <1>4, <3>1, <3>2, <3>3, <3>6, AlikeInPool
    <2> QED
        BY <2>1, <2>2 DEF RivalFree
<1> QED
    BY <1>3, <1>6, <1>7, <1>12, <1>13 DEF Accepts

\* A part of some positive amounts adds up to less than the whole.
LEMMA PartAddsLess ==
    ASSUME NEW b, NEW S, IsFiniteSet(S), \A i \in S : b[i].amount \in Nat,
           \A i \in S : b[i].amount > 0, NEW T \in SUBSET S, T # S
    PROVE  SumOf(b, T) # SumOf(b, S)
<1> DEFINE w == [i \in S |-> b[i].amount]
<1>1. \A i \in S : w[i] = b[i].amount /\ w[i] \in Nat /\ w[i] > 0
    OBVIOUS
<1>2. PICK x \in S : x \notin T
    OBVIOUS
<1> HIDE DEF w
<1>3. IsFiniteSet(T) /\ IsFiniteSet(S \ {x})
    BY FS_Subset
<1>4. SumOf(b, T) = Sum(w, T) /\ SumOf(b, S) = Sum(w, S)
    BY <1>1, <1>3, SumOfRows
<1>5. Sum(w, S) = w[x] + Sum(w, S \ {x})
    BY <1>1, <1>2, SumRemove
<1>6. T \in SUBSET (S \ {x})
    BY <1>2
<1>7. /\ Sum(w, T) \in Nat /\ Sum(w, T) <= Sum(w, S \ {x})
      /\ Sum(w, S \ {x}) \in Nat
    BY <1>1, <1>3, <1>6, SumPart, SumNat
<1> QED
    BY <1>1, <1>2, <1>4, <1>5, <1>7

\* Without one of its rows, a set adds up to that much less.
LEMMA LessOneRow ==
    ASSUME NEW b, NEW S, IsFiniteSet(S), \A i \in S : b[i].amount \in Int,
           NEW x \in S
    PROVE  /\ SumOf(b, S) = b[x].amount + SumOf(b, S \ {x})
           /\ SumOf(b, S \ {x}) \in Int
<1> DEFINE w == [i \in S |-> b[i].amount]
<1>1. \A i \in S : w[i] = b[i].amount /\ w[i] \in Int
    OBVIOUS
<1> HIDE DEF w
<1>3. IsFiniteSet(S \ {x})
    BY FS_Subset
<1>4. SumOf(b, S \ {x}) = Sum(w, S \ {x}) /\ SumOf(b, S) = Sum(w, S)
    BY <1>1, <1>3, SumOfRows
<1> QED
    BY <1>1, <1>3, <1>4, SumRemove, SumType

\* Equal sums with a common term.
LEMMA EqualRests ==
    ASSUME NEW a \in Int, NEW s \in Int, NEW g \in Int, g + a = a + s
    PROVE  s = g
OBVIOUS

\* What the group pass finds for a payout: the meant group and no other set, or
\* more than one set for an unclear group.
LEMMA PayoutFinds ==
    ASSUME Planned, TeamsTaken, NEW p \in open, IsPayout(book, p)
    PROVE  /\ ~(Cardinality(Orders(p)) > GroupMemberCap)
           /\ \/ /\ Meant(truth, p) /\ ~Refused(p)
                 /\ OrderSets(p) = {OrdersOf(book, Ids, p)}
                 /\ FirstFound(OrderSets(p)) = OrdersOf(book, Ids, p)
                 /\ Team(truth, Ids, p) = {p} \cup OrdersOf(book, Ids, p)
              \/ /\ ~Meant(truth, p) /\ Refused(p)
                 /\ \A i \in FirstTwo(OrderSets(p)) : ~Meant(truth, i)
<1> DEFINE O == OrdersOf(book, Ids, p)
<1>1. open \subseteq Ids /\ p \in Ids
    BY DEF Planned, PlaceInv, TypeInv, TypeOK
<1>2. \A i \in Ids : book[i].amount \in Nat
    BY DEF Planned, PlaceInv, TypeInv, SoundBook, Transaction, ValidateMoney
<1>3. /\ Orders(p) \subseteq O /\ O \subseteq Ids
      /\ O \cap open = Orders(p)
    BY <1>1 DEF Orders, OrdersOf, OpenExpected, Expected
<1>4. \A i \in O : book[i].amount \in Nat /\ book[i].amount > 0
    BY <1>2 DEF OrdersOf
<1>5. /\ Cardinality(O) <= 9
      /\ GroupTeam(book, truth, Ids, p) \/ UnclearGroup(book, truth, Ids, p)
    BY <1>1 DEF Planned, WellPlanned, PayoutMeant
<1>6. OrderSets(p) = {T \in SUBSET Orders(p) : SumOf(book, T) = book[p].gross}
    BY DEF OrderSets, SumAmounts
<1>g. GroupTeam(book, truth, Ids, p) =>
          /\ Meant(truth, p) /\ Team(truth, Ids, p) = {p} \cup O
          /\ SumOf(book, O) = book[p].gross
    BY DEF GroupTeam
<1>u. UnclearGroup(book, truth, Ids, p) =>
          /\ ~Meant(truth, p) /\ \A e \in O : ~Meant(truth, e)
          /\ \E x, y \in O : /\ x # y /\ book[x].amount = book[y].amount
                             /\ SumOf(book, O) = book[p].gross + book[x].amount
    BY DEF UnclearGroup
<1>0. OrdersOf(book, Ids, p) = O
    OBVIOUS
<1> HIDE DEF O
<1>7. IsFiniteSet(Ids) /\ IsFiniteSet(O) /\ IsFiniteSet(Orders(p))
    BY <1>3, FS_Subset DEF Planned, BookFinite
<1>8. ~(Cardinality(Orders(p)) > GroupMemberCap)
    <2>1. /\ Cardinality(Orders(p)) <= Cardinality(O)
          /\ Cardinality(Orders(p)) \in Nat /\ Cardinality(O) \in Nat
        BY <1>3, <1>7, FS_Subset, FS_CardinalityType
    <2> QED
        BY <1>5, <2>1, LimitsOfTheCode
<1>9. CASE GroupTeam(book, truth, Ids, p)
    <2>1. Orders(p) = O
        BY <1>3, <1>9, <1>g, TeamsWhole
    <2>2. \A T \in SUBSET O : SumOf(book, T) = book[p].gross <=> T = O
        BY <1>4, <1>7, <1>9, <1>g, PartAddsLess
    <2>3. OrderSets(p) = {O}
        BY <1>6, <2>1, <2>2
    <2>4. FirstFound(OrderSets(p)) = O
        BY <2>3, FirstOfOne
    <2>5. \A i \in O : Meant(truth, i)
        BY <1>9, <1>g, OneTeam
    <2>6. O \cap unsure = {}
        BY <2>5 DEF TeamsTaken
    <2>7. Cardinality(OrderSets(p)) = 1
        BY <2>3, FS_Singleton
    <2>8. ~Refused(p)
        BY <2>4, <2>6, <2>7 DEF Refused
    <2> QED
        BY <1>0, <1>8, <1>9, <1>g, <2>3, <2>4, <2>8
<1>10. CASE UnclearGroup(book, truth, Ids, p)
    <2>1. Orders(p) = O
        BY <1>3, <1>10, <1>u, OthersStay
    <2>2. PICK x \in O, y \in O :
              /\ x # y /\ book[x].amount = book[y].amount
              /\ SumOf(book, O) = book[p].gross + book[x].amount
        BY <1>10, <1>u
    <2>3. book[p].gross \in Int
        BY <1>1 DEF Planned, PlaceInv, TypeInv, TypeOK, Transaction
    <2>4. SumOf(book, O \ {x}) = book[p].gross /\ SumOf(book, O \ {y}) = book[p].gross
        <3>1. \A i \in O : book[i].amount \in Int
            BY <1>4
        <3>2. /\ SumOf(book, O) = book[x].amount + SumOf(book, O \ {x})
              /\ SumOf(book, O \ {x}) \in Int
            BY <1>7, <3>1, LessOneRow
        <3>3. /\ SumOf(book, O) = book[y].amount + SumOf(book, O \ {y})
              /\ SumOf(book, O \ {y}) \in Int
            BY <1>7, <3>1, LessOneRow
        <3> DEFINE sx == SumOf(book, O \ {x})
                   sy == SumOf(book, O \ {y})
                   so == SumOf(book, O)
        <3>4. book[x].amount \in Int /\ book[y].amount = book[x].amount
            BY <2>2, <3>1
        <3>5. so = book[x].amount + sx /\ sx \in Int
            BY <3>2
        <3>6. so = book[y].amount + sy /\ sy \in Int
            BY <3>3
        <3>7. so = book[p].gross + book[x].amount
            BY <2>2
        <3> HIDE DEF so, sx, sy
        <3>8. sx = book[p].gross /\ sy = book[p].gross
            BY <2>3, <3>4, <3>5, <3>6, <3>7, EqualRests
        <3> QED
            BY <3>8 DEF sx, sy
    <2>5. /\ O \ {x} \in OrderSets(p) /\ O \ {y} \in OrderSets(p)
          /\ O \ {x} # O \ {y}
        BY <1>6, <2>1, <2>2, <2>4
    <2>6. IsFiniteSet(OrderSets(p))
        <3>1. IsFiniteSet(SUBSET Orders(p))
            BY <1>7, FS_SUBSET
        <3> QED
            BY <1>6, <3>1, FS_Subset
    <2>7. Cardinality(OrderSets(p)) > 1
        <3>1. /\ Cardinality(OrderSets(p)) \in Nat
              /\ Cardinality(OrderSets(p)) # 0
            BY <2>5, <2>6, FS_CardinalityType, FS_EmptySet
        <3>2. Cardinality(OrderSets(p)) # 1
            BY <2>5, <2>6, FS_Singleton
        <3> QED
            BY <3>1, <3>2
    <2>8. FirstTwo(OrderSets(p)) \subseteq O
        BY <1>6, <2>1, FoundWhole
    <2> QED
        BY <1>8, <1>10, <1>u, <2>7, <2>8 DEF Refused
<1> QED
    BY <1>5, <1>9, <1>10

-----------------------------------------------------------------------------
(* Each pass takes its teams, and all of them *)

\* A match of one team.
LEMMA TakeTeam ==
    ASSUME Planned, TeamsTaken, UNCHANGED <<book, truth, capped, unsure>>,
           NEW kind, NEW score, NEW rows, Take(kind, score, rows),
           NEW e \in Ids, Meant(truth, e), rows = Team(truth, Ids, e)
    PROVE  TeamsTaken'
<1> DEFINE k == Len(matches) + 1
<1>t. TypeInv
    BY DEF Planned, PlaceInv
<1>1. /\ DOMAIN matches' = DOMAIN matches \cup {k}
      /\ \A n \in DOMAIN matches : matches'[n] = matches[n]
      /\ matches'[k].rows = rows
    BY <1>t, TakeAppends DEF Take
<1> HIDE DEF k
<1>2. Ids' = Ids /\ truth' = truth
    BY DEF Ids
<1>3. \A n \in DOMAIN matches' : \E i \in Ids :
          Meant(truth, i) /\ matches'[n].rows = Team(truth, Ids, i)
    BY <1>1 DEF TeamsTaken
<1> QED
    BY <1>2, <1>3 DEF TeamsTaken

\* The two tiers of the first tolerant pass.
RefsTier == phase = "tolerant" /\ pass = 1 /\ tier = TierRef
AmountsTier == phase = "tolerant" /\ pass = 1 /\ tier = TierAmount

\* The teams of a pass are gone when it ends; while it runs, they are ahead.
TeamsProgress ==
    /\ phase # "exact" => PairsGone
    /\ phase \notin {"exact", "split"} => SplitsGone
    /\ RefsTier =>
           \A c, d \in Ids : ReversalTeam(book, truth, Ids, c, d) /\ c \in open
                                 => c \in walk
    /\ phase \notin {"exact", "split"} /\ ~RefsTier => ReversalsGone
    /\ AmountsTier =>
           \A e, a \in Ids : AmountTeam(book, truth, Ids, e, a) /\ e \in open
                                 => e \in walk
    /\ phase \notin {"exact", "split"} /\ ~RefsTier /\ ~AmountsTier => AmountsGone
    /\ phase = "group" =>
           /\ \A p \in Ids : GroupTeam(book, truth, Ids, p) /\ p \in open
                                 => p \in walk
           /\ \A p \in walk : IsPayout(book, p)
    /\ phase = "tolerant" /\ pass = 2 => GroupsGone
    /\ phase \in {"classify", "check", "done"} => GroupsGone

\* What holds of the engine while it works off the plan.
PlanInv == Planned /\ TeamsTaken /\ Counted /\ PassOrder /\ TeamsProgress

\* Neither the book nor the plan changes once the engine has accepted it.
LEMMA StepPlanned ==
    ASSUME Planned, [Next]_vars, UNCHANGED truth, phase # "validate"
    PROVE  Planned' /\ Onward /\ UNCHANGED <<book, rank>> /\ Ids' = Ids
<1>1. Onward /\ PlaceInv'
    BY StepOnward, StepPlaces DEF Planned
<1>2. UNCHANGED <<book, rank>>
    BY <1>1 DEF Onward, Next, Returned, Accept, Reject, ExactPair, ExactDone,
           SplitMatch, SplitDone, TolerantPair, NextTier, TolerantDone,
           PayoutOverCap, PayoutUnexplained, PayoutAmbiguous, PayoutMatched,
           GroupsDone, Classify, Finish, vars, poolVars
<1>3. Ids' = Ids
    BY <1>2 DEF Ids
<1>4. BookFinite' /\ Sorted'
    BY <1>2, <1>3 DEF Planned, BookFinite, Sorted, RankOf
<1>5. WellPlanned(book, truth, Ids)'
    BY <1>2, <1>3 DEF Planned
<1> QED
    BY <1>1, <1>2, <1>3, <1>4, <1>5 DEF Planned

\* What is gone stays away.
LEMMA GoneStays ==
    ASSUME Onward, UNCHANGED truth
    PROVE  /\ PairsGone => PairsGone'
           /\ SplitsGone => SplitsGone'
           /\ ReversalsGone => ReversalsGone'
           /\ AmountsGone => AmountsGone'
           /\ GroupsGone => GroupsGone'
<1>1. book' = book /\ truth' = truth /\ Ids' = Ids /\ open' \subseteq open
    BY DEF Onward, Ids
<1> QED
    BY <1>1 DEF PairsGone, SplitsGone, ReversalsGone, AmountsGone, GroupsGone

\* The pairs of a tier.
LEMMA PairTaken ==
    ASSUME TolerantPair
    PROVE  \E e \in PairRows : \E o \in Pairs(e) :
               /\ IsFirst(e, PairRows) /\ walk' = After(walk, e)
               /\ Take(PairKind(o), Score(e, o), {e, o})
               /\ Accepts(edges, e, o)
BY DEF TolerantPair, Pairs

\* No match takes anything but a team, and nothing but rows without one is set
\* aside.
LEMMA StepTeams ==
    ASSUME PlanInv, [Next]_vars, UNCHANGED truth,
           phase # "validate"
    PROVE  TeamsTaken'
<1> USE DEF poolVars, groupVars, reportVars
<1>0. Planned /\ TeamsTaken /\ Counted /\ PlaceInv /\ open \subseteq Ids
    BY DEF PlanInv, Planned, PlaceInv, TypeInv, TypeOK
<1>1. CASE UNCHANGED <<book, matches, capped, unsure>>
    <2>1. Ids' = Ids
        BY <1>1 DEF Ids
    <2> QED
        BY <1>0, <1>1, <2>1 DEF TeamsTaken
<1>2. CASE ExactPair
    <2>1. PICK e \in ExactRows : \E a \in ExactFits(e) :
              IsFirst(e, ExactRows) /\ Take("exact", FullScore, {e, a})
        BY <1>2, Zenon DEF ExactPair
    <2>2. PICK a \in ExactFits(e) :
              IsFirst(e, ExactRows) /\ Take("exact", FullScore, {e, a})
        BY <2>1, Zenon
    <2>3. Meant(truth, e) /\ {e, a} = Team(truth, Ids, e) /\ e \in Ids
        BY <1>0, <2>2, ExactTakesTeam DEF ExactRows, OpenExpected
    <2>4. UNCHANGED <<book, truth, capped, unsure>>
        BY <1>2 DEF ExactPair
    <2> QED
        BY <1>0, <2>2, <2>3, <2>4, TakeTeam
<1>3. CASE SplitMatch
    <2>1. PICK e \in SplitRows : Take("split", FullScore, {e} \cup SplitParts(e))
        BY <1>3, Zenon DEF SplitMatch
    <2>2. /\ Meant(truth, e) /\ {e} \cup SplitParts(e) = Team(truth, Ids, e)
          /\ e \in Ids
        BY <1>0, SplitTakesTeam DEF SplitRows, OpenExpected
    <2>3. UNCHANGED <<book, truth, capped, unsure>>
        BY <1>3 DEF SplitMatch
    <2> QED
        BY <1>0, <2>1, <2>2, <2>3, TakeTeam
<1>4. CASE TolerantPair
    <2>1. PICK e, o : /\ Accepts(edges, e, o)
                      /\ Take(PairKind(o), Score(e, o), {e, o})
        BY <1>4, PairTaken
    <2>2. phase = "tolerant"
        BY <1>4 DEF TolerantPair
    <2>3. PairsGone /\ SplitsGone
        BY <2>2 DEF PlanInv, TeamsProgress
    <2>4. Meant(truth, e) /\ {e, o} = Team(truth, Ids, e)
        BY <1>0, <2>1, <2>2, <2>3, PairTakesTeam
    <2>5. e \in Ids
        BY <1>0, <2>1 DEF Accepts
    <2>6. UNCHANGED <<book, truth, capped, unsure>>
        BY <1>4 DEF TolerantPair
    <2> QED
        BY <1>0, <2>1, <2>4, <2>5, <2>6, TakeTeam
<1>5. CASE PayoutOverCap \/ PayoutAmbiguous \/ PayoutMatched
    <2>1. PICK p : /\ NextPayout(p)
                   /\ \/ Cardinality(Orders(p)) > GroupMemberCap
                      \/ /\ Refused(p)
                         /\ unsure' = unsure \cup {p} \cup FirstTwo(OrderSets(p))
                         /\ UNCHANGED <<book, matches, capped>>
                      \/ /\ ~Refused(p)
                         /\ Take("group", FullScore,
                                 {p} \cup FirstFound(OrderSets(p)))
                         /\ UNCHANGED <<book, capped, unsure>>
        BY <1>5 DEF PayoutOverCap, PayoutAmbiguous, PayoutMatched
    <2>2. p \in open /\ IsPayout(book, p) /\ p \in Ids
        <3>1. phase = "group" /\ p \in walk
            BY <2>1 DEF NextPayout, IsFirst
        <3> QED
            BY <1>0, <3>1 DEF PlanInv, TeamsProgress, PlaceInv, PayoutsOpen,
                              OpenActual
    <2>3. /\ ~(Cardinality(Orders(p)) > GroupMemberCap)
          /\ \/ /\ Meant(truth, p) /\ ~Refused(p)
                /\ {p} \cup FirstFound(OrderSets(p)) = Team(truth, Ids, p)
             \/ /\ ~Meant(truth, p) /\ Refused(p)
                /\ \A i \in FirstTwo(OrderSets(p)) : ~Meant(truth, i)
        BY <1>0, <2>2, PayoutFinds
    <2>4. CASE Refused(p)
        <3>1. /\ UNCHANGED <<book, matches, capped>>
              /\ \A i \in unsure' : ~Meant(truth, i)
            BY <1>0, <2>1, <2>3, <2>4 DEF TeamsTaken
        <3>2. Ids' = Ids
            BY <3>1 DEF Ids
        <3> QED
            BY <1>0, <3>1, <3>2 DEF TeamsTaken
    <2>5. CASE ~Refused(p)
        BY <1>0, <2>1, <2>2, <2>3, <2>5, TakeTeam
    <2> QED
        BY <2>4, <2>5
<1>6. CASE ~(ExactPair \/ SplitMatch \/ TolerantPair \/ PayoutOverCap
             \/ PayoutAmbiguous \/ PayoutMatched)
    <2>1. UNCHANGED <<book, matches, capped, unsure>>
        BY <1>6 DEF Next, Returned, Accept, Reject, ExactDone, SplitDone,
               NextTier, TolerantDone, PayoutUnexplained, GroupsDone, Classify,
               Finish, vars
    <2> QED
        BY <1>1, <2>1
<1> QED
    BY <1>2, <1>3, <1>4, <1>5, <1>6

-----------------------------------------------------------------------------
(* The teams of a pass are gone when it ends *)

\* A pass ends when it finds nothing more: then its teams are gone.
LEMMA PairsEnd ==
    ASSUME Planned, TeamsTaken, ExactRows = {}
    PROVE  PairsGone
<1> SUFFICES ASSUME NEW e \in Ids, NEW a \in Ids,
                    PairTeam(book, truth, Ids, e, a), e \in open
             PROVE  FALSE
    BY DEF PairsGone
<1>1. /\ Meant(truth, e) /\ Team(truth, Ids, e) = {e, a}
      /\ Fits(book, e, a)
    BY DEF PairTeam
<1>2. a \in open
    BY <1>1, TeamsWhole
<1>3. e \in ExactRows
    BY <1>1, <1>2, FitsExactly DEF ExactRows
<1> QED
    BY <1>3

\* So it is for splits.
LEMMA SplitsEnd ==
    ASSUME Planned, TeamsTaken, SplitRows = {}
    PROVE  SplitsGone
<1> SUFFICES ASSUME NEW e \in open, SplitTeam(book, truth, Ids, e)
             PROVE  FALSE
    BY DEF SplitsGone
<1>1. e \in SplitRows
    BY SplitIsOpen DEF SplitRows
<1> QED
    BY <1>1

\* So it is for reversals, which wait in the walk of their tier.
LEMMA ReversalsEnd ==
    ASSUME Planned, TeamsTaken, Counted, phase = "tolerant", tier = TierRef,
           PairRows = {},
           \A c, d \in Ids : ReversalTeam(book, truth, Ids, c, d) /\ c \in open
                                 => c \in walk
    PROVE  ReversalsGone
<1> SUFFICES ASSUME NEW c \in Ids, NEW d \in Ids, c \in open,
                    ReversalTeam(book, truth, Ids, c, d)
             PROVE  FALSE
    BY DEF ReversalsGone
<1>1. Accepts(edges, c, d)
    BY ReversalAccepted
<1>2. d \in open /\ c \in walk
    BY <1>1 DEF Accepts
<1>3. c \in PairRows
    BY <1>1, <1>2 DEF PairRows, Pairs
<1> QED
    BY <1>3

\* So it is for orders and lines without a reference.
LEMMA AmountsEnd ==
    ASSUME Planned, TeamsTaken, Counted, phase = "tolerant", tier = TierAmount,
           PairRows = {},
           \A e, a \in Ids : AmountTeam(book, truth, Ids, e, a) /\ e \in open
                                 => e \in walk
    PROVE  AmountsGone
<1> SUFFICES ASSUME NEW e \in Ids, NEW a \in Ids, e \in open,
                    AmountTeam(book, truth, Ids, e, a)
             PROVE  FALSE
    BY DEF AmountsGone
<1>1. Accepts(edges, e, a)
    BY AmountAccepted
<1>2. a \in open /\ e \in walk
    BY <1>1 DEF Accepts
<1>3. e \in PairRows
    BY <1>1, <1>2 DEF PairRows, Pairs
<1> QED
    BY <1>3

\* A row of the tier that is still open is ahead of the one just matched.
LEMMA StillAhead ==
    ASSUME Planned, NEW e, IsFirst(e, PairRows), walk' = After(walk, e),
           NEW c \in PairRows, c # e
    PROVE  c \in walk'
<1>1. Ranked /\ walk \subseteq Ids
    BY RowsRanked DEF Planned, PlaceInv, TypeInv, TypeOK, Filed
<1>2. c \in walk /\ e \in walk /\ rank[e] <= rank[c]
    BY DEF IsFirst, PairRows
<1>3. rank[e] \in Nat /\ rank[c] \in Nat /\ rank[e] # rank[c]
    BY <1>1, <1>2 DEF Ranked
<1> QED
    BY <1>2, <1>3 DEF After

\* The pairs of the tier that runs stay ahead.
LEMMA ReversalsAhead ==
    ASSUME Planned, TeamsTaken, Counted, Onward, UNCHANGED truth,
           TolerantPair, tier = TierRef,
           \A c, d \in Ids : ReversalTeam(book, truth, Ids, c, d) /\ c \in open
                                 => c \in walk
    PROVE  \A c, d \in Ids' : ReversalTeam(book, truth, Ids, c, d)' /\ c \in open'
                                 => c \in walk'
<1>1. book' = book /\ truth' = truth /\ Ids' = Ids /\ open' \subseteq open
    BY DEF Onward, Ids
<1>2. SUFFICES ASSUME NEW c \in Ids, NEW d \in Ids, c \in open',
                      ReversalTeam(book, truth, Ids, c, d)
               PROVE  c \in walk'
    BY <1>1
<1>3. PICK e, o : /\ IsFirst(e, PairRows) /\ walk' = After(walk, e)
                  /\ Take(PairKind(o), Score(e, o), {e, o})
    BY PairTaken
<1>4. c \in open /\ c # e /\ phase = "tolerant"
    BY <1>1, <1>2, <1>3 DEF Take, TolerantPair
<1>5. Accepts(edges, c, d)
    BY <1>2, <1>4, ReversalAccepted
<1>6. c \in PairRows
    BY <1>2, <1>4, <1>5 DEF PairRows, Pairs, Accepts
<1> QED
    BY <1>3, <1>4, <1>6, StillAhead

\* An order without a reference that is passed over stays ahead, too.
LEMMA AmountsAhead ==
    ASSUME Planned, TeamsTaken, Counted, Onward, UNCHANGED truth,
           TolerantPair, tier = TierAmount,
           \A e, a \in Ids : AmountTeam(book, truth, Ids, e, a) /\ e \in open
                                 => e \in walk
    PROVE  \A e, a \in Ids' : AmountTeam(book, truth, Ids, e, a)' /\ e \in open'
                                 => e \in walk'
<1>1. book' = book /\ truth' = truth /\ Ids' = Ids /\ open' \subseteq open
    BY DEF Onward, Ids
<1>2. SUFFICES ASSUME NEW c \in Ids, NEW d \in Ids, c \in open',
                      AmountTeam(book, truth, Ids, c, d)
               PROVE  c \in walk'
    BY <1>1
<1>3. PICK e, o : /\ IsFirst(e, PairRows) /\ walk' = After(walk, e)
                  /\ Take(PairKind(o), Score(e, o), {e, o})
    BY PairTaken
<1>4. c \in open /\ c # e /\ phase = "tolerant"
    BY <1>1, <1>2, <1>3 DEF Take, TolerantPair
<1>5. Accepts(edges, c, d)
    BY <1>2, <1>4, AmountAccepted
<1>6. c \in PairRows
    BY <1>2, <1>4, <1>5 DEF PairRows, Pairs, Accepts
<1> QED
    BY <1>3, <1>4, <1>6, StillAhead

\* A visited payout with a group of its own is matched.
LEMMA GroupsAhead ==
    ASSUME Planned, TeamsTaken, Onward, UNCHANGED truth,
           PayoutOverCap \/ PayoutUnexplained \/ PayoutAmbiguous \/ PayoutMatched,
           \A p \in Ids : GroupTeam(book, truth, Ids, p) /\ p \in open
                                 => p \in walk
    PROVE  \A p \in Ids' : GroupTeam(book, truth, Ids, p)' /\ p \in open'
                                 => p \in walk'
<1>1. book' = book /\ truth' = truth /\ Ids' = Ids /\ open' \subseteq open
    BY DEF Onward, Ids
<1>2. SUFFICES ASSUME NEW p \in Ids, p \in open', p \notin walk',
                      GroupTeam(book, truth, Ids, p)
               PROVE  FALSE
    BY <1>1
<1>3. p \in open /\ p \in walk /\ Meant(truth, p) /\ IsPayout(book, p)
    BY <1>1, <1>2 DEF GroupTeam
<1>4. /\ ~(Cardinality(Orders(p)) > GroupMemberCap)
      /\ ~Refused(p) /\ OrderSets(p) # {}
    BY <1>3, PayoutFinds
<1>5. CASE PayoutOverCap
    <2>1. PICK q : NextPayout(q) /\ Cardinality(Orders(q)) > GroupMemberCap
        BY <1>5 DEF PayoutOverCap
    <2> QED
        BY <1>2, <1>3, <1>4, <2>1 DEF NextPayout
<1>6. CASE PayoutUnexplained
    <2>1. PICK q : NextPayout(q) /\ OrderSets(q) = {}
        BY <1>6 DEF PayoutUnexplained
    <2> QED
        BY <1>2, <1>3, <1>4, <2>1 DEF NextPayout
<1>7. CASE PayoutAmbiguous
    <2>1. PICK q : NextPayout(q) /\ Refused(q)
        BY <1>7 DEF PayoutAmbiguous
    <2> QED
        BY <1>2, <1>3, <1>4, <2>1 DEF NextPayout
<1>8. CASE PayoutMatched
    <2>1. PICK q : /\ NextPayout(q)
                   /\ Take("group", FullScore, {q} \cup FirstFound(OrderSets(q)))
        BY <1>8 DEF PayoutMatched
    <2> QED
        BY <1>2, <1>3, <2>1 DEF NextPayout, Take
<1> QED
    BY <1>5, <1>6, <1>7, <1>8

\* No pass leaves one of its teams behind.
LEMMA StepProgress ==
    ASSUME PlanInv, [Next]_vars, UNCHANGED truth, phase # "validate"
    PROVE  TeamsProgress'
<1> USE DEF poolVars, groupVars, reportVars
<1>0. Planned /\ TeamsTaken /\ Counted /\ PassOrder /\ TeamsProgress
    BY DEF PlanInv
<1>f. /\ Onward /\ UNCHANGED <<book, rank>> /\ Ids' = Ids
      /\ tier \in {TierRef, TierAmount}
    BY <1>0, StepPlanned DEF Planned, PlaceInv, TypeInv, TypeOK
<1>g. /\ PairsGone => PairsGone'
      /\ SplitsGone => SplitsGone'
      /\ ReversalsGone => ReversalsGone'
      /\ AmountsGone => AmountsGone'
      /\ GroupsGone => GroupsGone'
    BY <1>f, GoneStays
<1>d. TierRef # TierAmount
    BY DEF TierRef, TierAmount
<1>1. CASE ExactPair \/ ExactDone
    <2>1. phase' = "exact" \/ (phase' = "split" /\ ExactRows = {})
        BY <1>1 DEF ExactPair, ExactDone
    <2>2. phase' = "split" => PairsGone'
        BY <1>0, <1>g, <2>1, PairsEnd
    <2> QED
        BY <2>1, <2>2 DEF TeamsProgress, RefsTier, AmountsTier
<1>2. CASE SplitMatch
    <2>1. phase = "split" /\ phase' = "split"
        BY <1>2 DEF SplitMatch
    <2> QED
        BY <1>0, <1>g, <2>1 DEF TeamsProgress, RefsTier, AmountsTier
<1>3. CASE SplitDone
    <2>1. /\ phase = "split" /\ phase' = "tolerant" /\ pass' = 1
          /\ tier' = TierRef /\ walk' = OpenExpected /\ open' = open
          /\ SplitRows = {}
        BY <1>3 DEF SplitDone, BeginTier
    <2>2. PairsGone' /\ SplitsGone'
        BY <1>0, <1>g, <2>1, SplitsEnd DEF TeamsProgress
    <2>3. \A c, d \in Ids' :
              ReversalTeam(book, truth, Ids, c, d)' /\ c \in open' => c \in walk'
        BY <1>f, <2>1 DEF ReversalTeam, OpenExpected, Expected
    <2> QED
        BY <1>d, <2>1, <2>2, <2>3 DEF TeamsProgress, RefsTier, AmountsTier
<1>4. CASE TolerantPair
    <2>1. /\ phase = "tolerant" /\ phase' = "tolerant" /\ pass' = pass
          /\ tier' = tier
        BY <1>4 DEF TolerantPair
    <2>2. RefsTier' <=> RefsTier
        BY <2>1 DEF RefsTier
    <2>3. AmountsTier' <=> AmountsTier
        BY <2>1 DEF AmountsTier
    <2>4. PairsGone' /\ SplitsGone'
        BY <1>0, <1>g, <2>1 DEF TeamsProgress
    <2>5. RefsTier =>
              \A c, d \in Ids' : ReversalTeam(book, truth, Ids, c, d)' /\ c \in open'
                                     => c \in walk'
        BY <1>0, <1>4, <1>f, ReversalsAhead DEF TeamsProgress, RefsTier
    <2>6. AmountsTier =>
              \A e, a \in Ids' : AmountTeam(book, truth, Ids, e, a)' /\ e \in open'
                                     => e \in walk'
        BY <1>0, <1>4, <1>f, AmountsAhead DEF TeamsProgress, AmountsTier
    <2>7. /\ ~RefsTier => ReversalsGone'
          /\ ~RefsTier /\ ~AmountsTier => AmountsGone'
          /\ pass = 2 => GroupsGone'
        BY <1>0, <1>g, <2>1 DEF TeamsProgress
    <2> QED
        BY <2>1, <2>2, <2>3, <2>4, <2>5, <2>6, <2>7 DEF TeamsProgress
<1>5. CASE NextTier
    <2>1. /\ phase = "tolerant" /\ phase' = "tolerant" /\ pass' = pass
          /\ tier = TierRef /\ tier' = TierAmount /\ walk' = OpenExpected
          /\ open' = open /\ PairRows = {}
        BY <1>5 DEF NextTier, BeginTier
    <2>2. PairsGone' /\ SplitsGone' /\ (pass = 2 => GroupsGone')
        BY <1>0, <1>g, <2>1 DEF TeamsProgress
    <2>3. ReversalsGone'
        <3>1. CASE pass = 1
            <4>1. \A c, d \in Ids : ReversalTeam(book, truth, Ids, c, d)
                                        /\ c \in open => c \in walk
                BY <1>0, <2>1, <3>1 DEF TeamsProgress, RefsTier
            <4> QED
                BY <1>0, <1>g, <2>1, <4>1, ReversalsEnd
        <3>2. CASE pass # 1
            BY <1>0, <1>g, <2>1, <3>2 DEF TeamsProgress, RefsTier
        <3> QED
            BY <3>1, <3>2
    <2>4. \A e, a \in Ids' :
              AmountTeam(book, truth, Ids, e, a)' /\ e \in open' => e \in walk'
        BY <1>f, <2>1 DEF AmountTeam, Alike, OpenExpected, Expected
    <2>5. pass = 2 => AmountsGone'
        BY <1>0, <1>g, <2>1 DEF TeamsProgress, RefsTier, AmountsTier
    <2>6. pass \in {1, 2}
        BY <1>0, <2>1 DEF PassOrder
    <2> QED
        BY <1>d, <2>1, <2>2, <2>3, <2>4, <2>5, <2>6
           DEF TeamsProgress, RefsTier, AmountsTier
<1>6. CASE TolerantDone
    <2>1. /\ phase = "tolerant" /\ tier = TierAmount /\ open' = open
          /\ PairRows = {} /\ pass' = pass
          /\ pass = 1 => phase' = "group" /\ walk' = Payouts
          /\ pass # 1 => phase' = "classify"
        BY <1>6 DEF TolerantDone
    <2>2. pass \in {1, 2}
        BY <1>0, <2>1 DEF PassOrder
    <2>3. PairsGone' /\ SplitsGone' /\ (pass = 2 => GroupsGone')
        BY <1>0, <1>g, <2>1 DEF TeamsProgress
    <2>4. ReversalsGone'
        BY <1>0, <1>d, <1>g, <2>1 DEF TeamsProgress, RefsTier
    <2>5. AmountsGone'
        <3>1. CASE pass = 1
            <4>1. \A e, a \in Ids : AmountTeam(book, truth, Ids, e, a)
                                        /\ e \in open => e \in walk
                BY <1>0, <2>1, <3>1 DEF TeamsProgress, AmountsTier
            <4> QED
                BY <1>0, <1>g, <2>1, <4>1, AmountsEnd
        <3>2. CASE pass # 1
            BY <1>0, <1>d, <1>g, <2>1, <3>2 DEF TeamsProgress, RefsTier, AmountsTier
        <3> QED
            BY <3>1, <3>2
    <2>6. pass = 1 =>
              /\ \A p \in Ids' : GroupTeam(book, truth, Ids, p)' /\ p \in open'
                                     => p \in walk'
              /\ \A p \in walk' : IsPayout(book, p)'
        BY <1>f, <2>1 DEF GroupTeam, IsPayout, Payouts, OpenActual, Actual,
                         Expected, IsExpected
    <2> QED
        BY <2>1, <2>2, <2>3, <2>4, <2>5, <2>6
           DEF TeamsProgress, RefsTier, AmountsTier
<1>7. CASE PayoutOverCap \/ PayoutUnexplained \/ PayoutAmbiguous \/ PayoutMatched
    <2>1. phase = "group" /\ phase' = "group" /\ walk' \subseteq walk
        BY <1>7 DEF PayoutOverCap, PayoutUnexplained, PayoutAmbiguous,
                    PayoutMatched, NextPayout
    <2>2. PairsGone' /\ SplitsGone' /\ ReversalsGone' /\ AmountsGone'
        BY <1>0, <1>g, <2>1 DEF TeamsProgress, RefsTier, AmountsTier
    <2>3. \A p \in Ids' : GroupTeam(book, truth, Ids, p)' /\ p \in open'
                              => p \in walk'
        BY <1>0, <1>7, <1>f, <2>1, GroupsAhead DEF TeamsProgress
    <2>4. \A p \in walk' : IsPayout(book, p)'
        BY <1>0, <1>f, <2>1 DEF TeamsProgress, IsPayout
    <2> QED
        BY <2>1, <2>2, <2>3, <2>4 DEF TeamsProgress, RefsTier, AmountsTier
<1>8. CASE GroupsDone
    <2>1. /\ phase = "group" /\ phase' = "tolerant" /\ pass' = 2
          /\ open' = open /\ walk = {}
        BY <1>8 DEF GroupsDone, BeginTier
    <2>2. PairsGone' /\ SplitsGone' /\ ReversalsGone' /\ AmountsGone'
        BY <1>0, <1>g, <2>1 DEF TeamsProgress, RefsTier, AmountsTier
    <2>3. GroupsGone'
        BY <1>0, <1>g, <2>1 DEF TeamsProgress, GroupsGone
    <2> QED
        BY <2>1, <2>2, <2>3 DEF TeamsProgress, RefsTier, AmountsTier
<1>9. CASE Classify \/ Finish
    <2>1. /\ phase \in {"classify", "check"}
          /\ phase' \in {"check", "done", "failed"}
        BY <1>9 DEF Classify, Finish
    <2>2. /\ PairsGone' /\ SplitsGone' /\ ReversalsGone' /\ AmountsGone'
          /\ GroupsGone'
        BY <1>0, <1>g, <2>1 DEF TeamsProgress, RefsTier, AmountsTier
    <2> QED
        BY <2>1, <2>2 DEF TeamsProgress, RefsTier, AmountsTier
<1>10. CASE UNCHANGED vars
    <2>1. UNCHANGED <<book, open, phase, pass, tier, walk>>
        BY <1>10 DEF vars
    <2> QED
        BY <1>0, <1>f, <2>1
           DEF TeamsProgress, RefsTier, AmountsTier, PairsGone, SplitsGone,
               ReversalsGone, AmountsGone, GroupsGone
<1>11. ~Accept /\ ~Reject
    BY DEF Accept, Reject
<1> QED
    BY <1>1, <1>2, <1>3, <1>4, <1>5, <1>6, <1>7, <1>8, <1>9, <1>10, <1>11
       DEF Next, Returned

\* Every step of the engine keeps to the plan.
LEMMA StepPlan ==
    ASSUME PlanInv, [Next]_vars, UNCHANGED truth, phase # "validate"
    PROVE  PlanInv'
<1>1. Planned' /\ TeamsTaken' /\ TeamsProgress'
    BY StepPlanned, StepTeams, StepProgress DEF PlanInv
<1>2. Counted' /\ PassOrder'
    BY StepCounted, StepOrder DEF PlanInv, Planned
<1> QED
    BY <1>1, <1>2 DEF PlanInv

\* The book of a list whose rows carry their positions as IDs is that list.
LEMMA BookOfList ==
    ASSUME NEW txs \in Seq(Transaction), \A k \in DOMAIN txs : txs[k].id = k
    PROVE  DOMAIN BookOf(txs) = DOMAIN txs /\ \A k \in DOMAIN txs : BookOf(txs)[k] = txs[k]
<1>1. {txs[k].id : k \in DOMAIN txs} = DOMAIN txs
    OBVIOUS
<1>2. ASSUME NEW k \in DOMAIN txs
      PROVE  (CHOOSE n \in DOMAIN txs : txs[n].id = k) = k
    BY <1>2
<1> QED
    BY <1>1, <1>2 DEF BookOf

-----------------------------------------------------------------------------
(* What the generator means is what the engine matches *)

\* A slot with a line inside the window leaves the book planned.
LEMMA SlotPlans ==
    ASSUME Ready, NEW cp \in Sellers, NEW amt \in Amounts, NEW d \in Days,
           NEW shift \in Shifts,
           \/ G!Commission(cp, amt, d, shift) \/ G!Partial(cp, amt, d, shift)
           \/ G!Duplicate(cp, amt, d, shift) \/ G!Refund(cp, amt, d, shift)
           \/ G!Unknown(cp, amt, d, shift) \/ G!Unreferenced(cp, amt, d, shift)
           \/ G!TwoPairs(cp, amt, d, shift)
           \/ G!MissingBesideShort(cp, amt, d, shift)
           \/ G!Clean(cp, amt, d, shift)
    PROVE  BookPlanned'
<1>1. amt \in Nat /\ amt >= 1000
    BY AmountType
<1>2. CASE G!Commission(cp, amt, d, shift)
    <2>1. PICK rate \in FeeRates :
              G!Short(0, "commission", cp, amt, G!FeeCut(amt, rate), d, shift)
        BY <1>2 DEF G!Commission
    <2> DEFINE cut == G!FeeCut(amt, rate)
    <2>2. cut \in 0..amt
        BY <1>1, CutTypes
    <2>3. cut > TolerantLimit(amt)
        BY CutShows
    <2>4. "commission" \in DiscrepancyTypes
        BY DEF DiscrepancyTypes
    <2>5. G!Short(0, "commission", cp, amt, cut, d, shift)
        BY <2>1
    <2> HIDE DEF cut
    <2> QED
        BY <2>2, <2>3, <2>4, <2>5, ShortJoins
<1>3. CASE G!Partial(cp, amt, d, shift)
    <2>1. PICK rate \in CutRates :
              G!Short(1, "partial", cp, amt, G!ShortCut(amt, rate), d, shift)
        BY <1>3 DEF G!Partial
    <2> DEFINE cut == G!ShortCut(amt, rate)
    <2>2. cut \in 0..amt
        BY <1>1, CutTypes
    <2>3. cut > TolerantLimit(amt)
        BY CutShows
    <2>4. "partial" \in DiscrepancyTypes
        BY DEF DiscrepancyTypes
    <2>5. G!Short(1, "partial", cp, amt, cut, d, shift)
        BY <2>1
    <2> HIDE DEF cut
    <2> QED
        BY <2>2, <2>3, <2>4, <2>5, ShortJoins
<1>4. CASE G!Duplicate(cp, amt, d, shift)
    BY <1>4, DuplicateJoins
<1>5. CASE G!Refund(cp, amt, d, shift)
    BY <1>5, RefundJoins
<1>6. CASE G!Unknown(cp, amt, d, shift)
    BY <1>6, UnknownJoins
<1>7. CASE G!Unreferenced(cp, amt, d, shift)
    BY <1>7, UnreferencedJoins
<1>8. CASE G!TwoPairs(cp, amt, d, shift)
    BY <1>8, TwoPairsJoin
<1>9. CASE G!MissingBesideShort(cp, amt, d, shift)
    BY <1>9, MissingBesideShortJoins
<1>10. CASE G!Clean(cp, amt, d, shift)
    BY <1>10, CleanJoins
<1> QED
    BY <1>2, <1>3, <1>4, <1>5, <1>6, <1>7, <1>8, <1>9, <1>10

\* So does every other step of the generator.
LEMMA GeneratePlans ==
    ASSUME DrawnInv, BySeller, BookPlanned, Generate
    PROVE  BookPlanned'
<1>1. Ready /\ G!Next
    BY GenerateDraws DEF Ready, Generate
<1>2. CASE G!Group
    BY <1>1, <1>2, GroupJoins
<1>3. ASSUME NEW cp \in Sellers, NEW amt \in Amounts, NEW d \in Days,
             \/ G!Timing(cp, amt, d) \/ G!Missing(cp, amt, d)
             \/ G!Split(cp, amt, d) \/ G!Reversal(cp, amt, d)
             \/ G!LateChecks(cp, amt, d)
      PROVE  BookPlanned'
    BY <1>1, <1>3, TimingJoins, MissingJoins, SplitJoins, ReversalJoins,
       LateChecksJoin
<1> QED
    BY <1>1, <1>2, <1>3, SlotPlans DEF G!Next

\* The empty book is planned.
LEMMA EmptyPlanned ==
    ASSUME all = <<>>, truth = <<>>, groups = 0
    PROVE  BookPlanned
<1>1. DOMAIN all = {} /\ truth \in Seq(Truths) /\ Len(truth) = Len(all)
    OBVIOUS
<1>2. WellPlanned(all, truth, {})
    BY DEF WellPlanned, RefsMeant, ExactMeant, PartsMeant, CloseMeant,
           ReversalMeant, AmountMeant, PayoutMeant, TeamsKnown
<1> QED
    BY <1>1, <1>2 DEF BookPlanned, TruthKept

\* The engine leaves the book and what is meant by it alone.
LEMMA PlannedStays ==
    ASSUME BookPlanned,
           UNCHANGED <<all, truth, budget, slots, groups, openExpected, openActual>>
    PROVE  BookPlanned'
<1>1. /\ all' = all /\ truth' = truth /\ budget' = budget /\ slots' = slots
      /\ groups' = groups /\ openExpected' = openExpected
      /\ openActual' = openActual
    OBVIOUS
<1>2. /\ G!Ref' = G!Ref /\ G!PayoutRef' = G!PayoutRef
      /\ G!OrderRef(0)' = G!OrderRef(0) /\ G!Stranger' = G!Stranger
    BY <1>1 DEF G!Ref, G!PayoutRef, G!OrderRef, G!Stranger
<1>3. \A i \in DOMAIN all : BookRow(i)'
    <2> SUFFICES ASSUME NEW i \in DOMAIN all PROVE BookRow(i)'
        OBVIOUS
    <2>1. BookRow(i)
        BY DEF BookPlanned
    <2> QED
        BY <1>1, <1>2, <2>1 DEF BookRow, GroupRow
<1>4. WellPlanned(all', truth', DOMAIN all')
    BY <1>1 DEF BookPlanned
<1> QED
    BY <1>1, <1>2, <1>3, <1>4 DEF BookPlanned, TruthKept

\* The book the engine accepts is the one that was drawn.
LEMMA AcceptPlans ==
    ASSUME PlaceInv, PlaceInv', DrawnInv, BookPlanned, Accept, UNCHANGED truth
    PROVE  PlanInv' /\ (Ids = DOMAIN all)'
<1>1. /\ all \in Seq(Transaction) /\ \A k \in DOMAIN all : all[k].id = k
      /\ WellPlanned(all, truth, DOMAIN all)
    BY DEF DrawnInv, BookOfAtMost, BookPlanned
<1>2. /\ Acceptable(all) /\ book' = BookOf(all) /\ rank' = RankOf(book')
      /\ phase = "validate" /\ phase' = "exact" /\ all' = all /\ truth' = truth
      /\ matches' = matches /\ capped' = capped /\ unsure' = unsure
    BY DEF Accept, groupVars, reportVars
<1>3. Start
    BY <1>2 DEF PlaceInv, TypeInv
<1>4. book' = all
    <2>1. DOMAIN BookOf(all) = DOMAIN all /\ \A k \in DOMAIN all : BookOf(all)[k] = all[k]
        BY <1>1, BookOfList
    <2> DEFINE b == BookOf(all)
    <2>2. b = [k \in DOMAIN b |-> b[k]]
        BY DEF BookOf
    <2>3. all = [k \in DOMAIN all |-> all[k]]
        BY <1>1
    <2>4. b = [k \in DOMAIN all |-> all[k]]
        <3>1. DOMAIN b = DOMAIN all /\ \A k \in DOMAIN all : b[k] = all[k]
            BY <2>1
        <3> HIDE DEF b
        <3> QED
            BY <2>2, <3>1
    <2> HIDE DEF b
    <2>5. b = all
        BY <2>3, <2>4
    <2> QED
        BY <1>2, <2>5 DEF b
<1>5. (Ids = DOMAIN all)'
    BY <1>2, <1>4 DEF Ids
<1>6. BookFinite'
    <2>1. IsFiniteSet(DOMAIN all)
        <3> DEFINE m == Len(all)
        <3>1. m \in Nat /\ DOMAIN all = 1..m
            BY <1>1
        <3> HIDE DEF m
        <3> QED
            BY <3>1, FS_Interval
    <2> QED
        BY <1>2, <1>5, <2>1 DEF BookFinite
<1>7. Planned'
    <2>1. WellPlanned(book, truth, Ids)'
        BY <1>1, <1>2, <1>4, <1>5
    <2> QED
        BY <1>2, <1>6, <2>1 DEF Planned, Sorted
<1>8. TeamsTaken'
    BY <1>2, <1>3 DEF TeamsTaken, Start
<1>9. Counted' /\ PassOrder' /\ TeamsProgress'
    BY <1>2 DEF Counted, PassOrder, TeamsProgress, RefsTier, AmountsTier
<1> QED
    BY <1>5, <1>7, <1>8, <1>9 DEF PlanInv

\* When the engine is done, it has taken every team.
LEMMA DoneMatched ==
    ASSUME PlanInv, phase = "done", NEW i \in Ids, Meant(truth, i)
    PROVE  \E n \in DOMAIN matches : matches[n].rows = Team(truth, Ids, i)
<1>0. /\ Planned /\ TeamsTaken
      /\ PairsGone /\ SplitsGone /\ ReversalsGone /\ AmountsGone /\ GroupsGone
    BY DEF PlanInv, TeamsProgress, RefsTier, AmountsTier
<1>1. PICK e \in Team(truth, Ids, i) :
          \/ \E a \in Ids : PairTeam(book, truth, Ids, e, a)
          \/ SplitTeam(book, truth, Ids, e)
          \/ \E d \in Ids : ReversalTeam(book, truth, Ids, e, d)
          \/ \E a \in Ids : AmountTeam(book, truth, Ids, e, a)
          \/ GroupTeam(book, truth, Ids, e)
    BY <1>0 DEF Planned, WellPlanned, TeamsKnown
<1>2. e \in Ids /\ e \notin open
    <2>1. e \in Ids
        BY OneTeam
    <2> QED
        BY <1>0, <1>1, <2>1
           DEF PairsGone, SplitsGone, ReversalsGone, AmountsGone, GroupsGone
<1>3. i \notin open
    <2> SUFFICES ASSUME i \in open PROVE FALSE
        OBVIOUS
    <2>1. Team(truth, Ids, i) \subseteq open
        BY <1>0, TeamsWhole
    <2> QED
        BY <1>2, <2>1
<1>4. i \in Matched
    BY <1>0, <1>3 DEF TeamsTaken, Planned, PlaceInv, Partition
<1>5. PICK n \in DOMAIN matches : i \in matches[n].rows
    BY <1>4 DEF Matched
<1>6. PICK k \in Ids : matches[n].rows = Team(truth, Ids, k)
    BY <1>0 DEF TeamsTaken
<1>7. Team(truth, Ids, i) = Team(truth, Ids, k)
    BY <1>5, <1>6, OneTeam
<1> QED
    BY <1>6, <1>7

\* So its matches are what is meant, each once.
LEMMA MatchedAsIntended ==
    ASSUME PlanInv, phase = "done", DOMAIN truth = Ids
    PROVE  FalseMatches = {} /\ MissedIntended = {}
<1>0. Planned /\ TeamsTaken /\ Partition
    BY DEF PlanInv, Planned, PlaceInv
<1>1. /\ \A i \in Ids : Intended(truth[i].label) = Team(truth, Ids, i)
      /\ \A i \in Ids : Meant(truth, i) => truth[i].label \in Labels
      /\ \A label \in Labels : \E i \in Ids : Meant(truth, i) /\ label = truth[i].label
    BY DEF Intended, Team, Labels, Meant, G!NoLabel
<1>2. FalseMatches = {}
    <2> SUFFICES ASSUME NEW n \in DOMAIN matches
                 PROVE  \E label \in Labels : matches[n].rows \subseteq Intended(label)
        BY DEF FalseMatches
    <2>1. PICK i \in Ids : Meant(truth, i) /\ matches[n].rows = Team(truth, Ids, i)
        BY <1>0 DEF TeamsTaken
    <2> QED
        BY <1>1, <2>1
<1>3. MissedIntended = {}
    <2> SUFFICES ASSUME NEW label \in Labels
                 PROVE  Cardinality({n \in DOMAIN matches :
                                        matches[n].rows = Intended(label)}) = 1
        BY DEF MissedIntended
    <2>1. PICK i \in Ids : Meant(truth, i) /\ label = truth[i].label
        BY <1>1
    <2>2. Intended(label) = Team(truth, Ids, i) /\ i \in Team(truth, Ids, i)
        BY <1>1, <2>1 DEF Team
    <2>3. PICK m \in DOMAIN matches : matches[m].rows = Team(truth, Ids, i)
        BY <2>1, DoneMatched
    <2>4. ASSUME NEW n \in DOMAIN matches, matches[n].rows = Intended(label)
          PROVE  n = m
        BY <1>0, <2>2, <2>3, <2>4 DEF Partition
    <2>5. {n \in DOMAIN matches : matches[n].rows = Intended(label)} = {m}
        BY <2>2, <2>3, <2>4
    <2> QED
        BY <2>5, FS_Singleton
<1> QED
    BY <1>2, <1>3

\* The plan, from the first row drawn to the last row matched.
IntentInv ==
    /\ ErrorInv /\ ApartInv /\ BookPlanned
    /\ phase # "validate" => PlanInv /\ Ids = DOMAIN all

\* Whatever is drawn, the engine matches what the generator meant to be matched
\* and nothing else: no match joins rows of different teams, and every team is
\* one match (score.go:133-142).
THEOREM MatchesAreIntended == BSpec => []IntendedAreMatched
<1>1. BInit => IntentInv
    <2> SUFFICES ASSUME BInit PROVE IntentInv
        OBVIOUS
    <2>1. ErrorInv /\ ApartInv
        BY ErrorStarts, ApartStarts
    <2>2. all = <<>> /\ truth = <<>> /\ groups = 0 /\ phase = "validate"
        BY DEF BInit, G!Init, Start
    <2> QED
        BY <2>1, <2>2, EmptyPlanned DEF IntentInv
<1>2. IntentInv /\ [BNext]_benchVars => IntentInv'
    <2> SUFFICES ASSUME IntentInv, [BNext]_benchVars PROVE IntentInv'
        OBVIOUS
    <2>1. ErrorInv' /\ ApartInv'
        BY ErrorStays, ApartStays DEF IntentInv
    <2>2. CASE Generate
        <3>1. BookPlanned'
            BY <2>2, GeneratePlans DEF IntentInv, ErrorInv, ApartInv
        <3>2. phase' = "validate"
            BY <2>2, GenerateDraws DEF IntentInv, ErrorInv, Start
        <3> QED
            BY <2>1, <3>1, <3>2 DEF IntentInv
    <2>3. CASE Reconcile \/ UNCHANGED benchVars
        <3>1. /\ [Next]_vars
              /\ UNCHANGED <<truth, budget, slots, groups, openExpected, openActual>>
            BY <2>3 DEF Reconcile, benchVars
        <3>2. all' = all
            BY <3>1, ArgumentStays
        <3>3. BookPlanned'
            BY <3>1, <3>2, PlannedStays DEF IntentInv
        <3>4. phase' # "validate" => PlanInv' /\ (Ids = DOMAIN all)'
            <4>1. CASE phase # "validate"
                <5>1. PlanInv'
                    BY <3>1, <4>1, StepPlan DEF IntentInv
                <5>2. Ids' = Ids
                    BY <3>1, <4>1, StepPlanned DEF IntentInv, PlanInv
                <5> QED
                    BY <3>2, <4>1, <5>1, <5>2 DEF IntentInv
            <4>2. CASE phase = "validate" /\ Accept
                <5>1. PlaceInv /\ PlaceInv'
                    BY <2>1 DEF IntentInv, ErrorInv
                <5> QED
                    BY <3>1, <4>2, <5>1, AcceptPlans DEF IntentInv, ErrorInv
            <4>3. CASE phase = "validate" /\ ~ Accept
                <5>1. ~ Reject
                    BY DrawnAcceptable DEF IntentInv, Reject
                <5>2. phase' = "validate"
                    BY <3>1, <4>3, <5>1
                       DEF Next, Returned, ExactPair, ExactDone, SplitMatch,
                           SplitDone, TolerantPair, NextTier, TolerantDone,
                           PayoutOverCap, PayoutUnexplained, PayoutAmbiguous,
                           PayoutMatched, GroupsDone, Classify, Finish, vars
                <5> QED
                    BY <5>2
            <4> QED
                BY <4>1, <4>2, <4>3
        <3> QED
            BY <2>1, <3>3, <3>4 DEF IntentInv
    <2> QED
        BY <2>2, <2>3 DEF BNext
<1>3. IntentInv => IntendedAreMatched
    <2> SUFFICES ASSUME IntentInv, phase = "done"
                 PROVE  FalseMatches = {} /\ MissedIntended = {}
        BY DEF IntendedAreMatched
    <2>1. PlanInv /\ Ids = DOMAIN all
        BY DEF IntentInv
    <2>2. DOMAIN truth = DOMAIN all
        <3>1. truth \in Seq(Truths) /\ Len(truth) = Len(all)
            BY DEF IntentInv, BookPlanned, TruthKept
        <3>2. all \in Seq(Transaction)
            BY DEF IntentInv, ErrorInv, DrawnInv, BookOfAtMost
        <3> QED
            BY <3>1, <3>2
    <2> QED
        BY <2>1, <2>2, MatchedAsIntended
<1> QED
    BY <1>1, <1>2, <1>3, PTL DEF BSpec
=============================================================================
