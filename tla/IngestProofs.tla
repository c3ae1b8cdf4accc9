---------------------------- MODULE IngestProofs ----------------------------
(***************************************************************************)
(* Theorems about ingestion, for any files, any number of loads and any    *)
(* order of their steps.                                                   *)
(***************************************************************************)
EXTENDS Ingest, FiniteSetTheorems, WellFoundedInduction, TLAPS

-----------------------------------------------------------------------------
(* Keys *)

\* Every line has a key.
LEMMA KeyType ==
    ASSUME NEW f \in Seq(Line), NEW k \in Parsed(f)
    PROVE  DedupKey(f, k) \in Key
<1>1. DOMAIN f = 1..Len(f) /\ Len(f) \in Nat
    OBVIOUS
<1>2. IsFiniteSet(1..Len(f))
    BY <1>1, FS_Interval
<1>3. Equals(f, k) \in SUBSET (1..Len(f))
    BY <1>1 DEF Equals, Parsed
<1>4. Cardinality(Equals(f, k)) \in Nat
    BY <1>2, <1>3, FS_Subset, FS_CardinalityType
<1>5. f[k] \in Line
    BY <1>1 DEF Parsed
<1> QED
    BY <1>4, <1>5 DEF DedupKey, Key, Line

-----------------------------------------------------------------------------
(* Types *)

\* The variables hold values of their types.
LEMMA InitType == Init => TypeOK
BY DEF Init, TypeOK, Empty, Parsed

\* No step stores anything but a sound line under a key.
LEMMA StepType ==
    ASSUME TypeOK, [Next]_vars
    PROVE  TypeOK'
<1>1. CASE UNCHANGED vars
    BY <1>1 DEF TypeOK, vars
<1>2. ASSUME NEW l \in Loads, Open(l) PROVE TypeOK'
    <2>1. PICK f \in Files : /\ file' = [file EXCEPT ![l] = f]
                             /\ todo' = [todo EXCEPT ![l] = Parsed(f)]
        BY <1>2 DEF Open
    <2>2. f \in Seq(Line)
        BY FilesAssumption
    <2> QED
        BY <1>2, <2>1, <2>2 DEF TypeOK, Open
<1>3. ASSUME NEW l \in Loads, Refuse(l) PROVE TypeOK'
    BY <1>3 DEF TypeOK, Refuse
<1>4. ASSUME NEW l \in Loads, Insert(l) PROVE TypeOK'
    <2> DEFINE key(k) == DedupKey(file[l], k)
    <2>1. PICK k \in todo[l] :
              /\ fresh' = IF key(k) \in DOMAIN table THEN fresh
                          ELSE [fresh EXCEPT ![l] = Put(@, key(k), file[l][k])]
              /\ todo' = [todo EXCEPT ![l] = @ \ {k}]
        BY <1>4 DEF Insert
    <2>2. k \in Parsed(file[l]) /\ file[l] \in Seq(Line)
        BY DEF TypeOK
    <2>3. file[l][k] \in Sound
        BY <2>2 DEF Parsed, Sound
    <2>4. key(k) \in Key
        BY <2>2, KeyType
    <2>5. /\ Put(fresh[l], key(k), file[l][k]) \in
                [DOMAIN Put(fresh[l], key(k), file[l][k]) -> Sound]
          /\ DOMAIN Put(fresh[l], key(k), file[l][k]) \subseteq Key
        BY <2>3, <2>4 DEF Put, TypeOK
    <2>6. \A m \in Loads :
              /\ fresh'[m] \in [DOMAIN fresh'[m] -> Sound]
              /\ DOMAIN fresh'[m] \subseteq Key
        BY <2>1, <2>5 DEF TypeOK
    <2>7. DOMAIN fresh' = Loads /\ DOMAIN todo' = Loads
        BY <2>1 DEF TypeOK
    <2>8. \A m \in Loads : todo'[m] \subseteq Parsed(file[m])
        BY <2>1 DEF TypeOK
    <2> QED
        BY <1>4, <2>6, <2>7, <2>8 DEF TypeOK, Insert
<1>5. ASSUME NEW l \in Loads, NEW stage \in {"saved", "lost"}, Commit(l, stage)
      PROVE  TypeOK'
    <2>1. table' \in [DOMAIN table' -> Sound] /\ DOMAIN table' \subseteq Key
        BY <1>5 DEF Commit, TypeOK
    <2>2. \A m \in Loads : /\ fresh'[m] \in [DOMAIN fresh'[m] -> Sound]
                           /\ DOMAIN fresh'[m] \subseteq Key
        BY <1>5 DEF Commit, TypeOK, Empty
    <2> QED
        BY <1>5, <2>1, <2>2 DEF Commit, TypeOK
<1>6. ASSUME NEW l \in Loads, Fail(l) PROVE TypeOK'
    <2>1. \A m \in Loads : /\ fresh'[m] \in [DOMAIN fresh'[m] -> Sound]
                           /\ DOMAIN fresh'[m] \subseteq Key
        BY <1>6 DEF Fail, TypeOK, Empty
    <2> QED
        BY <1>6, <2>1 DEF Fail, TypeOK
<1> QED
    BY <1>1, <1>2, <1>3, <1>4, <1>5, <1>6 DEF Next, Save, LoseAck

\* Only sound lines are ever stored, under a key, whatever the files contain.
THEOREM TypeCorrect == Spec => []TypeOK
<1> QED
    BY InitType, StepType, PTL DEF Spec

-----------------------------------------------------------------------------
(* What an open transaction has inserted *)

\* The keys of the lines a load has dealt with.
Done(l) == {DedupKey(file[l], k) : k \in Parsed(file[l]) \ todo[l]}

\* A load that is not open holds nothing; an open one holds keys of its file
\* that are not in the table, no other load holds them, and each line it has
\* dealt with is in the table or held.
Held ==
    /\ \A l \in Loads : at[l] # "open" => DOMAIN fresh[l] = {}
    /\ \A l \in Loads : at[l] = "open" =>
           /\ DOMAIN fresh[l] \subseteq Keys(file[l])
           /\ Done(l) \subseteq DOMAIN table \cup DOMAIN fresh[l]
    /\ \A l \in Loads : DOMAIN fresh[l] \cap DOMAIN table = {}
    /\ \A l, m \in Loads : l # m => DOMAIN fresh[l] \cap DOMAIN fresh[m] = {}

IngestInv == TypeOK /\ Held /\ TableIsSaved

\* Nothing is stored and nothing is held at the beginning.
LEMMA InitHeld == Init => IngestInv
<1> SUFFICES ASSUME Init PROVE Held /\ TableIsSaved
    BY InitType DEF IngestInv
<1>1. Held
    BY DEF Init, Held, Empty
<1>2. Saved = {}
    BY DEF Init, Saved
<1> QED
    BY <1>1, <1>2 DEF TableIsSaved, Init, Empty

\* A step of one load disturbs no other, and IngestInv is inductive.
LEMMA StepHeld ==
    ASSUME IngestInv, [Next]_vars
    PROVE  Held' /\ TableIsSaved'
<1> USE DEF IngestInv
<1>1. CASE UNCHANGED vars
    BY <1>1 DEF Held, Done, TableIsSaved, Saved, vars
<1>2. ASSUME NEW l \in Loads, Open(l) PROVE Held' /\ TableIsSaved'
    <2>1. PICK f \in Files : /\ file' = [file EXCEPT ![l] = f]
                             /\ todo' = [todo EXCEPT ![l] = Parsed(f)]
        BY <1>2 DEF Open
    <2>2. at' = [at EXCEPT ![l] = "open"] /\ at[l] = "new" /\ table' = table
          /\ fresh' = fresh
        BY <1>2 DEF Open
    <2>3. Done(l)' = {} /\ DOMAIN fresh[l] = {}
        BY <2>1, <2>2 DEF Done, TypeOK, Held
    <2>4. \A m \in Loads \ {l} : /\ file'[m] = file[m] /\ at'[m] = at[m]
                                 /\ Done(m)' = Done(m)
        BY <2>1, <2>2 DEF Done, TypeOK
    <2>5. Held'
        BY <2>2, <2>3, <2>4 DEF Held, TypeOK
    <2>6. Saved' = Saved /\ l \notin Saved
        BY <2>2, <2>4 DEF Saved, TypeOK
    <2> QED
        BY <2>2, <2>4, <2>5, <2>6 DEF TableIsSaved, Saved
<1>3. ASSUME NEW l \in Loads, Refuse(l) PROVE Held' /\ TableIsSaved'
    <2>1. at[l] = "new" /\ at' = [at EXCEPT ![l] = "failed"]
          /\ UNCHANGED <<table, file, todo, fresh>>
        BY <1>3 DEF Refuse
    <2>2. \A m \in Loads : Done(m)' = Done(m)
        BY <2>1 DEF Done
    <2>3. Saved' = Saved
        BY <2>1 DEF Saved, TypeOK
    <2> QED
        BY <2>1, <2>2, <2>3 DEF Held, TableIsSaved, TypeOK
<1>4. ASSUME NEW l \in Loads, Insert(l) PROVE Held' /\ TableIsSaved'
    <2> DEFINE key(k) == DedupKey(file[l], k)
    <2>1. PICK k \in todo[l] :
              /\ \A m \in Loads \ {l} : key(k) \notin DOMAIN fresh[m]
              /\ fresh' = IF key(k) \in DOMAIN table THEN fresh
                          ELSE [fresh EXCEPT ![l] = Put(@, key(k), file[l][k])]
              /\ todo' = [todo EXCEPT ![l] = @ \ {k}]
        BY <1>4 DEF Insert
    <2>2. at[l] = "open" /\ UNCHANGED <<table, at, file>>
        BY <1>4 DEF Insert
    <2>3. \A m \in Loads \ {l} : fresh'[m] = fresh[m] /\ Done(m)' = Done(m)
        BY <2>1, <2>2 DEF Done, TypeOK
    <2>4. DOMAIN fresh'[l] = IF key(k) \in DOMAIN table THEN DOMAIN fresh[l]
                             ELSE DOMAIN fresh[l] \cup {key(k)}
        BY <2>1 DEF Put, TypeOK
    <2>5. Done(l)' \subseteq Done(l) \cup {key(k)}
        BY <2>1, <2>2 DEF Done, TypeOK
    <2>6. key(k) \in Keys(file[l])
        BY DEF Keys, TypeOK
    <2> HIDE DEF key
    <2>7. Held'
        BY <2>1, <2>2, <2>3, <2>4, <2>5, <2>6 DEF Held
    <2>8. TableIsSaved'
        BY <2>2 DEF TableIsSaved, Saved
    <2> QED
        BY <2>7, <2>8
<1>5. ASSUME NEW l \in Loads, NEW stage \in {"saved", "lost"}, Commit(l, stage)
      PROVE  Held' /\ TableIsSaved'
    <2>1. /\ at[l] = "open" /\ todo[l] = {} /\ UNCHANGED <<file, todo>>
          /\ at' = [at EXCEPT ![l] = stage]
          /\ fresh' = [fresh EXCEPT ![l] = Empty]
          /\ DOMAIN table' = DOMAIN table \cup DOMAIN fresh[l]
        BY <1>5 DEF Commit
    <2>2. \A m \in Loads : Done(m)' = Done(m)
        BY <2>1 DEF Done
    <2>3. Done(l) = Keys(file[l])
        BY <2>1 DEF Done, Keys
    <2>4. DOMAIN table' = DOMAIN table \cup Keys(file[l])
        BY <2>1, <2>3 DEF Held
    <2>5. DOMAIN fresh'[l] = {} /\ \A m \in Loads \ {l} : fresh'[m] = fresh[m]
        BY <2>1 DEF TypeOK, Empty
    <2>6. at'[l] = stage /\ \A m \in Loads \ {l} : at'[m] = at[m]
        BY <2>1 DEF TypeOK
    <2>7. Held'
        BY <2>1, <2>2, <2>5, <2>6 DEF Held
    <2>8. Saved' = Saved \cup {l}
        BY <2>6 DEF Saved
    <2>9. TableIsSaved'
        BY <2>1, <2>4, <2>8 DEF TableIsSaved
    <2> QED
        BY <2>7, <2>9
<1>6. ASSUME NEW l \in Loads, Fail(l) PROVE Held' /\ TableIsSaved'
    <2>1. /\ at[l] = "open" /\ UNCHANGED <<table, file, todo>>
          /\ at' = [at EXCEPT ![l] = "failed"]
          /\ fresh' = [fresh EXCEPT ![l] = Empty]
        BY <1>6 DEF Fail
    <2>2. \A m \in Loads : Done(m)' = Done(m)
        BY <2>1 DEF Done
    <2>3. DOMAIN fresh'[l] = {} /\ \A m \in Loads \ {l} : fresh'[m] = fresh[m]
        BY <2>1 DEF TypeOK, Empty
    <2>4. at'[l] = "failed" /\ \A m \in Loads \ {l} : at'[m] = at[m]
        BY <2>1 DEF TypeOK
    <2>5. Saved' = Saved
        BY <2>1, <2>4 DEF Saved
    <2> QED
        BY <2>1, <2>2, <2>3, <2>4, <2>5 DEF Held, TableIsSaved
<1> QED
    BY <1>1, <1>2, <1>3, <1>4, <1>5, <1>6 DEF Next, Save, LoseAck

\* IngestInv always holds.
LEMMA Ingested == Spec => []IngestInv
<1>1. IngestInv /\ [Next]_vars => IngestInv'
    BY StepType, StepHeld DEF IngestInv
<1> QED
    BY InitHeld, <1>1, PTL DEF Spec

-----------------------------------------------------------------------------
(* The theorems *)

\* The table holds exactly the keys of the files that were saved: a file is
\* stored as a whole or not at all, however loads interleave and fail.
THEOREM FilesAreStoredWhole == Spec => []TableIsSaved
<1>1. IngestInv => TableIsSaved
    BY DEF IngestInv
<1> QED
    BY <1>1, Ingested, PTL

\* Guarantee 4: saving a file that was saved before, or whose COMMIT seemed to
\* fail, changes no row of the table.
THEOREM SecondReadingAddsNothing == Spec => ReadingAgainAddsNothing
<1>1. ASSUME IngestInv, NEW l \in Loads, NEW stage, Commit(l, stage),
             SavedBefore(l)
      PROVE  UNCHANGED table
    <2>1. PICK m \in Saved : file[m] = file[l]
        BY <1>1 DEF SavedBefore
    <2>2. Keys(file[l]) \subseteq DOMAIN table
        BY <1>1, <2>1 DEF IngestInv, TableIsSaved
    <2>3. DOMAIN fresh[l] = {}
        BY <1>1, <2>2 DEF IngestInv, Held, Commit
    <2>4. table' = [k \in DOMAIN table |-> table[k]]
        BY <1>1, <2>3 DEF Commit
    <2> QED
        BY <1>1, <2>4 DEF IngestInv, TypeOK
<1>2. IngestInv /\ [Next]_vars =>
          [\A l \in Loads :
              (Save(l) \/ LoseAck(l)) /\ SavedBefore(l) => UNCHANGED table]_vars
    BY <1>1 DEF Save, LoseAck
<1> QED
    BY <1>2, Ingested, PTL DEF Spec, ReadingAgainAddsNothing

-----------------------------------------------------------------------------
(* How often a content is stored *)

\* The lines of f with content c, and those of them up to line n.
Lines(f, c) == {k \in Parsed(f) : f[k].content = c}
LinesTo(f, c, n) == {k \in Lines(f, c) : k <= n}

\* The lines of one content are finitely many.
LEMMA LinesFinite ==
    ASSUME NEW f \in Seq(Line), NEW c
    PROVE  /\ Lines(f, c) \subseteq 1..Len(f) /\ Len(f) \in Nat
           /\ Times(f, c) = Cardinality(Lines(f, c)) /\ Times(f, c) \in Nat
           /\ IsFiniteSet(Lines(f, c))
<1>1. Lines(f, c) \subseteq 1..Len(f) /\ Len(f) \in Nat
    BY DEF Lines, Parsed
<1>2. IsFiniteSet(1..Len(f))
    BY <1>1, FS_Interval
<1>3. IsFiniteSet(Lines(f, c)) /\ Cardinality(Lines(f, c)) \in Nat
    BY <1>1, <1>2, FS_Subset, FS_CardinalityType
<1>4. Times(f, c) = Cardinality(Lines(f, c))
    BY DEF Times, Lines
<1> QED
    BY <1>1, <1>3, <1>4

\* So are those up to one line.
LEMMA LinesToFinite ==
    ASSUME NEW f \in Seq(Line), NEW c, NEW n
    PROVE  /\ IsFiniteSet(LinesTo(f, c, n))
           /\ Cardinality(LinesTo(f, c, n)) \in 0..Times(f, c)
<1>1. /\ IsFiniteSet(Lines(f, c)) /\ Times(f, c) \in Nat
      /\ Times(f, c) = Cardinality(Lines(f, c))
    BY LinesFinite
<1>2. LinesTo(f, c, n) \in SUBSET Lines(f, c)
    BY DEF LinesTo
<1>3. IsFiniteSet(LinesTo(f, c, n))
      /\ Cardinality(LinesTo(f, c, n)) <= Cardinality(Lines(f, c))
    BY <1>1, <1>2, FS_Subset
<1>4. Cardinality(LinesTo(f, c, n)) \in Nat
    BY <1>3, FS_CardinalityType
<1> QED
    BY <1>1, <1>3, <1>4

\* One line further there is at most one line more.
LEMMA LinesStep ==
    ASSUME NEW f \in Seq(Line), NEW c, NEW n \in Nat \ {0}
    PROVE  Cardinality(LinesTo(f, c, n)) =
               Cardinality(LinesTo(f, c, n - 1))
               + (IF n \in Lines(f, c) THEN 1 ELSE 0)
<1>1. Lines(f, c) \subseteq Nat
    BY LinesFinite
<1>2. n \notin LinesTo(f, c, n - 1)
    BY DEF LinesTo
<1>3. LinesTo(f, c, n) = IF n \in Lines(f, c)
                         THEN LinesTo(f, c, n - 1) \cup {n}
                         ELSE LinesTo(f, c, n - 1)
    BY <1>1 DEF LinesTo
<1>4. /\ IsFiniteSet(LinesTo(f, c, n - 1))
      /\ Cardinality(LinesTo(f, c, n - 1)) \in Nat
    BY LinesToFinite, FS_CardinalityType
<1>5. Cardinality(LinesTo(f, c, n - 1) \cup {n}) =
          Cardinality(LinesTo(f, c, n - 1)) + 1
    BY <1>2, <1>4, FS_AddElement
<1> QED
    BY <1>3, <1>4, <1>5

\* A set of natural numbers that is not empty has a least member.
LEMMA LeastNatural ==
    ASSUME NEW T, T \subseteq Nat, T # {}
    PROVE  \E n \in T : \A m \in T : n <= m
<1>1. PICK n \in T : \A m \in T : ~(<<m, n>> \in OpToRel(<, Nat))
    BY NatLessThanWellFounded, WFMin
<1>2. \A m \in T : ~(m < n)
    BY <1>1 DEF OpToRel
<1> QED
    BY <1>2

\* Of the n lines of one content, one has n - 1 equal lines before it, for
\* each n: the occurrence numbers have no gap.
LEMMA EveryNumberOnce ==
    ASSUME NEW f \in Seq(Line), NEW c, NEW n \in 1..Times(f, c)
    PROVE  \E k \in Lines(f, c) : Cardinality(LinesTo(f, c, k)) = n
<1> DEFINE count(k) == Cardinality(LinesTo(f, c, k))
           T == {k \in Nat : count(k) >= n}
<1>1. Len(f) \in T
    <2>1. /\ Lines(f, c) \subseteq 1..Len(f) /\ Len(f) \in Nat
          /\ Times(f, c) = Cardinality(Lines(f, c)) /\ Times(f, c) \in Nat
        BY LinesFinite
    <2>2. LinesTo(f, c, Len(f)) = Lines(f, c)
        BY <2>1 DEF LinesTo
    <2> QED
        BY <2>1, <2>2
<1>2. PICK k \in T : \A m \in T : k <= m
    <2>1. T \subseteq Nat
        OBVIOUS
    <2> HIDE DEF T
    <2> QED
        BY <1>1, <2>1, LeastNatural
<1>3. \A m \in T : ~(m < k)
    BY <1>2
<1>4. \A m \in Nat : count(m) \in Nat
    BY LinesToFinite, LinesFinite
<1>5. k # 0
    <2>1. Lines(f, c) \subseteq 1..Len(f) /\ Times(f, c) \in Nat
        BY LinesFinite
    <2>2. LinesTo(f, c, 0) = {}
        BY <2>1 DEF LinesTo
    <2>3. count(0) = 0
        BY <2>2, FS_EmptySet
    <2>4. n >= 1
        BY <2>1
    <2> QED
        BY <1>2, <2>3, <2>4
<1>6. k - 1 \in Nat /\ count(k - 1) < n
    BY <1>3, <1>4, <1>5
<1>7. count(k) = count(k - 1) + (IF k \in Lines(f, c) THEN 1 ELSE 0)
    BY <1>5, LinesStep
<1>8. count(k) >= n /\ n \in Nat /\ count(k - 1) \in Nat
    BY <1>4, <1>6, LinesFinite
<1> HIDE DEF count
<1>9. k \in Lines(f, c) /\ count(k) = n
    BY <1>6, <1>7, <1>8
<1> QED
    BY <1>9 DEF count

\* The keys of one content that a file has: its occurrence numbers.
LEMMA KeysOfContent ==
    ASSUME NEW f \in Seq(Line), NEW c
    PROVE  {key \in Keys(f) : key[1] = c} = {c} \X (1..Times(f, c))
<1>1. \A k \in Lines(f, c) :
          DedupKey(f, k) = <<c, Cardinality(LinesTo(f, c, k))>>
    <2>1. \A k \in Lines(f, c) : Equals(f, k) = LinesTo(f, c, k)
        BY DEF Equals, LinesTo, Lines
    <2> QED
        BY <2>1 DEF DedupKey, Lines
<1>2. \A key \in Keys(f) : key[1] = c =>
          \E k \in Lines(f, c) : key = DedupKey(f, k)
    BY DEF Keys, DedupKey, Lines
<1>3. ASSUME NEW k \in Lines(f, c)
      PROVE  Cardinality(LinesTo(f, c, k)) \in 1..Times(f, c)
    <2>1. k \in LinesTo(f, c, k)
        <3>1. Lines(f, c) \subseteq 1..Len(f)
            BY LinesFinite
        <3> QED
            BY <3>1 DEF LinesTo
    <2>2. /\ IsFiniteSet(LinesTo(f, c, k)) /\ Times(f, c) \in Nat
          /\ Cardinality(LinesTo(f, c, k)) \in 0..Times(f, c)
        BY LinesFinite, LinesToFinite
    <2>3. Cardinality(LinesTo(f, c, k)) # 0
        BY <2>1, <2>2, FS_EmptySet
    <2> QED
        BY <2>2, <2>3
<1>4. {key \in Keys(f) : key[1] = c} \subseteq {c} \X (1..Times(f, c))
    BY <1>1, <1>2, <1>3
<1>5. ASSUME NEW n \in 1..Times(f, c)
      PROVE  <<c, n>> \in Keys(f)
    <2>1. PICK k \in Lines(f, c) : Cardinality(LinesTo(f, c, k)) = n
        BY EveryNumberOnce
    <2>2. DedupKey(f, k) = <<c, n>> /\ k \in Parsed(f)
        BY <1>1, <2>1 DEF Lines
    <2> QED
        BY <2>2 DEF Keys
<1> QED
    BY <1>4, <1>5

\* There are n pairs of one content and the numbers up to n.
LEMMA NumberedPairs ==
    ASSUME NEW c, NEW n \in Nat
    PROVE  Cardinality({c} \X (1..n)) = n
<1> DEFINE f == [i \in 1..n |-> <<c, i>>]
<1>1. f \in [1..n -> {c} \X (1..n)]
    OBVIOUS
<1>2. \A i, j \in 1..n : f[i] = f[j] => i = j
    OBVIOUS
<1>3. \A t \in {c} \X (1..n) : \E i \in 1..n : f[i] = t
    OBVIOUS
<1> HIDE DEF f
<1>4. f \in Injection(1..n, {c} \X (1..n))
    BY <1>1, <1>2 DEF Injection, IsInjective
<1>5. f \in Bijection(1..n, {c} \X (1..n))
    BY <1>1, <1>3, <1>4 DEF Bijection, Surjection
<1> QED
    BY <1>5, FS_CountingElements DEF ExistsBijection

\* The table numbers the rows of each content from 1 up to the number a saved
\* file has most.
Numbered ==
    \A c \in Contents : \E n \in Nat :
        /\ {key \in DOMAIN table : key[1] = c} = {c} \X (1..n)
        /\ \A l \in Saved : Times(file[l], c) <= n
        /\ n > 0 => \E l \in Saved : Times(file[l], c) = n

\* Saving a file extends the numbers to its own, or leaves them; no other step
\* changes the table or a saved file.
LEMMA StepNumbered ==
    ASSUME IngestInv, Numbered, [Next]_vars
    PROVE  Numbered'
<1>t. TypeOK /\ TypeOK' /\ TableIsSaved /\ TableIsSaved'
    BY StepType, StepHeld DEF IngestInv
<1>1. ASSUME NEW l \in Loads, NEW stage \in {"saved", "lost"}, Commit(l, stage)
      PROVE  Numbered'
    <2>1. /\ Saved' = Saved \cup {l} /\ file' = file
          /\ \A m \in Loads : file[m] \in Seq(Line)
        BY <1>t, <1>1 DEF Commit, Saved, TypeOK
    <2>2. DOMAIN table' = DOMAIN table \cup Keys(file[l])
        <3>1. DOMAIN table' = UNION {Keys(file[m]) : m \in Saved \cup {l}}
            BY <1>t, <2>1 DEF TableIsSaved
        <3> QED
            BY <1>t, <3>1 DEF TableIsSaved
    <2>3. SUFFICES ASSUME NEW c \in Contents
          PROVE  \E n \in Nat :
                     /\ {key \in DOMAIN table' : key[1] = c} = {c} \X (1..n)
                     /\ \A m \in Saved' : Times(file'[m], c) <= n
                     /\ n > 0 => \E m \in Saved' : Times(file'[m], c) = n
        BY DEF Numbered, Times, Parsed
    <2>4. PICK n \in Nat :
              /\ {key \in DOMAIN table : key[1] = c} = {c} \X (1..n)
              /\ \A m \in Saved : Times(file[m], c) <= n
              /\ n > 0 => \E m \in Saved : Times(file[m], c) = n
        BY DEF Numbered
    <2>5. Times(file[l], c) \in Nat
        BY <2>1, LinesFinite
    <2>6. {key \in DOMAIN table' : key[1] = c} =
              ({c} \X (1..n)) \cup ({c} \X (1..Times(file[l], c)))
        BY <2>1, <2>2, <2>4, KeysOfContent
    <2>7. CASE Times(file[l], c) <= n
        <3>1. {key \in DOMAIN table' : key[1] = c} = {c} \X (1..n)
            BY <2>5, <2>6, <2>7
        <3> QED
            BY <2>1, <2>4, <2>7, <3>1
    <2>8. CASE n < Times(file[l], c)
        <3>1. {key \in DOMAIN table' : key[1] = c} =
                  {c} \X (1..Times(file[l], c))
            BY <2>5, <2>6, <2>8
        <3>2. \A m \in Saved' : Times(file'[m], c) <= Times(file[l], c)
            <4>1. \A m \in Saved : Times(file[m], c) \in Nat
                BY <2>1, LinesFinite DEF Saved
            <4> QED
                BY <2>1, <2>4, <2>5, <2>8, <4>1
        <3> QED
            BY <2>1, <2>5, <3>1, <3>2
    <2> QED
        BY <2>5, <2>7, <2>8
<1>2. CASE \A l \in Loads : ~Save(l) /\ ~LoseAck(l)
    <2>1. /\ table' = table /\ Saved' = Saved
          /\ \A l \in Saved : file'[l] = file[l]
        BY <1>t, <1>2
        DEF Next, Open, Refuse, Insert, Fail, Saved, TypeOK, vars
    <2>2. \A l \in Saved : \A c : Times(file'[l], c) = Times(file[l], c)
        BY <2>1
    <2>3. \A f, c : Times(f, c)' = Times(f, c)
        BY DEF Times, Parsed
    <2> HIDE DEF Times
    <2> QED
        BY <2>1, <2>2, <2>3 DEF Numbered
<1> QED
    BY <1>1, <1>2 DEF Save, LoseAck

\* A content is stored exactly as often as the saved file that lists it most
\* lists it: equal lines of one file are all kept, and neither another file
\* nor a second reading doubles one.
THEOREM EqualLinesAreKept == Spec => []StoredAsListed
<1>1. Init => Numbered
    <2> SUFFICES ASSUME Init PROVE Numbered
        OBVIOUS
    <2>1. DOMAIN table = {} /\ Saved = {}
        BY DEF Init, Empty, Saved
    <2>2. \A c \in Contents :
              {key \in DOMAIN table : key[1] = c} = {c} \X (1..0)
        BY <2>1
    <2> QED
        BY <2>1, <2>2 DEF Numbered
<1>2. Numbered => StoredAsListed
    <2> SUFFICES ASSUME Numbered, NEW c \in Contents
                 PROVE  LET stored ==
                                Cardinality({key \in DOMAIN table : key[1] = c})
                        IN  /\ \A l \in Saved : Times(file[l], c) <= stored
                            /\ stored > 0 =>
                                   \E l \in Saved : Times(file[l], c) = stored
        BY DEF StoredAsListed
    <2>1. PICK n \in Nat :
              /\ {key \in DOMAIN table : key[1] = c} = {c} \X (1..n)
              /\ \A l \in Saved : Times(file[l], c) <= n
              /\ n > 0 => \E l \in Saved : Times(file[l], c) = n
        BY DEF Numbered
    <2>2. Cardinality({c} \X (1..n)) = n
        BY NumberedPairs
    <2> QED
        BY <2>1, <2>2
<1>3. IngestInv /\ Numbered /\ [Next]_vars => Numbered'
    BY StepNumbered
<1> QED
    BY <1>1, <1>2, <1>3, Ingested, PTL DEF Spec
=============================================================================
