---------------------------- MODULE StoreProofs ----------------------------
(***************************************************************************)
(* What the components behind the further synchronous endpoints guarantee: *)
(* the window of HybridMemory is the newest part of its store and a search *)
(* is a recall, for every capacity, set of sessions and number of items;   *)
(* RollbackManager keeps what it was given, for every set of               *)
(* configurations and number of dicts and log entries; CanaryTester moves  *)
(* no task without need, for every set of candidates, hash of the tasks    *)
(* and share.                                                              *)
(***************************************************************************)
EXTENDS HybridMemory, RollbackManager, CanaryTester, FiniteSetTheorems,
        SequenceTheorems, WellFoundedInduction, TLAPS

-----------------------------------------------------------------------------
(* HybridMemory: the window *)

USE CapacityAssumption, SessionAssumption

\* A full window has an oldest item: the deque always has something to drop.
\* The items older than i are minimal, as a set, for such an i.
LEMMA OldestExists ==
    ASSUME NEW S, IsFiniteSet(S), S \subseteq Items, S # {}
    PROVE  \E i \in S : \A j \in S : i.at <= j.at
<1> DEFINE Older(i) == {j \in S : j.at < i.at}
           T == {Older(i) : i \in S}
<1>1. T \subseteq FiniteSubsetsOf(S) /\ T # {}
  <2>1. FiniteSubsetsOf(S) = SUBSET S
    BY FS_FiniteSubsetsOfFinite
  <2>2. \A i \in S : Older(i) \in SUBSET S
    OBVIOUS
  <2>3. PICK i \in S : TRUE
    OBVIOUS
  <2>4. Older(i) \in T
    OBVIOUS
  <2> HIDE DEF Older
  <2>5. T \subseteq SUBSET S
    BY <2>2
  <2> QED
    BY <2>1, <2>4, <2>5
<1>2. PICK x \in T : \A y \in T : <<y, x>> \notin StrictSubsetOrdering(S)
  BY <1>1, FS_StrictSubsetOrderingWellFounded, WFMin
<1>3. PICK i \in S : x = Older(i)
  OBVIOUS
<1>4. ASSUME NEW j \in S, j.at < i.at
      PROVE  FALSE
  <2>1. i.at \in Nat /\ \A k \in S : k.at \in Nat
    BY DEF Items
  <2>2. Older(j) \subseteq Older(i)
    BY <1>4, <2>1
  <2>3. j \in Older(i) /\ j \notin Older(j)
    BY <1>4, <2>1
  <2>4. <<Older(j), Older(i)>> \in StrictSubsetOrdering(S)
    BY <2>2, <2>3 DEF StrictSubsetOrdering
  <2>5. Older(j) \in T
    OBVIOUS
  <2> QED
    BY <1>2, <1>3, <2>4, <2>5
<1>5. \A j \in S : i.at \in Nat /\ j.at \in Nat
  BY DEF Items
<1> QED
  BY <1>4, <1>5

\* What WindowIsNewest needs to be kept: the window is finite and every item in
\* the store was added before now.
WindowInv ==
    /\ TypeOK
    /\ WindowIsNewest
    /\ IsFiniteSet(shortTerm)
    /\ \A i \in longTerm : i.at <= added

LEMMA InitWindow == Init => WindowInv
  BY FS_EmptySet DEF Init, WindowInv, WindowIsNewest, TypeOK

\* After the drop there is room for one more item.
LEMMA RoomAfterDrop ==
    ASSUME WindowInv
    PROVE  /\ IsFiniteSet(shortTerm \ Evicted)
           /\ Cardinality(shortTerm \ Evicted) < Capacity
<1> USE DEF WindowInv, WindowIsNewest
<1>1. Cardinality(shortTerm) \in Nat
  BY FS_CardinalityType
<1>2. shortTerm \ Evicted \in SUBSET shortTerm
  OBVIOUS
<1>3. IsFiniteSet(shortTerm \ Evicted)
      /\ Cardinality(shortTerm \ Evicted) \in Nat
  BY <1>2, FS_Subset, FS_CardinalityType
<1>4. CASE Cardinality(shortTerm) < Capacity
  BY <1>1, <1>2, <1>3, <1>4, FS_Subset
<1>5. CASE ~(Cardinality(shortTerm) < Capacity)
  <2>1. shortTerm # {}
    BY <1>5, FS_EmptySet
  <2>2. PICK m \in shortTerm : \A j \in shortTerm : m.at <= j.at
    BY <2>1, OldestExists DEF TypeOK
  <2>3. m \in Evicted
    BY <1>5, <2>2 DEF Evicted
  <2>4. shortTerm \ Evicted \in SUBSET (shortTerm \ {m})
    BY <2>3
  <2>5. /\ IsFiniteSet(shortTerm \ {m})
        /\ Cardinality(shortTerm \ {m}) = Cardinality(shortTerm) - 1
    BY <2>2, FS_RemoveElement
  <2>6. Cardinality(shortTerm \ Evicted) <= Cardinality(shortTerm) - 1
    BY <2>4, <2>5, FS_Subset
  <2> QED
    BY <1>1, <1>3, <2>6
<1> QED
  BY <1>3, <1>4, <1>5

LEMMA NextWindow == WindowInv /\ [Next]_vars => WindowInv'
<1> SUFFICES ASSUME WindowInv, [Next]_vars PROVE WindowInv'
  OBVIOUS
<1>1. ASSUME NEW s \in Sessions, Add(s)
      PROVE  WindowInv'
  <2> DEFINE item == NewItem(s)
             rest == shortTerm \ Evicted
  <2>1. item \in Items /\ item.at = added + 1
    BY DEF WindowInv, TypeOK, NewItem, Items
  <2>2. /\ shortTerm' = rest \cup {item} /\ longTerm' = longTerm \cup {item}
        /\ added' = added + 1 /\ cleared' = cleared
    BY <1>1 DEF Add
  <2>3. IsFiniteSet(rest) /\ Cardinality(rest) < Capacity
    BY RoomAfterDrop
  <2>4. Cardinality(rest) \in Nat
    BY <2>3, FS_CardinalityType
  <2>5. rest \subseteq shortTerm
    OBVIOUS
  <2>6. \A i \in rest, j \in shortTerm : j.at > i.at => j \in rest
    <3> SUFFICES ASSUME NEW i \in rest, NEW j \in shortTerm, j.at > i.at,
                        j \in Evicted
                 PROVE  FALSE
      OBVIOUS
    <3>1. j.at <= i.at /\ i.at \in Nat /\ j.at \in Nat
      BY DEF Evicted, WindowInv, TypeOK, Items
    <3> QED
      BY <3>1
  <2> HIDE DEF item, rest
  <2>7. IsFiniteSet(shortTerm') /\ Cardinality(shortTerm') <= Capacity
    BY <2>2, <2>3, <2>4, FS_AddElement
  <2>8. TypeOK'
    BY <2>1, <2>2, <2>5 DEF WindowInv, TypeOK
  <2>9. \A i \in longTerm' : i.at <= added'
    <3>1. \A i \in longTerm : i.at \in Nat /\ i.at <= added
      BY DEF WindowInv, TypeOK, Items
    <3> QED
      BY <2>1, <2>2, <3>1 DEF WindowInv, TypeOK
  <2>10. \A i \in shortTerm', j \in longTerm' : j.at > i.at => j \in shortTerm'
    <3> SUFFICES ASSUME NEW i \in shortTerm', NEW j \in longTerm', j.at > i.at,
                        j # item
                 PROVE  j \in rest
      BY <2>2
    <3>1. j \in longTerm /\ j.at <= added /\ j.at \in Nat /\ added \in Nat
      BY <2>2 DEF WindowInv, TypeOK, Items
    <3>2. i \in rest
      BY <2>1, <2>2, <3>1
    <3>3. j \in shortTerm
      BY <2>5, <3>1, <3>2 DEF WindowInv, WindowIsNewest
    <3> QED
      BY <2>6, <3>2, <3>3
  <2>11. shortTerm' \subseteq longTerm'
    BY <2>2, <2>5 DEF WindowInv, WindowIsNewest
  <2> QED
    BY <2>7, <2>8, <2>9, <2>10, <2>11 DEF WindowInv, WindowIsNewest
<1>2. ASSUME NEW s \in Sessions, ClearSession(s)
      PROVE  WindowInv'
  <2>1. /\ shortTerm' = {i \in shortTerm : i.session # s}
        /\ longTerm' = {i \in longTerm : i.session # s}
        /\ added' = added /\ cleared' \subseteq cleared \cup longTerm
    BY <1>2 DEF ClearSession, Kept
  <2>2. shortTerm' \in SUBSET shortTerm
    BY <2>1
  <2>3. /\ IsFiniteSet(shortTerm')
        /\ Cardinality(shortTerm') <= Cardinality(shortTerm)
        /\ Cardinality(shortTerm') \in Nat /\ Cardinality(shortTerm) \in Nat
    BY <2>2, FS_Subset, FS_CardinalityType DEF WindowInv
  <2> QED
    BY <2>1, <2>3 DEF WindowInv, WindowIsNewest, TypeOK
<1>3. CASE UNCHANGED vars
  BY <1>3 DEF vars, WindowInv, WindowIsNewest, TypeOK
<1> QED
  BY <1>1, <1>2, <1>3 DEF Next

\* The window holds at most Capacity items, all of them in the store, and no
\* newer item of the store is missing from it.
THEOREM WindowCorrect == Spec => []WindowIsNewest
<1>1. WindowInv => WindowIsNewest
  BY DEF WindowInv
<1> QED
  BY <1>1, InitWindow, NextWindow, PTL DEF Spec
-----------------------------------------------------------------------------
(* No ghosts *)

\* What a query can return is in the store.
LEMMA SearchInStore ==
    ASSUME WindowIsNewest, NEW k, NEW s, NEW score
    PROVE  Search(k, s, score) \subseteq longTerm
<1>1. shortTerm \subseteq longTerm
  BY DEF WindowIsNewest
<1>2. RecallShortTerm(k) \subseteq shortTerm
  BY DEF RecallShortTerm, Newest
<1>3. RecallLongTerm(k, s, score) \subseteq longTerm
  BY DEF RecallLongTerm, Ranked
<1> QED
  BY <1>1, <1>2, <1>3 DEF Search, Newest, Ranked

\* What was cleared is older than what comes next and not in the store.
ClearedInv ==
    /\ WindowInv
    /\ longTerm \cap cleared = {}
    /\ \A i \in cleared : i.at <= added

LEMMA NextCleared == ClearedInv /\ [Next]_vars => ClearedInv'
<1> SUFFICES ASSUME ClearedInv, [Next]_vars PROVE ClearedInv'
  OBVIOUS
<1>1. WindowInv'
  BY NextWindow DEF ClearedInv
<1>2. /\ added \in Nat /\ \A i \in longTerm \cup cleared : i.at \in Nat
      /\ \A i \in longTerm \cup cleared : i.at <= added
  BY DEF ClearedInv, WindowInv, TypeOK, Items
<1>3. ASSUME NEW s \in Sessions, Add(s)
      PROVE  ClearedInv'
  <2>1. /\ longTerm' = longTerm \cup {NewItem(s)} /\ cleared' = cleared
        /\ added' = added + 1
    BY <1>3 DEF Add
  <2>2. NewItem(s).at = added + 1
    BY DEF NewItem
  <2>3. NewItem(s) \notin cleared
    BY <1>2, <2>2
  <2> QED
    BY <1>1, <1>2, <2>1, <2>3 DEF ClearedInv
<1>4. ASSUME NEW s \in Sessions, ClearSession(s)
      PROVE  ClearedInv'
  <2>1. /\ longTerm' = {i \in longTerm : i.session # s}
        /\ cleared' = cleared \cup {i \in longTerm : i.session = s}
        /\ added' = added
    BY <1>4 DEF ClearSession
  <2> QED
    BY <1>1, <1>2, <2>1 DEF ClearedInv
<1>5. CASE UNCHANGED vars
  BY <1>1, <1>5 DEF vars, ClearedInv
<1> QED
  BY <1>3, <1>4, <1>5 DEF Next

\* No query returns what was cleared, for any limits and scores: the window
\* keeps no copy of it.
THEOREM NothingHaunts == Spec => []NoGhosts
<1>1. Init => ClearedInv
  BY InitWindow DEF Init, ClearedInv
<1>2. ClearedInv => NoGhosts
  BY SearchInStore DEF ClearedInv, WindowInv, NoGhosts
<1> QED
  BY <1>1, <1>2, NextCleared, PTL DEF Spec
-----------------------------------------------------------------------------
(* Cutting a ranking at k: its first k, when there are so many.  A ranking  *)
(* of S is a strict total order of it, as a set of pairs.                   *)

Ranking(S, R) ==
    /\ \A i \in S : <<i, i>> \notin R
    /\ \A i, j \in S : i # j => <<i, j>> \in R \/ <<j, i>> \in R
    /\ \A i, j, k \in S : <<i, j>> \in R /\ <<j, k>> \in R => <<i, k>> \in R

Ahead(S, R, i) == {j \in S : <<j, i>> \in R}
FirstOf(k, S, R) == {i \in S : Cardinality(Ahead(S, R, i)) < k}

LEMMA RankingOfPart ==
    ASSUME NEW S, NEW R, Ranking(S, R), NEW T \in SUBSET S
    PROVE  Ranking(T, R)
BY DEF Ranking

\* The sets of those ahead grow along the ranking, so a smallest one belongs
\* to the first.
LEMMA FirstExists ==
    ASSUME NEW S, IsFiniteSet(S), S # {}, NEW R, Ranking(S, R)
    PROVE  \E i \in S : Ahead(S, R, i) = {}
<1> DEFINE T == {Ahead(S, R, i) : i \in S}
<1>1. T \subseteq FiniteSubsetsOf(S) /\ T # {}
  <2>1. FiniteSubsetsOf(S) = SUBSET S
    BY FS_FiniteSubsetsOfFinite
  <2>2. \A i \in S : Ahead(S, R, i) \in SUBSET S
    BY DEF Ahead
  <2>3. PICK i \in S : TRUE
    OBVIOUS
  <2> QED
    BY <2>1, <2>2, <2>3
<1>2. PICK x \in T : \A y \in T : <<y, x>> \notin StrictSubsetOrdering(S)
  BY <1>1, FS_StrictSubsetOrderingWellFounded, WFMin
<1>3. PICK i \in S : x = Ahead(S, R, i)
  OBVIOUS
<1>4. ASSUME NEW j \in Ahead(S, R, i)
      PROVE  FALSE
  <2>1. j \in S /\ <<j, i>> \in R
    BY DEF Ahead
  <2>2. Ahead(S, R, j) \subseteq Ahead(S, R, i)
    BY <2>1 DEF Ahead, Ranking
  <2>3. j \notin Ahead(S, R, j)
    BY <2>1 DEF Ahead, Ranking
  <2>4. Ahead(S, R, i) \subseteq S
    BY DEF Ahead
  <2>5. <<Ahead(S, R, j), Ahead(S, R, i)>> \in StrictSubsetOrdering(S)
    BY <2>2, <2>3, <2>4 DEF StrictSubsetOrdering
  <2> QED
    BY <1>2, <1>3, <2>1, <2>5
<1> QED
  BY <1>4

\* Turned round, a ranking is a ranking, so there is a last one too.
LEMMA LastExists ==
    ASSUME NEW S, IsFiniteSet(S), S # {}, NEW R, Ranking(S, R)
    PROVE  \E i \in S : \A j \in S \ {i} : <<j, i>> \in R
<1> DEFINE Q == {p \in S \X S : <<p[2], p[1]>> \in R}
<1>1. \A i, j \in S : <<i, j>> \in Q <=> <<j, i>> \in R
  OBVIOUS
<1> HIDE DEF Q
<1>2. Ranking(S, Q)
  BY <1>1 DEF Ranking
<1>3. PICK i \in S : Ahead(S, Q, i) = {}
  BY <1>2, FirstExists
<1>4. \A j \in S : <<i, j>> \notin R
  BY <1>1, <1>3 DEF Ahead
<1> QED
  BY <1>4 DEF Ranking

\* There are at most k first k.
LEMMA AtMostK ==
    ASSUME NEW S, IsFiniteSet(S), NEW R, Ranking(S, R), NEW k \in Nat
    PROVE  /\ IsFiniteSet(FirstOf(k, S, R))
           /\ Cardinality(FirstOf(k, S, R)) \in 0..k
<1> DEFINE T == FirstOf(k, S, R)
<1>1. T \in SUBSET S
  BY DEF FirstOf
<1>2. \A i \in T : Cardinality(Ahead(S, R, i)) < k
  BY DEF FirstOf
<1> HIDE DEF T
<1>3. IsFiniteSet(T) /\ Cardinality(T) \in Nat
  BY <1>1, FS_Subset, FS_CardinalityType
<1>4. CASE T = {}
  BY <1>3, <1>4, FS_EmptySet DEF T
<1>5. CASE T # {}
  <2>0. Ranking(T, R)
    BY <1>1, RankingOfPart
  <2>1. PICK m \in T : \A j \in T \ {m} : <<j, m>> \in R
    BY <1>3, <1>5, <2>0, LastExists
  <2>2. T \ {m} \in SUBSET Ahead(S, R, m)
    BY <1>1, <2>1 DEF Ahead
  <2>3. Ahead(S, R, m) \in SUBSET S
    BY DEF Ahead
  <2>4. IsFiniteSet(Ahead(S, R, m)) /\ Cardinality(Ahead(S, R, m)) \in Nat
    BY <2>3, FS_Subset, FS_CardinalityType
  <2>5. Cardinality(T \ {m}) <= Cardinality(Ahead(S, R, m))
    BY <2>2, <2>4, FS_Subset
  <2>6. Cardinality(T \ {m}) = Cardinality(T) - 1
    BY <1>3, <2>1, FS_RemoveElement
  <2>7. Cardinality(T) \in 0..k
    BY <1>2, <1>3, <2>1, <2>4, <2>5, <2>6
  <2> QED
    BY <1>3, <2>7 DEF T
<1> QED
  BY <1>4, <1>5

\* They are all k, when one of S is not among them.
LEMMA AllKWhenCut ==
    ASSUME NEW S, IsFiniteSet(S), NEW R, Ranking(S, R), NEW k \in Nat,
           NEW x \in S, x \notin FirstOf(k, S, R)
    PROVE  Cardinality(FirstOf(k, S, R)) = k
<1> DEFINE T == FirstOf(k, S, R)
           Rest == S \ T
<1>1. T \in SUBSET S /\ Rest \in SUBSET S /\ x \in Rest
  BY DEF FirstOf
<1>2. \A i \in Rest : Cardinality(Ahead(S, R, i)) >= k
  <2> SUFFICES ASSUME NEW i \in Rest
               PROVE  Cardinality(Ahead(S, R, i)) >= k
    OBVIOUS
  <2>1. Ahead(S, R, i) \in SUBSET S
    BY DEF Ahead
  <2>2. Cardinality(Ahead(S, R, i)) \in Nat
    BY <2>1, FS_Subset, FS_CardinalityType
  <2> QED
    BY <2>2 DEF FirstOf
<1>3. /\ IsFiniteSet(T) /\ Cardinality(T) \in 0..k
  BY AtMostK
<1> HIDE DEF T
<1>4. PICK m \in Rest : Ahead(Rest, R, m) = {}
  <2>1. IsFiniteSet(Rest) /\ Rest # {}
    BY <1>1, FS_Subset
  <2>2. Ranking(Rest, R)
    BY <1>1, RankingOfPart
  <2> HIDE DEF Rest
  <2> QED
    BY <2>1, <2>2, FirstExists
<1>5. Ahead(S, R, m) \in SUBSET T
  BY <1>4 DEF Ahead
<1>6. Cardinality(Ahead(S, R, m)) <= Cardinality(T)
  BY <1>3, <1>5, FS_Subset
<1>7. Cardinality(Ahead(S, R, m)) \in Nat
  BY <1>3, <1>5, FS_Subset, FS_CardinalityType
<1>8. Cardinality(T) = k
  BY <1>2, <1>3, <1>6, <1>7
<1> QED
  BY <1>8 DEF T
-----------------------------------------------------------------------------
(* A search is a recall *)

\* What a search needs of the store: it is finite, and no two items were added
\* at one place.
StoreInv ==
    /\ WindowInv
    /\ IsFiniteSet(longTerm)
    /\ \A i, j \in longTerm : i.at = j.at => i = j

LEMMA NextStore == StoreInv /\ [Next]_vars => StoreInv'
<1> SUFFICES ASSUME StoreInv, [Next]_vars PROVE StoreInv'
  OBVIOUS
<1>1. WindowInv'
  BY NextWindow DEF StoreInv
<1>2. added \in Nat /\ \A i \in longTerm : i.at \in Nat /\ i.at <= added
  BY DEF StoreInv, WindowInv, TypeOK, Items
<1>3. ASSUME NEW s \in Sessions, Add(s)
      PROVE  StoreInv'
  <2>1. longTerm' = longTerm \cup {NewItem(s)} /\ NewItem(s).at = added + 1
    BY <1>3 DEF Add, NewItem
  <2>2. IsFiniteSet(longTerm')
    BY <2>1, FS_AddElement DEF StoreInv
  <2>3. \A i \in longTerm : i.at # NewItem(s).at
    BY <1>2, <2>1
  <2> QED
    BY <1>1, <2>1, <2>2, <2>3 DEF StoreInv
<1>4. ASSUME NEW s \in Sessions, ClearSession(s)
      PROVE  StoreInv'
  <2>1. longTerm' \in SUBSET longTerm
    BY <1>4 DEF ClearSession
  <2>2. IsFiniteSet(longTerm')
    BY <2>1, FS_Subset DEF StoreInv
  <2> QED
    BY <1>1, <2>1, <2>2 DEF StoreInv
<1>5. CASE UNCHANGED vars
  BY <1>1, <1>5 DEF vars, StoreInv
<1> QED
  BY <1>3, <1>4, <1>5 DEF Next

\* The orders the two queries cut: newest first; best score first, and of
\* equal scores the oldest.
Newer(S) == {p \in S \X S : p[1].at > p[2].at}
Better(S, score) ==
    {p \in S \X S : \/ score[p[1]] > score[p[2]]
                    \/ score[p[1]] = score[p[2]] /\ p[1].at < p[2].at}

Matching(s) == {i \in longTerm : s = AnySession \/ i.session = s}

LEMMA NewestIsFirst ==
    ASSUME StoreInv, NEW S \in SUBSET longTerm, NEW k
    PROVE  Ranking(S, Newer(S)) /\ Newest(k, S) = FirstOf(k, S, Newer(S))
<1>1. \A i, j \in S : /\ i.at \in Nat /\ j.at \in Nat
                      /\ i.at = j.at => i = j
  BY DEF StoreInv, WindowInv, TypeOK, Items
<1>2. \A i, j \in S : <<i, j>> \in Newer(S) <=> i.at > j.at
  BY DEF Newer
<1>3. Ranking(S, Newer(S))
  BY <1>1, <1>2 DEF Ranking
<1>4. \A i \in S : Ahead(S, Newer(S), i) = {j \in S : j.at > i.at}
  BY <1>2 DEF Ahead
<1> QED
  BY <1>3, <1>4 DEF Newest, FirstOf

\* A ranking of items by score, and what is cut from it.
LEMMA RankedIsFirst ==
    ASSUME StoreInv, NEW n, NEW score \in [longTerm -> Scores],
           NEW M \in SUBSET longTerm
    PROVE  /\ Ranking(M, Better(M, score))
           /\ Ranked(n, M, score) = FirstOf(n, M, Better(M, score))
<1> DEFINE R == Better(M, score)
<1>1. \A i, j \in M : /\ i.at \in Nat /\ j.at \in Nat
                      /\ i.at = j.at => i = j
                      /\ score[i] \in Int /\ score[j] \in Int
  BY QueryAssumption DEF StoreInv, WindowInv, TypeOK, Items
<1>2. \A i, j \in M :
         <<i, j>> \in R <=> \/ score[i] > score[j]
                            \/ score[i] = score[j] /\ i.at < j.at
  BY DEF Better
<1> HIDE DEF R
<1>3. Ranking(M, R)
  BY <1>1, <1>2 DEF Ranking
<1>4. \A i \in M : Ahead(M, R, i) = Outranking(i, M, score)
  BY <1>2 DEF Ahead, Outranking
<1>5. Ranked(n, M, score) = FirstOf(n, M, R)
  BY <1>4 DEF Ranked, FirstOf
<1> QED
  BY <1>3, <1>5 DEF R

\* Cutting again what was cut at n takes nothing away.
LEMMA RankedTwice ==
    ASSUME NEW score, NEW M, IsFiniteSet(M), NEW n \in Int
    PROVE  Ranked(n, Ranked(n, M, score), score) = Ranked(n, M, score)
<1> DEFINE T == Ranked(n, M, score)
<1>1. T \in SUBSET M /\ \A i \in T : Cardinality(Outranking(i, M, score)) < n
  BY DEF Ranked
<1> HIDE DEF T
<1>2. ASSUME NEW i \in T
      PROVE  Cardinality(Outranking(i, T, score)) < n
  <2>1. /\ Outranking(i, T, score) \in SUBSET Outranking(i, M, score)
        /\ Outranking(i, M, score) \in SUBSET M
    BY <1>1 DEF Outranking
  <2>2. IsFiniteSet(Outranking(i, M, score))
    BY <2>1, FS_Subset
  <2>3. /\ Cardinality(Outranking(i, T, score)) <= Cardinality(Outranking(i, M, score))
        /\ Cardinality(Outranking(i, T, score)) \in Nat
        /\ Cardinality(Outranking(i, M, score)) \in Nat
    BY <2>1, <2>2, FS_Subset, FS_CardinalityType
  <2> QED
    BY <1>1, <2>3
<1>3. Ranked(n, T, score) = T
  BY <1>2 DEF Ranked
<1> QED
  BY <1>3 DEF T

LEMMA SearchRecalls ==
    ASSUME StoreInv, NEW k \in Nat, NEW s, NEW score \in [longTerm -> Scores]
    PROVE  LET found == Search(k, s, score)
           IN  /\ {i \in found : s = AnySession \/ i.session = s} =
                       RecallLongTerm(k, s, score)
               /\ Cardinality(found) <= k
<1> DEFINE M == Matching(s)
           R == Better(M, score)
           recall == RecallLongTerm(k, s, score)
           recent == RecallShortTerm(k) \ recall
           more == Newest(k - Cardinality(recall), recent)
<1>0. \A n : Upto(k, n) = k
  BY DEF Upto
<1>2. M \in SUBSET longTerm /\ IsFiniteSet(M) /\ IsFiniteSet(longTerm)
  BY FS_Subset DEF Matching, StoreInv
<1>11. recall = Ranked(k, M, score)
  BY <1>0 DEF RecallLongTerm, Matching
<1>1. Search(k, s, score) = recall \cup more
  <2>1. Ranked(k, recall, score) = recall
    BY <1>2, <1>11, RankedTwice
  <2> HIDE DEF M
  <2> QED
    BY <1>0, <2>1 DEF Search
<1>3. Ranking(M, R) /\ recall = FirstOf(k, M, R)
  BY <1>2, <1>11, RankedIsFirst
<1> HIDE DEF M, R, recall
<1>4. IsFiniteSet(recall) /\ Cardinality(recall) \in 0..k
  BY <1>2, <1>3, AtMostK
<1>5. recent \in SUBSET longTerm /\ recent \cap recall = {}
  BY DEF RecallShortTerm, Newest, StoreInv, WindowInv, WindowIsNewest
<1>6. IsFiniteSet(recent)
  BY <1>2, <1>5, FS_Subset
<1> HIDE DEF recent
<1>7. k - Cardinality(recall) \in Nat
  BY <1>4
<1>8. /\ more \subseteq recent
      /\ IsFiniteSet(more)
      /\ Cardinality(more) \in 0..(k - Cardinality(recall))
  <2>1. /\ Ranking(recent, Newer(recent))
        /\ more = FirstOf(k - Cardinality(recall), recent, Newer(recent))
    BY <1>5, NewestIsFirst
  <2> HIDE DEF more
  <2> QED
    BY <1>6, <1>7, <2>1, AtMostK DEF FirstOf
<1> HIDE DEF more
<1>9. Cardinality(recall \cup more) <= k
  <2>1. Cardinality(recall \cup more) =
           Cardinality(recall) + Cardinality(more) - Cardinality(recall \cap more)
    BY <1>4, <1>8, FS_Union
  <2>2. recall \cap more = {} /\ Cardinality({}) = 0
    BY <1>5, <1>8, FS_EmptySet
  <2> QED
    BY <1>4, <1>8, <2>1, <2>2
<1>10. ASSUME NEW i \in more
       PROVE  ~(s = AnySession \/ i.session = s)
  <2>1. i \in longTerm /\ i \notin recall
    BY <1>5, <1>8
  <2>2. SUFFICES ASSUME i \in M PROVE FALSE
    BY <2>1 DEF M, Matching
  <2>3. Cardinality(recall) = k
    BY <1>2, <1>3, <2>1, <2>2, AllKWhenCut
  <2>4. Cardinality(more) = 0
    BY <1>4, <1>8, <2>3
  <2>5. more = {}
    BY <1>8, <2>4, FS_EmptySet
  <2> QED
    BY <2>5
<1>12. \A i \in recall : s = AnySession \/ i.session = s
  BY <1>3 DEF FirstOf, M, Matching
<1>13. {i \in Search(k, s, score) : s = AnySession \/ i.session = s} = recall
  BY <1>1, <1>10, <1>12
<1>14. Cardinality(Search(k, s, score)) <= k
  BY <1>1, <1>9
<1> QED
  BY <1>13, <1>14 DEF recall

\* Of the session asked for, a search of a limit that is not negative returns
\* what the semantic recall returns, and at most as much as was asked for.
THEOREM SearchesAreRecalls == Spec => []SearchIsRecall
<1>1. Init => StoreInv
  BY InitWindow, FS_EmptySet DEF Init, StoreInv
<1>2. StoreInv => SearchIsRecall
  BY SearchRecalls, QueryAssumption DEF SearchIsRecall
<1> QED
  BY <1>1, <1>2, NextStore, PTL DEF Spec
-----------------------------------------------------------------------------
(* RollbackManager: the invariant *)

\* What callers hold and what the system runs with shares neither a dict nor a
\* list with a snapshot: what goes in and what comes out are deep copies.
Apart ==
    \A i \in DOMAIN snapshots :
       LET d == snapshots[i]
       IN  /\ d \notin held
           /\ dicts[d].list # 1
           /\ \A e \in held : dicts[e].list # dicts[d].list

RollbackInv == RollbackTypeOK /\ Apart /\ LogExplainsCurrent

Dicts(n) == [fields : Configs, list : 1..n]

\* A sequence over a set is one over each larger set, and stays one when an
\* element of that set is appended.
LEMMA Widened ==
    ASSUME NEW S, NEW T, S \subseteq T, NEW s \in Seq(S)
    PROVE  s \in Seq(T)
  OBVIOUS

LEMMA Appended ==
    ASSUME NEW S, NEW T, S \subseteq T, NEW s \in Seq(S), NEW x \in T
    PROVE  LET t == Append(s, x)
           IN  /\ t \in Seq(T)
               /\ Len(t) = Len(s) + 1
               /\ DOMAIN t = 1..(Len(s) + 1)
               /\ \A i \in DOMAIN s : t[i] = s[i]
               /\ t[Len(s) + 1] = x
<1>1. s \in Seq(T)
  BY Widened
<1> QED
  BY <1>1

\* The types, with the domains as intervals.
Shape ==
    /\ live \in Configs
    /\ lists \in Seq(Configs) /\ Len(lists) >= 1
    /\ dicts \in Seq(Dicts(Len(lists)))
    /\ held \subseteq 1..Len(dicts)
    /\ snapshots \in Seq(1..Len(dicts))
    /\ current \in 0..Len(snapshots)
    /\ log \in Seq([action : Actions, id : 1..Len(snapshots)])

LEMMA Typed == RollbackTypeOK <=> Shape
<1>1. ASSUME lists \in Seq(Configs)
      PROVE  DOMAIN lists = 1..Len(lists) /\ (lists # <<>> <=> Len(lists) >= 1)
  BY <1>1
<1>2. ASSUME NEW S, dicts \in Seq(S) PROVE DOMAIN dicts = 1..Len(dicts)
  BY <1>2
<1>3. ASSUME NEW S, snapshots \in Seq(S)
      PROVE  DOMAIN snapshots = 1..Len(snapshots)
  BY <1>3
<1> QED
  BY <1>1, <1>2, <1>3 DEF RollbackTypeOK, Shape, Dicts

LEMMA TypedNext == RollbackTypeOK' <=> Shape'
BY Typed, PTL

\* A deep copy has a new list, and leaves the others alone.
LEMMA CopyIsNew ==
    ASSUME RollbackTypeOK, NEW d \in Dicts(Len(lists))
    PROVE  LET copy == DeepCopy(d)
           IN  /\ copy.dict \in Dicts(Len(lists) + 1)
               /\ copy.dict.list = Len(lists) + 1
               /\ copy.lists \in Seq(Configs)
               /\ Len(copy.lists) = Len(lists) + 1
               /\ \A k \in 1..Len(lists) : copy.lists[k] = lists[k]
<1>1. lists \in Seq(Configs) /\ Len(lists) \in Nat /\ d.list \in 1..Len(lists)
  BY Typed DEF Shape, Dicts
<1>2. lists[d.list] \in Configs
  BY <1>1
<1>3. LET more == Append(lists, lists[d.list])
      IN  /\ more \in Seq(Configs) /\ Len(more) = Len(lists) + 1
          /\ \A k \in 1..Len(lists) : more[k] = lists[k]
  BY <1>1, <1>2
<1>4. [d EXCEPT !.list = Len(lists) + 1] \in Dicts(Len(lists) + 1)
  BY <1>1 DEF Dicts
<1>5. [d EXCEPT !.list = Len(lists) + 1].list = Len(lists) + 1
  BY DEF Dicts
<1> QED
  BY <1>1, <1>3, <1>4, <1>5 DEF DeepCopy

LEMMA RollbackInitInv == RollbackInit => RollbackInv
<1> SUFFICES ASSUME RollbackInit PROVE RollbackInv
  OBVIOUS
<1>1. lists \in Seq(Configs) /\ Len(lists) = 1
  BY DEF RollbackInit
<1>2. RollbackTypeOK
  BY <1>1, Typed DEF RollbackInit, Shape
<1> QED
  BY <1>2 DEF RollbackInit, RollbackInv, Apart, LogExplainsCurrent

Frozen == \A i \in DOMAIN snapshots :
              Contents(snapshots[i])' = Contents(snapshots[i])

\* When dicts, lists and snapshots are only added, what snapshots hold stays.
LEMMA AddingFreezes ==
    ASSUME RollbackTypeOK,
           \A k \in 1..Len(lists) : lists'[k] = lists[k],
           \A d \in 1..Len(dicts) : dicts'[d] = dicts[d],
           \A i \in 1..Len(snapshots) : snapshots'[i] = snapshots[i]
    PROVE  Frozen
<1> SUFFICES ASSUME NEW i \in DOMAIN snapshots
             PROVE  Contents(snapshots[i])' = Contents(snapshots[i])
  BY DEF Frozen
<1>1. i \in 1..Len(snapshots) /\ snapshots[i] \in 1..Len(dicts)
  BY Typed DEF Shape
<1>2. dicts[snapshots[i]] \in Dicts(Len(lists))
  BY <1>1, Typed DEF Shape
<1>3. dicts[snapshots[i]].list \in 1..Len(lists)
  BY <1>2 DEF Dicts
<1> QED
  BY <1>1, <1>3 DEF Contents

\* Every step keeps the invariant and the contents of every snapshot.
LEMMA StepInv ==
    ASSUME RollbackInv, [RollbackNext]_rollbackVars
    PROVE  RollbackInv' /\ Frozen
<1> DEFINE n == Len(lists)
           m == Len(dicts)
<1>t. RollbackTypeOK
  BY DEF RollbackInv
<1>a. /\ live \in Configs /\ lists \in Seq(Configs) /\ n \in Nat /\ n >= 1
      /\ dicts \in Seq(Dicts(n)) /\ m \in Nat /\ held \subseteq 1..m
      /\ snapshots \in Seq(1..m) /\ current \in 0..Len(snapshots)
      /\ log \in Seq([action : Actions, id : 1..Len(snapshots)])
      /\ DOMAIN snapshots = 1..Len(snapshots) /\ Len(snapshots) \in Nat
  BY <1>t, Typed DEF Shape
<1>f. /\ m \in Nat /\ DOMAIN snapshots = 1..Len(snapshots)
  BY <1>a
<1>e. \A d \in 1..m : dicts[d] \in Dicts(n) /\ dicts[d].list \in 1..n
  <2>1. \A d \in 1..m : dicts[d] \in Dicts(n)
    BY <1>a
  <2> QED
    BY <2>1 DEF Dicts
<1>b. \A i \in 1..Len(snapshots) :
         /\ snapshots[i] \in 1..m /\ snapshots[i] \notin held
         /\ dicts[snapshots[i]].list \in 1..n /\ dicts[snapshots[i]].list # 1
         /\ \A e \in held : dicts[e].list # dicts[snapshots[i]].list
  <2> SUFFICES ASSUME NEW i \in 1..Len(snapshots)
               PROVE  /\ snapshots[i] \in 1..m /\ snapshots[i] \notin held
                      /\ dicts[snapshots[i]].list \in 1..n
                      /\ dicts[snapshots[i]].list # 1
                      /\ \A e \in held :
                            dicts[e].list # dicts[snapshots[i]].list
    OBVIOUS
  <2>1. snapshots[i] \in 1..m
    BY <1>a
  <2>2. i \in DOMAIN snapshots
    BY <1>f
  <2> QED
    BY <1>e, <2>1, <2>2, Zenon DEF RollbackInv, Apart
<1>c. Dicts(n) \subseteq Dicts(n + 1)
  BY <1>a DEF Dicts
<1>d. \A e \in held : e \in 1..m /\ dicts[e].list \in 1..n
  BY <1>a, <1>e
<1>1. CASE Snapshot
  <2> DEFINE config == [fields |-> live, list |-> 1]
             copy == DeepCopy(config)
  <2>1. config \in Dicts(n) /\ config.list = 1
    BY <1>a DEF Dicts
  <2>2. /\ copy.dict \in Dicts(n + 1) /\ copy.dict.list = n + 1
        /\ copy.lists \in Seq(Configs) /\ Len(copy.lists) = n + 1
        /\ \A k \in 1..n : copy.lists[k] = lists[k]
    <3> HIDE DEF config
    <3> QED
      BY <1>t, <2>1, CopyIsNew
  <2>3. /\ lists' = copy.lists /\ held' = held \cup {m + 1}
        /\ dicts' = dicts \o <<config, copy.dict>>
        /\ snapshots' = Append(snapshots, m + 2)
        /\ current' = Len(snapshots') /\ live' = live /\ log' = log
    BY <1>1 DEF Snapshot
  <2> HIDE DEF copy, config
  <2>4. /\ dicts' \in Seq(Dicts(n + 1)) /\ Len(dicts') = m + 2
        /\ \A d \in 1..m : dicts'[d] = dicts[d]
        /\ dicts'[m + 1] = config /\ dicts'[m + 2] = copy.dict
    <3>1. dicts \in Seq(Dicts(n + 1))
      BY <1>a, <1>c, Widened
    <3>2. config \in Dicts(n + 1) /\ copy.dict \in Dicts(n + 1)
      BY <1>c, <2>1, <2>2
    <3>3. dicts' = Append(Append(dicts, config), copy.dict)
      BY <2>3, <3>1, <3>2
    <3> QED
      BY <3>1, <3>2, <3>3
  <2>5. /\ snapshots' \in Seq(1..(m + 2)) /\ Len(snapshots') = Len(snapshots) + 1
        /\ \A i \in 1..Len(snapshots) : snapshots'[i] = snapshots[i]
        /\ snapshots'[Len(snapshots) + 1] = m + 2
    <3>1. 1..m \subseteq 1..(m + 2) /\ m + 2 \in 1..(m + 2)
      BY <1>a
    <3> QED
      BY <1>a, <2>3, <3>1, Appended
  <2>6. log' \in Seq([action : Actions, id : 1..Len(snapshots')])
    <3> DEFINE Old == [action : Actions, id : 1..Len(snapshots)]
               New == [action : Actions, id : 1..Len(snapshots')]
    <3>1. Old \subseteq New
      BY <1>a, <2>5
    <3>2. log \in Seq(Old)
      BY <1>a
    <3> HIDE DEF Old, New
    <3>3. log \in Seq(New)
      BY <3>1, <3>2, Widened
    <3> QED
      BY <2>3, <3>3 DEF New
  <2>7. RollbackTypeOK'
    <3>1. held' \subseteq 1..(m + 2)
      <4>1. \A e \in held : e \in 1..m
        BY <1>d
      <4>2. \A e \in held' : e \in held \/ e = m + 1
        BY <2>3
      <4> QED
        BY <1>f, <4>1, <4>2
    <3>2. current' \in 0..Len(snapshots')
      BY <1>a, <2>3, <2>5
    <3> QED
      BY <1>a, <2>2, <2>3, <2>4, <2>5, <2>6, <3>1, <3>2, TypedNext DEF Shape
  <2>8. Apart'
    <3>1. \A i \in 1..Len(snapshots') : i \in 1..Len(snapshots) \/ i = Len(snapshots) + 1
      BY <1>a, <2>5
    <3>2. \A e \in held' : \/ e \in held /\ dicts'[e] = dicts[e]
                           \/ e = m + 1 /\ dicts'[e].list = 1
      BY <1>a, <2>1, <2>3, <2>4
    <3>3. ASSUME NEW i \in 1..Len(snapshots)
          PROVE  /\ snapshots'[i] \notin held' /\ dicts'[snapshots'[i]].list # 1
                 /\ \A e \in held' : dicts'[e].list # dicts'[snapshots'[i]].list
      <4>1. /\ snapshots'[i] = snapshots[i]
            /\ dicts'[snapshots'[i]] = dicts[snapshots[i]]
        BY <1>b, <2>4, <2>5
      <4>2. snapshots'[i] \notin held'
        BY <1>a, <1>b, <2>3, <4>1
      <4> QED
        BY <1>b, <3>2, <4>1, <4>2
    <3>4. /\ m + 2 \notin held' /\ dicts'[m + 2].list # 1
          /\ \A e \in held' : dicts'[e].list # dicts'[m + 2].list
      BY <1>a, <1>d, <2>2, <2>3, <2>4, <3>2
    <3>5. DOMAIN snapshots' = 1..Len(snapshots')
      BY <2>5
    <3> QED
      BY <2>5, <3>1, <3>3, <3>4, <3>5 DEF Apart
  <2>9. LogExplainsCurrent' /\ Frozen
    BY <1>t, <2>2, <2>3, <2>4, <2>5, AddingFreezes DEF LogExplainsCurrent
  <2> QED
    BY <2>7, <2>8, <2>9 DEF RollbackInv
<1>2. ASSUME NEW i \in DOMAIN snapshots, NEW action \in Actions,
             Restore(i, action)
      PROVE  RollbackInv' /\ Frozen
  <2> DEFINE old == dicts[snapshots[i]]
             copy == DeepCopy(old)
             entry == [action |-> action, id |-> i]
  <2>1. old \in Dicts(n)
    BY <1>a, <1>b
  <2>2. /\ copy.dict \in Dicts(n + 1) /\ copy.dict.list = n + 1
        /\ copy.lists \in Seq(Configs) /\ Len(copy.lists) = n + 1
        /\ \A k \in 1..n : copy.lists[k] = lists[k]
    <3> HIDE DEF old
    <3> QED
      BY <1>t, <2>1, CopyIsNew
  <2>3. /\ lists' = copy.lists /\ held' = held \cup {m + 1}
        /\ dicts' = Append(dicts, copy.dict)
        /\ current' = i /\ log' = Append(log, entry)
        /\ UNCHANGED <<live, snapshots>>
    BY <1>2 DEF Restore, WithEntry
  <2> HIDE DEF copy, old
  <2>4. /\ dicts' \in Seq(Dicts(n + 1)) /\ Len(dicts') = m + 1
        /\ \A d \in 1..m : dicts'[d] = dicts[d]
        /\ dicts'[m + 1] = copy.dict
    <3>1. DOMAIN dicts = 1..m
      BY <1>a
    <3> QED
      BY <1>a, <1>c, <2>2, <2>3, <3>1, Appended
  <2>5. /\ log' \in Seq([action : Actions, id : 1..Len(snapshots')])
        /\ log' # <<>> /\ log'[Len(log')].id = i
    <3> DEFINE Entries == [action : Actions, id : 1..Len(snapshots)]
    <3>1. entry \in Entries /\ entry.id = i
      BY <1>a
    <3>2. log \in Seq(Entries)
      BY <1>a
    <3>3. log' = Append(log, entry) /\ snapshots' = snapshots
      BY <2>3
    <3> HIDE DEF Entries, entry
    <3>4. /\ log' \in Seq(Entries) /\ log' # <<>>
          /\ log'[Len(log')] = entry
      BY <3>1, <3>2, <3>3
    <3> QED
      BY <3>1, <3>3, <3>4 DEF Entries
  <2>6. RollbackTypeOK'
    <3>1. current' \in 0..Len(snapshots')
      BY <1>a, <2>3
    <3>3. held' \subseteq 1..(m + 1)
      <4>1. \A e \in held : e \in 1..m
        BY <1>d
      <4>2. \A e \in held' : e \in held \/ e = m + 1
        BY <2>3
      <4> QED
        BY <1>f, <4>1, <4>2
    <3>2. snapshots' \in Seq(1..(m + 1))
      <4>1. 1..m \subseteq 1..(m + 1)
        BY <1>a
      <4> QED
        BY <1>a, <2>3, <4>1, Widened
    <3> QED
      BY <1>a, <2>2, <2>3, <2>4, <2>5, <3>1, <3>2, <3>3, TypedNext DEF Shape
  <2>7. Apart'
    <3>1. \A e \in held' : \/ e \in held /\ dicts'[e] = dicts[e]
                           \/ e = m + 1 /\ dicts'[e].list = n + 1
      BY <1>a, <2>2, <2>3, <2>4
    <3>2. ASSUME NEW j \in 1..Len(snapshots)
          PROVE  /\ snapshots[j] \notin held' /\ dicts'[snapshots[j]].list # 1
                 /\ \A e \in held' : dicts'[e].list # dicts'[snapshots[j]].list
      <4>1. dicts'[snapshots[j]] = dicts[snapshots[j]]
        BY <1>b, <2>4
      <4>2. snapshots[j] \notin held'
        BY <1>a, <1>b, <2>3
      <4>3. dicts[snapshots[j]].list # n + 1
        <5>1. dicts[snapshots[j]].list \in 1..n
          BY <1>b
        <5> QED
          BY <1>a, <5>1
      <4> QED
        BY <1>b, <3>1, <4>1, <4>2, <4>3
    <3> QED
      BY <1>a, <2>3, <3>2 DEF Apart
  <2>8. LogExplainsCurrent' /\ Frozen
    BY <1>t, <2>2, <2>3, <2>4, <2>5, AddingFreezes DEF LogExplainsCurrent
  <2> QED
    BY <2>6, <2>7, <2>8 DEF RollbackInv
<1>3. ASSUME NEW d \in held, NEW c \in Configs, HolderChanges(d, c)
      PROVE  RollbackInv' /\ Frozen
  <2>1. UNCHANGED <<live, held, snapshots, current, log>>
    BY <1>3 DEF HolderChanges
  <2>2. d \in 1..m /\ dicts[d] \in Dicts(n) /\ dicts[d].list \in 1..n
    BY <1>a, <1>e
  <2>3. CASE dicts' = [dicts EXCEPT ![d].fields = c] /\ UNCHANGED lists
    <3>0. dicts' = [dicts EXCEPT ![d] = [dicts[d] EXCEPT !.fields = c]]
      BY <2>3
    <3>1. /\ [dicts[d] EXCEPT !.fields = c] \in Dicts(n)
          /\ [dicts[d] EXCEPT !.fields = c].list = dicts[d].list
      BY <2>2 DEF Dicts
    <3>2. dicts' \in Seq(Dicts(n)) /\ Len(dicts') = m
      BY <1>a, <2>2, <3>0, <3>1
    <3>3. \A e \in 1..m : /\ dicts'[e].list = dicts[e].list
                          /\ e # d => dicts'[e] = dicts[e]
      BY <1>a, <2>2, <3>0, <3>1
    <3>4. RollbackTypeOK'
      BY <1>a, <2>1, <2>3, <3>2, TypedNext DEF Shape
    <3>5. Apart'
      <4>1. \A e \in held : dicts'[e].list = dicts[e].list
        BY <1>d, <3>3
      <4>2. \A i \in 1..Len(snapshots) :
               dicts'[snapshots[i]].list = dicts[snapshots[i]].list
        BY <1>b, <3>3
      <4>3. ASSUME NEW i \in 1..Len(snapshots)
            PROVE  /\ snapshots[i] \notin held
                   /\ dicts'[snapshots[i]].list # 1
                   /\ \A e \in held :
                         dicts'[e].list # dicts'[snapshots[i]].list
        BY <1>b, <4>1, <4>2
      <4> QED
        BY <1>f, <2>1, <4>3 DEF Apart
    <3>7. LogExplainsCurrent'
      BY <2>1 DEF RollbackInv, LogExplainsCurrent
    <3>6. Frozen
      BY <1>a, <1>b, <2>1, <2>3, <3>3 DEF Frozen, Contents
    <3> QED
      BY <3>4, <3>5, <3>6, <3>7 DEF RollbackInv
  <2>4. CASE lists' = [lists EXCEPT ![dicts[d].list] = c] /\ UNCHANGED dicts
    <3>1. lists' \in Seq(Configs) /\ Len(lists') = n
      BY <1>a, <2>2, <2>4
    <3>2. \A k \in 1..n : k # dicts[d].list => lists'[k] = lists[k]
      BY <1>a, <2>2, <2>4
    <3>3. RollbackTypeOK'
      BY <1>a, <2>1, <2>4, <3>1, TypedNext DEF Shape
    <3>4. Apart' /\ LogExplainsCurrent'
      BY <2>1, <2>4 DEF RollbackInv, Apart, LogExplainsCurrent
    <3>5. Frozen
      BY <1>a, <1>b, <2>1, <2>4, <3>2 DEF Frozen, Contents
    <3> QED
      BY <3>3, <3>4, <3>5 DEF RollbackInv
  <2> QED
    BY <1>3, <2>3, <2>4 DEF HolderChanges
<1>4. ASSUME NEW c \in Configs, LiveChanges(c) PROVE RollbackInv' /\ Frozen
  BY <1>4 DEF LiveChanges, RollbackInv, RollbackTypeOK, Apart,
              LogExplainsCurrent, Frozen, Contents
<1>5. CASE UNCHANGED rollbackVars
  BY <1>5 DEF rollbackVars, RollbackInv, RollbackTypeOK, Apart,
              LogExplainsCurrent, Frozen, Contents
<1> QED
  BY <1>1, <1>2, <1>3, <1>4, <1>5
  DEF RollbackNext, RollbackTo, Rollforward, Actions

LEMMA Invariance == RollbackSpec => []RollbackInv
<1>1. RollbackInv /\ [RollbackNext]_rollbackVars => RollbackInv'
  BY StepInv
<1> QED
  BY RollbackInitInv, <1>1, PTL DEF RollbackSpec
-----------------------------------------------------------------------------
(* RollbackManager: the theorems *)

\* Every variable keeps its type: the log and the current position name
\* snapshots there are.
THEOREM TypeCorrect == RollbackSpec => []RollbackTypeOK
<1>1. RollbackInv => RollbackTypeOK
  BY DEF RollbackInv
<1> QED
  BY Invariance, <1>1, PTL

\* The log accounts for the current snapshot after any calls in any order.
THEOREM LogExplains == RollbackSpec => []LogExplainsCurrent
<1>1. RollbackInv => LogExplainsCurrent
  BY DEF RollbackInv
<1> QED
  BY Invariance, <1>1, PTL

\* What a snapshot holds, in its fields and its list, never changes, whoever
\* changes the dicts that were passed in or handed out.
THEOREM StaysFrozen == RollbackSpec => SnapshotsFrozen
<1>1. RollbackInv /\ [RollbackNext]_rollbackVars => [Frozen]_rollbackVars
  BY StepInv
<1> QED
  BY Invariance, <1>1, PTL DEF RollbackSpec, SnapshotsFrozen, Frozen
-----------------------------------------------------------------------------
(* CanaryTester *)

\* A dict has each of its keys once.
Distinct(names) ==
    \A j, k \in DOMAIN names : names[j] = names[k] => j = k

CanaryInv == active \in Seq(Candidates) /\ Distinct(active)

LEMMA CanaryFacts ==
    /\ \A t \in CanaryTasks : Bucket[t] \in Nat
    /\ Percents \subseteq Nat
    /\ NoCandidate \notin Candidates
BY CanaryAssumption

\* What is left of a sequence when one element goes.
LEMMA RemovedAt ==
    ASSUME NEW S, NEW s \in Seq(S), NEW k \in 1..Len(s)
    PROVE  LET t == RemoveAt(s, k)
           IN  /\ t \in Seq(S) /\ Len(t) = Len(s) - 1
               /\ \A j \in 1..(Len(s) - 1) : t[j] = s[IF j < k THEN j ELSE j + 1]
<1> DEFINE a == SubSeq(s, 1, k - 1)
           b == SubSeq(s, k + 1, Len(s))
<1>1. a \in Seq(S) /\ Len(a) = k - 1 /\ \A i \in 1..(k - 1) : a[i] = s[i]
  OBVIOUS
<1>2. b \in Seq(S) /\ Len(b) = Len(s) - k /\ \A i \in 1..(Len(s) - k) : b[i] = s[k + i]
  OBVIOUS
<1> HIDE DEF a, b
<1>3. /\ a \o b \in Seq(S) /\ Len(a \o b) = Len(s) - 1
  <2>1. a \o b \in Seq(S) /\ Len(a \o b) = Len(a) + Len(b)
    BY <1>1, <1>2, ConcatProperties
  <2> QED
    BY <1>1, <1>2, <2>1
<1>4. \A j \in 1..(Len(s) - 1) :
         (a \o b)[j] = IF j < k THEN a[j] ELSE b[j - (k - 1)]
  <2> SUFFICES ASSUME NEW j \in 1..(Len(s) - 1)
               PROVE  (a \o b)[j] = IF j < k THEN a[j] ELSE b[j - (k - 1)]
    OBVIOUS
  <2>1. j \in 1..(Len(a) + Len(b)) /\ (j < k <=> j <= Len(a))
    BY <1>1, <1>2
  <2>2. (a \o b)[j] = IF j <= Len(a) THEN a[j] ELSE b[j - Len(a)]
    BY <1>1, <1>2, <2>1, ConcatProperties
  <2> QED
    BY <1>1, <2>1, <2>2
<1>5. \A j \in 1..(Len(s) - 1) :
         (a \o b)[j] = s[IF j < k THEN j ELSE j + 1]
  <2> SUFFICES ASSUME NEW j \in 1..(Len(s) - 1)
               PROVE  (a \o b)[j] = s[IF j < k THEN j ELSE j + 1]
    OBVIOUS
  <2>1. CASE j < k
    BY <1>1, <1>4, <2>1
  <2>2. CASE ~(j < k)
    <3>1. j - (k - 1) \in 1..(Len(s) - k)
      BY <2>2
    <3>2. k + (j - (k - 1)) = j + 1
      OBVIOUS
    <3>3. b[j - (k - 1)] = s[k + (j - (k - 1))]
      BY <1>2, <3>1
    <3> QED
      BY <1>4, <2>2, <3>2, <3>3
  <2> QED
    BY <2>1, <2>2
<1> QED
  BY <1>3, <1>5 DEF RemoveAt, a, b

\* Where the candidates are found that stay when the k-th of n goes.
Found(k, j) == IF j < k THEN j ELSE j + 1

LEMMA FoundBefore ==
    ASSUME NEW n \in Nat, NEW k \in 1..n,
           NEW i \in 1..(n - 1), NEW j \in 1..(n - 1)
    PROVE  /\ Found(k, i) \in 1..n
           /\ Found(k, i) = Found(k, j) => i = j
BY DEF Found

LEMMA CanaryInductive == CanaryInv /\ [CanaryNext]_canaryVars => CanaryInv'
<1> SUFFICES ASSUME CanaryInv, [CanaryNext]_canaryVars PROVE CanaryInv'
  OBVIOUS
<1>1. ASSUME NEW n \in Candidates, StartCanary(n) PROVE CanaryInv'
  <2>1. /\ active' = Append(active, n)
        /\ \A k \in DOMAIN active : active[k] # n
    BY <1>1 DEF StartCanary, Enter, Active, Ranks
  <2> QED
    BY <2>1 DEF CanaryInv, Distinct
<1>2. ASSUME NEW n \in Candidates, Promote(n) PROVE CanaryInv'
  <2>1. PICK k \in DOMAIN active : active' = RemoveAt(active, k)
    BY <1>2 DEF Promote, Ranks
  <2>2. /\ active \in Seq(Candidates) /\ k \in 1..Len(active)
        /\ Distinct(active)
    BY <2>1 DEF CanaryInv
  <2>3. /\ active' \in Seq(Candidates) /\ Len(active') = Len(active) - 1
        /\ \A j \in 1..(Len(active) - 1) : active'[j] = active[Found(k, j)]
    BY <2>1, <2>2, RemovedAt DEF Found
  <2>4. DOMAIN active' = 1..(Len(active) - 1) /\ DOMAIN active = 1..Len(active)
    BY <2>2, <2>3
  <2>5. ASSUME NEW i \in 1..(Len(active) - 1), NEW j \in 1..(Len(active) - 1),
               active'[i] = active'[j]
        PROVE  i = j
    <3>0. Len(active) \in Nat
      BY <2>2
    <3>1. /\ Found(k, i) \in DOMAIN active /\ Found(k, j) \in DOMAIN active
          /\ Found(k, i) = Found(k, j) => i = j
      BY <2>2, <2>4, <3>0, FoundBefore
    <3> QED
      BY <2>2, <2>3, <2>5, <3>1 DEF Distinct
  <2> QED
    BY <2>3, <2>4, <2>5 DEF CanaryInv, Distinct
<1>3. ASSUME active' = active PROVE CanaryInv'
  BY <1>3 DEF CanaryInv, Distinct
<1> QED
  BY <1>1, <1>2, <1>3 DEF CanaryNext, canaryVars, CanaryExecute,
        EvaluateAndMaybePromote, Rollback, UpdateBaselineMetrics

LEMMA CanaryInvariance == CanarySpec => []CanaryInv
<1>1. CanaryInit => CanaryInv
  BY DEF CanaryInit, CanaryInv, Distinct
<1> QED
  BY <1>1, CanaryInductive, PTL DEF CanarySpec

\* A task is for the first candidate if its hash is below the caller's share,
\* else for the second if it is below the default share, else for none.
LEMMA OneOfTwoTakes ==
    ASSUME NEW names \in Seq(Candidates), NEW t \in CanaryTasks, NEW p \in Nat
    PROVE  RouteToCanary(names, t, p) =
              IF names # <<>> /\ Bucket[t] < p THEN names[1]
              ELSE IF Len(names) >= 2 /\ Bucket[t] < 10 THEN names[2]
              ELSE NoCandidate
<1> DEFINE takers == {k \in DOMAIN names : Takes(k, t, p)}
           first(k) == k \in takers /\ \A j \in takers : k <= j
<1>1. Bucket[t] \in Nat /\ DOMAIN names = 1..Len(names) /\ Len(names) \in Nat
  BY CanaryFacts
<1>2. \A k : k \in takers <=> /\ k \in 1..Len(names)
                              /\ Bucket[t] < IF k = 1 THEN p ELSE 10
  BY <1>1 DEF Takes
<1> HIDE DEF takers
<1>3. ASSUME NEW k \in 1..Len(names), first(k)
      PROVE  RouteToCanary(names, t, p) = names[k]
  <2>1. \A j \in takers : (\A i \in takers : j <= i) => j = k
    BY <1>1, <1>2, <1>3
  <2>2. (CHOOSE j \in takers : \A i \in takers : j <= i) = k
    BY <1>3, <2>1
  <2>3. takers # {}
    BY <1>3
  <2> QED
    BY <2>2, <2>3 DEF RouteToCanary, takers
<1>4. CASE names # <<>> /\ Bucket[t] < p
  <2>1. 1 \in 1..Len(names) /\ first(1)
    BY <1>1, <1>2, <1>4
  <2> QED
    BY <1>3, <1>4, <2>1
<1>5. CASE ~(names # <<>> /\ Bucket[t] < p) /\ Len(names) >= 2 /\ Bucket[t] < 10
  <2>1. 2 \in 1..Len(names) /\ first(2)
    BY <1>1, <1>2, <1>5
  <2>2. RouteToCanary(names, t, p) = names[2]
    BY <1>3, <2>1
  <2> QED
    BY <1>5, <2>2
<1>6. CASE /\ ~(names # <<>> /\ Bucket[t] < p)
           /\ ~(Len(names) >= 2 /\ Bucket[t] < 10)
  <2>1. takers = {}
    BY <1>1, <1>2, <1>6
  <2>2. RouteToCanary(names, t, p) = NoCandidate
    BY <2>1 DEF RouteToCanary, takers
  <2> QED
    BY <1>6, <2>2
<1> QED
  BY <1>4, <1>5, <1>6

LEMMA RoutesKept ==
    ASSUME CanaryInv, [CanaryNext]_canaryVars, NEW t \in CanaryTasks,
           NEW p \in Nat
    PROVE  LET before == RouteToCanary(active, t, p)
               after == RouteToCanary(active', t, p)
               stays == \E k \in DOMAIN active' : active'[k] = before
           IN  before # after =>
                 \/ before = NoCandidate /\ after = active'[Len(active')]
                 \/ before # NoCandidate /\ ~stays
                 \/ before # active[1] /\ before = active'[1] /\ p <= Bucket[t]
<1> DEFINE before == RouteToCanary(active, t, p)
           after == RouteToCanary(active', t, p)
           stays == \E k \in DOMAIN active' : active'[k] = before
<1>1. /\ active \in Seq(Candidates) /\ active' \in Seq(Candidates)
      /\ Distinct(active) /\ Bucket[t] \in Nat
      /\ Len(active) \in Nat /\ DOMAIN active = 1..Len(active)
      /\ Len(active') \in Nat /\ DOMAIN active' = 1..Len(active')
  BY CanaryInductive, CanaryFacts DEF CanaryInv
<1>2. /\ before = IF Len(active) >= 1 /\ Bucket[t] < p THEN active[1]
                  ELSE IF Len(active) >= 2 /\ Bucket[t] < 10 THEN active[2]
                  ELSE NoCandidate
      /\ after = IF Len(active') >= 1 /\ Bucket[t] < p THEN active'[1]
                 ELSE IF Len(active') >= 2 /\ Bucket[t] < 10 THEN active'[2]
                 ELSE NoCandidate
  <2>1. \A s \in Seq(Candidates) : s # <<>> <=> Len(s) >= 1
    OBVIOUS
  <2> QED
    BY <1>1, <2>1, OneOfTwoTakes
<1> HIDE DEF before, after
<1> SUFFICES ASSUME before # after
             PROVE  \/ before = NoCandidate /\ after = active'[Len(active')]
                    \/ before # NoCandidate /\ ~stays
                    \/ before # active[1] /\ before = active'[1] /\ p <= Bucket[t]
  BY DEF before, after
<1>3. active' # active
  BY <1>2
<1>4. ASSUME NEW n \in Candidates, StartCanary(n)
      PROVE  before = NoCandidate /\ after = active'[Len(active')]
  <2>1. active' = Append(active, n)
    BY <1>4 DEF StartCanary, Enter
  <2>2. /\ Len(active') = Len(active) + 1
        /\ \A j \in 1..Len(active) : active'[j] = active[j]
    BY <1>1, <2>1
  <2> QED
    BY <1>1, <1>2, <2>2
<1>5. ASSUME NEW n \in Candidates, Promote(n)
      PROVE  \/ before # NoCandidate /\ ~stays
             \/ before # active[1] /\ before = active'[1] /\ p <= Bucket[t]
  <2>0. PICK k \in DOMAIN active : active' = RemoveAt(active, k)
    BY <1>5 DEF Promote, Ranks
  <2>1. /\ k \in 1..Len(active) /\ Len(active') = Len(active) - 1
        /\ \A j \in 1..(Len(active) - 1) : active'[j] = active[Found(k, j)]
    BY <1>1, <2>0, RemovedAt DEF Found
  <2>2. \A j \in 1..Len(active) : active[j] \in Candidates
                                  /\ active[j] # NoCandidate
    BY <1>1, CanaryFacts
  <2>3. ASSUME NEW i \in 1..Len(active), before = active[i], k = i
        PROVE  before # NoCandidate /\ ~stays
    <3>1. \A j \in 1..(Len(active) - 1) :
             Found(k, j) \in 1..Len(active) /\ Found(k, j) # k
      BY <1>1, <2>1 DEF Found
    <3> QED
      BY <1>1, <2>1, <2>2, <2>3, <3>1 DEF Distinct
  <2>4. CASE Bucket[t] < p
    <3>1. before = active[1] /\ 1 \in 1..Len(active)
      BY <1>1, <1>2, <2>1, <2>4
    <3>2. CASE k # 1
      <4>1. 1 \in 1..(Len(active) - 1) /\ Found(k, 1) = 1
        BY <1>1, <2>1, <3>2 DEF Found
      <4> QED
        BY <1>1, <1>2, <2>1, <2>4, <3>1, <4>1
    <3> QED
      BY <2>3, <3>1, <3>2
  <2>5. CASE ~(Bucket[t] < p)
    <3>1. before = active[2] /\ Len(active) >= 2 /\ Bucket[t] < 10
      BY <1>1, <1>2, <2>1, <2>5
    <3>2. CASE k = 1
      <4>1. 1 \in 1..(Len(active) - 1) /\ Found(k, 1) = 2
        BY <1>1, <3>1, <3>2 DEF Found
      <4>2. active[2] # active[1]
        BY <1>1, <3>1 DEF Distinct
      <4>3. p <= Bucket[t]
        BY <1>1, <2>5
      <4> QED
        BY <2>1, <3>1, <4>1, <4>2, <4>3
    <3>3. CASE k = 2
      BY <1>1, <2>3, <3>1, <3>3
    <3>4. CASE k > 2
      <4>1. 2 \in 1..(Len(active) - 1) /\ Found(k, 2) = 2
        BY <1>1, <2>1, <3>4 DEF Found
      <4> QED
        BY <1>1, <1>2, <2>1, <2>5, <3>1, <4>1
    <3> QED
      BY <1>1, <2>1, <3>2, <3>3, <3>4
  <2> QED
    BY <2>4, <2>5
<1> QED
  BY <1>3, <1>4, <1>5 DEF CanaryNext, canaryVars, CanaryExecute,
        EvaluateAndMaybePromote, Rollback, UpdateBaselineMetrics

\* Candidates that come and go move no task of those that stay, but those of a
\* candidate that becomes the first and is asked with a share too small for it.
THEOREM TasksStayPut == CanarySpec => RoutesStable
<1>1. CanaryInv /\ [CanaryNext]_canaryVars =>
        [\A t \in CanaryTasks, p \in Percents \cup {10} :
            LET before == RouteToCanary(active, t, p)
                after == RouteToCanary(active', t, p)
                stays == \E k \in DOMAIN active' : active'[k] = before
            IN  before # after =>
                  \/ before = NoCandidate /\ after = active'[Len(active')]
                  \/ before # NoCandidate /\ ~stays
                  \/ before # active[1] /\ before = active'[1] /\ p <= Bucket[t]
        ]_canaryVars
  <2>1. \A p \in Percents \cup {10} : p \in Nat
    BY CanaryFacts
  <2> QED
    BY <2>1, RoutesKept
<1> QED
  BY <1>1, CanaryInvariance, PTL DEF CanarySpec, RoutesStable
=============================================================================
