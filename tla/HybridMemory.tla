---------------------------- MODULE HybridMemory ----------------------------
(***************************************************************************)
(* src/src/memory/memory_manager.py: HybridMemory, a sliding window of     *)
(* recent items over a store of all items, and the queries that merge the  *)
(* two.                                                                    *)
(*                                                                         *)
(* Both containers keep their items in the order they were added, so each  *)
(* is modelled as the set of its items and an item carries its place in    *)
(* that order.  The combined score of an item for a query (similarity,     *)
(* recency, importance) is an arbitrary number: a query is checked for     *)
(* every score its items may have.                                         *)
(***************************************************************************)
EXTENDS Integers, FiniteSets

CONSTANTS
    Sessions,
    Capacity,  \* short_term_capacity
    MaxAdds,   \* bound: items ever added
    Scores,    \* combined relevance scores
    Limits,    \* the values of top_k
    AnySession \* no session filter (None)

ASSUME CapacityAssumption == Capacity \in Nat \ {0}
ASSUME SessionAssumption == AnySession \notin Sessions
ASSUME QueryAssumption == Scores \subseteq Int /\ Limits \subseteq Int

VARIABLES
    added,      \* items added so far
    shortTerm,  \* _short_term
    longTerm,   \* _long_term
    cleared     \* history: items removed by clear_session

vars == <<added, shortTerm, longTerm, cleared>>

Items == [at : Nat, session : Sessions]

TypeOK ==
    /\ added \in Nat
    /\ shortTerm \subseteq Items
    /\ longTerm \subseteq Items
    /\ cleared \subseteq Items

Init ==
    /\ added = 0
    /\ shortTerm = {}
    /\ longTerm = {}
    /\ cleared = {}

Evicted_Newest ==   \* faulty: pops the wrong end
    IF Cardinality(shortTerm) < Capacity THEN {}
    ELSE {i \in shortTerm : \A j \in shortTerm : j.at <= i.at}

\* What a full deque(maxlen) drops at its left end.
Evicted ==
    IF Cardinality(shortTerm) < Capacity THEN {}
    ELSE {i \in shortTerm : \A j \in shortTerm : i.at <= j.at}

NewItem(s) == [at |-> added + 1, session |-> s]

Add(s) ==
    /\ added < MaxAdds
    /\ added' = added + 1
    /\ shortTerm' = (shortTerm \ Evicted) \cup {NewItem(s)}
    /\ longTerm' = longTerm \cup {NewItem(s)}
    /\ UNCHANGED cleared

Kept_All(S, s) == S                  \* faulty: the window is not cleaned

Kept(S, s) == {i \in S : i.session # s}

ClearSession(s) ==
    /\ longTerm' = {i \in longTerm : i.session # s}
    /\ shortTerm' = Kept(shortTerm, s)
    /\ cleared' = cleared \cup {i \in longTerm : i.session = s}
    /\ UNCHANGED added

Next == \E s \in Sessions : Add(s) \/ ClearSession(s)

Spec == Init /\ [][Next]_vars
-----------------------------------------------------------------------------
(* The queries: they change nothing. *)

\* How far the slice [:k] of a list of n elements goes: a negative k is counted
\* from the end.
Upto(k, n) == IF k < 0 THEN n + k ELSE k

\* The first n items of S, most recent first.
Newest(n, S) == {i \in S : Cardinality({j \in S : j.at > i.at}) < n}

\* The first n items of S, best score first, and in order of age for equal ones.
Outranking(i, S, score) ==
    {j \in S : \/ score[j] > score[i]
               \/ score[j] = score[i] /\ j.at < i.at}

Ranked(n, S, score) == {i \in S : Cardinality(Outranking(i, S, score)) < n}

\* recall_short_term(limit): a limit of 0 counts as no limit.
RecallShortTerm(k) ==
    IF k = 0 THEN shortTerm ELSE Newest(Upto(k, Cardinality(shortTerm)), shortTerm)

RecallLongTerm(k, s, score) ==
    LET matching == {i \in longTerm : s = AnySession \/ i.session = s}
    IN  Ranked(Upto(k, Cardinality(matching)), matching, score)

\* search: the semantic matches first, then recent items, cut at k.
Search(k, s, score) ==
    LET semantic == RecallLongTerm(k, s, score)
        recent == RecallShortTerm(k) \ semantic
        room == Upto(k, Cardinality(semantic) + Cardinality(recent))
    IN  Ranked(room, semantic, score) \cup Newest(room - Cardinality(semantic), recent)
-----------------------------------------------------------------------------
(* Properties *)

\* The window holds nothing but the newest items of the store, at most Capacity
\* of them: clearing a session leaves no item in one and not the other, and
\* leaves no hole in the window.
WindowIsNewest ==
    /\ shortTerm \subseteq longTerm
    /\ \A i \in shortTerm, j \in longTerm : j.at > i.at => j \in shortTerm
    /\ Cardinality(shortTerm) <= Capacity

\* Of the session asked for, or of all when none is, a search returns exactly
\* the semantic recall, and never more than top_k items: nothing that ranked
\* among the top_k gives way to an item of the window, and no item comes in
\* through the window that the store would not rank there.  A negative top_k
\* is excluded: it takes recalled items away.
SearchIsRecall ==
    \A k \in Limits, s \in Sessions \cup {AnySession} :
        \A score \in [longTerm -> Scores] :
            k >= 0 =>
                LET found == Search(k, s, score)
                IN  /\ {i \in found : s = AnySession \/ i.session = s} =
                            RecallLongTerm(k, s, score)
                    /\ Cardinality(found) <= k

\* "session_id: Optional session filter" (memory_manager.py:182): a search for
\* one session returns items of that session.  It does not: the window, from
\* which it takes more when the session has too few, is not filtered.
SearchInSession ==
    \A k \in Limits, s \in Sessions :
        \A score \in [longTerm -> Scores] :
            \A i \in Search(k, s, score) : i.session = s

\* No query, of whatever limit and filter, returns an item of a session that was
\* cleared after it was added.
NoGhosts ==
    \A k \in Limits, s \in Sessions \cup {AnySession} :
        \A score \in [longTerm -> Scores] :
            Search(k, s, score) \cap cleared = {}
=============================================================================
