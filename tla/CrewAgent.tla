----------------------------- MODULE CrewAgent -----------------------------
(***************************************************************************)
(* src/src/agents/crew_agent.py: CrewAgent, a manager that splits a task   *)
(* among the members of the crew, and the endpoint that adds members to    *)
(* the one crew of the process.                                            *)
(***************************************************************************)
EXTENDS AgentCall, SequencesExt

CONSTANTS
    MemberNames,            \* names of members
    Rosters,          \* sequences of names: the members of a request
    Expertises,       \* sets of words add_member may be given
    Decompositions    \* the manager's answers: lines [numbered, words]

ASSUME CrewAssumption ==
    /\ Rosters \subseteq Seq(MemberNames)
    /\ \A d \in Decompositions :
          d \in Seq([numbered : BOOLEAN, words : SUBSET STRING])

VARIABLE members      \* _members in insertion order: [name, expertise]

CrewStart == [agent |-> "crew", at |-> "decompose", subtasks |-> <<>>,
          handlers |-> <<>>, llmCalls |-> 0]

\* Where a name stands in the dict.
Rank(crew, name) == {k \in DOMAIN crew : crew[k].name = name}

\* What a member is given; "Execute the task as described." has no word of
\* anybody's expertise.
TheTask == [numbered |-> TRUE, words |-> {}]

Enlist_Last(crew, name, expertise) ==       \* faulty: a known name moves to the end
    Append(SelectSeq(crew, LAMBDA m : m.name # name),
           [name |-> name, expertise |-> expertise])

\* _members[name] = ...: a known name keeps its place in the dict.
Enlist(crew, name, expertise) ==
    LET new == [name |-> name, expertise |-> expertise]
    IN  IF Rank(crew, name) # {}
        THEN [k \in DOMAIN crew |-> IF crew[k].name = name THEN new ELSE crew[k]]
        ELSE Append(crew, new)

AddMember(name, expertise) ==
    /\ call = Idle
    /\ members' = Enlist(members, name, expertise)
    /\ UNCHANGED call

\* pop; a name that is not there changes nothing.
RemoveMember(name) ==
    /\ call = Idle
    /\ \E k \in Rank(members, name) : members' = RemoveAt(members, k)
    /\ UNCHANGED call

\* One after the other, everybody general.
EnlistAll(crew, roster) ==
    LET crews[k \in 0..Len(roster)] ==
            IF k = 0 THEN crew
            ELSE Enlist(crews[k - 1], roster[k], {"general"})
    IN  crews[Len(roster)]

\* POST /api/agents/crew: who is added stays for later requests.
ExecuteCrew(roster) ==
    /\ call = Idle
    /\ members' = EnlistAll(members, roster)
    /\ call' = CrewStart

\* The j-th of a set of line numbers.
Nth(ks, j) == CHOOSE k \in ks : Cardinality({i \in ks : i < k}) = j - 1

\* The numbered lines of the manager's answer, at most four.
Subtasks(lines) ==
    LET numbered == {k \in DOMAIN lines : lines[k].numbered}
    IN  IF numbered = {} THEN <<TheTask>>
        ELSE [j \in 1..Min({4, Cardinality(numbered)}) |->
                 lines[Nth(numbered, j)]]

Decompose(lines) ==
    /\ At("crew", "decompose")
    /\ call' = [call EXCEPT !.at = "assign", !.llmCalls = 1,
                            !.subtasks = Subtasks(lines)]
    /\ UNCHANGED members

Suits(member, subtask) == member.expertise \cap subtask.words # {}

\* faulty: the last member that suits
Assignee_Last(crew, subtask) ==
    LET suited == {k \in DOMAIN crew : Suits(crew[k], subtask)}
    IN  IF crew = <<>> THEN "nobody"
        ELSE crew[IF suited = {} THEN 1 ELSE Max(suited)].name

\* The first member whose expertise occurs in the subtask, or else the first.
Assignee(crew, subtask) ==
    LET suited == {k \in DOMAIN crew : Suits(crew[k], subtask)}
    IN  IF crew = <<>> THEN "nobody"
        ELSE crew[IF suited = {} THEN 1 ELSE Min(suited)].name

\* Whoever has done a subtask, agent_name says "manager".
Assign ==
    LET k == Len(call.handlers) + 1
        who == Assignee(members, call.subtasks[k])
    IN  /\ At("crew", "assign")
        /\ call' = [call EXCEPT
                       !.handlers = Append(@, who),
                       !.llmCalls = IF who = "nobody" THEN @ ELSE @ + 1,
                       !.at = IF k = Len(call.subtasks) THEN "synthesize"
                              ELSE "assign"]
        /\ UNCHANGED members

Synthesize ==
    /\ At("crew", "synthesize")
    /\ call' = [call EXCEPT !.at = "done", !.llmCalls = @ + 1]
    /\ UNCHANGED members

CrewReturns == Return("crew")

CrewNext ==
    \/ \E n \in MemberNames : \/ \E e \in Expertises : AddMember(n, e)
                        \/ RemoveMember(n)
    \/ \E r \in Rosters : ExecuteCrew(r)
    \/ \E d \in Decompositions : Decompose(d)
    \/ Assign
    \/ Synthesize
    \/ /\ \/ Raises("crew", {"decompose", "assign", "synthesize"})
          \/ CrewReturns
       /\ UNCHANGED members
-----------------------------------------------------------------------------
(* Properties *)

\* Who is asked first does not depend on who is added again: the relative order
\* of two members changes only when one of them leaves, and nobody leaves while
\* a call is under way.
RanksStable ==
    [][/\ \A m, n \in MemberNames :
             \A i \in Rank(members, m), j \in Rank(members, n) :
                 \A i2 \in Rank(members', m), j2 \in Rank(members', n) :
                     (i < j) <=> (i2 < j2)
       /\ \A n \in MemberNames :
             Rank(members, n) # {} /\ Rank(members', n) = {} => call = Idle
      ]_members

\* Among equals the oldest does everything: in a crew the endpoint alone has
\* built, every subtask of every call is handled by the member added first,
\* for any number of members and any words in the subtasks.
OldestOfEqualsServes ==
    call.agent = "crew" /\ call.handlers # <<>> =>
        \/ \E m, n \in ToSet(members) : m.expertise # n.expertise
        \/ \A k \in DOMAIN call.handlers :
              call.handlers[k] = IF members = <<>> THEN "nobody"
                                 ELSE members[1].name

CrewBounded == call.agent = "crew" => call.llmCalls <= 6
=============================================================================
