---------------------------- MODULE DebateAgent ----------------------------
(***************************************************************************)
(* src/src/agents/debate_agent.py: DebateAgent.debate, and the endpoint    *)
(* that sets num_proposers of the one agent of the process before it.      *)
(* Scores are in tenths of a point.                                        *)
(***************************************************************************)
EXTENDS AgentCall, Sequences

CONSTANTS
    ProposerCounts,   \* num_proposers of a request
    Critiques           \* what the critic may answer

ASSUME DebateAssumption == ProposerCounts \subseteq Int /\ Critiques \subseteq Int

VARIABLE proposers    \* debate_agent.num_proposers

DefaultProposers == 3

\* asked is a history: num_proposers of the request.
DebateStart(n) == [agent |-> "debate", at |-> "propose", asked |-> n,
             proposals |-> 0, scores |-> <<>>, votes |-> <<>>,
             winner |-> 0, top |-> <<>>, llmCalls |-> 0]

CriticScore(answer) == Parse(answer, 0, 100, 50)

Total(scores) ==
    LET sums[k \in 0..Len(scores)] ==
            IF k = 0 THEN 0 ELSE sums[k - 1] + scores[k]
    IN  sums[Len(scores)]

\* The scores whose share of a hundred is whole.  int((score / total) * 100) is
\* of floats, which may fall just short of it: 2.9 of 10.0 is 28.  A share that
\* is not whole is too far from the next number for that.
Whole(scores) ==
    LET total == Total(scores)
    IN  {scores[k] : k \in {i \in DOMAIN scores :
            0 < scores[i] /\ scores[i] < total /\ (100 * scores[i]) % total = 0}}

\* The votes, with one less for the scores in short; a total of 0 is replaced
\* by 1.
Votes_Rounded(scores, short) ==     \* faulty: rounds up
    LET total == Total(scores)
    IN  [k \in DOMAIN scores |->
            IF total = 0 THEN 0 ELSE (scores[k] * 100 + total - 1) \div total]

Votes(scores, short) ==
    LET total == Total(scores)
    IN  [k \in DOMAIN scores |->
            IF total = 0 THEN 0
            ELSE (scores[k] * 100) \div total - (IF scores[k] \in short THEN 1 ELSE 0)]

\* The order of sorted(proposals, key=score, reverse=True), which keeps the
\* order of equals.
Before(scores, i, j) ==
    \/ scores[i] > scores[j]
    \/ scores[i] = scores[j] /\ i < j

Best(scores, S) == CHOOSE i \in S : \A j \in S \ {i} : Before(scores, i, j)

\* The first two of them.
Top(scores) ==
    LET first == Best(scores, DOMAIN scores)
    IN  CASE Len(scores) = 0 -> <<>>
          [] Len(scores) = 1 -> <<first>>
          [] OTHER -> <<first, Best(scores, DOMAIN scores \ {first})>>

\* Voting.  With a NaN among the scores the total is NaN, and int(nan) raises.
Vote(c, short) ==
    IF \E k \in DOMAIN c.scores : c.scores[k] = NaN
    THEN [c EXCEPT !.at = "raised"]
    ELSE LET top == Top(c.scores)
         IN  [c EXCEPT !.at = "aggregate", !.votes = Votes(c.scores, short),
                       !.winner = IF top = <<>> THEN 0 ELSE top[1],
                       !.top = top]

\* The heads of the two loops.
Advance(c, short) ==
    IF c.proposals < proposers' THEN [c EXCEPT !.at = "propose"]
    ELSE IF Len(c.scores) < c.proposals THEN [c EXCEPT !.at = "critique"]
    ELSE Vote(c, short)

Debate(n) ==
    /\ call = Idle
    /\ proposers' = n
    /\ call' = Advance(DebateStart(n), {})

Propose ==
    /\ At("debate", "propose")
    /\ UNCHANGED proposers
    /\ call' = Advance([call EXCEPT !.proposals = @ + 1, !.llmCalls = @ + 1], {})

Critique(answer) ==
    /\ At("debate", "critique")
    /\ UNCHANGED proposers
    /\ LET judged == [call EXCEPT !.scores = Append(@, CriticScore(answer)),
                                  !.llmCalls = @ + 1]
       IN  \E short \in SUBSET Whole(judged.scores) : call' = Advance(judged, short)

\* The model combines the two best proposals.
Aggregate ==
    /\ At("debate", "aggregate")
    /\ call' = [call EXCEPT !.at = "done", !.llmCalls = @ + 1]
    /\ UNCHANGED proposers

DebateReturns == Return("debate")

DebateNext ==
    \/ \E n \in ProposerCounts : Debate(n)
    \/ Propose
    \/ \E a \in Critiques : Critique(a)
    \/ Aggregate
    \/ /\ \/ Raises("debate", {"propose", "critique", "aggregate"})
          \/ DebateReturns
       /\ UNCHANGED proposers
-----------------------------------------------------------------------------
(* Properties *)

\* Every proposal the request asked for is judged and has its votes, shares of
\* a hundred in the order of the scores: rounding down loses at most one vote a
\* proposal, and nobody has more votes than the winner, who is also the first
\* of the two options the model combines.
VotesFair ==
    At("debate", "done") =>
        LET v == call.votes
            s == call.scores
        IN  /\ Len(v) = IF call.asked < 0 THEN 0 ELSE call.asked
            /\ Total(v) <= 100
            /\ Total(s) > 0 => Total(v) >= 100 - Len(v)
            /\ \A i, j \in DOMAIN v : s[i] >= s[j] => v[i] >= v[j]
            /\ v # <<>> => /\ \A i \in DOMAIN v : v[i] <= v[call.winner]
                           /\ call.top[1] = call.winner
                           /\ Len(call.top) = IF Len(v) = 1 THEN 1 ELSE 2
                           /\ \A i \in DOMAIN v :
                                 i \in {call.top[k] : k \in DOMAIN call.top}
                                 \/ s[i] <= s[call.top[Len(call.top)]]

DebateBounded ==
    call.agent = "debate" =>
        call.llmCalls <= 1 + 2 * (IF call.asked < 0 THEN 0 ELSE call.asked)
=============================================================================
