----------------------------- MODULE Governance -----------------------------
(***************************************************************************)
(* One proposal of governance/governance.service.ts under concurrent       *)
(* castVote, tallyProposal, executeProposal, updateProposal and            *)
(* cancelProposal calls.  A call reads the row, awaits and saves the row   *)
(* it read; save (external) overwrites it.  A process that stops is a call *)
(* that takes no further step.                                             *)
(***************************************************************************)
EXTENDS Naturals, FiniteSets, Functions

CONSTANTS
    Voters,    \* castVote calls
    Others,    \* calls of the other operations
    VoterOf, ChoiceOf,   \* the user and the choice of a castVote call
    OpOf,      \* "tally", "execute" or "change"
    ChangesTo, \* statuses that cancelProposal and updateProposal write; the
               \* update's DTO allows any
    Quorum,
    StakedAmounts  \* what upsertStake may have written last for a user

VoteChoice  == {"YES", "NO", "ABSTAIN"}
Statuses == {"DRAFT", "ACTIVE", "SUCCEEDED", "DEFEATED", "EXECUTED", "EXPIRED", "CANCELLED"}
Calls    == Voters \cup Others
Proposal == [status : Statuses, power : [VoteChoice -> Nat]]

VARIABLES
    proposal,  \* the row: status, and the power of each choice
    votes,     \* rows of governance_votes
    held,      \* the proposal each call has in memory
    power,     \* the voting power a castVote call has read
    pc

vars == <<proposal, votes, held, power, pc>>

\* createProposal
Init ==
    /\ proposal = [status |-> "ACTIVE", power |-> [c \in VoteChoice |-> 0]]
    /\ votes = {}
    /\ held  = [c \in Calls |-> proposal]
    /\ power = [c \in Calls |-> 0]
    /\ pc    = [c \in Calls |-> "start"]

Goto(c, where) == pc' = [pc EXCEPT ![c] = where]

\* getProposalOrThrow and the test of the status it returned; castVote may
\* also find its time outside of the voting window.
Admitted(c) ==
    CASE c \in Voters -> proposal.status = "ACTIVE"
      [] c \in Others /\ OpOf[c] = "execute" -> proposal.status = "SUCCEEDED"
      [] c \in Others /\ OpOf[c] = "change"  -> proposal.status \in {"DRAFT", "ACTIVE"}
      [] OTHER -> TRUE

\* The statuses the row in memory may get right after the test.
Assigned(c) ==
    CASE c \in Others /\ OpOf[c] = "execute" -> {"EXECUTED"}
      [] c \in Others /\ OpOf[c] = "change"  -> ChangesTo
      [] OTHER -> {proposal.status}

Second(c) == IF c \in Voters THEN "check"
             ELSE IF OpOf[c] = "tally" THEN "recompute" ELSE "save"

ReadProposal(c) ==
    /\ pc[c] = "start"
    /\ \/ /\ Admitted(c)
          /\ \E s \in Assigned(c) : held' = [held EXCEPT ![c] = [proposal EXCEPT !.status = s]]
          /\ Goto(c, Second(c))
       \/ /\ ~Admitted(c) \/ c \in Voters
          /\ Goto(c, "done") /\ UNCHANGED held
    /\ UNCHANGED <<proposal, votes, power>>

HasVoted(u) == \E v \in votes : v.voter = u

\* No prior vote is found, and a stake is: any amount that upsertStake has
\* written by now.
CheckVoter(c) ==
    /\ pc[c] = "check"
    /\ \/ \E amount \in StakedAmounts \ {0} :
             ~HasVoted(VoterOf[c]) /\ power' = [power EXCEPT ![c] = amount] /\ Goto(c, "insert")
       \/ (HasVoted(VoterOf[c]) \/ 0 \in StakedAmounts) /\ Goto(c, "done") /\ UNCHANGED power
    /\ UNCHANGED <<proposal, votes, held>>

\* Mutant: no unique constraint on (proposalId, voterUserId).
Unique_Never(c) == TRUE
Unique(c) == ~HasVoted(VoterOf[c])

\* The insert, which the table's unique constraint may refuse.
SaveVote(c) ==
    /\ pc[c] = "insert"
    /\ IF Unique(c)
       THEN /\ votes' = votes \cup {[call |-> c, voter |-> VoterOf[c],
                                     choice |-> ChoiceOf[c], power |-> power[c]]}
            /\ Goto(c, "recompute")
       ELSE Goto(c, "done") /\ UNCHANGED votes
    /\ UNCHANGED <<proposal, held, power>>

Sum(S) == SumFunctionOnSet([v \in S |-> v.power], S)
SumVotes(choice) == Sum({v \in votes : v.choice = choice})

\* recomputeProposalTallies up to its save.
Recompute(c) ==
    /\ pc[c] = "recompute"
    /\ held' = [held EXCEPT ![c].power = [x \in VoteChoice |-> SumVotes(x)]]
    /\ Goto(c, IF c \in Voters THEN "save" ELSE "savesums")
    /\ UNCHANGED <<proposal, votes, power>>

\* Mutants: the quorum is not tested; a tie passes.
Passed_NoQuorum(p) == p["YES"] > p["NO"]
Passed_Tie(p) == p["YES"] + p["NO"] + p["ABSTAIN"] >= Quorum /\ p["YES"] >= p["NO"]

Passed(p) == p["YES"] + p["NO"] + p["ABSTAIN"] >= Quorum /\ p["YES"] > p["NO"]

\* tallyProposal: the sums are saved, then the status decided from them.
SaveSums(c) ==
    /\ pc[c] = "savesums"
    /\ proposal' = held[c]
    /\ held' = [held EXCEPT ![c].status =
                   IF Passed(held[c].power) THEN "SUCCEEDED" ELSE "DEFEATED"]
    /\ Goto(c, "save")
    /\ UNCHANGED <<votes, power>>

SaveProposal(c) ==
    /\ pc[c] = "save"
    /\ proposal' = held[c]
    /\ Goto(c, "saved")
    /\ UNCHANGED <<votes, held, power>>

Next == \E c \in Calls :
    \/ ReadProposal(c) \/ CheckVoter(c) \/ SaveVote(c)
    \/ Recompute(c) \/ SaveSums(c) \/ SaveProposal(c)

Spec == Init /\ [][Next]_vars
-----------------------------------------------------------------------------
TypeOK ==
    /\ proposal \in Proposal /\ held \in [Calls -> Proposal]
    /\ votes \subseteq [call : Voters, voter : {VoterOf[c] : c \in Voters},
                        choice : VoteChoice, power : StakedAmounts \ {0}]
    /\ power \in [Calls -> Nat]

Overridden == \E c \in Others : /\ OpOf[c] = "change" /\ pc[c] = "saved"
                                /\ held[c].status \in {"SUCCEEDED", "EXECUTED"}

\* A proposal succeeds or is executed only on the strength of votes that were
\* cast, one per user, with a quorum among them and a majority: however votes,
\* tallies, updates and cancellations interleave and however stale the
\* row that is saved last, unless an update has written that status itself.
OutcomeIsBacked ==
    /\ \A v, w \in votes : v.voter = w.voter => v = w
    /\ proposal.status \in {"SUCCEEDED", "EXECUTED"} =>
         \/ Overridden
         \/ \E V \in SUBSET votes :
               LET For(x) == Sum({v \in V : v.choice = x})
               IN  Sum(V) >= Quorum /\ For("YES") > For("NO")
=============================================================================
