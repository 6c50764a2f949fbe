------------------------------ MODULE Services ------------------------------
(***************************************************************************)
(* The services whose promises are about safety alone.  They share neither *)
(* state nor calls, so a behaviour belongs to one of them: `service' says  *)
(* which, and the variables of the others stay as they are at the start.   *)
(* The advanced matching service is AdvancedMatching itself; the others    *)
(* are instances, whose variables keep their names where only one has it.  *)
(***************************************************************************)
EXTENDS AdvancedMatching

CONSTANTS
    EscrowCalls, NoSigner, SignerOf, Authorized, Required,             \* EscrowApproval
    Voters, Others, VoterOf, ChoiceOf, GovernanceOp, ChangesTo,        \* Governance
    Quorum, StakedAmounts,
    Bidders, NoBidder, BidAmounts, EndsAt, StartingPrice,              \* Auction
    MinBidIncrement, ReservePrice, MaxExtensions, Threshold,
    Extension, MaxNow, MaxBids, MaxRestarts, MaxReleases, MaxPending,
    KeyCalls, KeyOp, MaxUses, MaxKeys,                                 \* QuantumKeys
    StepCount, Modes, Compensable,                                     \* Saga
    MessageIds, MaxAdded,                                              \* MessageOrdering
    Sockets, Rooms, Users, NoUser, MaxPerUser, MaxRooms, MinCount,     \* ConnectionPool
    Assets, Tables, MaxHops                                            \* SwapPricing

VARIABLES
    service,
    escrow, approvals, escrowHeld, escrowPc, released, log, previous,   \* EscrowApproval
    proposal, votes, proposalHeld, power, proposalPc,                   \* Governance
    auction, bids, reserved, timer, decided, now, restarts,             \* Auction
    releases, releasedAt,
    usage, keys, keyHeld, target, fresh, keyPc,                         \* QuantumKeys
    mode, compensable, phase, at, work, seen, undo, undone, begun,      \* Saga
    enabled, exists, processing, messages, sequence, added, taken,      \* MessageOrdering
    connections, rooms, open,                                           \* ConnectionPool
    pools, from, to, queue, visited, route                              \* SwapPricing

escrowVars   == <<escrow, approvals, escrowHeld, escrowPc, released, log, previous>>
matchingVars == <<vars, serviceVars>>
proposalVars == <<proposal, votes, proposalHeld, power, proposalPc>>
auctionVars  == <<auction, bids, reserved, timer, decided, now, restarts,
                  releases, releasedAt>>
keyVars      == <<usage, keys, keyHeld, target, fresh, keyPc>>
sagaVars     == <<mode, compensable, phase, at, work, seen, undo, undone, begun>>
orderingVars == <<enabled, exists, processing, messages, sequence, added, taken>>
socketVars   == <<connections, rooms, open>>
pricingVars  == <<pools, from, to, queue, visited, route>>
servicesVars == <<service, escrowVars, matchingVars, proposalVars, auctionVars, keyVars,
                  sagaVars, orderingVars, socketVars, pricingVars>>
-----------------------------------------------------------------------------
Esc == INSTANCE EscrowApproval WITH Calls <- EscrowCalls, held <- escrowHeld, pc <- escrowPc
Gov == INSTANCE Governance WITH OpOf <- GovernanceOp, held <- proposalHeld, pc <- proposalPc
Auc == INSTANCE Auction WITH Users <- Bidders, NoUser <- NoBidder, Amounts <- BidAmounts
Key == INSTANCE QuantumKeys WITH Calls <- KeyCalls, OpOf <- KeyOp, held <- keyHeld, pc <- keyPc
Sga == INSTANCE Saga WITH Count <- StepCount
Ord == INSTANCE MessageOrdering WITH Ids <- MessageIds
Con == INSTANCE ConnectionPool
Prc == INSTANCE SwapPricing

ASSUME EscrowAssumption ==
    /\ Required \in Nat /\ NoSigner \notin Authorized

\* A castVote call has a user and a choice, any other call an operation.
ASSUME GovernanceAssumption ==
    /\ IsFiniteSet(Voters) /\ Voters \cap Others = {}
    /\ \A c \in Voters : ChoiceOf[c] \in {"YES", "NO", "ABSTAIN"}
    /\ \A c \in Others : GovernanceOp[c] \in {"tally", "execute", "change"}
    /\ ChangesTo \subseteq {"DRAFT", "ACTIVE", "SUCCEEDED", "DEFEATED", "EXECUTED",
                       "EXPIRED", "CANCELLED"}
    /\ Quorum \in Nat /\ StakedAmounts \subseteq Nat

ASSUME AuctionAssumption ==
    /\ IsFiniteSet(Bidders) /\ NoBidder \notin Bidders /\ BidAmounts \subseteq Nat \ {0}
    /\ StartingPrice \in Nat \ {0} /\ MinBidIncrement \in Nat \ {0} /\ ReservePrice \in Nat

ASSUME KeysAssumption == MaxUses \in Nat \ {0} /\ MaxKeys \in Nat \ {0}

ASSUME SagaAssumption ==
    /\ StepCount \in Nat \ {0} /\ Modes \subseteq {"sequential", "parallel"}
    /\ Compensable \subseteq SUBSET (1..StepCount)

ASSUME OrderingAssumption == MaxAdded \in Nat

ASSUME SocketsAssumption ==
    /\ IsFiniteSet(Sockets) /\ MaxPerUser \in Nat /\ NoUser \notin Users
    /\ MaxRooms \in Nat /\ MinCount \in Int /\ MinCount <= 0

ASSUME PricingAssumption ==
    /\ IsFiniteSet(Assets) /\ \A T \in Tables : T \subseteq Assets \X Assets
    /\ MaxHops \in Nat
-----------------------------------------------------------------------------
\* What a service leaves open at the start is fixed in the behaviours of the
\* others.
ServicesInit ==
    /\ service \in {"escrow", "matching", "governance", "auction", "keys",
                    "saga", "ordering", "connections", "pricing"}
    /\ Esc!Init /\ ServiceInit /\ Gov!Init /\ Auc!Init /\ Key!Init
    /\ Sga!Init /\ Ord!Init /\ Con!Init /\ Prc!Init
    /\ service # "keys" => usage = "SIGNING"
    /\ service # "saga" => mode = (CHOOSE m \in Modes : TRUE)
                           /\ compensable = (CHOOSE C \in Compensable : TRUE)
    /\ service # "pricing" => /\ from = (CHOOSE a \in Assets : TRUE) /\ to = from
                              /\ pools = (CHOOSE T \in Tables : TRUE)

EscrowStep == service = "escrow" /\ Esc!Next
    /\ UNCHANGED <<service, matchingVars, proposalVars, auctionVars, keyVars, sagaVars,
                   orderingVars, socketVars, pricingVars>>
MatchingStep == service = "matching" /\ ServiceNext
    /\ UNCHANGED <<service, escrowVars, proposalVars, auctionVars, keyVars, sagaVars,
                   orderingVars, socketVars, pricingVars>>
GovernanceStep == service = "governance" /\ Gov!Next
    /\ UNCHANGED <<service, escrowVars, matchingVars, auctionVars, keyVars, sagaVars,
                   orderingVars, socketVars, pricingVars>>
AuctionStep == service = "auction" /\ Auc!Next
    /\ UNCHANGED <<service, escrowVars, matchingVars, proposalVars, keyVars, sagaVars,
                   orderingVars, socketVars, pricingVars>>
KeysStep == service = "keys" /\ Key!Next
    /\ UNCHANGED <<service, escrowVars, matchingVars, proposalVars, auctionVars, sagaVars,
                   orderingVars, socketVars, pricingVars>>
SagaStep == service = "saga" /\ Sga!Next
    /\ UNCHANGED <<service, escrowVars, matchingVars, proposalVars, auctionVars, keyVars,
                   orderingVars, socketVars, pricingVars>>
OrderingStep == service = "ordering" /\ Ord!Next
    /\ UNCHANGED <<service, escrowVars, matchingVars, proposalVars, auctionVars, keyVars,
                   sagaVars, socketVars, pricingVars>>
ConnectionsStep == service = "connections" /\ Con!Next
    /\ UNCHANGED <<service, escrowVars, matchingVars, proposalVars, auctionVars, keyVars,
                   sagaVars, orderingVars, pricingVars>>
PricingStep == service = "pricing" /\ Prc!Next
    /\ UNCHANGED <<service, escrowVars, matchingVars, proposalVars, auctionVars, keyVars,
                   sagaVars, orderingVars, socketVars>>

ServicesNext ==
    \/ EscrowStep \/ MatchingStep \/ GovernanceStep \/ AuctionStep \/ KeysStep
    \/ SagaStep \/ OrderingStep \/ ConnectionsStep \/ PricingStep

ServicesSpec == ServicesInit /\ [][ServicesNext]_servicesVars
-----------------------------------------------------------------------------
\* Every table, list and call of the nine services holds what its type allows.
ServicesTypeOK ==
    /\ Esc!TypeOK /\ ServiceTypeOK /\ Gov!TypeOK /\ Auc!TypeOK /\ Key!TypeOK
    /\ Sga!TypeOK /\ Ord!TypeOK /\ Con!TypeOK /\ Prc!TypeOK

\* multisig-wallet.service.ts: see EscrowApproval.
ReleaseIsBacked == Esc!ReleaseIsBacked
\* governance.service.ts: see Governance.
OutcomeIsBacked == Gov!OutcomeIsBacked
\* auction.service.ts, bidding.service.ts: see Auction.
FundsFollowBids == Auc!FundsFollowBids
\* quantum-key.service.ts: see QuantumKeys.
RetiredKeysAreReplaced == Key!RetiredKeysAreReplaced
\* saga.service.ts: see Saga.
FailedSagaIsUndone == Sga!FailedSagaIsUndone
\* message-ordering.service.ts: see MessageOrdering.
AddedInOrder     == Ord!AddedInOrder
\* The same.
HandedOutInOrder == Ord!HandedOutInOrder
\* connection-pool.service.ts: see ConnectionPool.
RoomsMatchSubscriptions == Con!RoomsMatchSubscriptions
\* swap-pricing.service.ts: see SwapPricing.
RouteIsShortest == Prc!RouteIsShortest
=============================================================================
