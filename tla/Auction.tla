------------------------------ MODULE Auction -------------------------------
(***************************************************************************)
(* One auction of bidding/: auction.service.ts, auction-timer.service.ts   *)
(* and bidding.service.ts.  placeBid and settleAuction are transactions    *)
(* that lock the row; everything else decides on an unlocked read and      *)
(* writes later, when the row may have changed: `decided' holds those      *)
(* writes.  Funds are released in the transaction of the settlement when   *)
(* there is a winner and in one of their own otherwise, and a release that *)
(* fails for a user is only logged.                                        *)
(*                                                                         *)
(* The balance service is external: reserveFunds and releaseFunds add to   *)
(* and take from what is reserved.  So is the bid table: bid.entity.ts has *)
(* no auctionId, status or reservedAmount column, and the table is taken   *)
(* as placeBid and the releases use it, with the bids of one auction.      *)
(***************************************************************************)
EXTENDS Integers, Sequences, FiniteSetsExt

CONSTANTS
    Users, NoUser, Amounts,
    EndsAt, StartingPrice, MinBidIncrement, ReservePrice, MaxExtensions,
    Threshold,   \* of the ENDING phase and of the anti-snipe window
    Extension,   \* antiSnipingExtensionSeconds
    MaxNow, MaxBids, MaxRestarts,
    MaxReleases, \* releases of funds after which no cancellation begins
    MaxPending   \* bounds; the last one for each kind of call in `decided'

VARIABLES
    auction,      \* the row
    bids,         \* the rows of the bid table, by createdAt
    reserved,     \* funds reserved for each user
    timer,        \* the interval of the auction: "on", "off", or "last" when it
                  \* was cleared and a tick that it had begun may still read
    decided,      \* writes and calls that follow an await, numbered per kind
    now, restarts,
    releases, releasedAt  \* history: releases of funds, and bids at the last one

vars == <<auction, bids, reserved, timer, decided, now, restarts,
          releases, releasedAt>>
history == <<releases, releasedAt>>

Init ==
    /\ auction = [status |-> "scheduled", endsAt |-> EndsAt, extensions |-> 0,
                  high |-> 0, bidder |-> NoUser, winner |-> NoUser, winningBid |-> 0]
    /\ bids = <<>> /\ reserved = [u \in Users |-> 0]
    /\ timer = "off" /\ decided = {} /\ now = 0 /\ restarts = 0
    /\ releases = 0 /\ releasedAt = 0

Closed == {"ended", "settled", "cancelled"}

\* What follows the write of a call in the same call.
Then == [cancel |-> "release", end |-> "settle"]

\* What a call of each kind may have become.
Stages == [start |-> {"start"}, cancel |-> {"cancel", "release"},
           end |-> {"end", "settle", "closing"}, ending |-> {"ending"}]

Pending(kind) == {op \in decided : op.kind \in Stages[kind]}
Numbers(kind) == (1..MaxPending[kind]) \ {op.number : op \in Pending(kind)}
Op(kind)      == [kind |-> kind, number |-> Min(Numbers(kind))]
Begins(kind)  == Numbers(kind) # {}

\* A settlement without a winner holds the row until its transaction ends.
RowLocked == \E op \in decided : op.kind = "closing"

Stopped == IF timer = "on" THEN "last" ELSE timer

\* startAuction and cancelAuction up to their update.
StartAuction ==
    /\ auction.status = "scheduled" /\ Begins("start")
    /\ decided' = decided \cup {Op("start")}
    /\ UNCHANGED <<auction, bids, reserved, timer, now, restarts, history>>

CancelAuction ==
    /\ auction.status \notin {"settled", "ended"} /\ releases < MaxReleases /\ Begins("cancel")
    /\ decided' = decided \cup {Op("cancel")}
    /\ timer' = Stopped
    /\ UNCHANGED <<auction, bids, reserved, now, restarts, history>>

\* tick: the row is read, and what it says may lead to a write.
Tick ==
    /\ timer # "off"
    /\ \/ /\ auction.status \in Closed
          /\ timer' = (IF timer = "on" THEN "last" ELSE "off") /\ UNCHANGED decided
       \/ /\ auction.status \notin Closed /\ now >= auction.endsAt /\ Begins("end")
          /\ timer' = (IF timer = "on" THEN "last" ELSE "off")
          /\ decided' = decided \cup {Op("end")}
       \/ /\ auction.status = "active" /\ now < auction.endsAt
          /\ auction.endsAt - now <= Threshold /\ Begins("ending")
          /\ timer' = (IF timer = "on" THEN "on" ELSE "off")
          /\ decided' = decided \cup {Op("ending")}
    /\ UNCHANGED <<auction, bids, reserved, now, restarts, history>>

\* extendIfAntiSnipe, called after each bid: the read and its tests.
CheckAntiSnipe(op) ==
    /\ op.kind = "snipe"
    /\ decided' = (decided \ {op}) \cup
          IF /\ auction.status = "active" /\ auction.extensions < MaxExtensions
             /\ auction.endsAt - now <= Threshold
          THEN {[kind |-> "extend", number |-> op.number, at |-> auction.endsAt + Extension,
                 extensions |-> auction.extensions + 1]}
          ELSE {}
    /\ UNCHANGED <<auction, bids, reserved, timer, now, restarts, history>>

\* The update, and what follows it in the same call.
Write(op) ==
    /\ ~RowLocked
    /\ op.kind \in {"start", "cancel", "end", "ending", "extend"}
    /\ auction' = CASE op.kind = "start"  -> [auction EXCEPT !.status = "active"]
                    [] op.kind = "cancel" -> [auction EXCEPT !.status = "cancelled"]
                    [] op.kind = "end"    -> [auction EXCEPT !.status = "ended"]
                    [] op.kind = "ending" -> [auction EXCEPT !.status = "ending"]
                    [] op.kind = "extend" -> [auction EXCEPT !.status = "active",
                          !.endsAt = op.at, !.extensions = op.extensions]
    /\ timer' = IF op.kind = "start" THEN "on" ELSE timer
    /\ decided' = (decided \ {op}) \cup
          {[op EXCEPT !.kind = Then[@]] : o \in {op.kind} \cap DOMAIN Then}
    /\ UNCHANGED <<bids, reserved, now, restarts, history>>

BidsOf(u)  == {bids[i].amount : i \in {j \in DOMAIN bids : bids[j].user = u}}
Highest(u) == Max({0} \cup BidsOf(u))
LastBid(u) == IF BidsOf(u) = {} THEN 0
              ELSE bids[Max({j \in DOMAIN bids : bids[j].user = u})].amount

\* Mutant: the increment and the highest bid are not looked at.
MinBid_Starting == StartingPrice
MinBid == IF auction.high = 0 THEN StartingPrice ELSE auction.high + MinBidIncrement

\* Mutant: the reservation of the bid it supersedes is kept.
Reserve_KeepsOld(u, amount) == reserved' = [reserved EXCEPT ![u] = @ + amount]

Reserve(u, amount) == reserved' = [reserved EXCEPT ![u] = @ + amount - LastBid(u)]

\* placeBid, a transaction on the locked row.
PlaceBid(u, amount) ==
    /\ ~RowLocked
    /\ auction.status \in {"active", "ending"} /\ now < auction.endsAt
    /\ amount >= MinBid /\ Len(bids) < MaxBids
    /\ Reserve(u, amount)
    /\ bids' = Append(bids, [user |-> u, amount |-> amount])
    /\ auction' = [auction EXCEPT !.high = amount, !.bidder = u]
    /\ decided' = decided \cup {[kind |-> "snipe", number |-> Len(bids)]}
    /\ UNCHANGED <<timer, now, restarts, history>>

\* releaseAllReservedFunds and releaseLosingBidReservations: of each user the
\* highest bid, except of those for whom releaseFunds throws.
Release(users) ==
    /\ \E S \in SUBSET users :
          reserved' = [u \in Users |-> reserved[u] - IF u \in S THEN Highest(u) ELSE 0]
    /\ releases' = releases + 1 /\ releasedAt' = Len(bids)

\* The filter of releaseLosingBidReservations is meant to leave out the winner.
\* A bid's userId is a number and currentHighestBidderId a string, so that !==
\* holds for every bid: the winner's reservation is released with the others.
Losers == Users

ReleaseCancelled(op) ==
    /\ op.kind = "release"
    /\ decided' = decided \ {op}
    /\ Release(Users)
    /\ UNCHANGED <<auction, bids, timer, now, restarts>>

\* settleAuction ends without an effect of its own: the auction was settled or
\* cancelled, or a statement or the commit failed, which is only logged.
LeaveUnsettled(op) ==
    /\ op.kind \in {"settle", "closing"}
    /\ op.kind = "settle" => ~RowLocked
    /\ decided' = decided \ {op}
    /\ UNCHANGED <<auction, bids, reserved, timer, now, restarts, history>>

HasWinner == auction.bidder # NoUser /\ auction.high >= ReservePrice

\* With a winner the row and the funds change in one transaction.
SettleWithWinner(op) ==
    /\ op.kind = "settle" /\ ~RowLocked
    /\ auction.status \notin {"settled", "cancelled"} /\ HasWinner
    /\ auction' = [auction EXCEPT !.status = "settled",
          !.winner = auction.bidder, !.winningBid = auction.high]
    /\ Release(Losers)
    /\ decided' = decided \ {op}
    /\ UNCHANGED <<bids, timer, now, restarts>>

\* Without one the funds are released and committed first, by a transaction
\* inside the one that holds the row,
ReleaseUnsold(op) ==
    /\ op.kind = "settle" /\ ~RowLocked
    /\ auction.status \notin {"settled", "cancelled"} /\ ~HasWinner
    /\ Release(Users)
    /\ decided' = (decided \ {op}) \cup {[op EXCEPT !.kind = "closing"]}
    /\ UNCHANGED <<auction, bids, timer, now, restarts>>

\* and the row when that one commits.
CloseUnsold(op) ==
    /\ op.kind = "closing"
    /\ auction' = [auction EXCEPT !.status = "settled"]
    /\ decided' = decided \ {op}
    /\ UNCHANGED <<bids, reserved, timer, now, restarts, history>>

\* settleAuction on the locked row, called on AUCTION_ENDED_EVENT.
SettleAuction(op) ==
    LeaveUnsettled(op) \/ SettleWithWinner(op) \/ ReleaseUnsold(op) \/ CloseUnsold(op)

TimePasses ==
    /\ now < MaxNow /\ now' = now + 1
    /\ UNCHANGED <<auction, bids, reserved, timer, decided, restarts, history>>

\* The process stops; onModuleInit resumes the timer of a running auction, and
\* marks one that ended meanwhile, which nobody settles.
Restart ==
    /\ restarts < MaxRestarts /\ restarts' = restarts + 1
    /\ decided' = {}
    /\ timer' = IF auction.status \in {"active", "ending"} /\ auction.endsAt > now
                THEN "on" ELSE "off"
    /\ auction' = IF auction.status \in {"active", "ending"} /\ auction.endsAt <= now
                  THEN [auction EXCEPT !.status = "ended"] ELSE auction
    /\ UNCHANGED <<bids, reserved, now, history>>

Next ==
    \/ StartAuction \/ CancelAuction \/ Tick \/ TimePasses \/ Restart
    \/ \E op \in decided : CheckAntiSnipe(op) \/ Write(op) \/ ReleaseCancelled(op) \/ SettleAuction(op)
    \/ \E u \in Users, amount \in Amounts : PlaceBid(u, amount)

Spec == Init /\ [][Next]_vars
-----------------------------------------------------------------------------
TypeOK ==
    /\ auction.status \in {"scheduled", "active", "ending"} \cup Closed
    /\ auction.bidder \in Users \cup {NoUser} /\ auction.high \in {0} \cup Amounts
    /\ reserved \in [Users -> Int] /\ timer \in {"on", "off", "last"}

\* The row names the highest bid and its bidder; a winner has made the bid it
\* won with, which meets the reserve price; and the reservations follow the
\* bids: each bidder's last bid until funds are released, and after one release
\* that or nothing, since what a release takes is what was reserved.  Ticks,
\* extensions and cancellations that write late, a settlement that fails after
\* its release and a restart do not change that; a second release, and a bid on
\* an auction that a late write has reopened, may.
FundsFollowBids ==
    /\ auction.high = Max({0} \cup UNION {BidsOf(u) : u \in Users})
    /\ auction.bidder # NoUser => auction.high = LastBid(auction.bidder)
    /\ auction.winner # NoUser => /\ auction.winningBid >= ReservePrice
                                  /\ auction.winningBid \in BidsOf(auction.winner)
    /\ releases = 0 => \A u \in Users : reserved[u] = LastBid(u)
    /\ releases = 1 /\ releasedAt = Len(bids) =>
          \A u \in Users : reserved[u] \in {0, LastBid(u)}
=============================================================================
