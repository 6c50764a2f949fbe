--------------------------- MODULE EscrowApproval ---------------------------
(***************************************************************************)
(* One escrow of trading/multisig-wallet.service.ts: concurrent            *)
(* submitApproval and executeEscrow calls over the escrow's row, the       *)
(* approvals table and the audit log.  A call reads the row, awaits and    *)
(* saves the row it read; save (external) overwrites the whole row.  A     *)
(* process that stops is a call that takes no further step.                *)
(***************************************************************************)
EXTENDS Naturals, FiniteSets, Sequences

CONSTANTS
    Calls,        \* calls of submitApproval and executeEscrow
    SignerOf,     \* the signer an approval call is for, NoSigner for executeEscrow
    NoSigner,
    Authorized,   \* signers of the wallet whose proof passes the policy
    Required      \* requiredApprovals

VARIABLES
    escrow,       \* the row: status and approvedCount
    approvals,    \* rows of multisig_approvals: <<call, signer>>
    held,         \* the escrow row each call has in memory
    pc,
    released,     \* how often releaseEscrow was called for the escrow
    log,          \* the audit log: what each entry holds as its predecessor
    previous      \* the last entry a call has read

vars == <<escrow, approvals, held, pc, released, log, previous>>

Approving == {c \in Calls : SignerOf[c] # NoSigner}
Escrow    == [status: {"PENDING_APPROVAL", "APPROVED", "EXECUTED", "EXPIRED"}, count: Nat]

Init ==
    /\ escrow    = [status |-> "PENDING_APPROVAL", count |-> 0]
    /\ approvals = {}
    /\ held      = [c \in Calls |-> escrow]
    /\ pc        = [c \in Calls |-> "start"]
    /\ released  = 0
    /\ log       = <<>>
    /\ previous  = [c \in Calls |-> 0]

Goto(c, where) == pc' = [pc EXCEPT ![c] = where]
Throw(c)       == Goto(c, "thrown")

\* getEscrowById and the tests on what it returned; an expired escrow is saved
\* as such before the call throws.
ReadEscrow(c) ==
    /\ pc[c] = "start"
    /\ held' = [held EXCEPT ![c] = escrow]
    /\ \/ /\ c \in Approving /\ escrow.status = "PENDING_APPROVAL"
          /\ Goto(c, "check") \/ Goto(c, "expire")
       \/ /\ c \notin Approving /\ escrow.status = "APPROVED"
          /\ Goto(c, "release")
       \/ /\ escrow.status # IF c \in Approving THEN "PENDING_APPROVAL" ELSE "APPROVED"
          /\ Throw(c)
    /\ UNCHANGED <<escrow, approvals, released, log, previous>>

SaveExpired(c) ==
    /\ pc[c] = "expire"
    /\ escrow' = [held[c] EXCEPT !.status = "EXPIRED"]
    /\ Throw(c)
    /\ UNCHANGED <<approvals, held, released, log, previous>>

Approved(s) == \E r \in approvals : r[2] = s

\* The signer is authorized, its proof passes, and it has no approval yet.
CheckSigner(c) ==
    /\ pc[c] = "check"
    /\ IF SignerOf[c] \in Authorized /\ ~Approved(SignerOf[c])
       THEN Goto(c, "insert") ELSE Throw(c)
    /\ UNCHANGED <<escrow, approvals, held, released, log, previous>>

\* Mutant: no unique index on (escrowId, signerAddress).
InsertApproval_Always(c) ==
    /\ pc[c] = "insert"
    /\ approvals' = approvals \cup {<<c, SignerOf[c]>>}
    /\ Goto(c, "count")
    /\ UNCHANGED <<escrow, held, released, log, previous>>

\* approvalRepo.save: the table's unique index refuses a second row of a signer.
InsertApproval(c) ==
    /\ pc[c] = "insert"
    /\ \/ /\ ~Approved(SignerOf[c])
          /\ approvals' = approvals \cup {<<c, SignerOf[c]>>}
          /\ Goto(c, "count")
       \/ /\ Approved(SignerOf[c])
          /\ Throw(c)
          /\ UNCHANGED approvals
    /\ UNCHANGED <<escrow, held, released, log, previous>>

\* The approvals are counted, and the row in memory follows.
CountApprovals(c) ==
    /\ pc[c] = "count"
    /\ LET n == Cardinality(approvals)
       IN  held' = [held EXCEPT ![c] =
               [status |-> IF n >= Required THEN "APPROVED" ELSE @.status, count |-> n]]
    /\ Goto(c, "save")
    /\ UNCHANGED <<escrow, approvals, released, log, previous>>

SaveEscrow(c) ==
    /\ pc[c] = "save"
    /\ escrow' = held[c]
    /\ Goto(c, "audit")
    /\ UNCHANGED <<approvals, held, released, log, previous>>

\* executeEscrow: the contract is called if one is configured, and may fail.
ReleaseEscrow(c) ==
    /\ pc[c] = "release"
    /\ \/ /\ released' = released + 1
          /\ held' = [held EXCEPT ![c].status = "EXECUTED"]
          /\ Goto(c, "save")
       \/ /\ Throw(c)
          /\ UNCHANGED <<held, released>>
    /\ UNCHANGED <<escrow, approvals, log, previous>>

\* writeAudit reads the last entry and appends one that names it.
ReadLastEntry(c) ==
    /\ pc[c] = "audit"
    /\ previous' = [previous EXCEPT ![c] = Len(log)]
    /\ Goto(c, "append")
    /\ UNCHANGED <<escrow, approvals, held, released, log>>

AppendEntry(c) ==
    /\ pc[c] = "append"
    /\ log' = Append(log, previous[c])
    /\ Goto(c, "returned")
    /\ UNCHANGED <<escrow, approvals, held, released, previous>>

Next == \E c \in Calls :
    \/ ReadEscrow(c) \/ SaveExpired(c) \/ CheckSigner(c) \/ InsertApproval(c)
    \/ CountApprovals(c) \/ SaveEscrow(c) \/ ReleaseEscrow(c)
    \/ ReadLastEntry(c) \/ AppendEntry(c)

Spec == Init /\ [][Next]_vars
-----------------------------------------------------------------------------
TypeOK ==
    /\ escrow \in Escrow /\ held \in [Calls -> Escrow]
    /\ approvals \subseteq Calls \X Authorized
    /\ released \in Nat /\ log \in Seq(Nat)

\* Nothing is released, and no row or call says it may be, before as many
\* different authorized signers have approved as the escrow requires: whatever
\* calls interleave, however stale the row that is saved last.
ReleaseIsBacked ==
    released > 0 \/ (\E r \in {escrow} \cup {held[c] : c \in Calls} :
                        r.status \in {"APPROVED", "EXECUTED"})
    => \E S \in SUBSET Authorized :
          /\ Cardinality(S) >= Required
          /\ \A s \in S : Approved(s)
=============================================================================
