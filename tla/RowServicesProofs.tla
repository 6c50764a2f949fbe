------------------------- MODULE RowServicesProofs --------------------------
(***************************************************************************)
(* Proofs about the services whose calls read database rows, await and     *)
(* save what they read: for any calls, however they interleave.  In the    *)
(* end, the inductive invariants of all nine services together.             *)
(***************************************************************************)
EXTENDS MemoryServicesProofs, AdvancedMatchingProofs

-----------------------------------------------------------------------------
(* Escrow *)

\* The instance's Cardinality is the one the library's theorems are about.
LEMMA EscrowCardinality == \A S : Esc!Cardinality(S) = Cardinality(S)
BY DEF Esc!Cardinality, Cardinality

Signed == {r[2] : r \in approvals}

\* Enough signers have approved.
Backed == Cardinality(Signed) >= Required

\* The unique index: as many signers as rows.
OneRowEach ==
    /\ approvals \subseteq EscrowCalls \X Authorized
    /\ IsFiniteSet(approvals) /\ IsFiniteSet(Signed)
    /\ Cardinality(Signed) = Cardinality(approvals)

Says(r) == r.status \in {"APPROVED", "EXECUTED"} => Backed

\* Whoever holds or has read an approved escrow did so when it was backed.
EscrowInv ==
    /\ Esc!TypeOK /\ OneRowEach
    /\ Says(escrow) /\ \A c \in EscrowCalls : Says(escrowHeld[c])
    /\ released > 0 => Backed
    /\ \A c \in EscrowCalls : escrowPc[c] = "release" => Backed
    /\ \A c \in EscrowCalls : escrowPc[c] = "insert" => SignerOf[c] \in Authorized
    /\ escrowPc \in [EscrowCalls -> {"start", "check", "expire", "insert", "count", "save", "release",
                         "audit", "append", "returned", "thrown"}]
    /\ previous \in [EscrowCalls -> Nat]

LEMMA EscrowInit == Esc!Init => EscrowInv
<1> SUFFICES ASSUME Esc!Init PROVE EscrowInv OBVIOUS
<1>1. approvals = {} /\ Signed = {} BY DEF Esc!Init, Signed
<1>2. IsFiniteSet({}) /\ Cardinality({}) = 0 BY FS_EmptySet
<1>3. OneRowEach BY <1>1, <1>2 DEF OneRowEach
<1>4. escrow = [status |-> "PENDING_APPROVAL", count |-> 0] /\ escrow \in Esc!Escrow
  BY DEF Esc!Init, Esc!Escrow
<1>5. Esc!TypeOK BY <1>1, <1>4 DEF Esc!Init, Esc!TypeOK
<1> QED BY <1>3, <1>4, <1>5 DEF Esc!Init, EscrowInv, Says

\* While the approvals do not change, neither does what they back.
LEMMA SameApprovals ==
  ASSUME UNCHANGED approvals
  PROVE  Signed' = Signed /\ (Backed' <=> Backed) /\ (OneRowEach => OneRowEach')
  BY DEF Signed, Backed, OneRowEach

\* Only InsertApproval changes the approvals, by a signer who had none.
LEMMA InsertKeeps ==
  ASSUME EscrowInv, NEW c \in EscrowCalls, Esc!InsertApproval(c)
  PROVE  EscrowInv'
<1> DEFINE s == SignerOf[c]
<1>0. /\ escrowPc[c] = "insert" /\ s \in Authorized /\ OneRowEach
      /\ UNCHANGED <<escrow, escrowHeld, released, log, previous>>
  BY DEF Esc!InsertApproval, EscrowInv
<1>1. OneRowEach' /\ (Backed => Backed')
  <2>1. CASE ~Esc!Approved(s)
    <3>1. approvals' = approvals \cup {<<c, s>>} BY <2>1 DEF Esc!InsertApproval
    <3>2. Signed' = Signed \cup {s}
      <4>1. \A x \in Signed' : x \in Signed \/ x = s BY <3>1 DEF Signed
      <4>2. \A x \in Signed : x \in Signed' BY <3>1 DEF Signed
      <4>3. <<c, s>> \in approvals' /\ <<c, s>>[2] = s BY <3>1
      <4>4. s \in Signed' BY <4>3 DEF Signed
      <4> QED BY <4>1, <4>2, <4>4
    <3>3. <<c, s>> \notin approvals /\ s \notin Signed BY <2>1 DEF Esc!Approved, Signed
    <3>4. /\ IsFiniteSet(approvals) /\ IsFiniteSet(Signed)
          /\ Cardinality(approvals) \in Nat /\ Cardinality(Signed) \in Nat
      BY <1>0, FS_CardinalityType DEF OneRowEach
    <3>5. IsFiniteSet(approvals') /\ Cardinality(approvals') = Cardinality(approvals) + 1
      BY <3>1, <3>3, <3>4, FS_AddElement
    <3>6. IsFiniteSet(Signed') /\ Cardinality(Signed') = Cardinality(Signed) + 1
      BY <3>2, <3>3, <3>4, FS_AddElement
    <3>7. approvals' \subseteq EscrowCalls \X Authorized BY <1>0, <3>1 DEF OneRowEach
    <3>8. Cardinality(Signed') = Cardinality(approvals')
      BY <1>0, <3>5, <3>6 DEF OneRowEach
    <3>9. Backed => Backed' BY <3>4, <3>6, EscrowAssumption DEF Backed
    <3> QED BY <3>5, <3>6, <3>7, <3>8, <3>9 DEF OneRowEach
  <2>2. CASE Esc!Approved(s)
    <3>1. UNCHANGED approvals BY <2>2 DEF Esc!InsertApproval
    <3> QED BY <1>0, <3>1, SameApprovals
  <2> QED BY <2>1, <2>2
<1>2. Esc!TypeOK' BY <1>0, <1>1 DEF EscrowInv, Esc!TypeOK, OneRowEach
<1>3. escrowPc' = [escrowPc EXCEPT ![c] = "count"] \/ escrowPc' = [escrowPc EXCEPT ![c] = "thrown"]
  BY DEF Esc!InsertApproval, Esc!Goto, Esc!Throw
<1>4. \A d \in EscrowCalls : (escrowPc'[d] = "release" => escrowPc[d] = "release") /\ (escrowPc'[d] = "insert" => escrowPc[d] = "insert")
  BY <1>3 DEF EscrowInv
<1>5. escrowPc' \in [EscrowCalls -> {"start", "check", "expire", "insert", "count", "save", "release",
                         "audit", "append", "returned", "thrown"}]
  BY <1>3 DEF EscrowInv
<1> QED BY <1>0, <1>1, <1>2, <1>4, <1>5 DEF EscrowInv, Says

\* As many rows as required are as many signers.
LEMMA CountKeeps ==
  ASSUME EscrowInv, NEW c \in EscrowCalls, Esc!CountApprovals(c)
  PROVE  EscrowInv'
<1> DEFINE n == Cardinality(approvals)
           new == [status |-> IF n >= Required THEN "APPROVED" ELSE escrowHeld[c].status, count |-> n]
<1>1. /\ escrowHeld' = [escrowHeld EXCEPT ![c] = new] /\ escrowPc' = [escrowPc EXCEPT ![c] = "save"]
      /\ UNCHANGED <<escrow, approvals, released, log, previous>>
  BY EscrowCardinality DEF Esc!CountApprovals, Esc!Goto
<1>2. n \in Nat BY FS_CardinalityType DEF EscrowInv, OneRowEach
<1>3. escrowHeld[c] \in Esc!Escrow BY DEF EscrowInv, Esc!TypeOK
<1>4. new \in Esc!Escrow BY <1>2, <1>3 DEF Esc!Escrow
<1>5. Says(new)
  <2>1. CASE n >= Required
    BY <2>1 DEF Says, Backed, EscrowInv, OneRowEach
  <2>2. CASE ~(n >= Required)
    BY <2>2 DEF Says, EscrowInv
  <2> QED BY <2>1, <2>2
<1>6. Esc!TypeOK' BY <1>1, <1>4 DEF EscrowInv, Esc!TypeOK
<1>7. OneRowEach' /\ (Backed' <=> Backed) BY <1>1, SameApprovals DEF EscrowInv
<1>8. \A d \in EscrowCalls : Says(escrowHeld[d])'
  <2> TAKE d \in EscrowCalls
  <2>1. escrowHeld'[d] = IF d = c THEN new ELSE escrowHeld[d] BY <1>1 DEF EscrowInv, Esc!TypeOK
  <2> QED BY <1>5, <1>7, <2>1 DEF EscrowInv, Says
<1>9. \A d \in EscrowCalls : (escrowPc'[d] = "release" => escrowPc[d] = "release") /\ (escrowPc'[d] = "insert" => escrowPc[d] = "insert")
  BY <1>1 DEF EscrowInv
<1>10. escrowPc' \in [EscrowCalls -> {"start", "check", "expire", "insert", "count", "save", "release",
                          "audit", "append", "returned", "thrown"}]
  BY <1>1 DEF EscrowInv
<1> QED BY <1>1, <1>6, <1>7, <1>8, <1>9, <1>10 DEF EscrowInv, Says

\* The other actions: rows and copies change, the approvals do not.
LEMMA ReadKeeps ==
  ASSUME EscrowInv, NEW c \in EscrowCalls, Esc!ReadEscrow(c)
  PROVE  EscrowInv'
<1>1. /\ escrowHeld' = [escrowHeld EXCEPT ![c] = escrow]
      /\ UNCHANGED <<escrow, approvals, released, log, previous>>
  BY DEF Esc!ReadEscrow
<1>2. \/ escrowPc' = [escrowPc EXCEPT ![c] = "check"] \/ escrowPc' = [escrowPc EXCEPT ![c] = "expire"]
      \/ escrowPc' = [escrowPc EXCEPT ![c] = "thrown"]
      \/ escrowPc' = [escrowPc EXCEPT ![c] = "release"] /\ escrow.status = "APPROVED"
  BY DEF Esc!ReadEscrow, Esc!Goto, Esc!Throw
<1>3. Esc!TypeOK' BY <1>1 DEF EscrowInv, Esc!TypeOK
<1>4. OneRowEach' /\ (Backed' <=> Backed) BY <1>1, SameApprovals DEF EscrowInv
<1>5. \A d \in EscrowCalls : escrowHeld'[d] = IF d = c THEN escrow ELSE escrowHeld[d]
  BY <1>1 DEF EscrowInv, Esc!TypeOK
<1>6. \A d \in EscrowCalls : Says(escrowHeld[d])' BY <1>4, <1>5 DEF EscrowInv, Says
<1>7. \A d \in EscrowCalls : escrowPc'[d] = "release" => Backed
  BY <1>2 DEF EscrowInv, Says
<1>8. \A d \in EscrowCalls : escrowPc'[d] = "insert" => escrowPc[d] = "insert"
  BY <1>2 DEF EscrowInv
<1>9. escrowPc' \in [EscrowCalls -> {"start", "check", "expire", "insert", "count", "save", "release",
                         "audit", "append", "returned", "thrown"}]
  BY <1>2 DEF EscrowInv
<1> QED BY <1>1, <1>3, <1>4, <1>6, <1>7, <1>8, <1>9 DEF EscrowInv, Says

LEMMA SaveKeeps ==
  ASSUME EscrowInv, NEW c \in EscrowCalls, Esc!SaveExpired(c) \/ Esc!SaveEscrow(c)
  PROVE  EscrowInv'
<1>1. /\ escrow' = escrowHeld[c] \/ escrow' = [escrowHeld[c] EXCEPT !.status = "EXPIRED"]
      /\ escrowPc' = [escrowPc EXCEPT ![c] = "thrown"] \/ escrowPc' = [escrowPc EXCEPT ![c] = "audit"]
      /\ UNCHANGED <<approvals, escrowHeld, released, log, previous>>
  BY DEF Esc!SaveExpired, Esc!SaveEscrow, Esc!Goto, Esc!Throw
<1>2. escrowHeld[c] \in Esc!Escrow /\ Says(escrowHeld[c]) BY DEF EscrowInv, Esc!TypeOK
<1>3. escrow' \in Esc!Escrow /\ (escrow'.status \in {"APPROVED", "EXECUTED"} => Backed)
  BY <1>1, <1>2 DEF Esc!Escrow, Says
<1>4. Esc!TypeOK' BY <1>1, <1>3 DEF EscrowInv, Esc!TypeOK
<1>5. OneRowEach' /\ (Backed' <=> Backed) BY <1>1, SameApprovals DEF EscrowInv
<1>6. \A d \in EscrowCalls : (escrowPc'[d] = "release" => escrowPc[d] = "release") /\ (escrowPc'[d] = "insert" => escrowPc[d] = "insert")
  BY <1>1 DEF EscrowInv
<1>7. escrowPc' \in [EscrowCalls -> {"start", "check", "expire", "insert", "count", "save", "release",
                         "audit", "append", "returned", "thrown"}]
  BY <1>1 DEF EscrowInv
<1> QED BY <1>1, <1>3, <1>4, <1>5, <1>6, <1>7 DEF EscrowInv, Says

LEMMA CheckKeeps ==
  ASSUME EscrowInv, NEW c \in EscrowCalls, Esc!CheckSigner(c)
  PROVE  EscrowInv'
<1>1. /\ \/ escrowPc' = [escrowPc EXCEPT ![c] = "insert"] /\ SignerOf[c] \in Authorized
         \/ escrowPc' = [escrowPc EXCEPT ![c] = "thrown"]
      /\ UNCHANGED <<escrow, approvals, escrowHeld, released, log, previous>>
  BY DEF Esc!CheckSigner, Esc!Goto, Esc!Throw
<1>2. OneRowEach' /\ (Backed' <=> Backed) BY <1>1, SameApprovals DEF EscrowInv
<1>3. Esc!TypeOK' BY <1>1 DEF EscrowInv, Esc!TypeOK
<1>4. \A d \in EscrowCalls : (escrowPc'[d] = "release" => escrowPc[d] = "release")
                       /\ (escrowPc'[d] = "insert" => SignerOf[d] \in Authorized)
  BY <1>1 DEF EscrowInv
<1>5. escrowPc' \in [EscrowCalls -> {"start", "check", "expire", "insert", "count", "save", "release",
                         "audit", "append", "returned", "thrown"}]
  BY <1>1 DEF EscrowInv
<1> QED BY <1>1, <1>2, <1>3, <1>4, <1>5 DEF EscrowInv, Says

LEMMA ReleaseKeeps ==
  ASSUME EscrowInv, NEW c \in EscrowCalls, Esc!ReleaseEscrow(c)
  PROVE  EscrowInv'
<1>1. Backed BY DEF Esc!ReleaseEscrow, EscrowInv
<1>2. /\ UNCHANGED <<escrow, approvals, log, previous>>
      /\ released' \in Nat
      /\ escrowHeld' = [escrowHeld EXCEPT ![c].status = "EXECUTED"] \/ escrowHeld' = escrowHeld
      /\ escrowPc' = [escrowPc EXCEPT ![c] = "save"] \/ escrowPc' = [escrowPc EXCEPT ![c] = "thrown"]
  BY DEF Esc!ReleaseEscrow, Esc!Goto, Esc!Throw, EscrowInv, Esc!TypeOK
<1>3. OneRowEach' /\ (Backed' <=> Backed) BY <1>2, SameApprovals DEF EscrowInv
<1>4. escrowHeld' \in [EscrowCalls -> Esc!Escrow]
  <2>1. escrowHeld \in [EscrowCalls -> Esc!Escrow] BY DEF EscrowInv, Esc!TypeOK
  <2>2. [escrowHeld[c] EXCEPT !.status = "EXECUTED"] \in Esc!Escrow BY <2>1 DEF Esc!Escrow
  <2> QED BY <1>2, <2>1, <2>2
<1>5. Esc!TypeOK' BY <1>2, <1>4 DEF EscrowInv, Esc!TypeOK
<1>6. \A d \in EscrowCalls : (escrowPc'[d] = "release" => escrowPc[d] = "release") /\ (escrowPc'[d] = "insert" => escrowPc[d] = "insert")
  BY <1>2 DEF EscrowInv
<1>7. escrowPc' \in [EscrowCalls -> {"start", "check", "expire", "insert", "count", "save", "release",
                         "audit", "append", "returned", "thrown"}]
  BY <1>2 DEF EscrowInv
<1> QED BY <1>1, <1>2, <1>3, <1>5, <1>6, <1>7 DEF EscrowInv, Says

LEMMA AuditKeeps ==
  ASSUME EscrowInv, NEW c \in EscrowCalls, Esc!ReadLastEntry(c) \/ Esc!AppendEntry(c)
  PROVE  EscrowInv'
<1>1. log \in Seq(Nat) /\ previous[c] \in Nat BY DEF EscrowInv, Esc!TypeOK
<1>2. Len(log) \in Nat /\ Append(log, previous[c]) \in Seq(Nat) BY <1>1
<1>3. /\ log' \in Seq(Nat) /\ previous' \in [EscrowCalls -> Nat]
      /\ escrowPc' = [escrowPc EXCEPT ![c] = "append"] \/ escrowPc' = [escrowPc EXCEPT ![c] = "returned"]
      /\ UNCHANGED <<escrow, approvals, escrowHeld, released>>
  BY <1>1, <1>2 DEF Esc!ReadLastEntry, Esc!AppendEntry, Esc!Goto, EscrowInv
<1>4. OneRowEach' /\ (Backed' <=> Backed) BY <1>3, SameApprovals DEF EscrowInv
<1>5. Esc!TypeOK' BY <1>3 DEF EscrowInv, Esc!TypeOK
<1>6. \A d \in EscrowCalls : (escrowPc'[d] = "release" => escrowPc[d] = "release") /\ (escrowPc'[d] = "insert" => escrowPc[d] = "insert")
  BY <1>3 DEF EscrowInv
<1>7. escrowPc' \in [EscrowCalls -> {"start", "check", "expire", "insert", "count", "save", "release",
                         "audit", "append", "returned", "thrown"}]
  BY <1>3 DEF EscrowInv
<1> QED BY <1>3, <1>4, <1>5, <1>6, <1>7 DEF EscrowInv, Says

LEMMA EscrowKept == EscrowInv /\ [ServicesNext]_servicesVars => EscrowInv'
<1>1. ASSUME EscrowInv, NEW c \in EscrowCalls,
             \/ Esc!ReadEscrow(c) \/ Esc!SaveExpired(c) \/ Esc!CheckSigner(c) \/ Esc!InsertApproval(c)
             \/ Esc!CountApprovals(c) \/ Esc!SaveEscrow(c) \/ Esc!ReleaseEscrow(c)
             \/ Esc!ReadLastEntry(c) \/ Esc!AppendEntry(c)
      PROVE  EscrowInv'
  BY <1>1, ReadKeeps, SaveKeeps, CheckKeeps, InsertKeeps, CountKeeps, ReleaseKeeps, AuditKeeps
<1>2. ASSUME EscrowInv, UNCHANGED escrowVars PROVE EscrowInv'
  <2>1. UNCHANGED <<escrow, approvals, escrowHeld, escrowPc, released, log, previous>> BY <1>2 DEF escrowVars
  <2>2. OneRowEach' /\ (Backed' <=> Backed) BY <1>2, <2>1, SameApprovals DEF EscrowInv
  <2>3. Esc!TypeOK' BY <1>2, <2>1 DEF EscrowInv, Esc!TypeOK
  <2> QED BY <1>2, <2>1, <2>2, <2>3 DEF EscrowInv, Says
<1>3. ASSUME EscrowInv, Esc!Next PROVE EscrowInv' BY <1>1, <1>3 DEF Esc!Next
<1> QED BY <1>2, <1>3, WhoseStep

\* Enough rows are enough signers: the set that ReleaseIsBacked asks for.
LEMMA BackedBySigners == ASSUME EscrowInv PROVE Esc!ReleaseIsBacked
<1> SUFFICES ASSUME \/ released > 0
                    \/ \E r \in {escrow} \cup {escrowHeld[c] : c \in EscrowCalls} :
                          r.status \in {"APPROVED", "EXECUTED"}
             PROVE  \E S \in SUBSET Authorized :
                       Cardinality(S) >= Required /\ \A s \in S : Esc!Approved(s)
  BY EscrowCardinality DEF Esc!ReleaseIsBacked
<1>1. Cardinality(Signed) >= Required BY DEF EscrowInv, Says, Backed
<1>2. Signed \in SUBSET Authorized BY DEF EscrowInv, OneRowEach, Signed
<1>3. \A s \in Signed : Esc!Approved(s) BY DEF Signed, Esc!Approved
<1> QED BY <1>1, <1>2, <1>3

\* Nothing is released, and nothing says that it may be, without the approvals
\* of as many authorized signers as the escrow requires.
THEOREM EscrowReleaseIsBacked == ServicesSpec => []ReleaseIsBacked
<1>1. ServicesInit => EscrowInv BY EscrowInit DEF ServicesInit
<1>2. EscrowInv /\ [ServicesNext]_servicesVars => EscrowInv' BY EscrowKept
<1>3. EscrowInv => ReleaseIsBacked BY BackedBySigners DEF ReleaseIsBacked
<1> QED BY <1>1, <1>2, <1>3, PTL DEF ServicesSpec

-----------------------------------------------------------------------------
(* Quantum keys *)

KeySteps == {"start", "generate", "save", "link", "returned", "thrown"}

\* Some rotation of the key has generated its successor.
Replaced(k) == \E c \in KeyCalls : target[c] = k /\ fresh[c] \in Key!Used \ {k}

\* A row that may be saved as key k.
RowOK(k, rec) ==
    /\ rec.status = "ACTIVE" => rec.uses < MaxUses
    /\ rec.status = "ROTATED" => rec.uses >= MaxUses \/ Replaced(k)

HasFresh(c) == keyPc[c] = "link" \/ (keyPc[c] = "save" /\ KeyOp[c] = "rotate")

KeysInv ==
    /\ Key!Used \subseteq Key!Ids /\ keys \in [Key!Used -> Key!Row]
    /\ keyHeld \in [KeyCalls -> Key!Row] /\ target \in [KeyCalls -> Key!Ids] /\ fresh \in [KeyCalls -> 0..MaxKeys]
    /\ keyPc \in [KeyCalls -> KeySteps]
    /\ \A k \in Key!Used : RowOK(k, keys[k])
    /\ \A c \in KeyCalls : keyPc[c] \in {"generate", "save"} => target[c] \in Key!Used /\ RowOK(target[c], keyHeld[c])
    /\ \A c \in KeyCalls : keyPc[c] \in {"start", "generate"} => fresh[c] = 0
    /\ \A c \in KeyCalls : HasFresh(c) => fresh[c] \in Key!Used

LEMMA NewIsRow == Key!New \in Key!Row
  BY KeysAssumption DEF Key!New, Key!Row

LEMMA KeysInit == Key!Init => KeysInv
<1> SUFFICES ASSUME Key!Init PROVE KeysInv OBVIOUS
<1>1. Key!Used = {1} /\ keys[1] = Key!New /\ keys \in [Key!Used -> Key!Row] BY NewIsRow DEF Key!Init, Key!Used
<1>2. RowOK(1, Key!New) BY KeysAssumption DEF RowOK, Key!New
<1>3. Key!Used \subseteq Key!Ids /\ 1 \in Key!Ids BY <1>1, KeysAssumption DEF Key!Ids
<1> QED BY <1>1, <1>2, <1>3, NewIsRow, KeysAssumption DEF Key!Init, KeysInv, KeySteps, HasFresh

\* No step takes back what a rotation has generated.
LEMMA ReplacedStays ==
  ASSUME KeysInv, Key!Used \subseteq Key!Used',
         \A d \in KeyCalls : fresh[d] # 0 => target'[d] = target[d] /\ fresh'[d] = fresh[d]
  PROVE  \A k : Replaced(k) => Replaced(k)'
<1> SUFFICES ASSUME NEW k, Replaced(k) PROVE Replaced(k)' OBVIOUS
<1>1. PICK d \in KeyCalls : target[d] = k /\ fresh[d] \in Key!Used \ {k} BY DEF Replaced
<1>2. fresh[d] # 0 BY <1>1 DEF KeysInv, Key!Ids
<1>3. target'[d] = k /\ fresh'[d] \in Key!Used' \ {k} BY <1>1, <1>2
<1> QED BY <1>3 DEF Replaced

\* One use more: still below the limit, or ROTATED at it.
LEMMA UsedOnceOK ==
  ASSUME KeysInv, NEW k \in Key!Used
  PROVE  Key!UsedOnce(keys[k]) \in Key!Row /\ RowOK(k, Key!UsedOnce(keys[k]))
<1> DEFINE rec == keys[k]
           u   == Key!UsedOnce(rec)
<1>1. rec \in Key!Row /\ rec.uses \in Nat /\ RowOK(k, rec) BY DEF KeysInv, Key!Row
<1>2. u = [status |-> IF rec.uses + 1 >= MaxUses THEN "ROTATED" ELSE rec.status,
           uses |-> rec.uses + 1, parent |-> rec.parent]
  BY DEF Key!UsedOnce
<1>3. u \in Key!Row BY <1>1, <1>2 DEF Key!Row
<1>4. u.uses = rec.uses + 1 /\ u.status = IF rec.uses + 1 >= MaxUses THEN "ROTATED" ELSE rec.status
  BY <1>2
<1>5. u.status = "ACTIVE" => u.uses < MaxUses BY <1>1, <1>4, KeysAssumption
<1>6. u.status = "ROTATED" => u.uses >= MaxUses \/ Replaced(k)
  BY <1>1, <1>4, KeysAssumption DEF RowOK
<1> QED BY <1>3, <1>5, <1>6 DEF RowOK

LEMMA ReadKeepsInv ==
  ASSUME KeysInv, NEW c \in KeyCalls, Key!ReadKey(c)
  PROVE  KeysInv'
<1>1. keyPc[c] = "start" /\ fresh[c] = 0 /\ UNCHANGED <<usage, keys, fresh>>
  BY DEF Key!ReadKey, KeysInv
<1>2. PICK k \in Key!Used :
         /\ target' = [target EXCEPT ![c] = k]
         /\ \E where \in {"save", "generate", "thrown"} :
               keyPc' = [keyPc EXCEPT ![c] = where] /\ ~(where = "save" /\ KeyOp[c] = "rotate")
         /\ \/ keyHeld' = [keyHeld EXCEPT ![c] = Key!UsedOnce(keys[k])]
            \/ keyHeld' = [keyHeld EXCEPT ![c] = keys[k]]
            \/ keyHeld' = [keyHeld EXCEPT ![c] = [keys[k] EXCEPT !.status = "COMPROMISED"]]
  BY DEF Key!ReadKey, Key!MayUse, Key!Goto, Key!Throw
<1>3. k \in Key!Ids /\ keys[k] \in Key!Row /\ RowOK(k, keys[k]) BY DEF KeysInv
<1>4. keyHeld' \in [KeyCalls -> Key!Row] /\ RowOK(k, keyHeld'[c])
  <2>1. CASE keyHeld' = [keyHeld EXCEPT ![c] = Key!UsedOnce(keys[k])]
    BY <2>1, UsedOnceOK DEF KeysInv
  <2>2. CASE keyHeld' = [keyHeld EXCEPT ![c] = keys[k]]
    BY <1>3, <2>2 DEF KeysInv
  <2>3. CASE keyHeld' = [keyHeld EXCEPT ![c] = [keys[k] EXCEPT !.status = "COMPROMISED"]]
    <3>1. [keys[k] EXCEPT !.status = "COMPROMISED"] \in Key!Row
          /\ [keys[k] EXCEPT !.status = "COMPROMISED"].status = "COMPROMISED"
      BY <1>3 DEF Key!Row
    <3> QED BY <2>3, <3>1 DEF KeysInv, RowOK
  <2> QED BY <1>2, <2>1, <2>2, <2>3
<1>5. /\ target' \in [KeyCalls -> Key!Ids] /\ keyPc' \in [KeyCalls -> KeySteps]
      /\ target'[c] = k /\ keyPc'[c] \in {"save", "generate", "thrown"} /\ ~HasFresh(c)'
      /\ \A d \in KeyCalls \ {c} : keyHeld'[d] = keyHeld[d] /\ target'[d] = target[d] /\ keyPc'[d] = keyPc[d]
  BY <1>2, <1>3 DEF KeysInv, KeySteps, HasFresh
<1>6. Key!Used' = Key!Used /\ \A j : Replaced(j) => Replaced(j)'
  <2>1. Key!Used' = Key!Used BY <1>1 DEF Key!Used
  <2>2. \A d \in KeyCalls : fresh[d] # 0 => target'[d] = target[d] /\ fresh'[d] = fresh[d]
    BY <1>1, <1>5
  <2> QED BY <2>1, <2>2, ReplacedStays
<1>7. \A j \in Key!Used' : RowOK(j, keys[j])' BY <1>1, <1>6 DEF KeysInv, RowOK
<1>8. ASSUME NEW d \in KeyCalls, keyPc'[d] \in {"generate", "save"}
      PROVE  target'[d] \in Key!Used' /\ RowOK(target[d], keyHeld[d])'
  <2>1. CASE d = c BY <1>4, <1>5, <1>6, <2>1 DEF RowOK
  <2>2. CASE d # c BY <1>5, <1>6, <1>8, <2>2 DEF KeysInv, RowOK
  <2> QED BY <2>1, <2>2
<1>9. \A d \in KeyCalls : keyPc'[d] \in {"start", "generate"} => fresh'[d] = 0
  BY <1>1, <1>5 DEF KeysInv
<1>10. \A d \in KeyCalls : HasFresh(d)' => fresh'[d] \in Key!Used'
  BY <1>1, <1>5, <1>6 DEF KeysInv, HasFresh
<1> QED BY <1>1, <1>4, <1>5, <1>6, <1>7, <1>8, <1>9, <1>10 DEF KeysInv

\* What it means to save a row.
LEMMA SaveRow ==
  ASSUME KeysInv, NEW k \in Key!Ids, NEW rec \in Key!Row, Key!Save(k, rec)
  PROVE  /\ Key!Used' = Key!Used \cup {k} /\ Key!Used' \subseteq Key!Ids /\ keys' \in [Key!Used' -> Key!Row]
         /\ keys'[k] = rec /\ \A j \in Key!Used \ {k} : keys'[j] = keys[j]
<1>1. keys' = [j \in Key!Used \cup {k} |-> IF j = k THEN rec ELSE keys[j]] BY DEF Key!Save
<1>2. Key!Used' = Key!Used \cup {k} BY <1>1 DEF Key!Used
<1> QED BY <1>1, <1>2 DEF KeysInv

LEMMA GenerateKeepsInv ==
  ASSUME KeysInv, NEW c \in KeyCalls, Key!Generate(c)
  PROVE  KeysInv'
<1>1. PICK k \in Key!Ids \ Key!Used : fresh' = [fresh EXCEPT ![c] = k] /\ Key!Save(k, Key!New)
  BY DEF Key!Generate
<1>2. /\ keyPc[c] = "generate" /\ keyPc' = [keyPc EXCEPT ![c] = "save"]
      /\ keyHeld' = [keyHeld EXCEPT ![c].status = "ROTATED"] /\ UNCHANGED <<usage, target>>
  BY DEF Key!Generate, Key!Goto
<1>3. /\ Key!Used' = Key!Used \cup {k} /\ Key!Used' \subseteq Key!Ids /\ keys' \in [Key!Used' -> Key!Row]
      /\ keys'[k] = Key!New /\ \A j \in Key!Used : keys'[j] = keys[j]
  BY <1>1, NewIsRow, SaveRow
<1>4. target[c] \in Key!Used /\ fresh[c] = 0 /\ k # target[c] BY <1>2 DEF KeysInv
<1>5. /\ fresh' \in [KeyCalls -> 0..MaxKeys] /\ fresh'[c] = k
      /\ \A d \in KeyCalls \ {c} : fresh'[d] = fresh[d]
  BY <1>1 DEF KeysInv, Key!Ids
<1>6. keyHeld[c] \in Key!Row BY DEF KeysInv
<1>7. [keyHeld[c] EXCEPT !.status = "ROTATED"] \in Key!Row BY <1>6 DEF Key!Row
<1>8. keyHeld' \in [KeyCalls -> Key!Row] /\ keyPc' \in [KeyCalls -> KeySteps] BY <1>2, <1>7 DEF KeysInv, KeySteps
<1>9. \A d \in KeyCalls \ {c} : keyHeld'[d] = keyHeld[d] /\ keyPc'[d] = keyPc[d] BY <1>2 DEF KeysInv
<1>10. keyHeld'[c].status = "ROTATED" /\ keyPc'[c] = "save" BY <1>2, <1>6 DEF KeysInv, Key!Row
<1>11. \A j : Replaced(j) => Replaced(j)'
  BY <1>2, <1>3, <1>4, <1>5, ReplacedStays
<1>12. Replaced(target[c])' BY <1>2, <1>3, <1>4, <1>5 DEF Replaced
<1>13. \A j \in Key!Used' : RowOK(j, keys[j])'
  <2>1. \A j \in Key!Used : RowOK(j, keys[j])' BY <1>3, <1>11 DEF KeysInv, RowOK
  <2>2. RowOK(k, keys[k])' BY <1>3, KeysAssumption DEF RowOK, Key!New
  <2> QED BY <1>3, <2>1, <2>2
<1>14. ASSUME NEW d \in KeyCalls, keyPc'[d] \in {"generate", "save"}
       PROVE  target'[d] \in Key!Used' /\ RowOK(target[d], keyHeld[d])'
  <2>1. CASE d = c BY <1>2, <1>3, <1>4, <1>10, <1>12, <2>1 DEF RowOK
  <2>2. CASE d # c BY <1>2, <1>3, <1>9, <1>11, <1>14, <2>2 DEF KeysInv, RowOK
  <2> QED BY <2>1, <2>2
<1>15. \A d \in KeyCalls : keyPc'[d] \in {"start", "generate"} => fresh'[d] = 0
  BY <1>5, <1>9, <1>10 DEF KeysInv
<1>16. \A d \in KeyCalls : HasFresh(d)' => fresh'[d] \in Key!Used'
  BY <1>3, <1>5, <1>9, <1>10 DEF KeysInv, HasFresh
<1> QED BY <1>2, <1>3, <1>5, <1>8, <1>13, <1>14, <1>15, <1>16 DEF KeysInv

\* A row is saved that may be saved; nobody's copy changes.
LEMMA SaveKeyKeepsInv ==
  ASSUME KeysInv, NEW c \in KeyCalls,
         Key!SaveKey(c) \/ Key!LinkParent(c)
  PROVE  KeysInv'
<1>1. PICK k \in Key!Used, rec \in Key!Row :
         Key!Save(k, rec) /\ (rec.status = "ACTIVE" => rec.uses < MaxUses)
                      /\ (rec.status = "ROTATED" => rec.uses >= MaxUses \/ Replaced(k))
  <2>1. CASE Key!SaveKey(c)
    <3>1. Key!Save(target[c], keyHeld[c]) /\ keyPc[c] = "save" BY <2>1 DEF Key!SaveKey
    <3> QED BY <3>1 DEF KeysInv, RowOK
  <2>2. CASE Key!LinkParent(c)
    <3> DEFINE rec == [Key!New EXCEPT !.parent = target[c]]
    <3>1. Key!Save(fresh[c], rec) /\ fresh[c] \in Key!Used BY <2>2 DEF Key!LinkParent, KeysInv, HasFresh
    <3>2. target[c] \in 0..MaxKeys BY DEF KeysInv, Key!Ids
    <3>3. rec = [status |-> "ACTIVE", uses |-> 0, parent |-> target[c]] BY DEF Key!New
    <3>4. rec \in Key!Row /\ rec.status = "ACTIVE" /\ rec.uses < MaxUses BY <3>2, <3>3, KeysAssumption DEF Key!Row
    <3> QED BY <3>1, <3>4
  <2> QED BY <2>1, <2>2
<1>2. /\ UNCHANGED <<usage, keyHeld, target, fresh>>
      /\ \/ keyPc' = [keyPc EXCEPT ![c] = "returned"]
         \/ keyPc' = [keyPc EXCEPT ![c] = "link"] /\ keyPc[c] = "save" /\ KeyOp[c] = "rotate"
  BY DEF Key!SaveKey, Key!LinkParent, Key!Goto
<1>3. /\ Key!Used' = Key!Used /\ keys' \in [Key!Used -> Key!Row]
      /\ keys'[k] = rec /\ \A j \in Key!Used \ {k} : keys'[j] = keys[j]
  BY <1>1, SaveRow DEF KeysInv
<1>4. \A j : Replaced(j) => Replaced(j)' BY <1>2, <1>3, ReplacedStays
<1>5. \A j \in Key!Used' : RowOK(j, keys[j])' BY <1>1, <1>3, <1>4 DEF KeysInv, RowOK
<1>6. keyPc' \in [KeyCalls -> KeySteps] BY <1>2 DEF KeysInv, KeySteps
<1>7. ASSUME NEW d \in KeyCalls, keyPc'[d] \in {"generate", "save"}
      PROVE  target'[d] \in Key!Used' /\ RowOK(target[d], keyHeld[d])'
  <2>1. keyPc[d] \in {"generate", "save"} BY <1>2, <1>7 DEF KeysInv
  <2> QED BY <1>2, <1>3, <1>4, <2>1 DEF KeysInv, RowOK
<1>8. \A d \in KeyCalls : keyPc'[d] \in {"start", "generate"} => fresh'[d] = 0
  BY <1>2 DEF KeysInv
<1>9. \A d \in KeyCalls : HasFresh(d)' => fresh'[d] \in Key!Used'
  BY <1>2, <1>3 DEF KeysInv, HasFresh
<1> QED BY <1>2, <1>3, <1>5, <1>6, <1>7, <1>8, <1>9 DEF KeysInv

LEMMA KeysKept == KeysInv /\ [ServicesNext]_servicesVars => KeysInv'
<1>1. ASSUME KeysInv, NEW c \in KeyCalls, Key!ReadKey(c) \/ Key!Generate(c) \/ Key!SaveKey(c) \/ Key!LinkParent(c)
      PROVE  KeysInv'
  BY <1>1, ReadKeepsInv, GenerateKeepsInv, SaveKeyKeepsInv
<1>2. ASSUME KeysInv, UNCHANGED keyVars PROVE KeysInv'
  BY <1>2 DEF keyVars, KeysInv, RowOK, Replaced, HasFresh, Key!Used
<1>3. ASSUME KeysInv, Key!Next PROVE KeysInv' BY <1>1, <1>3 DEF Key!Next
<1> QED BY <1>2, <1>3, WhoseStep

\* A key that is used up is not ACTIVE, and a ROTATED key is used up or has had
\* a successor generated, whatever calls interleave and wherever they stop.
THEOREM KeysAreReplaced == ServicesSpec => []RetiredKeysAreReplaced
<1>1. ServicesInit => KeysInv BY KeysInit DEF ServicesInit
<1>2. KeysInv /\ [ServicesNext]_servicesVars => KeysInv' BY KeysKept
<1>3. KeysInv => RetiredKeysAreReplaced BY DEF KeysInv, RowOK, Replaced, Key!RetiredKeysAreReplaced, RetiredKeysAreReplaced
<1> QED BY <1>1, <1>2, <1>3, PTL DEF ServicesSpec

-----------------------------------------------------------------------------
(* Governance *)

\* The instance's sums are those the lemmas are about.
LEMMA VoteSums == \A f, S : Gov!SumFunctionOnSet(f, S) = SumFunctionOnSet(f, S)
BY DEF Gov!SumFunctionOnSet, SumFunctionOnSet, Gov!FoldFunctionOnSet, FoldFunctionOnSet,
   Gov!MapThenFoldSet, MapThenFoldSet

Passing == {"SUCCEEDED", "EXECUTED"}

For(V, x) == {v \in V : v.choice = x}

\* Votes that carry the proposal, and tallies that were right when taken.
MajorityOf(V) == Gov!Sum(V) >= Quorum /\ Gov!Sum(For(V, "YES")) > Gov!Sum(For(V, "NO"))
Justified     == Gov!Overridden \/ \E V \in SUBSET votes : MajorityOf(V)
Counted(p)    == \E V \in SUBSET votes : \A x \in Gov!VoteChoice : p[x] = Gov!Sum(For(V, x))

Changes(c) == c \in Others /\ GovernanceOp[c] = "change"

\* What a call has in memory was justified when it read it, or is what it
\* overrides.
GovernanceInv ==
    /\ Gov!TypeOK /\ IsFiniteSet(votes)
    /\ proposalPc \in [Gov!Calls ->
          {"start", "check", "insert", "recompute", "savesums", "save", "saved", "done"}]
    /\ \A v, w \in votes : v.voter = w.voter => v = w
    /\ proposal.status \in Passing => Justified
    /\ \A c \in Gov!Calls :
          /\ proposalHeld[c].status \in Passing => Justified \/ Changes(c)
          /\ proposalPc[c] \in {"check", "insert"} => c \in Voters
          /\ proposalPc[c] = "insert" => power[c] \in StakedAmounts \ {0}
          /\ proposalPc[c] \in {"recompute", "savesums"} => ~Changes(c)
          /\ proposalPc[c] = "savesums" => Counted(proposalHeld[c].power)

Vote == [call : Voters, voter : {VoterOf[c] : c \in Voters},
         choice : Gov!VoteChoice, power : StakedAmounts \ {0}]

\* The power of votes, and of the votes for each choice.
LEMMA PowerOfVotes ==
    ASSUME NEW V, IsFiniteSet(V), V \subseteq Vote
    PROVE  /\ \A x : Gov!Sum(For(V, x)) \in Nat
           /\ Gov!Sum(V) = Gov!Sum(For(V, "YES")) + Gov!Sum(For(V, "NO")) + Gov!Sum(For(V, "ABSTAIN"))
<1> DEFINE f == [v \in V |-> v.power]
           A == For(V, "YES")  B == For(V, "NO")  C == For(V, "ABSTAIN")
<1>1. \A v \in V : f[v] \in Nat /\ f[v] \in Int /\ v.choice \in {"YES", "NO", "ABSTAIN"}
  <2>1. \A v \in Vote : v.power \in StakedAmounts /\ v.choice \in {"YES", "NO", "ABSTAIN"}
    BY DEF Vote, Gov!VoteChoice
  <2>2. \A v \in V : v.power \in Nat /\ v.choice \in {"YES", "NO", "ABSTAIN"}
    BY <2>1, GovernanceAssumption
  <2> QED BY <2>2
<1>2. \A x : For(V, x) \subseteq V /\ IsFiniteSet(For(V, x)) BY FS_Subset DEF For
<1>3. \A S \in SUBSET V : Gov!Sum(S) = SumFunctionOnSet(f, S)
  <2> TAKE S \in SUBSET V
  <2> DEFINE g == [v \in S |-> v.power]
  <2>1. IsFiniteSet(S) /\ \A v \in S : g[v] = f[v] BY FS_Subset
  <2>2. Gov!Sum(S) = SumFunctionOnSet(g, S) BY VoteSums DEF Gov!Sum
  <2> HIDE DEF f, g
  <2> QED BY <2>1, <2>2, SumSame
<1> HIDE DEF f
<1>4. \A x : Gov!Sum(For(V, x)) \in Nat
  <2> TAKE x
  <2>1. For(V, x) \subseteq V /\ IsFiniteSet(For(V, x)) BY <1>2
  <2>2. \A v \in For(V, x) : f[v] \in Nat BY <1>1, <2>1
  <2>3. SumFunctionOnSet(f, For(V, x)) \in Nat BY <2>1, <2>2, SumNat
  <2> QED BY <1>3, <2>1, <2>3
<1>5. /\ A \cap B = {} /\ (A \cup B) \cap C = {} /\ (A \cup B) \cup C = V
      /\ A \cup B \subseteq V
  BY <1>1 DEF For
<1>6. IsFiniteSet(A) /\ IsFiniteSet(B) /\ IsFiniteSet(C) /\ IsFiniteSet(A \cup B)
  BY <1>2, <1>5, FS_Subset
<1>7. A \subseteq V /\ B \subseteq V /\ C \subseteq V BY <1>2
<1> HIDE DEF A, B, C
<1>8. SumFunctionOnSet(f, A \cup B) = SumFunctionOnSet(f, A) + SumFunctionOnSet(f, B)
  <2>1. \A v \in A \cup B : f[v] \in Int BY <1>1, <1>5
  <2> QED BY <1>5, <1>6, <2>1, SumUnion
<1>9. SumFunctionOnSet(f, (A \cup B) \cup C)
        = SumFunctionOnSet(f, A \cup B) + SumFunctionOnSet(f, C)
  <2>1. \A v \in (A \cup B) \cup C : f[v] \in Int BY <1>1, <1>5
  <2> QED BY <1>5, <1>6, <2>1, SumUnion
<1>10. SumFunctionOnSet(f, V) = SumFunctionOnSet(f, A) + SumFunctionOnSet(f, B) + SumFunctionOnSet(f, C)
  BY <1>5, <1>8, <1>9
<1>11. Gov!Sum(V) = Gov!Sum(A) + Gov!Sum(B) + Gov!Sum(C) BY <1>3, <1>7, <1>10
<1> QED BY <1>4, <1>11 DEF A, B, C

LEMMA GovernanceInit == Gov!Init => GovernanceInv
<1> SUFFICES ASSUME Gov!Init PROVE GovernanceInv OBVIOUS
<1>1. /\ proposal \in Gov!Proposal /\ proposal.status = "ACTIVE" /\ votes = {}
      /\ \A c \in Gov!Calls : proposalHeld[c] = proposal /\ proposalPc[c] = "start"
  BY DEF Gov!Init, Gov!Proposal, Gov!Statuses
<1>2. Gov!TypeOK BY <1>1 DEF Gov!Init, Gov!TypeOK
<1> QED BY <1>1, <1>2, FS_EmptySet DEF Gov!Init, GovernanceInv, Passing

\* Votes are never taken back and a call that has saved its row is over.
LEMMA JustifiedStays ==
    ASSUME GovernanceInv, votes \subseteq votes',
           \A c \in Others : proposalPc[c] = "saved" =>
               proposalPc'[c] = "saved" /\ proposalHeld'[c] = proposalHeld[c]
    PROVE  /\ Justified => Justified'
           /\ \A p : Counted(p) => \E V \in SUBSET votes' :
                         \A x \in Gov!VoteChoice : p[x] = Gov!Sum(For(V, x))
<1>1. Gov!Overridden => Gov!Overridden' BY DEF Gov!Overridden
<1> QED BY <1>1 DEF Justified, Counted, MajorityOf, For

LEMMA ReadProposalKeepsInv ==
    ASSUME GovernanceInv, NEW c \in Gov!Calls, Gov!ReadProposal(c)
    PROVE  GovernanceInv'
<1>1. proposalPc[c] = "start" /\ UNCHANGED <<proposal, votes, power>> BY DEF Gov!ReadProposal
<1>2. CASE Gov!Goto(c, "done") /\ UNCHANGED proposalHeld
  <2>1. proposalPc' = [proposalPc EXCEPT ![c] = "done"] BY <1>2 DEF Gov!Goto
  <2>2. Justified => Justified' /\ \A p : Counted(p) => Counted(p)
    BY <1>1, <1>2, <2>1, JustifiedStays DEF GovernanceInv, Gov!Calls
  <2>3. \A d \in Gov!Calls : Counted(proposalHeld[d].power) => Counted(proposalHeld[d].power)'
    BY <1>1, <1>2 DEF Counted
  <2>4. Gov!TypeOK' BY <1>1, <1>2 DEF GovernanceInv, Gov!TypeOK
  <2> QED BY <1>1, <1>2, <2>1, <2>2, <2>3, <2>4 DEF GovernanceInv, Changes
<1>3. ASSUME NEW s \in Gov!Assigned(c), Gov!Admitted(c), Gov!Goto(c, Gov!Second(c)),
             proposalHeld' = [proposalHeld EXCEPT ![c] = [proposal EXCEPT !.status = s]]
      PROVE  GovernanceInv'
  <2>1. /\ s \in Gov!Statuses
        /\ s \in Passing => Justified \/ Changes(c)
    <3>1. CASE c \in Voters
      BY <1>3, <3>1, GovernanceAssumption
      DEF GovernanceInv, Gov!Assigned, Gov!Admitted, Gov!TypeOK, Gov!Proposal, Gov!Statuses
    <3>2. CASE c \in Others /\ c \notin Voters
      <4>1. CASE GovernanceOp[c] = "tally"
        BY <1>3, <3>2, <4>1 DEF GovernanceInv, Gov!Assigned, Gov!TypeOK, Gov!Proposal
      <4>2. CASE GovernanceOp[c] = "execute"
        BY <1>3, <3>2, <4>2
        DEF GovernanceInv, Gov!Assigned, Gov!Admitted, Gov!Statuses, Passing
      <4>3. CASE GovernanceOp[c] = "change"
        BY <1>3, <3>2, <4>3, GovernanceAssumption DEF Gov!Assigned, Gov!Statuses, Changes
      <4> QED BY <3>2, <4>1, <4>2, <4>3, GovernanceAssumption
    <3> QED BY <3>1, <3>2 DEF Gov!Calls
  <2>2. /\ Gov!Second(c) \in {"check", "recompute", "save"}
        /\ Gov!Second(c) = "check" => c \in Voters
        /\ Gov!Second(c) = "recompute" => ~Changes(c)
    BY GovernanceAssumption DEF Gov!Second, Gov!Calls, Changes
  <2>3. proposalPc' = [proposalPc EXCEPT ![c] = Gov!Second(c)] BY <1>3 DEF Gov!Goto
  <2>4. /\ proposalPc'[c] = Gov!Second(c)
        /\ \A d \in Gov!Calls \ {c} : proposalPc'[d] = proposalPc[d]
        /\ proposalPc' \in [Gov!Calls ->
             {"start", "check", "insert", "recompute", "savesums", "save", "saved", "done"}]
    BY <2>2, <2>3 DEF GovernanceInv
  <2>5. [proposal EXCEPT !.status = s] \in Gov!Proposal
    BY <2>1 DEF GovernanceInv, Gov!TypeOK, Gov!Proposal
  <2>6. /\ proposalHeld' \in [Gov!Calls -> Gov!Proposal] /\ proposalHeld'[c].status = s
        /\ \A d \in Gov!Calls \ {c} : proposalHeld'[d] = proposalHeld[d]
    BY <1>3, <2>5 DEF GovernanceInv, Gov!TypeOK, Gov!Proposal
  <2>7. Gov!TypeOK' BY <1>1, <2>6 DEF GovernanceInv, Gov!TypeOK
  <2>8. \A d \in Others : proposalPc[d] = "saved" =>
           proposalPc'[d] = "saved" /\ proposalHeld'[d] = proposalHeld[d]
    BY <1>1, <2>4, <2>6 DEF Gov!Calls
  <2>9. Justified => Justified' BY <1>1, <2>8, JustifiedStays
  <2>10. \A d \in Gov!Calls : /\ proposalPc'[d] = "savesums" => d # c
                              /\ d # c /\ Counted(proposalHeld[d].power)
                                   => Counted(proposalHeld[d].power)'
    BY <1>1, <2>2, <2>4, <2>6 DEF Counted
  <2>11. \A d \in Gov!Calls :
          /\ proposalHeld'[d].status \in Passing => Justified' \/ Changes(d)
          /\ proposalPc'[d] \in {"check", "insert"} => d \in Voters
          /\ proposalPc'[d] = "insert" => power'[d] \in StakedAmounts \ {0}
          /\ proposalPc'[d] \in {"recompute", "savesums"} => ~Changes(d)
          /\ proposalPc'[d] = "savesums" => Counted(proposalHeld[d].power)'
    <3> TAKE d \in Gov!Calls
    <3>1. CASE d = c BY <2>1, <2>2, <2>4, <2>6, <2>9, <3>1
    <3>2. CASE d # c BY <1>1, <2>4, <2>6, <2>9, <2>10, <3>2 DEF GovernanceInv
    <3> QED BY <3>1, <3>2
  <2> QED BY <1>1, <2>4, <2>7, <2>9, <2>11 DEF GovernanceInv, Changes
<1> QED BY <1>2, <1>3 DEF Gov!ReadProposal

LEMMA CheckVoterKeepsInv ==
    ASSUME GovernanceInv, NEW c \in Gov!Calls, Gov!CheckVoter(c)
    PROVE  GovernanceInv'
<1>1. /\ proposalPc[c] = "check" /\ UNCHANGED <<proposal, votes, proposalHeld>>
      /\ \/ proposalPc' = [proposalPc EXCEPT ![c] = "done"] /\ power' = power
         \/ \E amount \in StakedAmounts \ {0} : /\ power' = [power EXCEPT ![c] = amount]
                                               /\ proposalPc' = [proposalPc EXCEPT ![c] = "insert"]
  BY DEF Gov!CheckVoter, Gov!Goto
<1>2. c \in Voters BY <1>1 DEF GovernanceInv
<1>3. /\ proposalPc'[c] \in {"done", "insert"}
      /\ proposalPc'[c] = "insert" => power'[c] \in StakedAmounts \ {0}
      /\ \A d \in Gov!Calls \ {c} : proposalPc'[d] = proposalPc[d] /\ power'[d] = power[d]
      /\ power' \in [Gov!Calls -> Nat]
      /\ proposalPc' \in [Gov!Calls ->
           {"start", "check", "insert", "recompute", "savesums", "save", "saved", "done"}]
  BY <1>1, GovernanceAssumption DEF GovernanceInv, Gov!TypeOK
<1>4. Gov!TypeOK' BY <1>1, <1>3 DEF GovernanceInv, Gov!TypeOK
<1>5. Justified => Justified' BY <1>1, <1>3, JustifiedStays DEF Gov!Calls
<1>6. \A d \in Gov!Calls : Counted(proposalHeld[d].power) => Counted(proposalHeld[d].power)'
  BY <1>1 DEF Counted
<1> QED BY <1>1, <1>2, <1>3, <1>4, <1>5, <1>6 DEF GovernanceInv, Changes

LEMMA SaveVoteKeepsInv ==
    ASSUME GovernanceInv, NEW c \in Gov!Calls, Gov!SaveVote(c)
    PROVE  GovernanceInv'
<1> DEFINE v == [call |-> c, voter |-> VoterOf[c], choice |-> ChoiceOf[c], power |-> power[c]]
<1>1. /\ proposalPc[c] = "insert" /\ UNCHANGED <<proposal, proposalHeld, power>>
      /\ \/ /\ ~Gov!HasVoted(VoterOf[c]) /\ votes' = votes \cup {v}
            /\ proposalPc' = [proposalPc EXCEPT ![c] = "recompute"]
         \/ votes' = votes /\ proposalPc' = [proposalPc EXCEPT ![c] = "done"]
  BY DEF Gov!SaveVote, Gov!Goto, Gov!Unique
<1>2. c \in Voters /\ power[c] \in StakedAmounts \ {0} /\ ~Changes(c)
  BY <1>1, GovernanceAssumption DEF GovernanceInv, Changes
<1>3. v \in Vote /\ v.voter = VoterOf[c]
  BY <1>2, GovernanceAssumption DEF Vote, Gov!VoteChoice
<1> HIDE DEF v
<1>4. /\ votes \subseteq Vote /\ votes \subseteq votes' /\ votes' \subseteq Vote
      /\ IsFiniteSet(votes')
  BY <1>1, <1>3, FS_AddElement DEF GovernanceInv, Gov!TypeOK, Vote
<1>5. \A x, y \in votes' : x.voter = y.voter => x = y
  <2>1. ~Gov!HasVoted(VoterOf[c]) => \A x \in votes : x.voter # VoterOf[c] BY DEF Gov!HasVoted
  <2> QED BY <1>1, <1>3, <2>1 DEF GovernanceInv
<1>6. /\ proposalPc'[c] \in {"recompute", "done"}
      /\ \A d \in Gov!Calls \ {c} : proposalPc'[d] = proposalPc[d]
      /\ proposalPc' \in [Gov!Calls ->
           {"start", "check", "insert", "recompute", "savesums", "save", "saved", "done"}]
  BY <1>1 DEF GovernanceInv
<1>7. Gov!TypeOK' BY <1>1, <1>4 DEF GovernanceInv, Gov!TypeOK, Vote
<1>8. \A d \in Others : proposalPc[d] = "saved" => proposalPc'[d] = "saved"
  BY <1>1, <1>6 DEF Gov!Calls
<1>9. Justified => Justified' BY <1>1, <1>4, <1>8, JustifiedStays
<1>10. \A d \in Gov!Calls : Counted(proposalHeld[d].power) => Counted(proposalHeld[d].power)'
  BY <1>1, <1>4, <1>8, JustifiedStays DEF Counted
<1> QED BY <1>1, <1>2, <1>4, <1>5, <1>6, <1>7, <1>9, <1>10 DEF GovernanceInv, Changes

LEMMA RecomputeKeepsInv ==
    ASSUME GovernanceInv, NEW c \in Gov!Calls, Gov!Recompute(c)
    PROVE  GovernanceInv'
<1> DEFINE sums == [x \in Gov!VoteChoice |-> Gov!SumVotes(x)]
<1>1. /\ proposalPc[c] = "recompute" /\ UNCHANGED <<proposal, votes, power>>
      /\ proposalHeld' = [proposalHeld EXCEPT ![c].power = sums]
      /\ proposalPc' = [proposalPc EXCEPT ![c] = IF c \in Voters THEN "save" ELSE "savesums"]
  BY DEF Gov!Recompute, Gov!Goto
<1>2. \A x \in Gov!VoteChoice : sums[x] = Gov!Sum(For(votes, x)) BY DEF Gov!SumVotes, For
<1>3. votes \subseteq Vote /\ IsFiniteSet(votes) BY DEF GovernanceInv, Gov!TypeOK, Vote
<1>4. sums \in [Gov!VoteChoice -> Nat] BY <1>2, <1>3, PowerOfVotes
<1> HIDE DEF sums
<1>5. /\ proposalHeld' \in [Gov!Calls -> Gov!Proposal] /\ proposalHeld'[c].power = sums
      /\ proposalHeld'[c].status = proposalHeld[c].status
      /\ \A d \in Gov!Calls \ {c} : proposalHeld'[d] = proposalHeld[d]
  BY <1>1, <1>4 DEF GovernanceInv, Gov!TypeOK, Gov!Proposal
<1>6. /\ proposalPc'[c] \in {"save", "savesums"}
      /\ \A d \in Gov!Calls \ {c} : proposalPc'[d] = proposalPc[d]
      /\ proposalPc' \in [Gov!Calls ->
           {"start", "check", "insert", "recompute", "savesums", "save", "saved", "done"}]
  BY <1>1 DEF GovernanceInv
<1>7. Gov!TypeOK' BY <1>1, <1>5 DEF GovernanceInv, Gov!TypeOK
<1>8. Justified => Justified' BY <1>1, <1>5, <1>6, JustifiedStays DEF Gov!Calls
<1>9. \A d \in Gov!Calls : proposalPc'[d] = "savesums" => Counted(proposalHeld[d].power)'
  <2> SUFFICES ASSUME NEW d \in Gov!Calls, proposalPc'[d] = "savesums"
               PROVE  Counted(proposalHeld[d].power)' OBVIOUS
  <2>1. CASE d = c BY <1>1, <1>2, <1>5, <2>1 DEF Counted
  <2>2. CASE d # c BY <1>1, <1>5, <1>6, <2>2 DEF GovernanceInv, Counted
  <2> QED BY <2>1, <2>2
<1> QED BY <1>1, <1>5, <1>6, <1>7, <1>8, <1>9 DEF GovernanceInv, Changes

\* A tally passes the proposal on the votes it has counted.
LEMMA SaveSumsKeepsInv ==
    ASSUME GovernanceInv, NEW c \in Gov!Calls, Gov!SaveSums(c)
    PROVE  GovernanceInv'
<1> DEFINE p == proposalHeld[c].power
           s == IF Gov!Passed(p) THEN "SUCCEEDED" ELSE "DEFEATED"
<1>1. /\ proposalPc[c] = "savesums" /\ UNCHANGED <<votes, power>> /\ proposal' = proposalHeld[c]
      /\ proposalHeld' = [proposalHeld EXCEPT ![c].status = s]
      /\ proposalPc' = [proposalPc EXCEPT ![c] = "save"]
  BY DEF Gov!SaveSums, Gov!Goto
<1>2. Gov!Passed(p) => Justified
  <2> SUFFICES ASSUME Gov!Passed(p) PROVE Justified OBVIOUS
  <2>1. PICK V \in SUBSET votes : \A x \in Gov!VoteChoice : p[x] = Gov!Sum(For(V, x))
    BY <1>1 DEF GovernanceInv, Counted
  <2>2. V \subseteq Vote /\ IsFiniteSet(V) BY FS_Subset DEF GovernanceInv, Gov!TypeOK, Vote
  <2>3. Gov!Sum(V) = p["YES"] + p["NO"] + p["ABSTAIN"]
    BY <2>1, <2>2, PowerOfVotes DEF Gov!VoteChoice
  <2>4. MajorityOf(V) BY <2>1, <2>3 DEF MajorityOf, Gov!Passed, Gov!VoteChoice
  <2> QED BY <2>4 DEF Justified
<1>3. s \in Gov!Statuses /\ (s \in Passing => Justified) BY <1>2 DEF Gov!Statuses, Passing
<1>4. proposalHeld[c].status \in Passing => Justified BY <1>1 DEF GovernanceInv
<1> HIDE DEF s, p
<1>5. /\ proposalHeld' \in [Gov!Calls -> Gov!Proposal] /\ proposalHeld'[c].status = s
      /\ \A d \in Gov!Calls \ {c} : proposalHeld'[d] = proposalHeld[d]
  BY <1>1, <1>3 DEF GovernanceInv, Gov!TypeOK, Gov!Proposal
<1>6. /\ proposalPc'[c] = "save"
      /\ \A d \in Gov!Calls \ {c} : proposalPc'[d] = proposalPc[d]
      /\ proposalPc' \in [Gov!Calls ->
           {"start", "check", "insert", "recompute", "savesums", "save", "saved", "done"}]
  BY <1>1 DEF GovernanceInv
<1>7. Gov!TypeOK' BY <1>1, <1>5 DEF GovernanceInv, Gov!TypeOK
<1>8. Justified => Justified' BY <1>1, <1>5, <1>6, JustifiedStays DEF Gov!Calls
<1>9. \A d \in Gov!Calls : proposalPc'[d] = "savesums" => Counted(proposalHeld[d].power)'
  <2> SUFFICES ASSUME NEW d \in Gov!Calls, proposalPc'[d] = "savesums"
               PROVE  Counted(proposalHeld[d].power)' OBVIOUS
  <2>1. d # c BY <1>6
  <2>2. Counted(proposalHeld[d].power) BY <1>6, <2>1 DEF GovernanceInv
  <2>3. proposalHeld'[d] = proposalHeld[d] /\ votes' = votes BY <1>1, <1>5, <2>1
  <2> QED BY <2>2, <2>3 DEF Counted
<1> QED BY <1>1, <1>3, <1>4, <1>5, <1>6, <1>7, <1>8, <1>9 DEF GovernanceInv, Changes

\* A saved row is justified, or now overridden by the call that saved it.
LEMMA SaveProposalKeepsInv ==
    ASSUME GovernanceInv, NEW c \in Gov!Calls, Gov!SaveProposal(c)
    PROVE  GovernanceInv'
<1>1. /\ proposalPc[c] = "save" /\ UNCHANGED <<votes, proposalHeld, power>>
      /\ proposal' = proposalHeld[c] /\ proposalPc' = [proposalPc EXCEPT ![c] = "saved"]
  BY DEF Gov!SaveProposal, Gov!Goto
<1>2. /\ proposalPc'[c] = "saved"
      /\ \A d \in Gov!Calls \ {c} : proposalPc'[d] = proposalPc[d]
      /\ proposalPc' \in [Gov!Calls ->
           {"start", "check", "insert", "recompute", "savesums", "save", "saved", "done"}]
  BY <1>1 DEF GovernanceInv
<1>3. Gov!TypeOK' BY <1>1 DEF GovernanceInv, Gov!TypeOK
<1>4. Justified => Justified' BY <1>1, <1>2, JustifiedStays DEF Gov!Calls
<1>5. proposal'.status \in Passing => Justified'
  <2> SUFFICES ASSUME proposalHeld[c].status \in Passing PROVE Justified' BY <1>1
  <2>1. CASE Justified BY <1>4, <2>1
  <2>2. CASE Changes(c)
    <3>1. Gov!Overridden' BY <1>1, <1>2, <2>2 DEF Gov!Overridden, Changes, Passing
    <3> QED BY <3>1 DEF Justified
  <2> QED BY <2>1, <2>2 DEF GovernanceInv
<1>6. \A d \in Gov!Calls : proposalPc'[d] = "savesums" => Counted(proposalHeld[d].power)'
  BY <1>1, <1>2 DEF GovernanceInv, Counted
<1> QED BY <1>1, <1>2, <1>3, <1>4, <1>5, <1>6 DEF GovernanceInv, Changes

LEMMA GovernanceKept == GovernanceInv /\ [ServicesNext]_servicesVars => GovernanceInv'
<1>1. ASSUME GovernanceInv, Gov!Next PROVE GovernanceInv'
  BY <1>1, ReadProposalKeepsInv, CheckVoterKeepsInv, SaveVoteKeepsInv, RecomputeKeepsInv,
     SaveSumsKeepsInv, SaveProposalKeepsInv DEF Gov!Next
<1>2. ASSUME GovernanceInv, UNCHANGED proposalVars PROVE GovernanceInv'
  BY <1>2 DEF proposalVars, GovernanceInv, Gov!TypeOK, Justified, Gov!Overridden, Counted, Changes
<1> QED BY <1>1, <1>2, WhoseStep

\* A proposal succeeds or is executed only on votes that were cast, one per
\* user, with a quorum and a majority, or because an update said so.
THEOREM ProposalOutcomeIsBacked == ServicesSpec => []OutcomeIsBacked
<1>1. ServicesInit => GovernanceInv BY GovernanceInit DEF ServicesInit
<1>2. GovernanceInv /\ [ServicesNext]_servicesVars => GovernanceInv' BY GovernanceKept
<1>3. GovernanceInv => OutcomeIsBacked
  BY DEF GovernanceInv, Justified, MajorityOf, For, Passing, OutcomeIsBacked, Gov!OutcomeIsBacked
<1> QED BY <1>1, <1>2, <1>3, PTL DEF ServicesSpec

-----------------------------------------------------------------------------
(* The auction *)

Bid == [user : Bidders, amount : BidAmounts]

Rising(B) == \A i, j \in DOMAIN B : i < j => B[i].amount < B[j].amount

IndexesOf(B, u) == {j \in DOMAIN B : B[j].user = u}
AmountsOf(B, u) == {B[i].amount : i \in IndexesOf(B, u)}
LastOf(B, u)    == IF AmountsOf(B, u) = {} THEN 0 ELSE B[Auc!Max(IndexesOf(B, u))].amount
HighestOf(B, u) == Auc!Max({0} \cup AmountsOf(B, u))

LEMMA BidOperators ==
    \A u : /\ Auc!LastBid(u) = LastOf(bids, u) /\ Auc!LastBid(u)' = LastOf(bids', u)
           /\ Auc!Highest(u) = HighestOf(bids, u) /\ Auc!BidsOf(u) = AmountsOf(bids, u)
BY DEF Auc!LastBid, Auc!Highest, Auc!BidsOf, LastOf, HighestOf, AmountsOf, IndexesOf

\* The greatest of a set of naturals is the one no other exceeds.
LEMMA MaxIs ==
    ASSUME NEW S \in SUBSET Nat, NEW m \in S, \A x \in S : x <= m
    PROVE  Auc!Max(S) = m
<1>1. \A x \in S : m >= x OBVIOUS
<1>2. \A x \in S : (\A y \in S : x >= y) => x = m OBVIOUS
<1> HIDE DEF Auc!Max
<1>3. Auc!Max(S) = CHOOSE x \in S : \A y \in S : x >= y BY DEF Auc!Max
<1> QED BY <1>1, <1>2, <1>3

LEMMA BidFacts ==
    ASSUME NEW B \in Seq(Bid)
    PROVE  /\ Len(B) \in Nat /\ DOMAIN B = 1..Len(B)
           /\ \A i \in DOMAIN B : /\ B[i] \in Bid /\ B[i].user \in Bidders
                                  /\ B[i].amount \in BidAmounts /\ B[i].amount \in Nat \ {0}
<1>1. \A i \in DOMAIN B : B[i] \in Bid OBVIOUS
<1>2. \A i \in DOMAIN B : B[i].user \in Bidders /\ B[i].amount \in BidAmounts BY <1>1 DEF Bid
<1>3. \A i \in DOMAIN B : B[i].amount \in Nat \ {0} BY <1>2, AuctionAssumption
<1>4. Len(B) \in Nat /\ DOMAIN B = 1..Len(B) OBVIOUS
<1> QED BY <1>1, <1>2, <1>3, <1>4

\* The last of rising bids is the highest.
LEMMA LastExceeds ==
    ASSUME NEW B \in Seq(Bid), Rising(B), NEW i \in 1..Len(B)
    PROVE  B[i].amount <= B[Len(B)].amount
<1> DEFINE n == Len(B)
<1>1. n \in Nat /\ DOMAIN B = 1..n /\ \A j \in 1..n : B[j].amount \in Nat BY BidFacts
<1> HIDE DEF n
<1>2. i \in 1..n /\ n \in 1..n BY <1>1 DEF n
<1>3. i = n \/ i < n BY <1>1, <1>2
<1>4. i < n => B[i].amount < B[n].amount BY <1>1, <1>2 DEF Rising
<1>5. B[i].amount <= B[n].amount BY <1>1, <1>2, <1>3, <1>4
<1> QED BY <1>5 DEF n

\* A user's last bid is the one after which there is none.
LEMMA LastBidIs ==
    ASSUME NEW B \in Seq(Bid), NEW u, NEW k \in IndexesOf(B, u),
           \A j \in IndexesOf(B, u) : j <= k
    PROVE  LastOf(B, u) = B[k].amount
<1>1. IndexesOf(B, u) \in SUBSET Nat BY BidFacts DEF IndexesOf
<1>2. Auc!Max(IndexesOf(B, u)) = k BY <1>1, MaxIs
<1>3. B[k].amount \in AmountsOf(B, u) BY DEF AmountsOf
<1> QED BY <1>2, <1>3 DEF LastOf

LEMMA NoBidIs ==
    ASSUME NEW B, NEW u, IndexesOf(B, u) = {}
    PROVE  LastOf(B, u) = 0 /\ AmountsOf(B, u) = {}
BY DEF LastOf, AmountsOf

\* Every user has bid last, or has not bid.
LEMMA LastBidExists ==
    ASSUME NEW B \in Seq(Bid), NEW u, IndexesOf(B, u) # {}
    PROVE  \E k \in IndexesOf(B, u) : \A j \in IndexesOf(B, u) : j <= k
<1>1. IndexesOf(B, u) \in SUBSET Nat /\ Len(B) \in Nat /\ \A j \in IndexesOf(B, u) : j <= Len(B)
  BY BidFacts DEF IndexesOf
<1>2. \E k \in IndexesOf(B, u) : \A j \in IndexesOf(B, u) : k >= j
  BY <1>1, GreatestNatural
<1> QED BY <1>1, <1>2

\* As bids rise, a user's last bid is the user's highest.
LEMMA LastIsHighest ==
    ASSUME NEW B \in Seq(Bid), Rising(B), NEW u
    PROVE  LastOf(B, u) = HighestOf(B, u) /\ LastOf(B, u) \in Nat
<1>1. CASE IndexesOf(B, u) = {}
  <2>1. LastOf(B, u) = 0 /\ {0} \cup AmountsOf(B, u) = {0} BY <1>1, NoBidIs
  <2>2. Auc!Max({0}) = 0 BY MaxIs
  <2>3. HighestOf(B, u) = Auc!Max({0}) BY <2>1 DEF HighestOf
  <2>4. HighestOf(B, u) = 0 BY <2>2, <2>3
  <2> QED BY <2>1, <2>4
<1>2. CASE IndexesOf(B, u) # {}
  <2>1. PICK k \in IndexesOf(B, u) : \A j \in IndexesOf(B, u) : j <= k BY <1>2, LastBidExists
  <2>2. LastOf(B, u) = B[k].amount BY <2>1, LastBidIs
  <2>3. \A j \in IndexesOf(B, u) : j \in DOMAIN B /\ B[j].amount \in Nat \ {0}
    BY BidFacts DEF IndexesOf
  <2>4. \A j \in IndexesOf(B, u) : B[j].amount <= B[k].amount
    <3> TAKE j \in IndexesOf(B, u)
    <3>1. j \in Nat /\ k \in Nat BY <2>3, BidFacts
    <3>2. j = k \/ j < k BY <2>1, <3>1
    <3>3. j < k => B[j].amount < B[k].amount BY <2>3 DEF Rising
    <3> QED BY <2>3, <3>2, <3>3
  <2> DEFINE S == {0} \cup AmountsOf(B, u)
  <2>5. /\ S \in SUBSET Nat /\ B[k].amount \in S /\ \A x \in S : x <= B[k].amount
    BY <2>3, <2>4 DEF AmountsOf
  <2> HIDE DEF S
  <2>6. Auc!Max(S) = B[k].amount BY <2>5, MaxIs
  <2> QED BY <2>2, <2>3, <2>6 DEF S, HighestOf
<1> QED BY <1>1, <1>2

\* A new bid is its user's last; the other users' last bids are the same.
LEMMA LastOfAppend ==
    ASSUME NEW B \in Seq(Bid), NEW b \in Bid
    PROVE  /\ LastOf(Append(B, b), b.user) = b.amount
           /\ \A u : u # b.user => LastOf(Append(B, b), u) = LastOf(B, u)
<1> DEFINE C == Append(B, b)  n == Len(B)
<1>1. /\ C \in Seq(Bid) /\ DOMAIN C = 1..(n + 1) /\ C[n + 1] = b
      /\ \A i \in 1..n : C[i] = B[i]
  BY AppendProperties
<1>2. n \in Nat /\ DOMAIN B = 1..n BY BidFacts
<1> HIDE DEF C, n
<1>3. LastOf(C, b.user) = b.amount
  <2>1. n + 1 \in IndexesOf(C, b.user) /\ \A j \in IndexesOf(C, b.user) : j <= n + 1
    BY <1>1, <1>2 DEF IndexesOf
  <2> QED BY <1>1, <2>1, LastBidIs
<1>4. ASSUME NEW u, u # b.user PROVE LastOf(C, u) = LastOf(B, u)
  <2>1. IndexesOf(C, u) = IndexesOf(B, u)
    <3>1. \A j \in 1..(n + 1) : j = n + 1 \/ j \in 1..n BY <1>2
    <3> QED BY <1>1, <1>2, <1>4, <3>1 DEF IndexesOf
  <2>2. CASE IndexesOf(B, u) = {} BY <2>1, <2>2, NoBidIs
  <2>3. CASE IndexesOf(B, u) # {}
    <3>1. PICK k \in IndexesOf(B, u) : \A j \in IndexesOf(B, u) : j <= k BY <2>3, LastBidExists
    <3>2. LastOf(B, u) = B[k].amount BY <3>1, LastBidIs
    <3>3. LastOf(C, u) = C[k].amount BY <1>1, <2>1, <3>1, LastBidIs
    <3> QED BY <1>1, <1>2, <3>1, <3>2, <3>3 DEF IndexesOf
  <2> QED BY <2>2, <2>3
<1> QED BY <1>3, <1>4 DEF C

RowFields == {"status", "endsAt", "extensions", "high", "bidder", "winner", "winningBid"}

RowNamesLast ==
    \/ bids = <<>> /\ auction.high = 0 /\ auction.bidder = NoBidder
    \/ bids # <<>> /\ auction.high = bids[Len(bids)].amount
                   /\ auction.bidder = bids[Len(bids)].user

\* A winner has made the bid it won with.
WinnerHasBid ==
    auction.winner # NoBidder =>
       /\ auction.winningBid >= ReservePrice
       /\ \E i \in DOMAIN bids : bids[i].user = auction.winner /\ bids[i].amount = auction.winningBid

\* What a late write does to the row only touches its status and its end; the
\* reservations are the last bids until a release, which takes them or leaves
\* them.
AuctionInv ==
    /\ auction = [f \in RowFields |-> auction[f]] /\ Auc!TypeOK
    /\ bids \in Seq(Bid) /\ Rising(bids) /\ RowNamesLast /\ WinnerHasBid
    /\ releases \in Nat /\ releasedAt \in Nat /\ releasedAt <= Len(bids)
    /\ releases = 0 => \A u \in Bidders : reserved[u] = LastOf(bids, u)
    /\ releases = 1 /\ releasedAt = Len(bids) =>
          \A u \in Bidders : reserved[u] \in {0, LastOf(bids, u)}

LEMMA NoBids == <<>> \in Seq(Bid) /\ DOMAIN <<>> = {} /\ Len(<<>>) = 0
OBVIOUS

LEMMA AuctionInit == Auc!Init => AuctionInv
<1> SUFFICES ASSUME Auc!Init PROVE AuctionInv OBVIOUS
<1>1. /\ auction = [f \in RowFields |-> auction[f]] /\ auction.status = "scheduled"
      /\ auction.high = 0 /\ auction.bidder = NoBidder /\ auction.winner = NoBidder
  BY DEF Auc!Init, RowFields
<1>2. /\ bids = <<>> /\ releases = 0 /\ releasedAt = 0
      /\ timer = "off" /\ reserved = [u \in Bidders |-> 0]
  BY DEF Auc!Init
<1>3. Auc!TypeOK BY <1>1, <1>2 DEF Auc!TypeOK
<1>4. bids \in Seq(Bid) /\ Rising(bids) /\ Len(bids) = 0 BY <1>2, NoBids DEF Rising
<1>5. \A u : IndexesOf(bids, u) = {} BY <1>2, NoBids DEF IndexesOf
<1>6. \A u \in Bidders : reserved[u] = LastOf(bids, u) BY <1>2, <1>5, NoBidIs
<1> QED BY <1>1, <1>2, <1>3, <1>4, <1>6 DEF AuctionInv, RowNamesLast, WinnerHasBid

\* Steps that change the row's status and end at most, and no bid or fund.
LEMMA RowStepKeepsInv ==
    ASSUME AuctionInv, UNCHANGED <<bids, reserved, releases, releasedAt>>,
           auction' = [f \in RowFields |-> auction'[f]],
           auction'.status \in {"scheduled", "active", "ending"} \cup Auc!Closed,
           \A f \in {"high", "bidder", "winner", "winningBid"} : auction'[f] = auction[f],
           timer' \in {"on", "off", "last"}
    PROVE  AuctionInv'
<1>1. Auc!TypeOK' BY DEF AuctionInv, Auc!TypeOK
<1>2. RowNamesLast' /\ WinnerHasBid' BY DEF AuctionInv, RowNamesLast, WinnerHasBid
<1> QED BY <1>1, <1>2 DEF AuctionInv

LEMMA DecideKeepsInv ==
    ASSUME AuctionInv,
           \/ Auc!StartAuction \/ Auc!CancelAuction \/ Auc!Tick \/ Auc!TimePasses
           \/ (\E op \in decided : Auc!CheckAntiSnipe(op)) \/ UNCHANGED auctionVars
    PROVE  AuctionInv'
<1>1. /\ UNCHANGED <<auction, bids, reserved, releases, releasedAt>>
      /\ timer' \in {"on", "off", "last"}
  BY DEF Auc!StartAuction, Auc!CancelAuction, Auc!Tick, Auc!TimePasses, Auc!CheckAntiSnipe,
     Auc!history, Auc!Stopped, auctionVars, AuctionInv, Auc!TypeOK
<1>2. /\ auction' = [f \in RowFields |-> auction'[f]]
      /\ auction'.status \in {"scheduled", "active", "ending"} \cup Auc!Closed
  BY <1>1 DEF AuctionInv, Auc!TypeOK
<1> QED BY <1>1, <1>2, RowStepKeepsInv

LEMMA WriteKeepsInv ==
    ASSUME AuctionInv, NEW op \in decided, Auc!Write(op)
    PROVE  AuctionInv'
<1>1. /\ op.kind \in {"start", "cancel", "end", "ending", "extend"}
      /\ UNCHANGED <<bids, reserved, releases, releasedAt>>
      /\ timer' = (IF op.kind = "start" THEN "on" ELSE timer)
  BY DEF Auc!Write, Auc!history
<1>2. /\ auction' = [f \in RowFields |-> auction'[f]]
      /\ auction'.status \in {"scheduled", "active", "ending"} \cup Auc!Closed
      /\ \A f \in {"high", "bidder", "winner", "winningBid"} : auction'[f] = auction[f]
  <2>1. auction = [f \in RowFields |-> auction[f]] BY DEF AuctionInv
  <2>2. CASE op.kind \in {"start", "cancel", "end", "ending"}
    <3>1. \E s \in {"active", "ending"} \cup Auc!Closed : auction' = [auction EXCEPT !.status = s]
      BY <2>2 DEF Auc!Write, Auc!Closed
    <3> QED BY <2>1, <3>1 DEF RowFields
  <2>3. CASE op.kind = "extend"
    <3>1. auction' = [auction EXCEPT !.status = "active", !.endsAt = op.at, !.extensions = op.extensions]
      BY <2>3 DEF Auc!Write
    <3> QED BY <2>1, <3>1 DEF RowFields
  <2> QED BY <1>1, <2>2, <2>3
<1>3. timer' \in {"on", "off", "last"} BY <1>1 DEF AuctionInv, Auc!TypeOK
<1> QED BY <1>1, <1>2, <1>3, RowStepKeepsInv

LEMMA RestartKeepsInv == AuctionInv /\ Auc!Restart => AuctionInv'
<1> SUFFICES ASSUME AuctionInv, Auc!Restart PROVE AuctionInv' OBVIOUS
<1>1. /\ UNCHANGED <<bids, reserved, releases, releasedAt>>
      /\ timer' \in {"on", "off", "last"}
      /\ auction' = [auction EXCEPT !.status = "ended"] \/ auction' = auction
  BY DEF Auc!Restart, Auc!history
<1>2. auction = [f \in RowFields |-> auction[f]] BY DEF AuctionInv
<1>3. /\ auction' = [f \in RowFields |-> auction'[f]]
      /\ auction'.status \in {"scheduled", "active", "ending"} \cup Auc!Closed
      /\ \A f \in {"high", "bidder", "winner", "winningBid"} : auction'[f] = auction[f]
  <2>1. CASE auction' = [auction EXCEPT !.status = "ended"] BY <1>2, <2>1 DEF RowFields, Auc!Closed
  <2>2. CASE auction' = auction BY <1>2, <2>2 DEF AuctionInv, Auc!TypeOK
  <2> QED BY <1>1, <2>1, <2>2
<1> QED BY <1>1, <1>3, RowStepKeepsInv

\* A release takes of each user the highest bid, which is the last, or nothing.
LEMMA ReleaseReserved ==
    ASSUME AuctionInv, Auc!Release(Bidders)
    PROVE  /\ reserved' \in [Bidders -> Int]
           /\ \A u \in Bidders : reserved[u] = LastOf(bids, u) => reserved'[u] \in {0, LastOf(bids, u)}
<1>1. PICK S \in SUBSET Bidders :
         reserved' = [u \in Bidders |-> reserved[u] - IF u \in S THEN HighestOf(bids, u) ELSE 0]
  BY BidOperators DEF Auc!Release
<1>2. \A u : LastOf(bids, u) = HighestOf(bids, u) /\ HighestOf(bids, u) \in Nat
  BY LastIsHighest DEF AuctionInv
<1>3. reserved \in [Bidders -> Int] BY DEF AuctionInv, Auc!TypeOK
<1>4. ASSUME NEW u \in Bidders
      PROVE  reserved'[u] \in Int /\ reserved'[u] \in {reserved[u], reserved[u] - LastOf(bids, u)}
  <2>1. CASE u \in S BY <1>1, <1>2, <1>3, <2>1
  <2>2. CASE u \notin S BY <1>1, <1>2, <1>3, <2>2
  <2> QED BY <2>1, <2>2
<1>5. reserved' \in [Bidders -> Int] BY <1>1, <1>4
<1>6. ASSUME NEW u \in Bidders, reserved[u] = LastOf(bids, u)
      PROVE  reserved'[u] \in {0, LastOf(bids, u)}
  BY <1>2, <1>3, <1>4, <1>6
<1> QED BY <1>5, <1>6

\* Steps that release funds, whatever they do to the row's status and winner.
LEMMA FundStepKeepsInv ==
    ASSUME AuctionInv, Auc!Release(Bidders), UNCHANGED <<bids, timer>>,
           auction' = [f \in RowFields |-> auction'[f]],
           auction'.status \in {"scheduled", "active", "ending"} \cup Auc!Closed,
           auction'.high = auction.high, auction'.bidder = auction.bidder, WinnerHasBid'
    PROVE  AuctionInv'
<1>1. /\ reserved' \in [Bidders -> Int]
      /\ \A u \in Bidders : reserved[u] = LastOf(bids, u) => reserved'[u] \in {0, LastOf(bids, u)}
  BY ReleaseReserved
<1>2. /\ releases' \in Nat /\ releases' # 0 /\ (releases' = 1 => releases = 0)
      /\ releasedAt' \in Nat /\ releasedAt' <= Len(bids)'
  BY BidFacts DEF Auc!Release, AuctionInv
<1>3. Auc!TypeOK' BY <1>1 DEF AuctionInv, Auc!TypeOK
<1>4. RowNamesLast' BY DEF AuctionInv, RowNamesLast
<1>5. releases' = 1 => \A u \in Bidders : reserved'[u] \in {0, LastOf(bids, u)}
  BY <1>1, <1>2 DEF AuctionInv
<1> QED BY <1>2, <1>3, <1>4, <1>5 DEF AuctionInv

LEMMA ReleaseKeepsInv ==
    ASSUME AuctionInv, NEW op \in decided, Auc!ReleaseCancelled(op) \/ Auc!ReleaseUnsold(op)
    PROVE  AuctionInv'
<1>1. Auc!Release(Bidders) /\ UNCHANGED <<auction, bids, timer>>
  BY DEF Auc!ReleaseCancelled, Auc!ReleaseUnsold
<1>2. /\ auction' = [f \in RowFields |-> auction'[f]] /\ WinnerHasBid'
      /\ auction'.status \in {"scheduled", "active", "ending"} \cup Auc!Closed
  BY <1>1 DEF AuctionInv, Auc!TypeOK, WinnerHasBid
<1> QED BY <1>1, <1>2, FundStepKeepsInv

\* The winner of a settlement is the last bidder.
LEMMA SettleKeepsInv ==
    ASSUME AuctionInv, NEW op \in decided, Auc!SettleAuction(op)
    PROVE  AuctionInv'
<1>1. auction = [f \in RowFields |-> auction[f]] BY DEF AuctionInv
<1>2. CASE Auc!LeaveUnsettled(op) \/ Auc!CloseUnsold(op)
  <2>1. /\ UNCHANGED <<bids, reserved, timer, releases, releasedAt>>
        /\ auction' = auction \/ auction' = [auction EXCEPT !.status = "settled"]
    BY <1>2 DEF Auc!LeaveUnsettled, Auc!CloseUnsold, Auc!history
  <2>2. /\ auction' = [f \in RowFields |-> auction'[f]]
        /\ auction'.status \in {"scheduled", "active", "ending"} \cup Auc!Closed
        /\ \A f \in {"high", "bidder", "winner", "winningBid"} : auction'[f] = auction[f]
    <3>1. CASE auction' = [auction EXCEPT !.status = "settled"]
      BY <1>1, <3>1 DEF RowFields, Auc!Closed
    <3>2. CASE auction' = auction BY <1>1, <3>2 DEF AuctionInv, Auc!TypeOK
    <3> QED BY <2>1, <3>1, <3>2
  <2>3. timer' \in {"on", "off", "last"} BY <2>1 DEF AuctionInv, Auc!TypeOK
  <2> QED BY <2>1, <2>2, <2>3, RowStepKeepsInv
<1>3. CASE Auc!SettleWithWinner(op)
  <2>1. /\ auction' = [auction EXCEPT !.status = "settled",
              !.winner = auction.bidder, !.winningBid = auction.high]
        /\ auction.bidder # NoBidder /\ auction.high >= ReservePrice
        /\ Auc!Release(Bidders) /\ UNCHANGED <<bids, timer>>
    BY <1>3 DEF Auc!SettleWithWinner, Auc!HasWinner, Auc!Losers
  <2>2. /\ auction' = [f \in RowFields |-> auction'[f]] /\ auction'.status = "settled"
        /\ auction'.high = auction.high /\ auction'.bidder = auction.bidder
        /\ auction'.winner = auction.bidder /\ auction'.winningBid = auction.high
    BY <1>1, <2>1 DEF RowFields
  <2>3. /\ Len(bids) \in DOMAIN bids /\ bids[Len(bids)].user = auction.bidder
        /\ bids[Len(bids)].amount = auction.high
    BY <2>1, BidFacts DEF AuctionInv, RowNamesLast
  <2>4. WinnerHasBid' BY <2>1, <2>2, <2>3 DEF WinnerHasBid
  <2>5. auction'.status \in {"scheduled", "active", "ending"} \cup Auc!Closed BY <2>2 DEF Auc!Closed
  <2> QED BY <2>1, <2>2, <2>4, <2>5, FundStepKeepsInv
<1>4. CASE Auc!ReleaseUnsold(op) BY <1>4, ReleaseKeepsInv
<1> QED BY <1>2, <1>3, <1>4 DEF Auc!SettleAuction

LEMMA PlaceBidKeepsInv ==
    ASSUME AuctionInv, NEW u \in Bidders, NEW amount \in BidAmounts, Auc!PlaceBid(u, amount)
    PROVE  AuctionInv'
<1> DEFINE b == [user |-> u, amount |-> amount]  n == Len(bids)
<1>1. /\ amount >= Auc!MinBid /\ reserved' = [reserved EXCEPT ![u] = @ + amount - LastOf(bids, u)]
      /\ bids' = Append(bids, b)
      /\ auction' = [auction EXCEPT !.high = amount, !.bidder = u]
      /\ UNCHANGED <<timer, releases, releasedAt>>
  BY BidOperators DEF Auc!PlaceBid, Auc!Reserve, Auc!history
<1>2. /\ b \in Bid /\ b.user = u /\ b.amount = amount /\ bids \in Seq(Bid)
      /\ amount \in Nat \ {0} /\ n \in Nat /\ DOMAIN bids = 1..n
  BY BidFacts, AuctionAssumption DEF Bid, AuctionInv
<1>3. /\ bids' \in Seq(Bid) /\ DOMAIN bids' = 1..(n + 1) /\ Len(bids') = n + 1
      /\ bids'[n + 1] = b /\ \A i \in 1..n : bids'[i] = bids[i]
  BY <1>1, <1>2, AppendProperties
<1>4. LastOf(bids', u) = amount /\ \A v : v # u => LastOf(bids', v) = LastOf(bids, v)
  BY <1>1, <1>2, LastOfAppend
<1> HIDE DEF b
<1>5. \A i \in 1..n : bids[i].amount < amount
  <2>1. CASE bids = <<>> BY <1>2, <2>1
  <2>2. CASE bids # <<>>
    <3>1. n \in DOMAIN bids /\ auction.high = bids[n].amount
      BY <1>2, <2>2 DEF AuctionInv, RowNamesLast
    <3>2. \A i \in 1..n : bids[i].amount \in Nat \ {0} BY <1>2, BidFacts
    <3>3. bids[n].amount < amount
      BY <1>1, <1>2, <3>1, <3>2, AuctionAssumption DEF Auc!MinBid
    <3>4. \A i \in 1..n : bids[i].amount <= bids[n].amount BY LastExceeds DEF AuctionInv
    <3> QED BY <1>2, <3>1, <3>2, <3>3, <3>4
  <2> QED BY <2>1, <2>2
<1>6. Rising(bids)'
  <2> SUFFICES ASSUME NEW i \in 1..(n + 1), NEW j \in 1..(n + 1), i < j
               PROVE  bids'[i].amount < bids'[j].amount BY <1>3 DEF Rising
  <2>1. i \in 1..n BY <1>2
  <2>2. CASE j = n + 1 BY <1>2, <1>3, <1>5, <2>1, <2>2
  <2>3. CASE j \in 1..n BY <1>2, <1>3, <2>1, <2>3 DEF AuctionInv, Rising
  <2> QED BY <1>2, <2>2, <2>3
<1>7. /\ auction' = [f \in RowFields |-> auction'[f]] /\ auction'.high = amount /\ auction'.bidder = u
      /\ auction'.status = auction.status /\ auction'.winner = auction.winner
      /\ auction'.winningBid = auction.winningBid
  BY <1>1 DEF AuctionInv, RowFields
<1>8. RowNamesLast'
  <2>1. bids' # <<>> BY <1>2, <1>3
  <2> QED BY <1>2, <1>3, <1>7, <2>1 DEF RowNamesLast
<1>9. \A v : LastOf(bids, v) \in Nat BY LastIsHighest DEF AuctionInv
<1>10. /\ reserved' \in [Bidders -> Int] /\ reserved'[u] = reserved[u] + amount - LastOf(bids, u)
       /\ \A v \in Bidders \ {u} : reserved'[v] = reserved[v] /\ reserved[u] \in Int
  BY <1>1, <1>2, <1>9 DEF AuctionInv, Auc!TypeOK
<1>11. reserved[u] \in Int BY DEF AuctionInv, Auc!TypeOK
<1>12. releases' = 0 => \A v \in Bidders : reserved'[v] = LastOf(bids', v)
  <2> SUFFICES ASSUME releases = 0, NEW v \in Bidders
               PROVE  reserved'[v] = LastOf(bids', v) BY <1>1
  <2>1. reserved[v] = LastOf(bids, v) BY DEF AuctionInv
  <2>2. CASE v = u BY <1>2, <1>4, <1>9, <1>10, <1>11, <2>1, <2>2
  <2>3. CASE v # u BY <1>4, <1>10, <2>1, <2>3
  <2> QED BY <2>2, <2>3
<1>13. Auc!TypeOK' BY <1>1, <1>7, <1>10 DEF AuctionInv, Auc!TypeOK
<1>14. WinnerHasBid'
  <2>1. ASSUME NEW i \in DOMAIN bids PROVE i \in DOMAIN bids' /\ bids'[i] = bids[i]
    BY <1>2, <1>3
  <2> QED BY <1>7, <2>1 DEF AuctionInv, WinnerHasBid
<1>15. releasedAt' <= Len(bids') /\ releasedAt' # Len(bids') BY <1>1, <1>2, <1>3 DEF AuctionInv
<1> QED BY <1>1, <1>3, <1>6, <1>7, <1>8, <1>12, <1>13, <1>14, <1>15 DEF AuctionInv

LEMMA AuctionKept == AuctionInv /\ [ServicesNext]_servicesVars => AuctionInv'
<1>1. ASSUME AuctionInv, Auc!Next PROVE AuctionInv'
  BY <1>1, DecideKeepsInv, WriteKeepsInv, RestartKeepsInv, ReleaseKeepsInv, SettleKeepsInv,
     PlaceBidKeepsInv DEF Auc!Next
<1> QED BY <1>1, DecideKeepsInv, WhoseStep

\* The row names the last and highest bid.
LEMMA FundsFollow == AuctionInv => Auc!FundsFollowBids
<1> SUFFICES ASSUME AuctionInv PROVE Auc!FundsFollowBids OBVIOUS
<1> DEFINE All == {0} \cup UNION {Auc!BidsOf(u) : u \in Bidders}  n == Len(bids)
<1>1. /\ bids \in Seq(Bid) /\ n \in Nat /\ DOMAIN bids = 1..n
      /\ \A i \in 1..n : bids[i].user \in Bidders /\ bids[i].amount \in Nat \ {0}
  BY BidFacts DEF AuctionInv
<1>2. All = {0} \cup {bids[i].amount : i \in 1..n}
  <2>1. \A u : Auc!BidsOf(u) = {bids[i].amount : i \in {j \in 1..n : bids[j].user = u}}
    BY <1>1, BidOperators DEF AmountsOf, IndexesOf
  <2> QED BY <1>1, <2>1
<1> HIDE DEF All
<1>3. Auc!Max(All) = auction.high
  <2>1. CASE bids = <<>>
    <3>1. All = {0} BY <1>1, <1>2, <2>1
    <3>3. Auc!Max({0}) = 0 BY MaxIs
    <3>4. auction.high = 0 BY <2>1 DEF AuctionInv, RowNamesLast
    <3> QED BY <3>1, <3>3, <3>4
  <2>2. CASE bids # <<>>
    <3>1. n \in 1..n /\ auction.high = bids[n].amount BY <1>1, <2>2 DEF AuctionInv, RowNamesLast
    <3>2. \A i \in 1..n : bids[i].amount <= bids[n].amount BY LastExceeds DEF AuctionInv
    <3>3. All \in SUBSET Nat /\ bids[n].amount \in All /\ \A x \in All : x <= bids[n].amount
      BY <1>1, <1>2, <3>1, <3>2
    <3> QED BY <3>1, <3>3, MaxIs
  <2> QED BY <2>1, <2>2
<1>4. auction.bidder # NoBidder => auction.high = LastOf(bids, auction.bidder)
  <2> SUFFICES ASSUME auction.bidder # NoBidder PROVE auction.high = LastOf(bids, auction.bidder)
    OBVIOUS
  <2>1. /\ n \in 1..n /\ auction.high = bids[n].amount /\ auction.bidder = bids[n].user
    BY <1>1 DEF AuctionInv, RowNamesLast
  <2>2. n \in IndexesOf(bids, auction.bidder) /\ \A j \in IndexesOf(bids, auction.bidder) : j <= n
    BY <1>1, <2>1 DEF IndexesOf
  <2> QED BY <1>1, <2>1, <2>2, LastBidIs
<1>5. auction.winner # NoBidder => auction.winningBid \in Auc!BidsOf(auction.winner)
  BY BidOperators DEF AuctionInv, WinnerHasBid, AmountsOf, IndexesOf
<1> QED BY <1>3, <1>4, <1>5, BidOperators DEF All, AuctionInv, WinnerHasBid, Auc!FundsFollowBids

\* Reservations follow the bids until funds are released, and after one release
\* a bidder has the last bid reserved or nothing; and a winner has made the bid
\* it won with, whatever ticks, extensions, failures and restarts come between.
THEOREM AuctionFundsFollowBids == ServicesSpec => []FundsFollowBids
<1>1. ServicesInit => AuctionInv BY AuctionInit DEF ServicesInit
<1>2. AuctionInv /\ [ServicesNext]_servicesVars => AuctionInv' BY AuctionKept
<1>3. AuctionInv => FundsFollowBids BY FundsFollow DEF FundsFollowBids
<1> QED BY <1>1, <1>2, <1>3, PTL DEF ServicesSpec

-----------------------------------------------------------------------------
(* All nine services *)

\* The engine and the rows of one asset, as one service among the others.
LEMMA MatchingKept == IInv /\ RowInv /\ [ServicesNext]_servicesVars => IInv' /\ RowInv'
<1> SUFFICES ASSUME IInv, RowInv, [ServicesNext]_servicesVars PROVE IInv' /\ RowInv' OBVIOUS
<1>1. [ServiceNext]_allVars
  <2>1. UNCHANGED matchingVars => UNCHANGED allVars BY DEF matchingVars, allVars
  <2> QED BY <2>1, WhoseStep
<1> QED BY <1>1, ServiceNextRowInv

\* The counters of joined rooms stay within their bounds.
Counts == \A s \in Con!Known : connections[s].count \in MinCount..MaxRooms

LEMMA CountsKept == SocketsInv /\ Counts /\ [ServicesNext]_servicesVars => Counts'
<1> SUFFICES ASSUME SocketsInv, Counts, [ServicesNext]_servicesVars PROVE Counts' OBVIOUS
<1>1. \A s \in Con!Known : connections[s] \in Connection BY DEF SocketsInv
<1>2. ASSUME NEW s \in Sockets, Con!AddConnection(s) PROVE Counts'
  BY <1>2, SocketsAssumption DEF Con!AddConnection, Con!With, Con!Known, Counts
<1>3. ASSUME NEW s \in Sockets, Con!RemoveConnection(s) \/ Con!Cleanup(s) PROVE Counts'
  BY <1>3 DEF Con!RemoveConnection, Con!Cleanup, Con!Without, Con!Known, Counts
<1>4. ASSUME NEW s \in Sockets, NEW u \in Users, Con!AssociateUser(s, u) PROVE Counts'
  <2>1. s \in Con!Known /\ connections' = [connections EXCEPT ![s].user = u]
    BY <1>4 DEF Con!AssociateUser
  <2>2. Con!Known' = Con!Known /\ \A t \in Con!Known : connections'[t].count = connections[t].count
    BY <1>1, <2>1 DEF Con!Known, Connection
  <2> QED BY <2>2 DEF Counts
<1>5. ASSUME NEW s \in Sockets, NEW r \in Rooms, Con!JoinRoom(s, r) \/ Con!LeaveRoom(s, r)
      PROVE  Counts'
  <2>1. PICK U, n : /\ n \in MinCount..MaxRooms
                    /\ connections' = [connections EXCEPT ![s] =
                          [user |-> connections[s].user, subs |-> U, count |-> n]]
    <3>1. CASE Con!JoinRoom(s, r)
      <4>1. s \in Con!Known /\ connections[s].count < MaxRooms
            /\ connections[s].count + 1 \in MinCount..MaxRooms
        BY <3>1, SocketsAssumption DEF Con!JoinRoom, Counts
      <4> QED BY <3>1, <4>1 DEF Con!JoinRoom
    <3>2. CASE Con!LeaveRoom(s, r)
      <4>1. s \in Con!Known /\ connections[s].count > MinCount
            /\ connections[s].count - 1 \in MinCount..MaxRooms
        BY <3>2, SocketsAssumption DEF Con!LeaveRoom, Counts
      <4> QED BY <3>2, <4>1 DEF Con!LeaveRoom
    <3> QED BY <1>5, <3>1, <3>2
  <2> QED BY <2>1 DEF Counts, Con!Known
<1>6. CASE UNCHANGED connections BY <1>6 DEF Counts, Con!Known
<1> QED BY <1>2, <1>3, <1>4, <1>5, <1>6, WhoseStep DEF Con!Next, Con!Disconnects, socketVars

\* The result of the search.
Result == route = Prc!NoRoute \/ route \in Seq(Assets)

LEMMA ResultKept == RouteInv /\ Result /\ [ServicesNext]_servicesVars => Result'
<1> SUFFICES ASSUME RouteInv, Result, [ServicesNext]_servicesVars PROVE Result' OBVIOUS
<1>1. CASE Prc!DirectPool
  <2>1. from \in Assets /\ to \in Assets /\ route' = <<from, to>>
    BY <1>1 DEF Prc!DirectPool, Prc!Return, RouteInv
  <2>2. <<from, to>> \in Seq(Assets) BY <2>1
  <2> QED BY <2>1, <2>2 DEF Result
<1>2. CASE Prc!Extend
  <2>1. queue # <<>> /\ Head(queue) \in Seq(Assets) /\ to \in Assets
    BY <1>2 DEF Prc!Extend, RouteInv
  <2>2. route' = Append(Head(queue), to) \/ route' = route
    BY <1>2 DEF Prc!Extend, Prc!Return
  <2>3. Append(Head(queue), to) \in Seq(Assets) BY <2>1
  <2> QED BY <2>2, <2>3 DEF Result
<1>3. CASE Prc!NotFound BY <1>3 DEF Prc!NotFound, Prc!Return, Result
<1>4. CASE UNCHANGED pricingVars BY <1>4 DEF pricingVars, Result
<1> QED BY <1>1, <1>2, <1>3, <1>4, WhoseStep DEF Prc!Next

\* The nine inductive invariants together.
AllInv ==
    /\ IInv /\ RowInv /\ EscrowInv /\ GovernanceInv /\ AuctionInv /\ KeysInv
    /\ SagaInv /\ OrderingInv /\ SocketsInv /\ Counts /\ RouteInv /\ Result

LEMMA AllInvTypes == AllInv => ServicesTypeOK
<1> SUFFICES ASSUME AllInv PROVE ServicesTypeOK OBVIOUS
<1>1. Esc!TypeOK /\ Gov!TypeOK /\ Auc!TypeOK /\ Sga!TypeOK /\ Ord!TypeOK
  BY DEF AllInv, EscrowInv, GovernanceInv, AuctionInv, SagaInv, OrderingInv
<1>2. ServiceTypeOK BY DEF AllInv, RowInv
<1>3. Key!TypeOK BY DEF AllInv, KeysInv, Key!TypeOK
<1>4. Con!TypeOK
  <2>1. \A s \in Con!Known : connections[s] \in Connection BY DEF AllInv, SocketsInv
  <2>2. \A s \in Con!Known : connections[s] \in
           [user : Users \cup {NoUser}, subs : SUBSET Rooms, count : MinCount..MaxRooms]
    BY <2>1 DEF AllInv, Counts, Connection
  <2> QED BY <2>2 DEF AllInv, SocketsInv, Con!TypeOK
<1>5. Prc!TypeOK BY DEF AllInv, RouteInv, Result, Prc!TypeOK
<1> QED BY <1>1, <1>2, <1>3, <1>4, <1>5 DEF ServicesTypeOK

LEMMA AllInvInit == ServicesInit => AllInv
<1> SUFFICES ASSUME ServicesInit PROVE AllInv OBVIOUS
<1>1. IInv /\ RowInv BY ServiceInitRowInv DEF ServicesInit
<1>2. EscrowInv /\ GovernanceInv /\ AuctionInv /\ KeysInv
  BY EscrowInit, GovernanceInit, AuctionInit, KeysInit DEF ServicesInit
<1>3. SagaInv /\ OrderingInv /\ SocketsInv /\ RouteInv
  BY SagaInit, OrderingInit, SocketsInit, RouteInit DEF ServicesInit
<1>4. Counts
  <2>1. Con!Known = {} BY DEF ServicesInit, Con!Init, Con!Known
  <2> QED BY <2>1 DEF Counts
<1>5. Result
  <2>1. route = <<>> BY DEF ServicesInit, Prc!Init
  <2>2. route \in Seq(Assets) BY <2>1
  <2> QED BY <2>2 DEF Result
<1> QED BY <1>1, <1>2, <1>3, <1>4, <1>5 DEF AllInv

LEMMA AllInvKept == AllInv /\ [ServicesNext]_servicesVars => AllInv'
<1> SUFFICES ASSUME AllInv, [ServicesNext]_servicesVars PROVE AllInv' OBVIOUS
<1>1. IInv' /\ RowInv' BY MatchingKept DEF AllInv
<1>2. EscrowInv' /\ GovernanceInv' /\ AuctionInv' /\ KeysInv'
  BY EscrowKept, GovernanceKept, AuctionKept, KeysKept DEF AllInv
<1>3. SagaInv' /\ OrderingInv' /\ SocketsInv' /\ RouteInv'
  BY SagaKept, OrderingKept, SocketsKept, RouteKept DEF AllInv
<1>4. Counts' /\ Result'
  BY CountsKept, ResultKept DEF AllInv
<1> QED BY <1>1, <1>2, <1>3, <1>4 DEF AllInv

\* Every table, list and call of the nine services holds what its type allows:
\* no counter leaves its range, no call saves a row of another kind, and the
\* search keeps to the assets it knows.
THEOREM ServicesTypes == ServicesSpec => []ServicesTypeOK
<1> QED BY AllInvInit, AllInvKept, AllInvTypes, PTL DEF ServicesSpec

\* The rows of the matching service are true beside the other services too.
THEOREM ServicesRowsAreTrue == ServicesSpec => []RowsFollowEngine
<1>1. AllInv => RowsFollowEngine BY TrueRows DEF AllInv
<1> QED BY <1>1, AllInvInit, AllInvKept, PTL DEF ServicesSpec
=============================================================================
