---------------------------- MODULE QuantumKeys ----------------------------
(***************************************************************************)
(* The keys of quantum-crypto/services/quantum-key-service.ts: concurrent  *)
(* signData, performKeyExchange, rotateKey and revokeKey calls over one    *)
(* key and its successors.  Every call reads a row, awaits and saves the   *)
(* row it read (save, external, overwrites it); a process that stops is a  *)
(* call that takes no further step.  The two cron jobs are left out: their *)
(* filters use $lte, which no SQL driver of TypeORM understands, so they   *)
(* select no row.                                                          *)
(***************************************************************************)
EXTENDS Naturals

CONSTANTS
    Calls,      \* calls of the service
    OpOf,       \* "sign", "exchange", "rotate" or "revoke"
    MaxUses,    \* maxUsageCount
    MaxKeys     \* bound: ids given out by the table

VARIABLES
    usage,      \* KeyUsage of the key, inherited by its successors
    keys,       \* the table: one row per id given out
    held,       \* the row each call has in memory
    target,     \* the id of that row
    fresh,      \* the id of the key a rotation has generated, 0 before that
    pc

vars == <<usage, keys, held, target, fresh, pc>>

Ids  == 1..MaxKeys
Used == DOMAIN keys
Row  == [status: {"ACTIVE", "ROTATED", "COMPROMISED"}, uses: Nat, parent: 0..MaxKeys]
New  == [status |-> "ACTIVE", uses |-> 0, parent |-> 0]

\* A first key, as generateQuantumKeyPair saves it.
Init ==
    /\ usage \in {"SIGNING", "AUTHENTICATION", "KEY_EXCHANGE"}
    /\ keys   = [k \in {1} |-> New]
    /\ held   = [c \in Calls |-> New]
    /\ target = [c \in Calls |-> 1]
    /\ fresh  = [c \in Calls |-> 0]
    /\ pc     = [c \in Calls |-> "start"]

Goto(c, where) == pc' = [pc EXCEPT ![c] = where]
Throw(c)       == Goto(c, "thrown")

\* Mutant: the limit is compared with the count before this use.
UsedOnce_OffByOne(row) ==
    [status |-> IF row.uses >= MaxUses THEN "ROTATED" ELSE row.status,
     uses |-> row.uses + 1, parent |-> row.parent]

\* updateKeyUsage, up to its save.
UsedOnce(row) ==
    [status |-> IF row.uses + 1 >= MaxUses THEN "ROTATED" ELSE row.status,
     uses |-> row.uses + 1, parent |-> row.parent]

\* signData wants an ACTIVE key for signing; performKeyExchange only a key for
\* exchanges, whatever its status.
MayUse(c, row) ==
    \/ /\ OpOf[c] = "sign"
       /\ row.status = "ACTIVE" /\ usage \in {"SIGNING", "AUTHENTICATION"}
    \/ OpOf[c] = "exchange" /\ usage = "KEY_EXCHANGE"

\* findOne, and what is done to the row before the next await.
ReadKey(c) ==
    /\ pc[c] = "start"
    /\ \E k \in Used :
        /\ target' = [target EXCEPT ![c] = k]
        /\ \/ /\ MayUse(c, keys[k])
              /\ held' = [held EXCEPT ![c] = UsedOnce(keys[k])]
              /\ Goto(c, "save")
           \/ /\ OpOf[c] \in {"sign", "exchange"} /\ ~MayUse(c, keys[k])
              /\ held' = [held EXCEPT ![c] = keys[k]]
              /\ Throw(c)
           \/ /\ OpOf[c] = "rotate"
              /\ held' = [held EXCEPT ![c] = keys[k]]
              /\ Goto(c, "generate")
           \/ /\ OpOf[c] = "revoke"
              /\ held' = [held EXCEPT ![c] = [keys[k] EXCEPT !.status = "COMPROMISED"]]
              /\ Goto(c, "save")
    /\ UNCHANGED <<usage, keys, fresh>>

Save(k, row) == keys' = [j \in Used \cup {k} |-> IF j = k THEN row ELSE keys[j]]

\* Mutant: the old key is saved as ROTATED before its successor exists.
Generate_Late(c) ==
    /\ pc[c] = "generate"
    /\ \E k \in Ids \ Used : fresh' = [fresh EXCEPT ![c] = k]
    /\ held' = [held EXCEPT ![c].status = "ROTATED"]
    /\ Save(target[c], [held[c] EXCEPT !.status = "ROTATED"])
    /\ Goto(c, "save")
    /\ UNCHANGED <<usage, target>>

\* rotateKey: generateQuantumKeyPair saves the successor; then the old row in
\* memory becomes ROTATED.
Generate(c) ==
    /\ pc[c] = "generate"
    /\ \E k \in Ids \ Used :
        /\ \A j \in Ids \ Used : k <= j
        /\ fresh' = [fresh EXCEPT ![c] = k]
        /\ Save(k, New)
    /\ held' = [held EXCEPT ![c].status = "ROTATED"]
    /\ Goto(c, "save")
    /\ UNCHANGED <<usage, target>>

SaveKey(c) ==
    /\ pc[c] = "save"
    /\ Save(target[c], held[c])
    /\ Goto(c, IF OpOf[c] = "rotate" THEN "link" ELSE "returned")
    /\ UNCHANGED <<usage, held, target, fresh>>

\* The successor, as it was generated, is saved again with its parent.
LinkParent(c) ==
    /\ pc[c] = "link"
    /\ Save(fresh[c], [New EXCEPT !.parent = target[c]])
    /\ Goto(c, "returned")
    /\ UNCHANGED <<usage, held, target, fresh>>

Next == \E c \in Calls :
    ReadKey(c) \/ Generate(c) \/ SaveKey(c) \/ LinkParent(c)

Spec == Init /\ [][Next]_vars
-----------------------------------------------------------------------------
TypeOK ==
    /\ Used \subseteq Ids /\ keys \in [Used -> Row]
    /\ held \in [Calls -> Row] /\ target \in [Calls -> Ids] /\ fresh \in [Calls -> 0..MaxKeys]

\* However stale the row that is saved last and wherever a call stops: a key
\* that counts its last permitted use is not ACTIVE, and a key that is ROTATED
\* is used up or has had a successor generated before it was retired.
RetiredKeysAreReplaced ==
    \A k \in Used :
        /\ keys[k].status = "ACTIVE" => keys[k].uses < MaxUses
        /\ keys[k].status = "ROTATED" =>
              \/ keys[k].uses >= MaxUses
              \/ \E c \in Calls : target[c] = k /\ fresh[c] \in Used \ {k}
=============================================================================
