---------------------------- MODULE MCPsbtBatch ----------------------------
(***************************************************************************)
(* A small instance of PsbtBatch: one confirmed transaction with outputs   *)
(* of two accounts and of a stranger, transactions that spend them and     *)
(* each other, and every batch of at most two entries, with true and false *)
(* claims.                                                                 *)
(***************************************************************************)
EXTENDS PsbtBatch, TLC

CONSTANTS base, pay, chained, rival, theirs, inflated, derived, imported

Out(value, script) == [value |-> value, script |-> script]
At(t, v) == [tx |-> t, vout |-> v]
Addresses == {"sats", "vault", "key"}

\* The imported account holds the key of "key"; the derived one the others.
MCSignable ==
    (derived :> [address \in Addresses |->
        CASE address = "sats" -> {"sats"}
          [] address = "vault" -> {"vault", "vaultLeaf"}
          [] address = "key" -> {}])
    @@ (imported :> [address \in Addresses |-> IF address = "key" THEN {"key"} ELSE {}])

MCInventoryScripts == (derived :> {"sats"}) @@ (imported :> {"key"})

MCTx ==
    (base :> [inputs |-> <<>>,
              outputs |-> <<Out(3, "sats"), Out(2, "stranger"), Out(2, "key")>>])
    \* pays from the wallet to itself and a stranger
    @@ (pay :> [inputs |-> <<At(base, 1)>>, outputs |-> <<Out(1, "vaultLeaf"), Out(1, "stranger")>>])
    \* spends an output of pay with one of a stranger
    @@ (chained :> [inputs |-> <<At(pay, 1), At(base, 2)>>, outputs |-> <<Out(2, "vault")>>])
    \* conflicts with pay
    @@ (rival :> [inputs |-> <<At(base, 1)>>, outputs |-> <<Out(3, "stranger")>>])
    \* pays more than it spends
    @@ (inflated :> [inputs |-> <<At(base, 1)>>, outputs |-> <<Out(4, "stranger")>>])
    \* spends what belongs to a stranger and to the imported key
    @@ (theirs :> [inputs |-> <<At(base, 2), At(base, 3)>>, outputs |-> <<Out(1, "stranger")>>])

True(t) == [i \in DOMAIN MCTx[t].inputs |-> MCTx[MCTx[t].inputs[i].tx].outputs[MCTx[t].inputs[i].vout]]
Entry(t, claims, sign) == [tx |-> t, claims |-> claims, sign |-> sign]

MCEntries ==
    { Entry(pay, True(pay), 1 :> "sats"),
      Entry(pay, <<Out(2, "sats")>>, 1 :> "sats"),
      Entry(pay, <<Out(1, "sats")>>, 1 :> "sats"),
      Entry(rival, True(rival), 1 :> "sats"),
      Entry(inflated, True(inflated), 1 :> "sats"),
      Entry(chained, True(chained), 1 :> "vault"),
      Entry(chained, <<None, Out(2, "stranger")>>, 1 :> "vault"),
      Entry(chained, <<Out(1, "vaultLeaf"), None>>, 1 :> "vault"),
      Entry(theirs, True(theirs), 1 :> "sats"),
      Entry(theirs, <<Out(2, "sats"), Out(2, "key")>>, 1 :> "sats"),
      Entry(theirs, True(theirs), 2 :> "key") }

MCBatches == {<<e>> : e \in MCEntries} \cup {<<e, f>> : e \in MCEntries, f \in MCEntries}
=============================================================================
