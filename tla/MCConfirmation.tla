---------------------------- MODULE MCConfirmation ----------------------------
(***************************************************************************)
(* A small instance of Confirmation: single PSBTs and batches, vault       *)
(* updates alone and in packages, each a request varied in a few parts.    *)
(***************************************************************************)
EXTENDS Confirmation, TLC

CONSTANTS wallet, first, second, chain      \* transaction ids

sats == 1001
runes == 1002
vault == 1003
imported == 1004
guardian == 1005
newGuardian == 1006
stranger == 1007
hash == 1008
MCKeys == 1001 .. 1009
MCNums == 1009
MCKnownGuardians == {guardian}

derivedAccount == [sats |-> sats, runes |-> runes, vault |-> vault]
importedAccount == [sats |-> imported, runes |-> imported, vault |-> imported]
Protocol == [guardians |-> (0 :> guardian) @@ (1 :> newGuardian), minimumSats |-> 2,
             divisibility |-> 2]
Asset == [block |-> 2, tx |-> 3]
Claimed == [collateral |-> 77, debt |-> 5, health |-> 300, source |-> "op_return"]

Plain == [high |-> 65535, low |-> 65533]
Action(code) == [high |-> 49152 + code \div 256, low |-> (code % 256) * 256 + 1]

Out(value, script) == [value |-> value, script |-> script]
Data(value, payload, stone) ==
    Out(value, [type |-> "return", payload |-> payload, stone |-> stone])
Stone(values) == Data(0, None, values)
ToSats(value) == Out(value, Wpkh(sats))
ToRunes(value) == Out(value, Taproot(runes, {}))
ToStranger(value) == Out(value, Wpkh(stranger))
Unknown(value) == Out(value, [type |-> "unknown"])

Input(tx, vout, value, script, role, kind) ==
    [outpoint |-> [tx |-> tx, vout |-> vout], value |-> value, script |-> script, role |-> role,
     kind |-> kind, prior |-> None, sequence |-> Plain, foreignKey |-> FALSE, units |-> 0]
Funds(vout, value) == Input(wallet, vout, value, Wpkh(sats), "sats", "account")
Units(vout, value) == Input(wallet, vout, value, Taproot(runes, {}), "runes", "account")
Strangers(vout, value) == Input(wallet, vout, value, Wpkh(stranger), None, None)
Linked(tx, vout, value) == Input(tx, vout, value, Taproot(runes, {}), "runes", "account")
LinkedSats(tx, vout, value) == Input(tx, vout, value, Wpkh(sats), "sats", "account")

Entry(tx, inputs, outputs) == [tx |-> tx, inputs |-> inputs, outputs |-> outputs]
WithAction(e, code) == [e EXCEPT !.inputs[1].sequence = Action(code)]

RequestOf(owner, p, batch, list, claim) ==
    [account |-> owner, protocol |-> p, asset |-> Asset, batch |-> batch,
     entries |-> list, vault |-> claim]
Single(e) == RequestOf(derivedAccount, Protocol, FALSE, <<e>>, Claimed)
Batch(list) == RequestOf(derivedAccount, Protocol, TRUE, list, None)

-----------------------------------------------------------------------------
(* Transactions without a vault.                                           *)

SomeOutputs ==
    {ToSats(3), ToRunes(1), ToStranger(2), Unknown(0), Unknown(1), Data(1, None, None),
     Data(0, None, None), Stone(<<0, 2, 3, 5, 1>>)}
SomeInputs ==
    {<<Funds(0, 9)>>, <<Funds(0, 6), Strangers(1, 4)>>, <<Strangers(1, 4), Units(2, 8)>>,
     <<Funds(0, 6), [Units(2, 3) EXCEPT !.foreignKey = TRUE]>>,
     <<Input(wallet, 3, 9, Taproot(NUMS, {CosignHead(vault, guardian)}), "vault", "cosign")>>,
     <<Input(wallet, 3, 9, Taproot(NUMS, {TimeoutLeaf(3, vault)}), "vault", "timeout")>>}

PlainRequests ==
    {Single(Entry(first, ins, outs)) :
        ins \in SomeInputs, outs \in UNION {[1 .. n -> SomeOutputs] : n \in 1 .. 3}}

\* Two or three transactions, which may spend outputs of each other.
SecondInputs ==
    {<<Funds(1, 4)>>, <<Funds(0, 9)>>, <<LinkedSats(first, 0, 3)>>,
     <<LinkedSats(first, 0, 3), Strangers(3, 4)>>, <<[Units(2, 3) EXCEPT !.foreignKey = TRUE]>>}
Pairs ==
    {<<Entry(first, ins, <<ToSats(3), out>>), Entry(second, ins2, <<out2>>)>> :
        ins \in SomeInputs, out \in SomeOutputs, ins2 \in SecondInputs, out2 \in SomeOutputs}
Triples ==
    {<<Entry(first, <<Funds(0, 9)>>, <<ToSats(3), ToStranger(5)>>),
       Entry(second, ins, <<ToRunes(3)>>),
       Entry(chain, ins2, <<ToStranger(3)>>)>> :
        ins \in SecondInputs, ins2 \in {<<Linked(second, 0, 3)>>, <<Units(4, 9)>>, <<Funds(1, 4)>>}}
BatchRequests ==
    {Batch(list) : list \in Pairs \cup Triples \cup {<<p[1]>> : p \in Pairs}}
ClaimingRequests ==
    {[Batch(p) EXCEPT !.vault = Claimed] : p \in {q \in Pairs : q[1].inputs = <<Funds(0, 9)>>}}

-----------------------------------------------------------------------------
(* Vault updates of one transaction.                                       *)

Commit(price) == [price |-> price, hash |-> hash]
Payload(length, byte, balance, guardians, commits) ==
    [length |-> length, version |-> 1, second |-> byte, balance |-> balance, price |-> 4,
     guardians |-> guardians, commits |-> commits]
StateOf(debt) ==
    IF debt = 0 THEN Payload(3, 1, 0, <<0>>, <<>>) ELSE Payload(105, 1, debt, <<0>>, <<Commit(4)>>)
VaultState(debt) == Data(0, StateOf(debt), None)
Legacy(flag, debt) == Data(0, Payload(IF debt = 0 THEN 14 ELSE 38, FlagByte[flag], debt, <<>>, <<>>), None)
TreeOf(debt) == vaultOutputScript(vault, {guardian}, IF debt = 0 THEN <<>> ELSE <<hash>>)
VaultOut(value, debt) == Out(value, TreeOf(debt))
Unguarded == Data(0, Payload(3, 1, 0, <<1>>, <<>>), None)

\* The transaction that opened the vault now spent.
Opening(value, debt) ==
    [sequences |-> <<Action(161)>>,
     outputs |-> <<ToRunes(1), VaultOut(value, debt), VaultState(debt)>>]

Spent(value, debt) ==
    [Input(chain, 1, value, TreeOf(debt), "vault", "cosign") EXCEPT !.prior = Opening(value, debt)]
SpentUnknown(value, debt) == [Spent(value, debt) EXCEPT !.prior = None]
SpentPlain(value) == Input(chain, 1, value, Taproot(vault, {}), "vault", "account")
Reclaimed == Input(chain, 2, 4, Taproot(NUMS, {TimeoutLeaf(3, vault)}), "vault", "timeout")
SecondVault == [Spent(5, 0) EXCEPT !.outpoint.tx = wallet]

VaultInputs ==
    {<<v>> \o rest :
        v \in {Spent(8, 0), Spent(8, 5), SpentUnknown(8, 0), SpentPlain(8),
               [Spent(8, 0) EXCEPT !.role = None, !.kind = None]},
        rest \in {<<Funds(0, 4)>>, <<Strangers(1, 4)>>, <<SecondVault>>, <<Reclaimed, Funds(0, 4)>>,
                  <<[SpentPlain(3) EXCEPT !.outpoint.tx = wallet]>>}}
VaultInputLists == {ins \in VaultInputs : SignedOf(ins) # {}}

UpdatedVaults ==
    {<<VaultOut(value, debt), VaultState(debt)>> : value \in {1, 2, 5, 9}, debt \in {0, 5}}
    \cup {<<VaultOut(5, 5), VaultState(0)>>, <<Out(9, Taproot(vault, {})), VaultState(0)>>,
          <<Out(9, Taproot(vault, {})), Legacy("deposit", 5)>>,
          <<Out(9, Taproot(vault, {})), Legacy("deposit", 0)>>,
          <<VaultOut(5, 0), VaultState(0), VaultState(0)>>, <<VaultOut(5, 0), VaultOut(5, 0), VaultState(0)>>,
          <<VaultOut(5, 0), Out(3, Taproot(vault, {})), VaultState(0)>>,
          <<ToStranger(5), VaultOut(5, 0), VaultState(0)>>,
          <<Out(5, vaultOutputScript(stranger, {guardian}, <<>>)), VaultState(0)>>,
          <<Out(5, vaultOutputScript(vault, {newGuardian}, <<>>)), Unguarded>>}

VaultEntries(rest, code) ==
    {WithAction(Entry(first, ins, vaults \o rest), code) : ins \in VaultInputLists, vaults \in UpdatedVaults}

VaultRequests ==
    UNION {{Single(e) : e \in VaultEntries(<<ToSats(2)>>, code)} : code \in {166, 167, 169}}
    \cup {Single(e) : e \in VaultEntries(<<ToStranger(1), ToSats(1)>>, 167)}
    \cup {[Single(e) EXCEPT !.batch = TRUE] : e \in VaultEntries(<<ToSats(2)>>, 166)}
    \cup {[Single(e) EXCEPT !.protocol = None] : e \in VaultEntries(<<ToSats(2)>>, 166)}

\* Runes and vault share an address.
ImportedRequests ==
    {RequestOf(importedAccount, Protocol, FALSE,
        <<WithAction(Entry(first, <<Input(chain, 1, 9, Taproot(imported, {}), "vault", "account")>>,
                           <<Out(value, Taproot(imported, {})), Legacy("deposit", 0)>>), 166)>>, Claimed) :
        value \in {5, 9}}

-----------------------------------------------------------------------------
(* Packages: UNIT is allocated or burned, and the vault updated.           *)

Stones ==
    {<<0>>, <<>>, <<1, 2, 3, 5, 1>>, <<0, 2, 3, 5, 1>>, <<0, 2, 3, 4, 1>>, <<0, 2, 3, 5, 0>>, <<0, 2, 4, 5, 1>>,
     <<0, 2, 3, 5, 1, 0, 0, 0, 0>>, <<0, 2, 3, 4, 1, 0, 0, 1, 1>>, <<0, 2, 3, 0, 1>>,
     <<0, 0, 3, 5, 1>>, <<0, 2, 3, 5, 4>>, <<0, 2, 2, 0, 0, 0, 1, 5, 1>>, <<0, 2, 3, 5>>,
     <<0, 1, 9, 0, 0, 1, 3, 5, 1>>, <<0, 2, 3, 0, 0, 1, 3, 5, 1>>,
     <<0, 2, 3, 5, 1, 0, 0, 0, 2>>, <<0, 2, 3, 5, 1, 0, 0, 0, 1>>, <<0, 2, 3, 0, 2, 0, 0, 5, 1>>,
     <<0, 2, 3, 10, 1>>}

Holding(units) == [Units(2, 9) EXCEPT !.units = units]
Parents(stone) ==
    {Entry(first, <<Holding(7), Funds(0, 9)>>, outs) :
        outs \in {<<ToRunes(2), ToRunes(2), ToSats(6), Stone(stone)>>,
                  <<ToRunes(2), Stone(stone), ToSats(6)>>,
                  <<ToSats(6), Data(0, None, None), ToRunes(2), Stone(stone)>>,
                  <<Stone(stone), ToRunes(2), ToSats(6)>>,
                  <<ToRunes(2), ToStranger(2), ToSats(6), Stone(stone), Stone(stone)>>}}

Opened ==
    {WithAction(Entry(second, ins, outs), 161) :
        ins \in {<<Linked(first, 1, 2), LinkedSats(first, 2, 6)>>,
                 <<Linked(first, 1, 2), Funds(7, 6)>>,
                 <<LinkedSats(first, 2, 6), Funds(7, 6)>>,
                 <<LinkedSats(first, 2, 6), Linked(first, 1, 2), Funds(7, 6)>>},
        outs \in {<<ToRunes(2), VaultOut(6, debt), VaultState(debt)>> : debt \in {0, 5}}
                 \cup {<<ToRunes(2), Out(6, Taproot(vault, {})), Legacy("open", 50)>>}}

Borrowed ==
    {WithAction(Entry(second, ins, outs), 164) :
        ins \in {<<Linked(first, 1, 2), LinkedSats(first, 2, 6), v>> :
                    v \in {Spent(8, 0), Spent(8, 5), SpentUnknown(8, 0), SpentPlain(8)}}
                \cup {<<Linked(first, 1, 2), Funds(7, 6), Spent(8, 0)>>},
        outs \in {<<ToRunes(2), VaultOut(value, debt), VaultState(debt)>> :
                    value \in {8, 9}, debt \in {5, 10}}
                 \cup {<<ToStranger(2), VaultOut(8, 5), VaultState(5)>>}}

Repaid ==
    {WithAction(Entry(second, <<l, v>>, <<VaultOut(7, debt), VaultState(debt), ToSats(1)>>), 165) :
        l \in {Linked(first, 0, 2), Linked(first, 1, 2), LinkedSats(first, 0, 6)},
        v \in {Spent(8, 10), Spent(8, 5), SpentUnknown(8, 5)}, debt \in {0, 5}}

\* Of an asset of one decimal, or of eight, where amounts that differ by one are
\* taken as equal.
ScaledRequests ==
    {[Batch(<<parent, update>>) EXCEPT !.protocol.divisibility = decimals] :
        parent \in UNION {Parents(stone) : stone \in {<<0, 2, 3, 4, 1>>, <<0, 2, 3, 5, 1>>, <<0, 2, 3, 10, 1>>}},
        update \in Opened \cup Borrowed \cup Repaid, decimals \in {1, 8}}

PackageRequests ==
    {Batch(list) :
        list \in UNION {{<<parent, update>> : parent \in Parents(stone),
                            update \in Opened \cup Borrowed \cup Repaid} : stone \in Stones}}
    \cup {Batch(<<update, parent>>) : parent \in Parents(<<0, 2, 3, 5, 1>>), update \in Opened}

MCRequests ==
    PlainRequests \cup BatchRequests \cup ClaimingRequests \cup VaultRequests \cup ImportedRequests
    \cup PackageRequests \cup ScaledRequests
=============================================================================
