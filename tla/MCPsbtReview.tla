---------------------------- MODULE MCPsbtReview ----------------------------
(***************************************************************************)
(* A small instance of PsbtReview: every case varies a few parts of a PSBT *)
(* that could be signed as it is.                                          *)
(***************************************************************************)
EXTENDS PsbtReview, TLC

CONSTANTS regtest, mutinynet, mainnet

\* Public keys: of the account, of an imported key, of guardians and others.
sats == 1001
runes == 1002
vault == 1003
imported == 1004
guardian == 1005
second == 1006
stranger == 1007
hash == 1008
MCKeys == 1001 .. 1009
MCNums == 1009

derivedAccount == [sats |-> sats, runes |-> runes, vault |-> vault]
importedAccount == [sats |-> imported, runes |-> imported, vault |-> imported]

MCGuardians == (regtest :> {}) @@ (mutinynet :> {guardian}) @@ (mainnet :> {})
Protocol == [guardians |-> (0 :> guardian) @@ (1 :> second), minimumSats |-> 2]

Seq0 == [high |-> 65535, low |-> 65533]
Blocks(n) == [high |-> 0, low |-> n]
Out(value, script) == [value |-> value, script |-> script]
ToSats == Out(5, Wpkh(sats))

Input(address, script) ==
    [address |-> address, witnessUtxo |-> Out(9, script), nonWitnessUtxo |-> None,
     sighashType |-> None, tapInternalKey |-> None, tapLeafScript |-> <<>>,
     sequence |-> Seq0, vout |-> 0, prior |-> None]

Funds == [Input(Wpkh(sats), Wpkh(sats)) EXCEPT !.witnessUtxo.value = 14]
Psbt(ins, outs) == [version |-> 2, inputs |-> ins, outputs |-> outs]
Case(acct, n, p) == [account |-> acct, network |-> n, protocol |-> Protocol, psbt |-> p]
OnRegtest(p) == Case(derivedAccount, regtest, p)

-----------------------------------------------------------------------------
(* Whose input it is, and which leaf is signed.                            *)

OwnTimeout(w) == TimeoutLeaf(w, vault)
Cosign(g) == CosignHead(vault, g)
Leaves == {OwnTimeout(17), OwnTimeout(3), TimeoutLeaf(3, stranger), Cosign(guardian),
           Cosign(second), CosignHead(imported, guardian)}
TapLeaves == [script : Leaves, proves : BOOLEAN]
Given(leaf) == [script |-> leaf, proves |-> TRUE]
LeafLists ==
    {<<>>} \cup {<<l>> : l \in TapLeaves}
    \cup {<<Given(l), Given(m)>> : l \in Leaves, m \in Leaves}
Trees == {{OwnTimeout(17)}, {Cosign(guardian)}, {Cosign(second)}, {OwnTimeout(17), OwnTimeout(3)},
          {Cosign(guardian), Cosign(second), OwnTimeout(3)}, {CosignHead(imported, guardian)}}
VaultScripts == {Taproot(NUMS, tree) : tree \in Trees} \cup {Taproot(vault, {}), Taproot(imported, {})}
VaultAddresses == {Taproot(vault, {}), Taproot(imported, {}), Taproot(runes, {})}

OwnershipCases ==
    { Case(a, n, Psbt(<<[Input(address, script) EXCEPT
                            !.tapLeafScript = leaves, !.sequence = Blocks(5)]>>, <<ToSats>>)) :
        a \in {derivedAccount, importedAccount}, n \in {regtest, mutinynet, mainnet},
        address \in VaultAddresses, script \in VaultScripts, leaves \in LeafLists }

-----------------------------------------------------------------------------
(* Claims, signature types and internal keys.                              *)

Addresses == {Wpkh(sats), Taproot(runes, {}), Taproot(vault, {}), Wpkh(stranger)}

ClaimCases ==
    { OnRegtest(Psbt(<<[Input(address, script) EXCEPT
                          !.nonWitnessUtxo = other, !.sighashType = type, !.tapInternalKey = key]>>,
                     <<ToSats>>)) :
        address \in Addresses, script \in Addresses,
        other \in {None, Out(9, Wpkh(sats)), Out(8, Wpkh(sats)), Out(9, Taproot(vault, {}))},
        type \in {None, 0, 1, 3, 129}, key \in {None, vault, stranger} }

-----------------------------------------------------------------------------
(* Windows and sequences.                                                  *)

Sequences == [high : {0, 64, 32768, 65535}, low : {0, 15, 16, 17, 18, 65535}]

TimeoutCases ==
    { OnRegtest([Psbt(<<[Input(Taproot(vault, {}), Taproot(NUMS, {OwnTimeout(w)})) EXCEPT
                            !.tapLeafScript = <<Given(OwnTimeout(w))>>,
                            !.sequence = s]>>, <<ToSats>>) EXCEPT !.version = version]) :
        w \in {1, 16, 17, 18, 65535}, s \in Sequences, version \in {1, 2} }

-----------------------------------------------------------------------------
(* Leaves that are almost canonical.                                       *)

NumberBytes == {0, 1, 2, 16, 17, 81, 128, 255}
Prefixes == UNION {[1 .. n -> NumberBytes] : n \in 1 .. 3}
            \cup {<<3>> \o b : b \in [1 .. 3 -> NumberBytes]}
            \cup {<<4, 0, 0, 1, 0>>, <<4, 255, 255, 127, 128>>, <<5, 1, 0, 0, 0, 1>>}
EnvelopeBytes == {0, 1, 2, 76, 77, 104, 99}
Envelopes == UNION {[1 .. n -> EnvelopeBytes] : n \in 0 .. 3}
             \cup {<<78, 1, 0, 0, 0, 104, 104>>, <<2, 104, 104, 104>>, <<77, 1, 0, 104, 104>>}

LeafScripts ==
    {TimeoutLeaf(w, vault) : w \in WindowEdges}
    \cup {p \o TimeoutTail(vault) : p \in Prefixes}
    \cup {CosignHead(vault, guardian) \o OrdPrefix \o e : e \in Envelopes}
    \cup {CosignHead(vault, vault), CosignHead(vault, guardian) \o <<OP_DROP>>}

LeafCases ==
    { OnRegtest(Psbt(<<[Input(Taproot(vault, {}), Taproot(NUMS, {leaf})) EXCEPT
                          !.tapLeafScript = <<Given(leaf)>>,
                          !.sequence = Blocks(65535)]>>, <<ToSats>>)) : leaf \in LeafScripts }

-----------------------------------------------------------------------------
(* Vault actions, payloads, and outputs in each position.                  *)

Action(code) == [high |-> 49152 + code \div 256, low |-> (code % 256) * 256 + 1]
ActionSequences == {Seq0, Action(161), Action(163), Action(165), Action(162)}

Commit(price) == [price |-> price, hash |-> hash]
Payload(length, byte, balance, guardians, commits) ==
    [length |-> length, version |-> 1, second |-> byte, balance |-> balance, price |-> 7,
     guardians |-> guardians, commits |-> commits]
Payloads ==
    {Payload(3, 1, 0, <<0>>, <<>>), Payload(4, 2, 0, <<0, 1>>, <<>>), Payload(4, 2, 0, <<0, 0>>, <<>>),
     Payload(105, 1, 6, <<0>>, <<Commit(4)>>), Payload(198, 1, 6, <<0>>, <<Commit(4), Commit(3)>>),
     Payload(104, 1, 6, <<0>>, <<Commit(4)>>), Payload(3, 1, 0, <<2>>, <<>>),
     Payload(14, FlagByte.open, 0, <<>>, <<>>), Payload(38, FlagByte.repay, 6, <<>>, <<>>),
     Payload(38, FlagByte.open, 0, <<>>, <<>>), Payload(14, 65, 0, <<>>, <<>>)}
ReturnOut(p) == Out(0, [type |-> "return", payload |-> p])
VaultTree(guardians, hashes) == vaultOutputScript(vault, guardians, hashes)

VaultOutputs ==
    {Out(4, Taproot(vault, {})), Out(4, VaultTree({guardian}, <<>>)), Out(4, VaultTree({guardian}, <<hash>>)),
     Out(4, VaultTree({guardian}, <<hash, hash>>)),
     Out(4, VaultTree({guardian, second}, <<>>)), Out(1, VaultTree({guardian}, <<>>)),
     Out(4, Taproot(stranger, {})), Out(4, vaultOutputScript(stranger, {guardian}, <<>>))}

OutputLists(p) ==
    {<<v, ReturnOut(p)>> : v \in VaultOutputs} \cup {<<ReturnOut(p), v>> : v \in VaultOutputs}
    \cup {<<ToSats, v, w, ReturnOut(p)>> : v \in VaultOutputs, w \in VaultOutputs}

ReturnCases ==
    UNION {{ Case(a, mutinynet, Psbt(<<[Funds EXCEPT !.sequence = s,
                                                     !.address = Wpkh(a.sats),
                                                     !.witnessUtxo.script = Wpkh(a.sats)]>>, outs)) :
                a \in {derivedAccount, importedAccount}, s \in ActionSequences,
                outs \in OutputLists(p) } : p \in Payloads}

\* A vault is spent whose creation is known.
Creations ==
    {[sequences |-> <<Action(161)>>, outputs |-> <<ToSats, v, ReturnOut(p)>>] :
        v \in {Out(9, Taproot(vault, {})), Out(9, VaultTree({guardian}, <<>>))},
        p \in {Payload(3, 1, 0, <<0>>, <<>>), Payload(14, FlagByte.open, 0, <<>>, <<>>)}}
    \cup {[sequences |-> <<Action(165)>>, outputs |-> <<Out(9, Taproot(vault, {})),
              Out(8, Taproot(vault, {})), ReturnOut(Payload(3, 1, 0, <<0>>, <<>>))>>]}

SpendVault(tx, n, s) ==
    LET script == tx.outputs[n + 1].script IN
    [Input(Taproot(vault, {}), script) EXCEPT
        !.witnessUtxo.value = tx.outputs[n + 1].value, !.vout = n, !.prior = tx, !.sequence = s,
        !.tapLeafScript = <<Given(Cosign(guardian))>>]

BeforeCases ==
    { Case(derivedAccount, mutinynet,
           Psbt(<<SpendVault(tx, n, s), Funds>>, <<v, ReturnOut(Payload(3, 1, 0, <<0>>, <<>>))>>)) :
        tx \in Creations, n \in {0, 1}, s \in ActionSequences, v \in VaultOutputs }

MCCases == OwnershipCases \cup ClaimCases \cup TimeoutCases \cup LeafCases \cup ReturnCases \cup BeforeCases
=============================================================================
