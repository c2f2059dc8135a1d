----------------------------- MODULE PsbtReview -----------------------------
(***************************************************************************)
(* The review of one PSBT (psbt.ts, verify of psbt-verification.ts): which *)
(* inputs the Snap agrees to sign and by which path, what the dialog says  *)
(* of them and of the outputs, and what is signed once it is approved.     *)
(* PsbtBatch has the evidence for the claims, which are taken as true      *)
(* here, and what changes meanwhile.                                       *)
(***************************************************************************)
EXTENDS VaultReturn

LOCAL INSTANCE Functions

CONSTANTS
    Cases,      \* [account, network, protocol, psbt] a website may bring about
    Guardians,  \* DUCAT_GUARDIAN_PUBKEYS
    Mainnet

VARIABLES
    case,
    stage,
    inputs,     \* what the dialog says of each input to be signed
    returns,    \* what it says of the vault, one for each decoded output
    mine,       \* outputs it counts as the user's own
    before,     \* vault states decoded for spent vault outputs
    signatures

shown == <<inputs, returns, mine, before>>
vars == <<case, stage, shown, signatures>>

account == case.account
psbt == case.psbt

ASSUME CasesAssumption ==
    \A c \in Cases :
        /\ c.network \in DOMAIN Guardians
        /\ \A role \in Roles : c.account[role] \in Keys

ASSUME ValuesAssumption ==
    \A c \in Cases : \A i \in DOMAIN c.psbt.inputs :
        LET claim == c.psbt.inputs[i].witnessUtxo IN claim # None => claim.value \in Nat

\* The two halves of 32 bits.
ASSUME SequencesAssumption ==
    \A c \in Cases : \A i \in DOMAIN c.psbt.inputs :
        LET sequence == c.psbt.inputs[i].sequence
        IN  \A half \in {sequence.high, sequence.low} : half \in Nat /\ half < 65536

\* Leaves are listed, and each has a script, of bytes.
ASSUME LeavesAssumption ==
    \A c \in Cases : \A i \in DOMAIN c.psbt.inputs :
        LET leaves == c.psbt.inputs[i].tapLeafScript
        IN  /\ DOMAIN leaves \subseteq Nat
            /\ \A l \in DOMAIN leaves : leaves[l].script # None /\ IsScript(leaves[l].script)

\* A prior transaction is one that verify fetched and found the claim in.
ASSUME OutputsAssumption ==
    \A c \in Cases :
        /\ Parsed(c.psbt.outputs)
        /\ c.protocol # None =>
            \A g \in DOMAIN c.protocol.guardians : c.protocol.guardians[g] \in Keys
        /\ \A i \in DOMAIN c.psbt.inputs :
            LET input == c.psbt.inputs[i] IN
            input.prior # None =>
                /\ Parsed(input.prior.outputs)
                /\ input.vout \in Nat /\ HasOutput(input.prior.outputs, input.vout)
                /\ OutputAt(input.prior.outputs, input.vout) = input.witnessUtxo

SignedInputs == {i \in DOMAIN psbt.inputs : psbt.inputs[i].address # None}

-----------------------------------------------------------------------------
(* resolveInputRole, isKnownGuardianPubkey.                                *)

RolesForAddress(address) == {role \in Roles : OutputScriptForRole(account, role) = address}

\* A Taproot address of an imported account has two roles.
resolveInputRole(input) ==
    LET roles == RolesForAddress(input.address) IN
    IF roles = {} THEN None
    ELSE IF "vault" \in roles /\ (roles = {"vault"} \/ input.tapLeafScript # <<>>) THEN "vault"
    ELSE IF "runes" \in roles THEN "runes"
    ELSE "sats"

isKnownGuardianPubkey(network, guard) ==
    /\ network # Mainnet
    /\ Guardians[network] = {} \/ guard \in Guardians[network]

-----------------------------------------------------------------------------
(* checkOwnedTaprootScriptPathInput: the first timeout leaf, or else the   *)
(* first cosign leaf, that is the vault key's and committed to.            *)

FirstOf(indexes) == CHOOSE i \in indexes : \A j \in indexes : i <= j

OwnTimeoutLeaves(input, script) ==
    {i \in DOMAIN input.tapLeafScript :
        LET match == matchTimeoutLeaf(input.tapLeafScript[i].script) IN
        match # None /\ match.operator = account.vault /\ Commits(input.tapLeafScript[i], script)}

\* Mutant of OwnCosignLeaves: commitment is not checked.
OwnCosignLeavesUncommitted(input, script) ==
    {i \in DOMAIN input.tapLeafScript :
        LET match == matchCosignLeaf(input.tapLeafScript[i].script) IN
        match # None /\ match.client = account.vault}

OwnCosignLeaves(input, script) ==
    {i \in DOMAIN input.tapLeafScript :
        LET match == matchCosignLeaf(input.tapLeafScript[i].script) IN
        match # None /\ match.client = account.vault /\ Commits(input.tapLeafScript[i], script)}

ScriptPathOwnership(input, script, role) ==
    LET timeouts == OwnTimeoutLeaves(input, script)
        cosigns == OwnCosignLeaves(input, script)
        Leaf(indexes) == input.tapLeafScript[FirstOf(indexes)].script
    IN  IF role # "vault" \/ ~IsTaproot(script) THEN None
        ELSE IF timeouts # {}
        THEN [kind |-> "timeout", leaf |-> Leaf(timeouts), guard |-> None]
        ELSE IF cosigns # {} /\ isKnownGuardianPubkey(case.network, matchCosignLeaf(Leaf(cosigns)).guard)
        THEN [kind |-> "cosign", leaf |-> Leaf(cosigns), guard |-> matchCosignLeaf(Leaf(cosigns)).guard]
        ELSE None

-----------------------------------------------------------------------------
(* validateSignedInput.                                                    *)

\* Mutant of TimeoutPolicy: one block early.
TimeoutPolicyEarly(input, window) ==
    /\ psbt.version >= 2
    /\ ~TimelockDisabled(input.sequence)
    /\ ~TimeUnits(input.sequence)
    /\ input.sequence.low + 1 >= window

\* assertBitvm3TimeoutPolicy.
TimeoutPolicy(input, window) ==
    /\ psbt.version >= 2
    /\ ~TimelockDisabled(input.sequence)
    /\ ~TimeUnits(input.sequence)
    /\ input.sequence.low >= window

\* SIGHASH_DEFAULT and SIGHASH_ALL.
AllowedSighashTypes(role) == IF role = "sats" THEN {1} ELSE {0, 1}

OwnAccountOutput(input, role) ==
    input.witnessUtxo.script = OutputScriptForRole(account, role)

Verification(input, role) ==
    IF OwnAccountOutput(input, role)
    THEN [kind |-> "account", leaf |-> None, guard |-> None]
    ELSE IF role = "sats" THEN None
    ELSE ScriptPathOwnership(input, input.witnessUtxo.script, role)

\* Mutant of ValidInput: nonWitnessUtxo is ignored.
ValidInputWitnessOnly(input) ==
    LET role == resolveInputRole(input) v == Verification(input, role) IN
    /\ role # None /\ input.witnessUtxo # None
    /\ input.sighashType \in AllowedSighashTypes(role) \cup {None}
    /\ v # None
    /\ v.kind = "timeout" => TimeoutPolicy(input, matchTimeoutLeaf(v.leaf).window)

ValidInput(input) ==
    LET role == resolveInputRole(input) v == Verification(input, role) IN
    /\ role # None /\ input.witnessUtxo # None
    /\ input.nonWitnessUtxo \in {None, input.witnessUtxo}
    /\ input.sighashType \in AllowedSighashTypes(role) \cup {None}
    /\ v # None
    /\ v.kind = "timeout" => TimeoutPolicy(input, matchTimeoutLeaf(v.leaf).window)

InputShown(input) ==
    LET v == Verification(input, resolveInputRole(input)) IN
    [kind |-> v.kind, guard |-> v.guard, value |-> input.witnessUtxo.value]

-----------------------------------------------------------------------------
Init ==
    /\ case \in Cases
    /\ stage = "received"
    /\ inputs = <<>> /\ returns = {} /\ mine = {} /\ before = {}
    /\ signatures = {}

Total(values) == FoldFunction(LAMBDA x, y : x + y, 0, values)

\* The fee can be computed, which signPsbt and signBatch demand, and is not
\* negative.
FeeIsShown ==
    /\ \A i \in DOMAIN psbt.inputs : psbt.inputs[i].witnessUtxo # None
    /\ Total([i \in DOMAIN psbt.outputs |-> psbt.outputs[i].value])
          <= Total([i \in DOMAIN psbt.inputs |-> psbt.inputs[i].witnessUtxo.value])

\* preparePsbtForSigning with summarizePsbt.
Prepare ==
    LET tx == [sequences |-> [i \in DOMAIN psbt.inputs |-> psbt.inputs[i].sequence],
               outputs |-> psbt.outputs]
    IN
    /\ stage = "received"
    /\ \A i \in SignedInputs : ValidInput(psbt.inputs[i])
    /\ FeeIsShown
    /\ inputs' = [i \in SignedInputs |-> InputShown(psbt.inputs[i])]
    /\ returns' = {decodeReturn(tx, n, account) : n \in ReturnIndexes(tx, account)}
    /\ mine' = {n \in 0 .. Len(psbt.outputs) - 1 :
                    OutputRole(account, OutputAt(psbt.outputs, n).script) \in Roles}
    /\ stage' = "prepared"
    /\ UNCHANGED <<case, before, signatures>>

\* The inputs that verify decodes a prior vault state for.
SpendsVault(i) ==
    LET input == psbt.inputs[i] IN
    /\ i \in SignedInputs
    /\ resolveInputRole(input) = "vault"
    /\ input.witnessUtxo.script = OutputScriptForRole(account, "vault") \/ inputs[i].kind = "cosign"

PriorState(i) ==
    LET input == psbt.inputs[i] IN
    IF input.prior = None THEN None
    ELSE previousVaultState(input.prior, input.vout, account, case.protocol)

\* Mutant of Verify: unbound vault states mark an output as own, too.
VerifyMarkingAll ==
    LET bound == {bindVaultOutput(data, psbt.outputs, account, case.protocol) : data \in returns} IN
    /\ stage = "prepared"
    /\ returns' = bound
    /\ mine' = mine \cup {data.vaultOutputIndex : data \in bound}
    /\ stage' = "dialog"
    /\ UNCHANGED <<case, inputs, before, signatures>>

\* The end of verify: vault outputs are bound to the protocol, and a prior
\* state is shown when one input and one vault are concerned.
Verify ==
    LET bound == {bindVaultOutput(data, psbt.outputs, account, case.protocol) : data \in returns}
        priors == {i \in SignedInputs : SpendsVault(i) /\ PriorState(i) # None}
    IN
    /\ stage = "prepared"
    /\ returns' = bound
    /\ mine' = mine \cup {data.vaultOutputIndex : data \in {d \in bound : d.bound}}
    /\ before' = IF \E i \in priors, d \in bound : priors = {i} /\ bound = {d}
                 THEN {PriorState(i) : i \in priors} ELSE {}
    /\ stage' = "dialog"
    /\ UNCHANGED <<case, inputs, signatures>>

\* What bitcoinjs-lib takes as the value of the output an input spends.
SignedValue(input) ==
    IF input.nonWitnessUtxo # None THEN input.nonWitnessUtxo.value ELSE input.witnessUtxo.value

\* Mutant of SignedPath: the last of the owned leaves is signed.
SignedPathLast(input) ==
    LET script == input.witnessUtxo.script
        own == OwnTimeoutLeaves(input, script) \cup OwnCosignLeaves(input, script)
    IN  IF OwnAccountOutput(input, resolveInputRole(input)) THEN None
        ELSE input.tapLeafScript[CHOOSE i \in own : \A j \in own : j <= i].script

\* The leaf signed for, which is looked up again; None for the key path.
SignedPath(input) == Verification(input, resolveInputRole(input)).leaf

KeyPathAllowed(input) ==
    LET role == resolveInputRole(input) IN
    \/ role = "sats" \/ SignedPath(input) # None
    \/ input.tapInternalKey \in {None, account[role]}

\* signPreparedPsbt: all inputs or none.
Sign ==
    /\ stage = "dialog"
    /\ \A i \in SignedInputs : KeyPathAllowed(psbt.inputs[i])
    /\ signatures' =
        {[input |-> i, key |-> account[resolveInputRole(psbt.inputs[i])],
          path |-> SignedPath(psbt.inputs[i]), value |-> SignedValue(psbt.inputs[i])] :
            i \in SignedInputs}
    /\ stage' = "signed"
    /\ UNCHANGED <<case, shown>>

\* An input that may not be signed, a fee that is negative or unknown, evidence
\* that contradicts a claim, a rejected dialog, or a key path under another
\* internal key.
Fail ==
    /\ stage \in {"received", "prepared", "dialog"}
    /\ stage' = "failed"
    /\ UNCHANGED <<case, shown, signatures>>

Next == Prepare \/ Verify \/ Sign \/ Fail

Spec == Init /\ [][Next]_vars

-----------------------------------------------------------------------------
(* Properties.                                                             *)

VerificationKinds == {"account", "cosign", "timeout"}

TypeOK ==
    /\ stage \in {"received", "prepared", "dialog", "signed", "failed"}
    /\ \A i \in DOMAIN inputs :
        /\ i \in SignedInputs /\ inputs[i].kind \in VerificationKinds
        /\ inputs[i].guard \in Keys \cup {None} /\ inputs[i].value \in Nat
    /\ \A data \in returns : data.vaultOutputIndex \in 0 .. Len(psbt.outputs) - 1 \cup {None}
    /\ mine \subseteq 0 .. Len(psbt.outputs) - 1
    /\ \A s \in signatures : s.input \in SignedInputs /\ s.key \in Keys

MaxWindow == 65535

\* Windows at the ends of each encoding.
WindowEdges == {1, 16, 17, 127, 128, 255, 256, 32767, 32768, 65535}

\* The two leaf shapes are recognized exactly: a timeout leaf is the one
\* canonical script of a window of 1 to MaxWindow blocks, and whatever follows a
\* cosign leaf is a branch a script interpreter never enters.
LeavesAreCanonical ==
    \A i \in DOMAIN psbt.inputs : \A l \in DOMAIN psbt.inputs[i].tapLeafScript :
        LET leaf == psbt.inputs[i].tapLeafScript[l].script
            timeout == matchTimeoutLeaf(leaf)
            cosign == matchCosignLeaf(leaf)
        IN  /\ timeout # None =>
                timeout.window \in 1 .. MaxWindow /\ leaf = TimeoutLeaf(timeout.window, timeout.operator)
            /\ cosign # None =>
                /\ SubSeq(leaf, 1, 6) = CosignHead(cosign.client, cosign.guard)
                /\ Len(leaf) > 6 => InertEnvelope(SubSeq(leaf, 7, Len(leaf)))
            /\ (/\ Len(leaf) > 6
                /\ leaf[2] \in Keys /\ leaf[5] \in Keys \ {leaf[2]}
                /\ SubSeq(leaf, 1, 6) = CosignHead(leaf[2], leaf[5])
                /\ InertEnvelope(SubSeq(leaf, 7, Len(leaf)))) => cosign # None
            /\ \A w \in WindowEdges, k \in Keys :
                leaf = TimeoutLeaf(w, k) => timeout = [operator |-> k, window |-> w]

\* A signature spends an output of the key that makes it: its account's own, or
\* one whose tree has the leaf signed for, which needs that key alone, or that
\* key and a guardian the network's policy admits.
SignaturesAreOwnSpends ==
    \A s \in signatures :
        LET script == psbt.inputs[s.input].witnessUtxo.script IN
        IF s.path = None
        THEN script \in {Wpkh(s.key), Taproot(s.key, {})}
        ELSE /\ IsTaproot(script) /\ BagIn(s.path, script.leaves)
             /\ s.key = account.vault
             /\ \/ matchTimeoutLeaf(s.path) # None /\ matchTimeoutLeaf(s.path).operator = s.key
                \/ /\ matchCosignLeaf(s.path) # None
                   /\ matchCosignLeaf(s.path).client = s.key
                   /\ isKnownGuardianPubkey(case.network, matchCosignLeaf(s.path).guard)

\* BIP 68 and BIP 112: OP_CSV with the operand w succeeds.
CsvSucceeds(w, version, sequence) ==
    /\ version >= 2
    /\ sequence.high < 32768
    /\ (sequence.high \div 64) % 2 = 0
    /\ w <= sequence.low

\* A signed timeout input waits out the window of the very leaf it spends by:
\* the script succeeds, and only so late.
TimeoutSpendMatures ==
    \A s \in signatures :
        (s.path # None /\ matchTimeoutLeaf(s.path) # None) =>
            LET window == matchTimeoutLeaf(s.path).window IN
            /\ s.path = TimeoutLeaf(window, s.key)
            /\ CsvSucceeds(window, psbt.version, psbt.inputs[s.input].sequence)

\* The dialog says by which path, with which guardian and at which value each
\* input is spent, though signing looks the path up again and bitcoinjs-lib may
\* take the value from elsewhere.
ShownIsSigned ==
    \A s \in signatures :
        LET v == inputs[s.input] IN
        /\ v.value = s.value
        /\ (v.kind = "account") <=> (s.path = None)
        /\ v.kind = "timeout" => matchTimeoutLeaf(s.path) # None
        /\ v.kind = "cosign" => matchCosignLeaf(s.path).guard = v.guard

\* What the dialog counts as the user's own, vault collateral included, pays an
\* address of the account or a tree in which the account's vault key cosigns.
OwnScript(script) ==
    \/ script \in {OutputScriptForRole(account, role) : role \in Roles}
    \/ IsTaproot(script) /\ \E g \in Keys : BagIn(CosignHead(account.vault, g), script.leaves)

OwnOutput(n) == OwnScript(OutputAt(psbt.outputs, n).script)

MineIsOwn ==
    stage \in {"dialog", "signed"} =>
        /\ \A n \in mine : OwnOutput(n)
        /\ \A data \in returns :
            data.vaultOutputIndex # None =>
                data.vaultOutputIndex \in mine /\ OwnOutput(data.vaultOutputIndex)

\* The vault state a dialog compares with is that of an output which a signed
\* input of this transaction spends, and which is the account's own.
BeforeIsOwnVault ==
    \A state \in before : \E i \in DOMAIN inputs :
        LET spent == psbt.inputs[i].witnessUtxo IN
        /\ psbt.inputs[i].prior # None
        /\ state.vaultOutputIndex = psbt.inputs[i].vout
        /\ inputs[i].value = OutputAt(psbt.inputs[i].prior.outputs, state.vaultOutputIndex).value
        /\ OwnScript(spent.script)
=============================================================================
