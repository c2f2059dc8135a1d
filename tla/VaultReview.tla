----------------------------- MODULE VaultReview -----------------------------
(***************************************************************************)
(* What a confirmation is built from (summarizePsbt of psbt.ts, verify of  *)
(* psbt-verification.ts, unitTransferEdicts of vault-evidence.ts) and what *)
(* it says (confirmations.ts): the summary of each transaction, the choice *)
(* of the native vault view, and the figures and rows of the three views.  *)
(*                                                                         *)
(* An entry is a transaction: its id, its inputs, and its outputs.  An     *)
(* input has the role and the kind under which it is to be signed, or      *)
(* None; `prior` is the transaction that created the output it spends.  A  *)
(* return script has the payload of a vault state or the varints of a      *)
(* Runestone, <<>> for one that cannot be read.                            *)
(*                                                                         *)
(* UNIT figures are in 10^-8 UNIT, to which every amount the code divides  *)
(* converts exactly; its quotients are floating-point numbers, whose       *)
(* rounding is left out.                                                   *)
(***************************************************************************)
EXTENDS VaultReturn

LOCAL INSTANCE Functions

CONSTANTS
    KnownGuardians, \* guardians the policy of the network admits
    MaxDataRows     \* data outputs confirmPsbt lists; 4 in the code

ASSUME MaxDataRowsAssumption == MaxDataRows \in Nat

NoDebt == -1        \* a collateral ratio, "No UNIT debt"

Values(rows) == [n \in DOMAIN rows |-> rows[n].value]

\* The elements of s at the positions in S, in their order.
Selected(s, S) ==
    [k \in 1 .. Cardinality(S) |-> s[CHOOSE n \in S : Cardinality({m \in S : m <= n}) = k]]

\* An amount of base units of an asset with so many decimals.
Scale == <<100000000, 10000000, 1000000, 100000, 10000, 1000, 100, 10, 1>>
UnitOf(amount, decimals) == amount * Scale[decimals + 1]

\* The debt of a vault state: in cents, unless the vault output was found by the
\* guardians of a protocol.
DebtOf(state, protocol) ==
    UnitOf(state.balance, IF state.bound THEN protocol.divisibility ELSE 2)

-----------------------------------------------------------------------------
(* summarizePsbt, buildWarnings.                                           *)

SignedOf(inputs) == {i \in DOMAIN inputs : inputs[i].role # None}
DataOutputs(outputs) == {n \in DOMAIN outputs : outputs[n].role = "op_return"}
Foreign(outputs) == {n \in DOMAIN outputs : ~outputs[n].mine}

ViewOf(e) ==
    [sequences |-> [i \in DOMAIN e.inputs |-> e.inputs[i].sequence], outputs |-> e.outputs]

OutputRow(e, n, account) ==
    LET role == OutputRole(account, e.outputs[n].script) IN
    [value |-> e.outputs[n].value, role |-> role, mine |-> role \in Roles,
     vaultData |-> n - 1 \in ReturnIndexes(ViewOf(e), account)]

buildWarnings(e, rows) ==
    {w \in {"undecoded", "valued data", "unknown script"} : \E n \in DOMAIN rows :
        \/ w = "undecoded" /\ rows[n].role = "op_return" /\ ~rows[n].vaultData
                           /\ e.outputs[n].script.payload # None
        \/ w = "valued data" /\ rows[n].role = "op_return" /\ rows[n].value > 0
        \/ w = "unknown script" /\ rows[n].role = "unknown" /\ rows[n].value = 0}

summarizePsbt(e, account) ==
    LET rows == [n \in DOMAIN e.outputs |-> OutputRow(e, n, account)]
        decoded == [n \in DOMAIN e.outputs |->
                       IF rows[n].vaultData THEN decodeReturn(ViewOf(e), n - 1, account) ELSE None]
    IN  [tx |-> e.tx, inputs |-> e.inputs, outputs |-> rows,
         fee |-> SumFunction(Values(e.inputs)) - SumFunction(Values(rows)),
         external |-> SumFunctionOnSet(Values(rows), Foreign(rows)),
         updates |-> Selected(decoded, {n \in DOMAIN decoded : decoded[n] # None}),
         transfers |-> None, before |-> None, warnings |-> buildWarnings(e, rows)]

-----------------------------------------------------------------------------
(* unitTransferEdicts: one Runestone, nothing but edicts in it, all of the *)
(* asset and to outputs of the transaction.  The ids of edicts are written *)
(* as differences.                                                         *)

EdictCount(values) == (Len(values) - 1) \div 4
EdictAt(values, k) ==
    [block |-> values[4 * k - 2], tx |-> values[4 * k - 1],
     amount |-> values[4 * k], output |-> values[4 * k + 1]]

EdictId(values, k) ==
    LET id[j \in 0 .. k] ==
            IF j = 0 THEN [block |-> 0, tx |-> 0]
            ELSE LET d == EdictAt(values, j) IN
                 [block |-> id[j - 1].block + d.block,
                  tx |-> IF d.block = 0 THEN id[j - 1].tx + d.tx ELSE d.tx]
    IN  id[k]

\* Mutant of EdictsAllowed: edicts of any asset count.
EdictsAllowedAnyAsset(values, outputs, asset) ==
    \A k \in 1 .. EdictCount(values) :
        EdictId(values, k).block # 0 /\ EdictAt(values, k).output < Len(outputs)

EdictsAllowed(values, outputs, asset) ==
    \A k \in 1 .. EdictCount(values) :
        /\ EdictId(values, k).block # 0
        /\ EdictAt(values, k).output < Len(outputs)
        /\ EdictId(values, k) = asset

IsStone(script) == IsReturn(script) /\ script.stone # None

unitTransferEdicts(outputs, asset, decimals) ==
    LET stones == {n \in DOMAIN outputs : IsStone(outputs[n].script)}
        values == outputs[CHOOSE n \in stones : TRUE].script.stone
    IN  IF /\ Cardinality(stones) = 1
           /\ values # <<>> /\ values[1] = 0
           /\ (Len(values) - 1) % 4 = 0
           /\ EdictsAllowed(values, outputs, asset)
        THEN [k \in 1 .. EdictCount(values) |->
                [output |-> EdictAt(values, k).output,
                 amount |-> UnitOf(EdictAt(values, k).amount, decimals)]]
        ELSE None

-----------------------------------------------------------------------------
(* verify, once every input is backed by evidence.                         *)

OwnedVaultInput(input, account) ==
    /\ input.role = "vault"
    /\ input.script = OutputScriptForRole(account, "vault") \/ input.kind = "cosign"

PriorState(input, account, protocol) ==
    IF input.prior = None THEN None
    ELSE previousVaultState(input.prior, input.outpoint.vout, account, protocol)

Before(input, i, state, protocol) ==
    [input |-> i, collateral |-> input.value, debt |-> DebtOf(state, protocol),
     price |-> state.price, balance |-> IF state.bound THEN input.value - protocol.minimumSats ELSE None]

verify(e, s, account, protocol, asset) ==
    LET updates == [k \in DOMAIN s.updates |->
                       bindVaultOutput(s.updates[k], e.outputs, account, protocol)]
        bound == {k \in DOMAIN updates : updates[k].bound}
        vaults == {updates[k].vaultOutputIndex + 1 : k \in bound}
        outputs == [n \in DOMAIN s.outputs |->
                       IF n \in vaults THEN [s.outputs[n] EXCEPT !.mine = TRUE, !.role = "vault"]
                       ELSE s.outputs[n]]
        State(i) == PriorState(s.inputs[i], account, protocol)
        priors == {i \in DOMAIN s.inputs : OwnedVaultInput(s.inputs[i], account) /\ State(i) # None}
        unknown == {k \in bound : ~(GuardianKeys(updates[k], protocol) \subseteq KnownGuardians)}
    IN  [s EXCEPT
            !.updates = updates, !.outputs = outputs,
            !.external = SumFunctionOnSet(Values(outputs), Foreign(outputs)),
            !.transfers = IF protocol = None THEN None
                          ELSE unitTransferEdicts(e.outputs, asset, protocol.divisibility),
            !.before = IF Cardinality(priors) = 1 /\ Len(updates) = 1
                       THEN LET i == CHOOSE i \in priors : TRUE
                            IN  Before(s.inputs[i], i, State(i), protocol)
                       ELSE None,
            !.warnings = s.warnings \cup (IF unknown = {} THEN {} ELSE {"guardian"})]

-----------------------------------------------------------------------------
(* verifiedBefore, depositBeforeCollateral, vaultHealthFromReturnData.     *)

OwnVaults(s) == {n \in DOMAIN s.outputs : s.outputs[n].mine /\ s.outputs[n].role = "vault"}
FirstOwnVault(s) == CHOOSE n \in OwnVaults(s) : \A m \in OwnVaults(s) : n <= m

Collateral(s, data) ==
    IF data.vaultOutputIndex = None THEN None
    ELSE OutputAt(s.outputs, data.vaultOutputIndex).value

Balance(s, data, protocol) ==
    IF data.bound THEN Collateral(s, data) - protocol.minimumSats ELSE Collateral(s, data)

verifiedBefore(s) ==
    IF /\ s.before # None
       /\ s.inputs[s.before.input].role = "vault"
       /\ s.inputs[s.before.input].value = s.before.collateral
    THEN s.before ELSE None

\* Mutant of depositBeforeCollateral: the first of several vaults is taken.
depositBeforeCollateralOfFirst(s, e) ==
    LET vaultInputs == {i \in DOMAIN s.inputs : s.inputs[i].role = "vault"} IN
    IF verifiedBefore(s) # None THEN verifiedBefore(s).collateral
    ELSE IF vaultInputs # {} THEN s.inputs[CHOOSE i \in vaultInputs : \A j \in vaultInputs : i <= j].value
    ELSE None

depositBeforeCollateral(s, e) ==
    LET vaultInputs == {i \in DOMAIN s.inputs : s.inputs[i].role = "vault"} IN
    IF verifiedBefore(s) # None THEN verifiedBefore(s).collateral
    ELSE IF /\ OwnVaults(s) # {}
            /\ SignedOf(s.inputs) = DOMAIN s.inputs
            /\ \A i \in vaultInputs :
                \/ s.inputs[i].script = e.outputs[FirstOwnVault(s)].script
                \/ s.inputs[i].kind = "cosign"
            /\ Cardinality(vaultInputs) = 1
    THEN s.inputs[CHOOSE i \in vaultInputs : TRUE].value
    ELSE None

\* A per cent, rounded half up, of the collateral less its reserve.
vaultHealth(collateral, balance, debt, price) ==
    IF debt = 0 THEN NoDebt
    ELSE IF collateral \in {None, 0} \/ price = 0 THEN None
    ELSE (200 * balance * price + debt) \div (2 * debt)

-----------------------------------------------------------------------------
(* vaultReview: one vault update, and the package of transactions that its *)
(* action takes.                                                           *)

NativeActions == {"open", "borrow", "repay", "deposit", "withdraw"}

ShowsOneVault(s) ==
    /\ Len(s.updates) = 1
    /\ s.updates[1].flag \in NativeActions
    /\ s.updates[1].vaultOutputIndex # None
    /\ \E v \in DOMAIN s.outputs :
        OwnVaults(s) = {v} /\ s.outputs[v].value = Collateral(s, s.updates[1])

PositiveTransfers(parent) ==
    Selected(parent.transfers, {k \in DOMAIN parent.transfers : parent.transfers[k].amount > 0})

TransferAmount(parent) ==
    LET positive == PositiveTransfers(parent) IN
    IF positive = <<>> THEN 0 ELSE positive[1].amount

DebtChange(s, protocol) ==
    LET data == s.updates[1] before == verifiedBefore(s) debt == DebtOf(data, protocol) IN
    IF data.flag = "open" THEN debt
    ELSE IF before = None THEN None
    ELSE IF data.flag = "repay" THEN before.debt - debt
    ELSE debt - before.debt

\* The code admits a difference of 10^-8 UNIT.
Near(x, y) == x - y \in -1 .. 1

\* Mutant of LinkedToParent: one link is enough.
LinkedToParentOnce(s, parent, action) ==
    \E i \in DOMAIN s.inputs : s.inputs[i].outpoint.tx = parent.tx

LinkedToParent(s, parent, action) ==
    LET links == {i \in DOMAIN s.inputs : s.inputs[i].outpoint.tx = parent.tx}
        expected == IF action = "repay" THEN {0} ELSE {1, 2}
    IN  /\ Cardinality(links) = Cardinality(expected)
        /\ expected = {s.inputs[i].outpoint.vout : i \in links}

IsPackage(parent, s, protocol) ==
    LET data == s.updates[1] action == data.flag positive == PositiveTransfers(parent) IN
    /\ parent.transfers # None
    /\ LinkedToParent(s, parent, action)
    /\ Len(s.inputs) = IF action = "borrow" THEN 3 ELSE 2
    /\ action = "repay" \/ (s.outputs # <<>> /\ s.outputs[1].mine /\ s.outputs[1].role = "runes")
    /\ Len(positive) <= 1
    /\ positive = <<>> => action = "open" /\ data.balance = 0
    /\ positive # <<>> => positive[1].output = 1
    /\ (action = "repay") <=> (Len(parent.outputs) > 1 /\ parent.outputs[2].role = "op_return")
    /\ \/ DebtChange(s, protocol) = None
       \/ Near(DebtChange(s, protocol), TransferAmount(parent))

\* The entry shown natively, or None.
vaultReview(summaries, protocol) ==
    LET candidates == {k \in DOMAIN summaries : summaries[k].updates # <<>>}
        k == CHOOSE k \in candidates : TRUE
        action == summaries[k].updates[1].flag
    IN  IF Cardinality(candidates) # 1 THEN None
        ELSE IF ~ShowsOneVault(summaries[k]) THEN None
        ELSE IF action \in {"deposit", "withdraw"}
        THEN IF Len(summaries) = 1 THEN k ELSE None
        ELSE IF Len(summaries) = 2 /\ k = 2
        THEN IF IsPackage(summaries[1], summaries[2], protocol) THEN k ELSE None
        ELSE None

-----------------------------------------------------------------------------
(* The figures of the dialogs.                                             *)

\* The update that names the action of a request, of the first such entry.
DecodedEntry(summaries) ==
    LET decoded == {k \in DOMAIN summaries : summaries[k].updates # <<>>} IN
    IF decoded = {} THEN None ELSE CHOOSE k \in decoded : \A j \in decoded : k <= j

\* Mutant of contextFromDecodedVault: what the app says of the vault is kept.
contextFromDecodedVaultOrApp(s, vault, protocol) ==
    IF s.updates = <<>> \/ vault # None THEN vault
    ELSE [collateral |-> Collateral(s, s.updates[1]), debt |-> DebtOf(s.updates[1], protocol),
          health |-> None, source |-> "op_return"]

\* contextFromDecodedVault: what is shown of the vault; without a decoded state,
\* nothing.
contextFromDecodedVault(s, vault, protocol) ==
    IF s.updates = <<>> THEN None
    ELSE LET data == s.updates[1] debt == DebtOf(data, protocol) IN
         [collateral |-> Collateral(s, data), debt |-> debt,
          health |-> vaultHealth(Collateral(s, data), Balance(s, data, protocol), debt, data.price),
          source |-> "op_return"]

RowLabel(row) ==
    IF row.role \in {"op_return", "unknown"} THEN row.role
    ELSE IF row.mine THEN "own" ELSE "recipient"

\* The rows of a dialog for the outputs listed of each entry.
OutputRows(summaries, listed) ==
    [x \in UNION {{k} \X listed[k] : k \in DOMAIN summaries} |->
        LET row == summaries[x[1]].outputs[x[2]] IN
        [value |-> row.value, label |-> RowLabel(row)]]

FirstDataOutputs(s) ==
    LET plain == {n \in DataOutputs(s.outputs) : ~s.outputs[n].vaultData} IN
    {n \in plain : Cardinality({m \in plain : m < n}) < MaxDataRows}

\* Mutant of ListedOfPsbt: own outputs and the first recipient only.
ListedOfPsbtFirst(s) ==
    {n \in DOMAIN s.outputs : s.outputs[n].mine \/ n = 1}

ListedOfPsbt(s) == (DOMAIN s.outputs \ DataOutputs(s.outputs)) \cup FirstDataOutputs(s)

\* batchEntryRecipientRows.
ListedOfBatch(s) == Foreign(s.outputs) \ DataOutputs(s.outputs)

FeeTotal(summaries) == SumFunction([k \in DOMAIN summaries |-> summaries[k].fee])
ExternalTotal(summaries) == SumFunction([k \in DOMAIN summaries |-> summaries[k].external])
Warned(summaries) == {k \in DOMAIN summaries : summaries[k].warnings # {}}

Dialog(kind, summaries, figures, rows) ==
    [kind |-> kind, pay |-> None, fee |-> FeeTotal(summaries), figures |-> figures, rows |-> rows,
     warned |-> Warned(summaries), verified |-> DecodedEntry(summaries) # None, native |-> None]

psbtDialog(s, vault, protocol) ==
    [Dialog("psbt", <<s>>, contextFromDecodedVault(s, vault, protocol),
            OutputRows(<<s>>, <<ListedOfPsbt(s)>>))
        EXCEPT !.pay = s.external + s.fee]

\* Without a decoded entry the app's context is used as it is.
batchDialog(summaries, vault, protocol) ==
    LET k == DecodedEntry(summaries) IN
    [Dialog("batch", summaries,
            IF k = None THEN vault ELSE contextFromDecodedVault(summaries[k], vault, protocol),
            OutputRows(summaries, [j \in DOMAIN summaries |-> ListedOfBatch(summaries[j])]))
        EXCEPT !.pay = ExternalTotal(summaries) + FeeTotal(summaries)]

OwnSats(s) == {n \in DOMAIN s.outputs : s.outputs[n].mine /\ s.outputs[n].role = "sats"}

\* vaultConfirmation: the change of the vault that entry k makes.
NativeFigures(e, k, summaries, protocol) ==
    LET s == summaries[k]
        data == s.updates[1]
        opening == data.flag = "open"
        before == verifiedBefore(s)
        gross == IF opening THEN 0 ELSE depositBeforeCollateral(s, e)
        after == Balance(s, data, protocol)
        debt == DebtOf(data, protocol)
        reserve == Collateral(s, data) - after
        collateralBefore ==
            IF opening THEN 0
            ELSE IF before # None /\ before.balance # None THEN before.balance
            ELSE IF gross = None THEN None
            ELSE IF gross > reserve THEN gross - reserve ELSE 0
        debtBefore == IF opening THEN 0 ELSE IF before = None THEN None ELSE before.debt
        price == IF data.price > 0 \/ before = None THEN data.price ELSE before.price
        added == IF gross # None /\ Collateral(s, data) > gross THEN Collateral(s, data) - gross ELSE None
        returned == SumFunctionOnSet(Values(s.outputs), OwnSats(s))
        unit == data.flag \in {"borrow", "repay"}
    IN  [action |-> data.flag,
         amount |-> IF unit THEN TransferAmount(summaries[1])
                    ELSE IF data.flag = "withdraw" THEN returned
                    ELSE IF added # None THEN added ELSE Collateral(s, data),
         added |-> added, returned |-> returned, external |-> s.external,
         collateralBefore |-> collateralBefore, collateralAfter |-> after,
         debtBefore |-> debtBefore, debtAfter |-> debt,
         ratioBefore |-> IF debtBefore = None \/ collateralBefore = None THEN None
                         ELSE vaultHealth(collateralBefore, collateralBefore, debtBefore, price),
         ratioAfter |-> vaultHealth(Collateral(s, data), after, debt, data.price)]

nativeDialog(e, k, summaries, protocol) ==
    [Dialog("vault", summaries, None,
            OutputRows(summaries, [j \in DOMAIN summaries |-> DOMAIN summaries[j].outputs]))
        EXCEPT !.native = NativeFigures(e, k, summaries, protocol)]
=============================================================================
