----------------------------- MODULE Confirmation -----------------------------
(***************************************************************************)
(* A signing request whose PSBTs were accepted and are backed by evidence  *)
(* (PsbtReview, PsbtBatch), from its summaries to its answer: signPsbt and *)
(* signBatch of rpc.ts, confirmPsbt and confirmBatch of confirmations.ts,  *)
(* showDepositConfirmation and the toggle of confirmation-vault.ts.        *)
(***************************************************************************)
EXTENDS VaultReview

LOCAL INSTANCE Functions

\* [account, protocol, asset, batch, entries, vault].  The `units` of an input
\* are what its output holds of the asset; no step reads them.
CONSTANT Requests

VARIABLES
    request,
    stage,
    summaries,
    dialog,     \* what the user sees, or None
    expanded,   \* the address row of a native dialog
    approved,
    signatures, \* inputs signed so far, each with its entry
    recorded,   \* the action the history has for the request, or None
    returned    \* inputs whose signatures the website received

vars == <<request, stage, summaries, dialog, expanded, approved, signatures, recorded, returned>>

entries == request.entries
account == request.account
protocol == request.protocol

\* PsbtReview: an input is signed by the key path of an account output, or by
\* a leaf of the tree it spends.
AcceptedInput(input, owner) ==
    /\ input.kind = "account" <=>
        input.role # None /\ input.script = OutputScriptForRole(owner, input.role)
    /\ input.kind \in {"cosign", "timeout"} => input.role = "vault" /\ IsTaproot(input.script)
    /\ input.kind = "cosign" =>
        \E g \in Keys : BagIn(CosignHead(owner.vault, g), input.script.leaves)
    /\ input.role = None => input.kind = None

\* Inputs and outputs have been parsed, and the prior transactions, too.
ParsedInput(input) ==
    /\ input.value \in Nat /\ input.units \in Nat
    /\ input.outpoint \in [tx : {input.outpoint.tx}, vout : Nat]
    /\ input.prior # None => Parsed(input.prior.outputs)

ParsedEntry(e) ==
    /\ e.inputs \in Seq(Range(e.inputs)) /\ \A i \in DOMAIN e.inputs : ParsedInput(e.inputs[i])
    /\ Parsed(e.outputs)
    /\ \A n \in DOMAIN e.outputs :
        /\ e.outputs[n].value \in Nat
        /\ IsStone(e.outputs[n].script) => e.outputs[n].script.stone \in Seq(Nat)

ASSUME RequestsAssumption ==
    \A r \in Requests :
        /\ r.entries # <<>> /\ r.entries \in Seq(Range(r.entries))
        /\ r.batch \/ Len(r.entries) = 1
        /\ r.protocol # None =>
            /\ r.protocol.minimumSats \in Nat /\ r.protocol.divisibility \in 0 .. 8
            /\ \A g \in DOMAIN r.protocol.guardians : r.protocol.guardians[g] \in Keys
        /\ \A k \in DOMAIN r.entries :
            /\ ParsedEntry(r.entries[k])
            /\ \A i \in DOMAIN r.entries[k].inputs : AcceptedInput(r.entries[k].inputs[i], r.account)
            /\ \E i \in DOMAIN r.entries[k].inputs : r.entries[k].inputs[i].role # None

Init ==
    /\ request \in Requests
    /\ stage = "received"
    /\ summaries = <<>> /\ dialog = None /\ expanded = FALSE
    /\ approved = FALSE /\ signatures = {} /\ recorded = None /\ returned = {}

-----------------------------------------------------------------------------
Outpoints(e) == {e.inputs[i].outpoint : i \in DOMAIN e.inputs}

\* assertUniqueBatchOutpoints.
UniqueBatchOutpoints ==
    \A j, k \in DOMAIN entries : j # k => Outpoints(entries[j]) \cap Outpoints(entries[k]) = {}

\* preparePsbtForSigning of every entry; a negative fee is refused.
Prepare ==
    LET prepared == [k \in DOMAIN entries |-> summarizePsbt(entries[k], account)] IN
    /\ stage = "received"
    /\ UniqueBatchOutpoints
    /\ \A k \in DOMAIN prepared : prepared[k].fee >= 0
    /\ summaries' = prepared
    /\ stage' = "prepared"
    /\ UNCHANGED <<request, dialog, expanded, approved, signatures, recorded, returned>>

Verify ==
    /\ stage = "prepared"
    /\ summaries' = [k \in DOMAIN entries |->
                        verify(entries[k], summaries[k], account, protocol, request.asset)]
    /\ stage' = "verified"
    /\ UNCHANGED <<request, dialog, expanded, approved, signatures, recorded, returned>>

\* confirmPsbt or confirmBatch, up to the dialog.
OpenDialog ==
    LET k == vaultReview(summaries, protocol) IN
    /\ stage = "verified"
    /\ dialog' = IF k # None THEN nativeDialog(entries[k], k, summaries, protocol)
                 ELSE IF request.batch THEN batchDialog(summaries, request.vault, protocol)
                 ELSE psbtDialog(summaries[1], request.vault, protocol)
    /\ stage' = "dialog"
    /\ UNCHANGED <<request, summaries, expanded, approved, signatures, recorded, returned>>

\* handleDepositVaultInput: the arrow of the address row.
Toggle ==
    /\ stage = "dialog" /\ dialog.kind = "vault"
    /\ expanded' = ~expanded
    /\ UNCHANGED <<request, stage, summaries, dialog, approved, signatures, recorded, returned>>

Approve ==
    /\ stage = "dialog"
    /\ approved' = TRUE
    /\ stage' = "signing"
    /\ UNCHANGED <<request, summaries, dialog, expanded, signatures, recorded, returned>>

Reject ==
    /\ stage = "dialog"
    /\ stage' = "rejected"
    /\ UNCHANGED <<request, summaries, dialog, expanded, approved, signatures, recorded, returned>>

SignedInputs(k) == {k} \X SignedOf(entries[k].inputs)
Requested == UNION {SignedInputs(k) : k \in DOMAIN entries}
EntrySigned(k) == SignedInputs(k) \subseteq signatures

\* A key-path input that names another internal key is found here.
Signable(k) ==
    \A i \in SignedOf(entries[k].inputs) :
        LET input == entries[k].inputs[i] IN
        input.kind = "account" /\ input.role # "sats" => ~input.foreignKey

\* Mutant of SignEntry: an entry that cannot be signed is passed over.
SignEntrySkipping ==
    \E k \in DOMAIN entries :
        /\ stage = "signing" /\ ~EntrySigned(k)
        /\ \A j \in 1 .. k - 1 : EntrySigned(j) \/ ~Signable(j)
        /\ Signable(k)
        /\ signatures' = signatures \cup SignedInputs(k)
        /\ stage' = IF \A j \in k + 1 .. Len(entries) : ~Signable(j) THEN "signed" ELSE stage
        /\ UNCHANGED <<request, summaries, dialog, expanded, approved, recorded, returned>>

\* Mutant of SignEntry: inputs that were not asked for are signed, too.
SignEntryWhole ==
    \E k \in DOMAIN entries :
        /\ stage = "signing" /\ ~EntrySigned(k)
        /\ \A j \in 1 .. k - 1 : EntrySigned(j)
        /\ Signable(k)
        /\ signatures' = signatures \cup ({k} \X DOMAIN entries[k].inputs)
        /\ stage' = IF k = Len(entries) THEN "signed" ELSE stage
        /\ UNCHANGED <<request, summaries, dialog, expanded, approved, recorded, returned>>

\* signPreparedPsbt of the next entry; signatures stay in the Snap.
SignEntry ==
    \E k \in DOMAIN entries :
        /\ stage = "signing" /\ ~EntrySigned(k)
        /\ \A j \in 1 .. k - 1 : EntrySigned(j)
        /\ Signable(k)
        /\ signatures' = signatures \cup SignedInputs(k)
        /\ stage' = IF k = Len(entries) THEN "signed" ELSE stage
        /\ UNCHANGED <<request, summaries, dialog, expanded, approved, recorded, returned>>

\* decodedActionType: of the first entry with a vault state, or else the app's.
RecordedAction ==
    LET k == DecodedEntry(summaries) IN
    IF k = None THEN "app" ELSE summaries[k].updates[1].flag

\* appendRecentAction.
Record ==
    /\ stage = "signed" /\ recorded = None
    /\ recorded' = RecordedAction
    /\ UNCHANGED <<request, stage, summaries, dialog, expanded, approved, signatures, returned>>

\* Mutant of Answer: the history is not waited for.
AnswerEarly ==
    /\ stage = "signed"
    /\ returned' = signatures
    /\ stage' = "returned"
    /\ UNCHANGED <<request, summaries, dialog, expanded, approved, signatures, recorded>>

Answer ==
    /\ stage = "signed" /\ recorded # None
    /\ returned' = signatures
    /\ stage' = "returned"
    /\ UNCHANGED <<request, summaries, dialog, expanded, approved, signatures, recorded>>

\* A refused entry, a dialog too large, an entry that cannot be signed, or a
\* history that cannot be written: the request throws.
Fail ==
    /\ stage \in {"received", "prepared", "verified", "signing", "signed"}
    /\ stage' = "failed"
    /\ UNCHANGED <<request, summaries, dialog, expanded, approved, signatures, recorded, returned>>

Next ==
    \/ Prepare \/ Verify \/ OpenDialog \/ Toggle \/ Approve \/ Reject
    \/ SignEntry \/ Record \/ Answer \/ Fail

Spec == Init /\ [][Next]_vars

-----------------------------------------------------------------------------
(* Properties.                                                             *)

Stages == {"received", "prepared", "verified", "dialog", "signing", "signed",
           "returned", "rejected", "failed"}

TypeOK ==
    /\ stage \in Stages
    /\ summaries # <<>> => DOMAIN summaries = DOMAIN entries
    /\ dialog # None => dialog.kind \in {"psbt", "batch", "vault"}
    /\ expanded \in BOOLEAN /\ approved \in BOOLEAN
    /\ signatures \subseteq Requested /\ returned \subseteq Requested
    /\ recorded \in {None, "app"} \cup DOMAIN FlagByte

\* What a website receives is a whole request that the user approved: every
\* input asked for, of every entry, signed and on record under the action that
\* was decoded.  A request that is rejected or has not been answered has no
\* signature, and entries are signed in their order.
AllOrNothing ==
    /\ returned # {} => approved /\ returned = Requested /\ recorded = RecordedAction
    /\ ~approved => signatures = {} /\ recorded = None
    /\ recorded # None => signatures = Requested
    /\ \A j, k \in DOMAIN entries :
        j < k /\ signatures \cap SignedInputs(k) # {} => EntrySigned(j)

\* Outputs that are the account's: of its addresses, or of a tree in which its
\* vault key cosigns.
OwnScript(script) ==
    \/ script \in {OutputScriptForRole(account, role) : role \in Roles}
    \/ IsTaproot(script) /\ \E g \in Keys : BagIn(CosignHead(account.vault, g), script.leaves)

Loss ==
    LET spent == Requested
        kept == {x \in UNION {{k} \X DOMAIN entries[k].outputs : k \in DOMAIN entries} :
                    OwnScript(entries[x[1]].outputs[x[2]].script)}
    IN  SumFunction([x \in spent |-> entries[x[1]].inputs[x[2]].value])
        - SumFunction([x \in kept |-> entries[x[1]].outputs[x[2]].value])

\* Nothing leaves the account unseen: "You pay" is no less than what the signed
\* inputs hold and own outputs do not get back, and a dialog lists with its
\* value, not as the user's own, every output that pays somebody else, or warns
\* of the value in a data output.
NothingLeavesUnseen ==
    dialog # None =>
        /\ dialog.pay # None => dialog.pay >= Loss
        /\ \A k \in DOMAIN entries : \A n \in DOMAIN entries[k].outputs :
            LET output == entries[k].outputs[n] IN
            ~OwnScript(output.script) /\ output.value > 0 =>
                \/ IsReturn(output.script) /\ k \in dialog.warned
                \/ /\ <<k, n>> \in DOMAIN dialog.rows
                   /\ dialog.rows[<<k, n>>].value = output.value
                   /\ dialog.rows[<<k, n>>].label # "own"

\* What nobody is allocated goes to the first output that holds no data.
GetsRest(outputs, n) ==
    /\ HasOutput(outputs, n) /\ ~IsReturn(OutputAt(outputs, n).script)
    /\ \A m \in 0 .. n - 1 : IsReturn(OutputAt(outputs, m).script)

\* What output n is allocated of the units that the inputs hold, by the rule of
\* Runes.  The block of an edict is the sum of the differences up to it, its
\* index the sum of those since the block last changed.  It takes its amount
\* from what is left, and all of that when the amount is zero or exceeds it.
AllocatedTo(values, outputs, n, held) ==
    LET count == EdictCount(values)
        Block(k) == SumFunction([j \in 1 .. k |-> EdictAt(values, j).block])
        First(k) == CHOOSE j \in 1 .. k :
            /\ Block(j) = Block(k)
            /\ \A m \in 1 .. k : Block(m) = Block(k) => j <= m
        Index(k) == SumFunction([j \in First(k) .. k |-> EdictAt(values, j).tx])
        Taken(k, left) ==
            LET amount == EdictAt(values, k).amount IN
            IF [block |-> Block(k), tx |-> Index(k)] # request.asset THEN 0
            ELSE IF amount = 0 \/ amount > left THEN left ELSE amount
        left[k \in 0 .. count] == IF k = 0 THEN held ELSE left[k - 1] - Taken(k, left[k - 1])
    IN  SumFunction([k \in {k \in 1 .. count : EdictAt(values, k).output = n} |->
                        Taken(k, left[k - 1])])
        + IF GetsRest(outputs, n) THEN left[count] ELSE 0

\* What is left of the asset is not for output 1, and no edict of amount zero
\* takes it there, or before output 1 has its amount.
RestIsApart(values, outputs) ==
    /\ ~GetsRest(outputs, 1)
    /\ \A j, k \in 1 .. EdictCount(values) :
        j <= k /\ EdictAt(values, j).amount = 0 => EdictAt(values, k).output # 1

IsUnitDialog ==
    dialog # None /\ dialog.native # None /\ dialog.native.action \in {"open", "borrow", "repay"}

UnitShown == IF dialog.native.action = "open" THEN dialog.native.debtAfter ELSE dialog.native.amount

Lesser(x, y) == IF x <= y THEN x ELSE y

\* Output 1 of the first transaction is allocated the amount shown, or all that
\* its inputs hold if that is less.
AmountIsAllocated(values) ==
    LET outputs == entries[1].outputs
        held == SumFunction([i \in DOMAIN entries[1].inputs |-> entries[1].inputs[i].units])
        allocated == UnitOf(AllocatedTo(values, outputs, 1, held), protocol.divisibility)
        expected == Lesser(UnitShown, UnitOf(held, protocol.divisibility))
    IN  IF dialog.native.action = "open" THEN Near(allocated, expected) ELSE allocated = expected

\* The UNIT amount of a native dialog is that of the very asset which the first
\* transaction allocates to its output 1, where the rest stays apart from it.
\* The vault transaction spends that output or, when UNIT is repaid, it burns
\* the amount; and the debt changes by it, as far as the debt before is known.
UnitShownIsAllocated ==
    IsUnitDialog =>
        LET native == dialog.native IN
        /\ \E n \in DOMAIN entries[1].outputs :
            LET script == entries[1].outputs[n].script IN
            IsStone(script) /\ (RestIsApart(script.stone, entries[1].outputs) =>
                                    AmountIsAllocated(script.stone))
        /\ native.action = "repay" => IsReturn(entries[1].outputs[2].script)
        /\ native.action # "repay" =>
            \E i \in DOMAIN entries[2].inputs :
                entries[2].inputs[i].outpoint = [tx |-> entries[1].tx, vout |-> 1]
        /\ native.debtBefore # None =>
            Near(UnitShown, IF native.action = "repay" THEN native.debtBefore - native.debtAfter
                            ELSE native.debtAfter - native.debtBefore)

\* "Vault confirmations show the action amount": what output 1 is allocated by
\* the edicts of the transaction, whatever they are.
ActionAmountIsAllocated ==
    (IsUnitDialog /\ ~GetsRest(entries[1].outputs, 1)) =>
        \E n \in DOMAIN entries[1].outputs :
            LET script == entries[1].outputs[n].script IN
            IsStone(script) /\ AmountIsAllocated(script.stone)

\* The collateral a native dialog counts from is that of an own vault output
\* which this transaction spends: the one whose state was decoded, or the only
\* one when all inputs are known.
BeforeIsSpentVault ==
    (dialog # None /\ dialog.native # None /\ dialog.native.action # "open") =>
        LET native == dialog.native
            k == Len(entries)
            s == summaries[k]
            vaults == {i \in DOMAIN entries[k].inputs : entries[k].inputs[i].role = "vault"}
            reserve == Collateral(s, s.updates[1]) - native.collateralAfter
        IN  native.collateralBefore # None =>
            \E i \in vaults :
                LET input == entries[k].inputs[i] IN
                /\ OwnScript(input.script)
                /\ \/ native.collateralBefore = input.value - reserve
                   \/ native.collateralBefore = 0 /\ input.value < reserve
                   \/ native.debtBefore # None
                      /\ native.collateralBefore \in input.value - protocol.minimumSats .. input.value
                /\ native.debtBefore = None =>
                    vaults = {i} /\ SignedOf(entries[k].inputs) = DOMAIN entries[k].inputs
                /\ native.debtBefore # None =>
                    /\ input.prior # None
                    /\ native.debtBefore = DebtOf(
                        previousVaultState(input.prior, input.outpoint.vout, account, protocol), protocol)

\* Vault figures in a dialog are those of a vault state decoded from a
\* transaction of the request.
FiguresAreDecoded ==
    (dialog # None /\ dialog.figures # None) =>
        \E k \in DOMAIN summaries : \E u \in DOMAIN summaries[k].updates :
            LET data == summaries[k].updates[u] IN
            /\ dialog.figures.collateral = Collateral(summaries[k], data)
            /\ dialog.figures.debt = DebtOf(data, protocol)

\* What the app says of a vault is not shown for a single PSBT, nor where a
\* transaction of the batch says it itself.
AppFiguresYield ==
    ~request.batch \/ (dialog # None /\ dialog.verified) => FiguresAreDecoded
=============================================================================
