------------------------------ MODULE PsbtBatch ------------------------------
(***************************************************************************)
(* The transactions of one ducat_signPsbt or ducat_signBatch request       *)
(* (psbt.ts, psbt-verification.ts, signPsbt and signBatch of rpc.ts): what *)
(* a PSBT claims of the outputs it spends, what is accepted as evidence of *)
(* those claims, and what is signed, while transactions confirm and the    *)
(* active account changes.  signPsbt is a batch of one entry.              *)
(*                                                                         *)
(* A transaction id commits to its inputs and outputs, so a source of      *)
(* evidence is the set of outpoints it speaks for.                         *)
(***************************************************************************)
EXTENDS Integers, Sequences, FiniteSets, Functions

CONSTANTS
    TxIds,              \* transactions
    Tx,                 \* inputs (outpoints) and outputs (value, script) of each
    Base,               \* transactions confirmed at the start
    Accounts,           \* accounts that can be active
    Signable,           \* scripts an account may sign for, by the address named
    InventoryScripts,   \* its sats and runes scripts, which the inventory lists
    Batches,            \* what a website may ask to sign
    None,               \* a claim (witnessUtxo) that is left out
    MaxBatchEntries, MaxPsbtInputs, MaxPsbtOutputs, MaxSignInputs,
    MaxHistory          \* bound on the transactions that confirm meanwhile

VARIABLES
    history,        \* transactions confirmed or seen in the mempool, in order
    active,         \* the account getActiveAccountKeySet would resolve
    stage,
    batch,          \* entries of the request
    account,        \* the key set it resolved
    requestedAt,    \* length of history when it was received
    rowsAt,         \* length of history when its inventory was observed
    rows,           \* #inventory: unspent outputs of the account
    found,          \* #prevouts: outputs Esplora has described
    unspent,        \* #prevouts: outputs Esplora has reported as unspent
    known,          \* #batchPrevouts: outputs of the entries verified so far
    entry,          \* the entry being verified
    signatures      \* signatures made: entry and input index

world == <<history, active>>
prepared == <<batch, account, requestedAt>>
context == <<rowsAt, rows, found, unspent, known, entry>>
vars == <<world, stage, prepared, context, signatures>>

Output(o) == Tx[o.tx].outputs[o.vout]
OutputsOf(t) == {[tx |-> t, vout |-> v] : v \in DOMAIN Tx[t].outputs}
InputsOf(t) == Range(Tx[t].inputs)
Outpoints == UNION {OutputsOf(t) : t \in TxIds}

ASSUME TxAssumption ==
    /\ Base \subseteq TxIds
    /\ \A t \in TxIds :
        /\ Tx[t].inputs \in Seq([tx : TxIds, vout : Nat \ {0}])
        /\ \A v \in DOMAIN Tx[t].outputs : Tx[t].outputs[v].value \in Nat
    /\ \A t \in Base : \A o \in InputsOf(t) : o.tx \in Base

ASSUME RequestAssumption ==
    /\ Accounts # {} /\ MaxHistory \in Nat
    /\ \A b \in Batches : Len(b) \in Nat /\ DOMAIN b = 1 .. Len(b)
    /\ \A b \in Batches : \A k \in DOMAIN b :
        /\ b[k].tx \in TxIds
        /\ DOMAIN b[k].claims = DOMAIN Tx[b[k].tx].inputs
        /\ \A i \in DOMAIN b[k].claims : b[k].claims[i] # None => b[k].claims[i].value \in Nat

-----------------------------------------------------------------------------
(* Transactions outside the Snap.                                          *)

ConfirmedAt(n) == Base \cup {history[m] : m \in 1 .. n}
SpentAt(n) == UNION {InputsOf(t) : t \in ConfirmedAt(n)}
Now == Len(history)
IsOutput(o, txs) == o.tx \in txs /\ o.vout \in DOMAIN Tx[o.tx].outputs

OutputSats(t) == SumFunction([v \in DOMAIN Tx[t].outputs |-> Tx[t].outputs[v].value])
\* The miner fee a transaction really pays.
TrueFee(t) ==
    SumFunction([i \in DOMAIN Tx[t].inputs |-> Output(Tx[t].inputs[i]).value]) - OutputSats(t)

Confirm(t) ==
    /\ Now < MaxHistory
    /\ t \notin ConfirmedAt(Now)
    /\ \A o \in InputsOf(t) : IsOutput(o, ConfirmedAt(Now)) /\ o \notin SpentAt(Now)
    /\ TrueFee(t) >= 0
    /\ history' = Append(history, t)
    /\ UNCHANGED <<active, stage, prepared, context, signatures>>

\* A key is imported or removed, whose account becomes the active one.
ChangeAccount(a) ==
    /\ active # a
    /\ active' = a
    /\ UNCHANGED <<history, stage, prepared, context, signatures>>

-----------------------------------------------------------------------------
(* What preparePsbtForSigning and signBatch check before any evidence.     *)

\* feeSats of the summary, from what the PSBT claims.
FeeAvailable(e) == \A i \in DOMAIN e.claims : e.claims[i] # None
FeeSats(e) == SumFunction([i \in DOMAIN e.claims |-> e.claims[i].value]) - OutputSats(e.tx)

\* Mutant of FeeValid: the negative fee is not refused.
FeeValidAny(e) == FeeAvailable(e)

\* PSBT_FEE_UNAVAILABLE and PSBT_FEE_INVALID.
FeeValid(e) == FeeAvailable(e) /\ FeeSats(e) >= 0

\* assertUniqueInputOutpoints.
UniqueInputs(t) ==
    \A i, j \in DOMAIN Tx[t].inputs : Tx[t].inputs[i] = Tx[t].inputs[j] => i = j

\* parseSignInputs and validateSignedInput.
OwnsSignedInputs(a, e) ==
    /\ DOMAIN e.sign # {}
    /\ Cardinality(DOMAIN e.sign) <= MaxSignInputs
    /\ \A i \in DOMAIN e.sign :
        /\ i \in DOMAIN e.claims
        /\ e.claims[i] # None
        /\ e.claims[i].script \in Signable[a][e.sign[i]]

\* Mutant of NoSharedOutpoint: assertUniqueBatchOutpoints is left out.
NoSharedOutpointPerEntry(b) == TRUE

\* assertUniqueBatchOutpoints.
NoSharedOutpoint(b) ==
    \A j, k \in DOMAIN b : j # k => InputsOf(b[j].tx) \cap InputsOf(b[k].tx) = {}

Accepted(a, b) ==
    /\ Len(b) \in 1 .. MaxBatchEntries
    /\ \A k \in DOMAIN b :
        /\ Len(Tx[b[k].tx].inputs) <= MaxPsbtInputs
        /\ Len(Tx[b[k].tx].outputs) <= MaxPsbtOutputs
        /\ UniqueInputs(b[k].tx)
        /\ OwnsSignedInputs(a, b[k])
        /\ FeeValid(b[k])
    /\ NoSharedOutpoint(b)

-----------------------------------------------------------------------------
Init ==
    /\ history = <<>>
    /\ active \in Accounts
    /\ stage = "idle"
    /\ batch \in Batches
    /\ account = active
    /\ requestedAt = 0 /\ rowsAt = 0
    /\ rows = {} /\ found = {} /\ unspent = {} /\ known = {}
    /\ entry = 1
    /\ signatures = {}

Receive ==
    /\ stage = "idle"
    /\ requestedAt' = Now
    /\ stage' = "resolve"
    /\ UNCHANGED <<world, batch, account, context, signatures>>

\* The key set is resolved; the checks follow without another await.
Prepare ==
    /\ stage = "resolve"
    /\ account' = active
    /\ stage' = IF Accepted(active, batch) THEN "context" ELSE "failed"
    /\ UNCHANGED <<world, batch, requestedAt, context, signatures>>

\* Mutant of CreateContext: every output of the batch is evidence at once.
CreateContextTrusting ==
    /\ stage = "context"
    /\ rowsAt' \in 0 .. Now
    /\ rows' = {o \in UNION {OutputsOf(t) : t \in ConfirmedAt(rowsAt')} : o \notin SpentAt(rowsAt')}
    /\ known' = UNION {OutputsOf(batch[k].tx) : k \in DOMAIN batch}
    /\ stage' = "verify"
    /\ UNCHANGED <<world, prepared, found, unspent, entry, signatures>>

\* createPsbtVerificationContext.  The inventory is of the account that is
\* active by then.  A refresh joined in flight may have observed the outputs
\* before the request.
CreateContext ==
    /\ stage = "context"
    /\ rowsAt' \in 0 .. Now
    /\ rows' = {o \in UNION {OutputsOf(t) : t \in ConfirmedAt(rowsAt')} :
                    o \notin SpentAt(rowsAt') /\ Output(o).script \in InventoryScripts[active]}
    /\ stage' = "verify"
    /\ UNCHANGED <<world, prepared, found, unspent, known, entry, signatures>>

\* #externalPrevout is asked for what neither the wallet nor the batch has.
Asked(o) ==
    /\ stage = "verify"
    /\ o \in InputsOf(batch[entry].tx) \ (rows \cup known)

\* GET /tx/<txid>, decodePrevout.
FetchTx(o) ==
    /\ Asked(o) /\ o \notin found
    /\ IsOutput(o, ConfirmedAt(Now)) /\ Output(o).value > 0
    /\ found' = found \cup {o}
    /\ UNCHANGED <<world, stage, prepared, rowsAt, rows, unspent, known, entry, signatures>>

\* Mutant of FetchSpend: assertUnspent is left out.
FetchSpendUnchecked(o) ==
    /\ Asked(o) /\ o \notin unspent
    /\ unspent' = unspent \cup {o}
    /\ UNCHANGED <<world, stage, prepared, rowsAt, rows, found, known, entry, signatures>>

\* GET /tx/<txid>/outspend/<vout>, assertUnspent.
FetchSpend(o) ==
    /\ Asked(o) /\ o \notin unspent
    /\ o \notin SpentAt(Now)
    /\ unspent' = unspent \cup {o}
    /\ UNCHANGED <<world, stage, prepared, rowsAt, rows, found, known, entry, signatures>>

HasEvidence(o) == o \in rows \cup known \/ (o \in found /\ o \in unspent)

\* Mutants of Matches: only the value, or only the script, is compared.
MatchesValue(e, i) == e.claims[i].value = Output(Tx[e.tx].inputs[i]).value
MatchesScript(e, i) == e.claims[i].script = Output(Tx[e.tx].inputs[i]).script

Matches(e, i) == e.claims[i] = Output(Tx[e.tx].inputs[i])

\* The end of verify: every input matched, the outputs are remembered.
VerifyEntry ==
    LET e == batch[entry] IN
    /\ stage = "verify"
    /\ \A i \in DOMAIN e.claims : HasEvidence(Tx[e.tx].inputs[i]) /\ Matches(e, i)
    /\ known' = known \cup OutputsOf(e.tx)
    /\ IF entry = Len(batch)
       THEN stage' = "dialog" /\ UNCHANGED entry
       ELSE entry' = entry + 1 /\ UNCHANGED stage
    /\ UNCHANGED <<world, prepared, rowsAt, rows, found, unspent, signatures>>

\* The dialog is approved; every entry is signed before the next await.
SignBatch ==
    /\ stage = "dialog"
    /\ signatures' = UNION {{[entry |-> k, input |-> i] : i \in DOMAIN batch[k].sign} :
                                k \in DOMAIN batch}
    /\ stage' = "signed"
    /\ UNCHANGED <<world, prepared, context>>

\* Missing, malformed or contradicting evidence, a rejected dialog, and every
\* call that fails.
Fail ==
    /\ stage \in {"resolve", "context", "verify", "dialog"}
    /\ stage' = "failed"
    /\ UNCHANGED <<world, prepared, context, signatures>>

Fetch == \E o \in InputsOf(batch[entry].tx) : FetchTx(o) \/ FetchSpend(o)

Next ==
    \/ \E t \in TxIds : Confirm(t)
    \/ \E a \in Accounts : ChangeAccount(a)
    \/ Receive \/ Prepare \/ CreateContext \/ Fetch \/ VerifyEntry \/ SignBatch \/ Fail

Spec == Init /\ [][Next]_vars

-----------------------------------------------------------------------------
(* Properties.                                                             *)

Stages == {"idle", "resolve", "context", "verify", "dialog", "signed", "failed"}
Approvable == stage \in {"dialog", "signed"}

TypeOK ==
    /\ history \in Seq(TxIds) /\ Now <= MaxHistory
    /\ active \in Accounts /\ account \in Accounts
    /\ stage \in Stages
    /\ batch \in Batches
    /\ requestedAt \in 0 .. Now /\ rowsAt \in 0 .. Now
    /\ rows \subseteq Outpoints /\ known \subseteq Outpoints /\ found \subseteq Outpoints
    /\ entry \in Nat \ {0}
    /\ \A s \in signatures : s.entry \in DOMAIN batch /\ s.input \in DOMAIN batch[s.entry].claims
    /\ Approvable => \A k \in DOMAIN batch : FeeSats(batch[k]) >= 0

\* The fee the dialog shows is the fee the transaction pays, whatever the
\* website claims of the outputs it spends (verify, summarizePsbt).
ShownIsTrue ==
    Approvable => \A k \in DOMAIN batch : FeeSats(batch[k]) = TrueFee(batch[k].tx)

\* A signature is made only for an output that really belongs to the account
\* of the key set that signs, under the address the request named for it
\* (validateSignedInput with verify): ownership is checked on a claim and the
\* claim later against evidence, which may be of another account's inventory.
SignsOnlyOwn ==
    \A s \in signatures :
        Output(Tx[batch[s.entry].tx].inputs[s.input]).script
            \in Signable[account][batch[s.entry].sign[s.input]]

\* "All-or-nothing": in the order of the batch, every entry spends outputs of
\* confirmed transactions and of earlier entries, and none that an earlier
\* entry spends (assertUniqueBatchOutpoints, rememberVerifiedOutputs).
BatchConfirmsInOrder ==
    Approvable =>
        \A k \in DOMAIN batch :
            LET earlier == {batch[j].tx : j \in 1 .. k - 1} IN
            /\ \A o \in InputsOf(batch[k].tx) : IsOutput(o, ConfirmedAt(Now) \cup earlier)
            /\ InputsOf(batch[k].tx) \cap UNION {InputsOf(t) : t \in earlier} = {}

\* Nothing is offered for signature that spends an output already spent when
\* the request was made, or, if that is earlier, when the inventory it joined
\* was observed.  An output of an earlier entry is never asked about: that it
\* is unspent follows from the inputs of that entry.
UnspentAtRequest ==
    Approvable =>
        \A k \in DOMAIN batch :
            InputsOf(batch[k].tx) \cap SpentAt(IF rowsAt < requestedAt THEN rowsAt ELSE requestedAt) = {}

=============================================================================
