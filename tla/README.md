# Ducat Snap in TLA+

A formal model of the Ducat Bitcoin Snap, the MetaMask Snap in `src/` (the
implementation is `src/src/`, about 7,000 lines of TypeScript). The modules here
are translated from that code, TLC checks them on small instances, and TLAPS
proves the invariants that matter most for every value of the constants.

- `*.tla` without a prefix or suffix: the components.
- `MC*.tla` and `*.cfg`: instances for TLC.
- `*Proofs.tla`: theorems for TLAPS; `ReviewLemmas.tla`: lemmas two of them share.
- `PROJECT.json`: which definition models which lines of code, which run checks
  which property, which plausible bug each property detects (`mutants`), the
  hazards of the code, and the findings.

Run a check with `tlc -config SnapState_calls.cfg MCSnapState.tla`, a proof
with `tlapm SnapStateProofs.tla`.

## 1. The system

One installation of the Snap is one JavaScript realm. RPC requests of websites
(`onRpcRequest`) and events of the Home page (`onUserInput`, `onHomePage`) are
asynchronous functions that interleave at every `await`: a request to MetaMask
(state, entropy, dialog, notification), or a `fetch`. Between two awaits a
handler runs alone. That is the granularity of every model here: **one action is
what the code does from one await to the next.**

| Component | Source | State | Operations |
| --- | --- | --- | --- |
| Persisted state | `state.ts` | fields in MetaMask storage; `stateMutationQueue` | `getState` (with its migration write), `setSelectedNetwork`, `appendRecentAction`, `clearRecentActions`, `rememberDucatSession`, `updateStateField` |
| Key overrides | `key-overrides.ts` | a persisted field | import, remove, effective override |
| Wallet inventory | `wallet-inventory.ts` | `#cache`, `#inFlight` | `get`, `#refresh`, `invalidate` |
| RPC dispatch and signing flows | `rpc.ts` | none of its own | one per method |
| Network selection | `network-selection.ts` | none of its own | `assertRequestNetwork`, `requestNetworkSwitch` |
| Notifications | `notifications.ts` | none | pending, completed, failed |
| Home forms | `home-network.ts`, `home-key-override.ts`, `home-network-endpoints.ts` | screen context | switch, import, remove, save and clear endpoint |
| Endpoint identity | `network-endpoint-policy.ts`, `network-profiles.ts` | none | probe an endpoint, effective profile |
| PSBT preparation and signing | `psbt.ts` | none | parse, summarize, check policies, sign |
| Prevout verification | `psbt-verification.ts` | one context per request: `#inventory`, `#prevouts`, `#batchPrevouts` | `verify`, `rememberVerifiedOutputs` |
| Tapleaf recognition | `timeout-leaf.ts`, `cosign-leaf.ts` | none | match a leaf |
| Vault evidence | `vault-evidence.ts` | none | bind a vault output, read UNIT transfer edicts |
| Confirmation dialogs | `confirmations.ts`, `confirmation-vault.ts` | expansion of the address row | choose a view, compute its figures, ask |
| Home page | `home.ts`, `home-controls.ts` | the page displayed | render after an event or a form |
| Balances, display | `home-evm.ts`, `home-prices.ts`, `display.ts`, ... | none | fetch and draw |
| Accounts, message signing | `accounts.ts`, `bip32.ts`, `message.ts` | none | derive, sign |
| Artifact policy, networks | `artifact-policy.ts`, `networks.ts` | build constants | look up |

The handlers meet in four places:

1. the **persisted state**, read and written with one asynchronous request each;
2. the **inventory service**, one object shared by Home and every PSBT request;
3. the **user**, who may have several dialogs open, and answers in any order;
4. the **outside**: transactions confirm and endpoints answer when they like.

### What is hard

- *Overlap.* Read-modify-write of one field by two handlers; a migration write
  computed from an earlier read; a switch of network, or the import of a key,
  while another request is between its check and its effect.
- *Caching.* A single-flight refresh joined by readers that started at other
  times, invalidated while it runs, with an account or endpoint that changes.
- *Failure.* Every MetaMask request and every fetch may fail. A failed mutation
  must not block the queue; a failure after a signature must not leave a
  signature without its record.
- *Evidence.* What a website claims of the outputs it spends must not reach the
  dialog, or the signer, unless something else says the same. A batch may spend
  its own outputs, but only in order.
- *Reading.* A Home page is put together from four reads of the state, with
  calls of endpoints in between. A dialog is put together from what was decoded
  of several transactions, from prior ones, and from what the website says.

`hazards` in `PROJECT.json` lists these at their lines, each with the property
that would catch it.

### What makes each component correct

- *Persisted state*: mutations are atomic to their callers; a failure releases
  the queue; legacy stores migrate once; the selection changes only by a
  confirmed switch; the newest history entry is visible.
- *Inventory*: one refresh per identity; an answer belongs to the account and
  endpoints the reader resolved; nothing expired is served; rows fetched before
  a signature outlive it only in a refresh that overlapped it; reads return.
- *Requests*: nothing happens before the gates; what is signed is what the
  dialog showed; a rejection leaves nothing; the history is true.
- *Home*: a page not overtaken by a change shows one state.
- *Dialogs*: no value leaves the account unseen; UNIT amounts are those the
  Runestone allocates; vault numbers are decoded; a website receives all
  signatures of a request or none.
- *Evidence*: the fee shown is the fee paid; only own outputs are signed; a
  batch can confirm in its order; nothing spends an output known to be spent.

## 2. The modules

```
StoredFields        the stored values, sanitizers and field updates (pure)
 ├─ AtomicStore     abstract: what callers may assume of the state
 │   └─ SnapSession   RPC requests and Home forms over that abstract store
 │       └─ HomeView    Home pages rendered while those are in progress
 └─ SnapState       detailed: state.ts with its queue and asynchronous steps,
                    shown to implement AtomicStore
WalletInventory     the cache, the refreshes, and who invalidates them
PsbtBatch           claims, evidence and signatures of one request
TapLeaf             the leaves the Snap may sign (pure)
 └─ VaultReturn     the vault protocol in a transaction (pure)
     ├─ PsbtReview    the review of one PSBT: roles, policies, display, paths
     └─ VaultReview   summaries, UNIT edicts and the three dialogs (pure)
         └─ Confirmation  one request from its summaries to its answer
```

`SnapSession` is composed with the *abstract* store: it EXTENDS `AtomicStore`
and takes its steps (`Select`, `AppendAction`, `ImportKey`, ...) where the code
calls `state.ts`. `SnapState` is what makes that sound: its property
`ImplementsAtomicStore` instantiates `AtomicStore` under a refinement mapping
that reads the stored fields through the sanitizers of `getState`. The one call
whose abstraction is weaker than its code is the migration write, which can undo
a confirmed switch (finding `state_fresh`); `SnapSession` starts after migration.

### StoredFields, SnapState, AtomicStore (`state.ts`, `key-overrides.ts`, `home-network-endpoints.ts`)

A *handler* is one call of the API of `state.ts`. `pc` says where it is:
`queued` (its mutation waits in `stateMutationQueue`), `get` (its
`snap_getState` is out), `migrate` (`getState` writes the migrated selection),
`update` (the keyed `snap_setState` of its mutation is out), `put` (a write
outside the queue: a switch whose dialog is open, or a session), `origin` (second
write of `appendRecentAction`). `ReadState`, `MigrateSelection`, `WriteField`,
`WriteOrigin`, `SetSelectedNetwork` are the moments those requests take effect;
`Fail` is any of them failing, a rejected dialog, or an update that throws.
`view` is what the handler's `getState` returned: a write is computed from it
and not from what is stored when it lands. The promise chain is the sequence
`stateMutationQueue`, its head running (`Running`), released by success and
failure alike (`Release`).

Stored records carry `valid`, FALSE for one the schema would filter. The
sanitizers filter, sort newest first and cut off, as the code does. A network is
a known id (`Deployments`), one of a dropped deployment (`Removed`), or None.
Schema checks of individual characters, WIF decoding and URL parsing are that
one bit.

### WalletInventory (`wallet-inventory.ts`)

A *reader* is one call of `get`. It resolves account and profile in two reads,
then, without another await, serves the cache, joins `inFlight`, or starts
a refresh (`Decide`). A refresh verifies the endpoints, fetches both row sets
independently and settles or rejects; it stores its snapshot whatever was
invalidated meanwhile. The reader that started a refresh removes it from
`#inFlight`. Of the rows, the model keeps the moment they were fetched, as the
number of signatures made by then. `Quiet` is the microtask order of JavaScript:
continuations of a settled promise run before anything that waits for an answer
from outside. The rest of the Snap appears as the steps that change what a
reader resolves or that invalidate: key and endpoint forms (write, then
invalidate), signing (in one run with its invalidation), network switch.

### SnapSession (`rpc.ts`, `network-selection.ts`, `notifications.ts`, Home forms)

A *request* goes through the stages of its method, one action per run between
awaits: synchronous checks (`Receive`), the selected-network gate
(`CheckSelection`), the key set (`ResolveAccount`), prevout verification, session
record, pending notification, dialog, signature, history, origin, completed
notification. Network switches and the four Home forms take their own stages.
`Fail` is every check that may throw and every call that may fail at that stage;
`RejectDialog` is the user's refusal. History variables `gateSelection`,
`signatures`, `approved`, `rejected`, `notices` record what the properties
speak about. The signing of one request is a single step since the code has no
await between the answer of the dialog and the result.

### HomeView (`home.ts` and the handlers that redraw)

EXTENDS `SnapSession`; its steps are those of the requests, with the page
unchanged, and those of *renders*. A render is one call of
`renderHomeInterface`. It starts when Home is opened, at navigation, or when a
form has written (`asked` is the network the handler passes, which was often
read earlier), and then reads the selection and the endpoints, the account and
its balances, and the override, with waits for MetaMask and for endpoints in
between. The page has the contents of both screens, overview and settings.
`torn` records that what a page displays was changed after its first read.
What this does not promise: a torn page can label the account of an imported key
as derived; an older render can be drawn over a newer one; a Home switch that
fails after a website's switch draws an error page. A form submitted from such
a page is safe for another reason: it reads the selection again. Renders beyond
`Renders`, and redraws that follow no form, are left out.

### PsbtBatch (`psbt.ts`, `psbt-verification.ts`, `signPsbt`/`signBatch` of `rpc.ts`)

A transaction has inputs and outputs with a value and a script, and a request is
a batch of entries: a transaction, what the PSBT *claims* of each spent output
(`witnessUtxo`), and which inputs to sign under which address. `Prepare` is
`preparePsbtForSigning` and `assertUniqueBatchOutpoints`: it works on claims
only. `CreateContext`, `FetchTx`, `FetchSpend`, `VerifyEntry` gather evidence
(own inventory rows, outputs of earlier entries, Esplora) and compare. Around
the request transactions confirm (`Confirm`, including double spends) and the
active account changes (`ChangeAccount`). Since a transaction id commits to its
outputs, a source of evidence is the set of outpoints it speaks for; an Esplora
or validator that lies about a transaction is outside the model, as it is
outside what the code can detect.

`PsbtReview` looks at the same request from the other side: it takes the claims
as true and one entry, and asks what is signed, and how.

### TapLeaf, VaultReturn, PsbtReview (`timeout-leaf.ts`, `cosign-leaf.ts`, `vault-evidence.ts`, `psbt.ts`)

A *case* is an account, a network, a vault protocol and a PSBT. `Prepare` is
`preparePsbtForSigning`: role, claim, sighash type, leaf and timeout policy of
every input, then the decoded vault returns and the outputs that count as own.
`Verify` is the end of `verify`: vault outputs are bound to the protocol's
guardians, and prior vault states decoded. `Sign` is `signPreparedPsbt`, which
determines role and leaf again. `shown` is what the dialog says between the two.

Scripts are sequences of bytes in which the 32 bytes of a key or hash are one
element, a number above every byte: pushes, lengths and script numbers are as in
the code. A script of a PSBT (`IsScript`) has such an element only after a push
of its length, and is shorter than `Saturated`, 2^20 bytes, where longer numbers
are cut off: `MAX_PSBT_BASE64_LENGTH` (`psbt.ts:26`) is 350,000 characters.
A Taproot output is its internal key and the bag of its leaves, so a
leaf is committed to iff it is in the bag; a control block that fails for another
reason is `proves = FALSE`. (A tree with an odd number of leaves commits to its
last one twice; that two bags may so have one root is left out.) A payload is
its length, its first two bytes and the decoded fields. An `OP_RETURN` script
that is no vault return has the payload `None`.

### VaultReview, Confirmation (`confirmations.ts`, `confirmation-vault.ts`, `signPsbt`/`signBatch` of `rpc.ts`)

`VaultReview` has the functions: `summarizePsbt` with its warnings, what
`verify` adds (bound vaults, prior states, UNIT edicts of the Runestone in a
transaction), the choice of a batch that is shown as one vault action
(`vaultReview`), and the content of the three dialogs, as far as it carries
numbers: figures of the vault before and after, what the user pays, rows with
their value and label, entries warned of. `Confirmation` is one request from
there on: `Prepare`, `Verify`, `OpenDialog`, the address row (`Toggle`), the
answer, `SignEntry` one entry after the other, `Record` in the history, `Answer`
to the website. `Fail` may come at each of these stages: signatures already made
then stay in the Snap.

A Runestone is the list of its varints, or `<<>>` for one that cannot be read;
the limits on its size and on that of a varint are reasons to be unreadable.
What the code makes of it are the transfers of a summary
(`unitTransferEdicts`), of which the native view takes the positive ones. What
the chain makes of it is `AllocatedTo`, the Runes rule, which no step reads: an
edict takes its amount from what is left of the asset, or *all* of that when the
amount is zero or more, and what nobody is allocated goes to the first output
that holds no data. How much there is to allocate, the `units` of an input, is
likewise read by no step. UNIT figures are in 10^-8 UNIT: the code divides edicts
and the debt of a bound vault by the divisibility of the protocol, and a debt
in cents by 100 (`UnitOf`, `DebtOf`), and compares them to 10^-8 (`Near`). The
rounding of its floating-point quotients is left out.

The facts that `PsbtReview` and `PsbtBatch` establish of an input are
assumptions here (`RequestsAssumption`).

Four things the dialogs do not say, which the properties leave room for: the
collateral before an update counts one vault, so a transaction whose prior state
was decoded and which spends another vault too shows only the first; "External
outputs" of a native dialog are those of the vault's transaction alone; a
generic batch lists how many warnings an entry has, not which; and a UNIT amount
is the one positive edict to output 1, whatever else output 1 gets or is left
without. `UnitShownIsAllocated` is about transactions in which these are the same
(`RestIsApart`): the rest goes to another output, and no edict of amount zero is
for output 1 or comes before one that is.

### Bounds that replace something in the code

| Constant | Stands for |
| --- | --- |
| `MaxRecentActions` | `MAX_RECENT_ACTIONS` (12), 1 or 2 in the runs so that the bound bites |
| `Times` | values of `Date.now()`; not monotonic, since clocks are set back |
| `MaxTime`, `CacheTtl` | a bounded clock, and `CACHE_TTL_MS` in its ticks |
| `MaxSignatures` | bound on the signatures a run makes |
| `MaxHistory` | bound on the transactions that confirm during a request |
| `MaxDataRows` | the data outputs `confirmPsbt` lists (4), 1 in the run |
| `MaxBatchEntries`, `MaxPsbtInputs`, `MaxPsbtOutputs`, `MaxSignInputs` | the limits of the code, scaled |

## 3. The runs

| Run | Question | Bounds, and why they are enough |
| --- | --- | --- |
| `state_calls` | Do overlapping calls lose an update, behave as an atomic store, and settle? Do old and damaged stores survive? | Three calls: a lost update takes two, the third is a switch or a read in between. All operations on a store of this version (a full history of two, two keys of one network, an override that fails validation); reads and mutations on four legacy stores (old field name, dropped deployment, deployment no longer allowed, nothing usable) with records the schema rejects. Any call may fail. |
| `state_fresh` | Is a confirmed switch final? | **Violated**, see findings. |
| `inventory` | One refresh at a time; whose rows, how old, and do they come? | Two readers, two accounts, a signature, a clock of two ticks with a lifetime of one: one reader to start a refresh, one to join it or to find the cache. Endpoint profiles are part of the identity in the same way as accounts, so one is enough. |
| `inventory_stale` | Is a read after a signature new? | **Violated**, see findings. |
| `session_requests` | Are the gates, dialogs, rejections, history and pages right for any two requests at once? | Sixteen calls (every method, a rejected origin, a deployment the build does not allow, an unselected network, a mainnet and a test deployment), one render, and a history of one entry, so that one request evicts another. What two requests do to each other takes two; for any number there are the proofs. |
| `session_switchsign`, `session_switchform` | Does the selection a request was checked against still hold when it acts? | **Violated**, see findings. Two requests are the minimum; no render. |
| `batch_evidence` | Can a false claim, an order or a concurrent spend get past verification? | All 132 batches of one or two entries over six transactions: own, foreign and imported outputs, a chained spend, a conflict, an overspend; claims that are true, wrong in value, wrong in script, or missing. Three confirmations, two accounts. |
| `psbt_review` | Are leaves recognized exactly, and is what is signed what the dialog shows? | Nineteen thousand PSBTs in six families, each varying a few parts of one that can be signed: owner, tree and up to two leaves (7,000); claims, sighash types and internal keys (960); windows and sequences at their edges (240); almost canonical leaves, with every prefix of up to three of eight critical bytes and every envelope of up to three bytes of seven; payloads and output orders; spent vaults. |
| `confirm_review` | Do dialogs tell what a request does, and is the answer whole? | Single PSBTs and batches of two: transfers, data outputs and unknown scripts; each vault action with its UNIT transaction, edicts that share a block, repeat, go elsewhere, are of amount zero or ask for more than is held; an asset of one, two and eight decimals; prior states known, unknown and of several vaults; requests whose second entry cannot be signed. Two entries are what a native vault view needs, and what an order needs. |
| `confirm_amount` | Is the UNIT amount shown what the chain allocates? | **Violated**, see findings. The requests of `confirm_review`. |
| `confirm_batch` | Are vault numbers always decoded? | **Violated**, see findings. |

Deadlock is checked where the system goes on: `SnapState`, `SnapSession` and
`HomeView` have a `Finished` step, and the inventory never stops. In
`PsbtBatch`, `PsbtReview` and `Confirmation` the one request ends, so deadlock
is not checked there.

A symmetry set is used for requests, in runs without liveness properties. Where
there are some, the `MC` module keeps one initial state of each class of
equivalent ones instead: handlers are given their tasks in one order, readers and
accounts are named in one order. Behaviours from the other initial states are
the same up to names, which is sound for liveness as well.

Every property of a passing run has a mutant: a change of a definition that a
programmer could plausibly make (a dropped `finally`, a gate left out, an early
read, a reordered write), under which TLC finds the property violated.

### Fairness

Only two properties are liveness properties.

- `MutationsSettle` needs weak fairness of each handler's `Step`: MetaMask
  answers a request, with a result or an error. No call is obliged to be made,
  and success is never assumed, since `Fail` is part of `Step`.
- `ReadsReturn` needs that state requests are answered, that continuations run,
  and that a refresh in progress eventually settles or fails (`RefreshFails`
  covers the `AbortSignal` timeout given to *every* fetch, at
  `network-endpoint-policy.ts:67`, `wallet-inventory.ts:105` and
  `psbt-verification.ts:46`). No
  endpoint is obliged to answer.

### Findings

Six statements of the repository's documents and comments are not what the code
does. The first four are short interleavings, which the runs print.

1. `state_fresh` — a migration write can undo a confirmed switch. `getState`
   writes the migrated selection outside the queue, with the value of its own
   earlier read (`state.ts:256`).
2. `inventory_stale` — a read after a signature can return the rows from before
   it: invalidation leaves the refresh in flight alone, and the refresh caches its
   rows when it settles (`wallet-inventory.ts:312`). `StaleOnlyFromOverlap` is what does hold: only
   a refresh that overlapped the signature does this.
3. `session_switchsign` — the selection is compared once at the start of a
   signing request (`rpc.ts:612`); a switch confirmed while the dialog is open does not stop
   the signature. Of `src/README.md:58-61`, what the second sentence describes, a gate before
   derivation, endpoints, prompts and state, is there and holds (`GateBeforeEffects`); the
   first, that the method "must exactly match the selected deployment", is true
   at the gate and not established again. What is signed is what the dialog
   showed (`SignedAsShown`).
4. `session_switchform` — a form re-reads the selection, then probes the
   endpoint or awaits the write (`home-network-endpoints.ts:249`), and stores for its screen's network.
5. `confirm_amount` — the native view leaves out edicts of amount zero
   (`confirmations.ts:342`), which by the Runes rule take all that is left of the
   asset. `<<0, 2,3,0,2, 0,0,5,1>>`, an edict of asset 2:3 that gives output 2 all there is
   and one of 5 for output 1, is shown as a repayment of 5, and nothing is
   burned; `<<0, 2,3,5,1, 0,0,0,1>>` is shown as 5 as well, and everything is burned.
   `src/README.md:172-173` says that confirmations show the action amount.
   The property leaves out what holds without an edict too: where output 1 is
   the first output without data, it gets the rest.
6. `confirm_batch` — a batch none of whose entries decodes vault data shows the
   vault numbers of the request as they are, with their source, so a website's
   `op_return` is displayed as decoded (`confirmations.ts:926`), though the
   comment at lines 233-235 reserves that for decoded data.

Three more were met that no run checks. One is visible in `ApproveSwitch`: of two open switch dialogs, the one
approved second names a From network that is no longer selected
(`network-selection.ts:78`). Another in `VaultReturn`: the table of legacy flags
has output 2 for an opened vault (`psbt.ts:637`) and that of action codes output 1
(`psbt.ts:52`), though the comment at `psbt.ts:633-635` says the one mirrors the
other; `LegacyVaultOutputIndex` and `VaultOutputIndex` are those tables as they are. The third lies in rows, which are not modelled: duplicates among UNIT rows
are found by the text of the coin id (`wallet-inventory.ts:157`), whose pattern
admits zeros before the index, so `<txid>:1` and `<txid>:01` are taken as two
rows and their UNIT is counted twice. A validator that writes indices
canonically never causes it.

None of them makes the Snap sign other inputs than its dialog was opened for.

## 4. The proofs

All are machine-checked down to the last leaf, for any number of handlers,
readers, requests and renders, any stores, transactions and batches. The
assumptions are the named ASSUMEs of the modules, which TLC evaluates in the
runs.

**`StoredFieldsProofs`** has the lemmas about the operators: `Arranged` (the
filter and stable sort of the code, defined by counting rather than by
recursion) returns a sequence of members of its argument; sanitizers and updates
preserve their types, keep what is valid, and an added entry is read.

**`SnapStateProofs`**
- `TypeCorrect`: `Spec => []TypeOK`, by an invariant `TInv` that adds which views
  a stage may have.
- `MutationsSerialized`: `Spec => []NoLostUpdate`. `NoLostUpdate` is not
  inductive: that no other handler writes needs that a handler with a mutation
  in progress is the head of the queue and occurs in it once. `LostInv` adds it.
- `StateIsAtomicStore`: `Spec => ImplementsAtomicStore`, the refinement, one
  lemma per write. The write of a mutation is the abstract operation, because
  by `LostInv` what it was computed from is still what is stored; all other
  steps map to a stutter, since what sanitizers return does not depend on them.
- `AppendedIsVisible`: an appended action is in the history after its write,
  whatever the clock says.
- `SelectionStable`: `SelectionChangesOnlyBySelect` in every behaviour that starts
  with a stored and allowed selection (`SelectedInv`: then nothing migrates), and
  in every one without a switch, whatever was stored (`MigratingInv`: a migration
  writes what is reported already). `state_fresh` shows that a behaviour with
  both a migration and a switch need not have it.
- `MigratesOnce`: a call that has read leaves a stored selection behind, in every
  behaviour that starts with a stored state. (A first installation has nothing
  to migrate.)

**`WalletInventoryProofs`**
- `InventoryTypeCorrect`.
- `RefreshesAreSingleFlight` and `InFlightAwaited`, by `FlightInv`: every running
  refresh is the entry of its identity in `inFlight` (`RunningIsInFlight`), and a
  reader that has not started one has none (`BeforeRefresh`).
- `ReadsAnswerOwnIdentity`, by `IdentityInv`: a reader waits only for a refresh
  of its own identity (`WaitsForOwn`), and a snapshot carries the identity of
  its refresh (`SnapshotsOwn`).
- `ReadsNeverExpired`: what is served was in the cache, or came from a refresh,
  within its lifetime. `ReadsStaleOnlyFromOverlap`: rows older than the last
  signature were fetched by a refresh that had begun before it.

**`SessionProofs`**: about `SnapSession`, `SessionTyped`, `SessionSignsAsShown`,
`SessionGated`, `SessionRejects`, `SessionHistory` and `SessionSwitches`, from one
invariant `SessionInv`: types, facts of the store (`StoreInv`), and facts of *each*
request (`RequestInv`): what its stage implies (`StageOf`), that it passed its
gate before it did anything (`GatePassed`, `Untouched`), that dialog, approval
and signature agree (`Shows`, `Honest`, `Signed`), and that it left nothing
before it signed (`SignedLate`, `Silent`). The step that keeps it is proved once
for the request that takes it; the others are untouched (`Alike`), and what they
know of the shared store only grows in the ways lemmas list (`HistoryGrows`,
`RanksDiffer`, `ArrangedComplete`: entries have distinct ranks, so the sort of a
full history evicts the oldest and no other).

About `HomeView`, `PagesAreOneState`, by `ViewInv`: as long as nothing displayed
changes, what a render has read is current (`ReadsCurrent`). `HomeOnlyLooks`:
`HomeSpec => Spec`, so every theorem about `SnapSession` holds with Home open.

**`PsbtBatchProofs`**: five theorems from one inductive invariant,
- `BatchTypeCorrect`, `FeesAreTrue`, `SignaturesOnOwnOutputs`,
  `BatchesConfirmInOrder`, `InputsUnspent`.
- The invariant says of the batch what `Prepare` accepted (`WasAccepted`), of
  every source of evidence what it stands for (`EvidenceStands`: rows and found
  outputs are of confirmed transactions, and unspent when observed;
  `KnownIsEarlier`: batch outputs are of entries verified before), of every
  verified entry that claims equal outputs (`EntryVerified`), that confirmed
  transactions spend only what exists (`SpentWereOutputs`), and that signatures
  are the requested ones (`SignedAsRequested`). `InputsUnspent` holds by an
  argument the code never states: nobody is asked whether a batch output is
  spent. Had it been spent, the transaction that creates it would have been
  confirmed, and its own inputs, verified unspent one entry earlier, be spent.

**`ReviewLemmas`** has what the next two share.
- Induction over finite sets (`SubsetInduction`, `StrongSubsetInduction`), over
  intervals (`IntervalInduction`), and the largest counterexample (`Greatest`).
  The library's induction theorems take a predicate; these are stated for a
  *set* of subsets or numbers, and proved from `WFMin` by a smallest
  counterexample.
- Sums. A sum of the community modules is a fold, that is, a function chosen for
  its recursion over subsets. That the choice exists (`IterExists`) and is unique
  (`IterUnique`) gives `SumUnfold`; that the order does not matter is `SumRemove`;
  the rest (`SumUnion`, `SumSubset`, `SumNested`, ...) follows.
- `Ranked`: the elements picked by rank are those of the set, in order.
- `BoundIsOwn`: a decoded vault state that names an output names one of the
  account's vault address, and once bound, one whose tree has a leaf of the
  account's key with a guardian. It needs that a payload that counts guardians
  lists them (`Parsed`).

**`PsbtReviewProofs`**
- `ReviewTyped`.
- `ReviewSignsOwn` and `ReviewShowsSigned`, by `ReviewInv`: from `Prepare` on
  every input to be signed is one it accepted (`Accepted`) and is shown as it
  found it (`AsReviewed`); signing looks role and leaf up again, and finds the
  same. That the leaf found is one of those searched rests on `FirstIsMember`: a
  set of indexes has a first.
- `ReviewCountsOwn` and `ReviewComparesOwn`, by `OwnInv` and `BoundIsOwn`; a prior
  transaction has to be the one verified (`OutputsAssumption`).
- `ReviewLeavesAreCanonical`: the matchers accept the canonical scripts and no
  other, for scripts of any length. (`CanonicalIsTimeout` is proved of every window
  from 1 to 65535; the property has those at the ends of the encodings.)
  - *Timeout leaves.* A number has up to five bytes, so `LittleEndian` is unfolded
    that often (`LittleEndianIs`, `DelayOfOne` to `DelayOfFive`). Minimality then
    leaves one encoding for each window (`NumberPushIs`, `ShortIsBlockDelay`).
  - *Envelopes.* The loop of `isOrdEnvelope` is a recursive function from the end
    of the script. It is compared with `Inert`, that the rest of a script can be
    cut into pushes up to the last byte: the two agree one instruction further on
    (`InertGoesOn`, `InertBefore`, `InertSteps`), hence everywhere, since a
    largest position at which they differ would have a larger one (`ClosesIs`).
  - It needs `IsScript`, and of None that it is none of the matchers' results.
- `ReviewWaits`: what is signed by a timeout leaf is signed by the canonical script
  of its window and of the signing key, and OP_CSV succeeds. No script is both a
  timeout and a cosign leaf (`CosignIsNoTimeout`), so the window that was checked
  is that of the script signed for.

**`ConfirmationProofs`**
- `AnswersAreWhole`, by `AnswerInv`: entries are signed in their order
  (`SignedInOrder`), and each stage implies which signatures, records and answers
  there are (`StageInv`).
- The others by `ReviewInv`, which adds `DialogInv`: the dialog is the one built of
  the verified summaries of the request, and neither changes afterwards. So what
  a dialog says is a statement about the functions of `VaultReview`, for
  whatever request.
- `ConfirmationTyped`, and `FiguresOfAppYield`: a single PSBT, or a batch that
  decodes a vault state, shows figures of a decoded state.
- `LossIsShown`: fees and foreign outputs add up to no less than what the signed
  inputs lose to outputs not the account's (`OutflowOf` per entry, `LossOf` and
  `PaidOf` over the batch), and every output to somebody else has a row or a
  warning (`ListedOf`).
- `UnitIsAllocated`: the code reads the ids of edicts by adding each difference to
  the last id, and restarts the index when the block changes; the protocol's rule
  is two sums. They agree by induction over the edicts (`EdictIdIs`, from
  `BlocksRise` and `IndexStep`). What is left of the asset before an edict is a
  function of the edicts before it, which exists by induction as well
  (`AllocatedIs`, `AllLeftAtFirst`). Under `RestIsApart` the one positive edict to
  output 1 is then the first of all, since one before it would be of amount zero,
  and takes its amount or all there is (`AllocatedToOne`). That this is the amount
  shown (`AmountIs`) needs that converting base units keeps their order
  (`UnitOrder`, `UnitLesser`).
- `BeforeIsSpent`: the vault counted from is one of the inputs, and the only one
  where no prior state was decoded (`OnlyBefore`, `ReserveOf`).
- `RequestsAssumption` says what parsing yields and what `PsbtReview` and
  `PsbtBatch` establish: values and varints are natural numbers, data payloads
  are parsed, guardians are keys, and signed inputs are accepted.

### Only model-checked

The liveness properties, `MutationsSettle` and `ReadsReturn`, which are out of
reach of the provers. Everything else that a passing run checks is a theorem
above, `SelectionChangesOnlyBySelect` and `MigratedOnceRead` for the behaviours
named there, which include those of `state_calls`.

## 5. What is not modelled, and why

- Cryptography and encodings: BIP32 derivation, addresses, BIP322 and Schnorr
  signatures, the bytes of a Runestone. A key or script is a model value.
  `message.ts` has nothing else.
- Schema checks of characters and lengths, URL canonicalization, WIF parsing:
  the one bit `valid`, or a value the parser accepts. `created_at` of a stored key
  is an integer, though the schema admits any finite number.
- Inventory totals and row parsing: rows are the moment they were observed. The
  UNIT rows of the evidence.
- `ducat_getCapabilities` and `ducat_getNetwork`, which only read.
- That the entries of a batch are of one network holds by construction: a request
  has one network.
- Balances and prices of Home, its layout, drafts and expanded copies; display,
  component builders, types. They keep no state that anything else reads.
- Build and release scripts do not run in the Snap.
- Timing within a tick, and how long anything takes: every delay is arbitrary.

## 6. The plan

Done: the modules of section 2, their runs, and the proofs of section 4. What
would add most next:

1. Inventory rows: `parseBtcRows`, `parseUnitRows`, the totals by kind, and the
   UNIT rows a confirmation lists.
2. The reading of the protocol profile that vault evidence is bound to, with the
   cache and failure of its fetch.
3. Home renders that follow each other: which page is drawn last.

To prove: that what `RequestsAssumption` takes from `PsbtReview` and `PsbtBatch` is
theirs, by one definition of a PSBT for the three.
