-------------------------- MODULE ConfirmationProofs --------------------------
(***************************************************************************)
(* A website receives a whole request or nothing, and what the dialog says *)
(* is true of the transactions signed, for any PSBTs, batches and vault    *)
(* protocol: no value leaves the account unseen, what the app says of a    *)
(* vault yields to what the transactions say, the UNIT shown is the UNIT   *)
(* allocated, and the vault before is one that is spent.                   *)
(***************************************************************************)
EXTENDS Confirmation, ReviewLemmas

\* The inputs asked for of the first p entries.
Asked(p) == UNION {SignedInputs(k) : k \in 1 .. p}

\* Entries are signed one after the other, and only once approved.
SignedInOrder ==
    \E p \in 0 .. Len(entries) :
        /\ signatures = Asked(p)
        /\ p > 0 => approved
        /\ stage \in {"signed", "returned"} => p = Len(entries)

\* How far each part of a request has come at each stage.
StageInv ==
    /\ stage \in {"received", "prepared", "verified", "dialog", "rejected"} => ~approved
    /\ approved \in BOOLEAN
    /\ stage \in {"signing", "signed", "returned"} => approved
    /\ stage = "signing" => recorded = None
    /\ recorded # None => approved /\ signatures = Requested /\ recorded = RecordedAction
    /\ returned # {} => stage = "returned"
    /\ stage = "returned" => returned = signatures /\ recorded # None

AnswerInv ==
    /\ request \in Requests
    /\ SignedInOrder /\ StageInv

-----------------------------------------------------------------------------
\* Every entry has inputs to sign, and they are nobody else's.
LEMMA EntriesApart ==
    ASSUME request \in Requests
    PROVE  /\ Len(entries) \in Nat /\ DOMAIN entries = 1 .. Len(entries)
           /\ \A k \in DOMAIN entries : SignedInputs(k) # {}
           /\ \A j, k : j # k => SignedInputs(j) \cap SignedInputs(k) = {}
           /\ Asked(Len(entries)) = Requested /\ Asked(0) = {}
<1>1. /\ entries \in Seq(Range(entries))
      /\ \A k \in DOMAIN entries : \E i \in DOMAIN entries[k].inputs : entries[k].inputs[i].role # None
  BY RequestsAssumption DEF entries
<1>2. Len(entries) \in Nat /\ DOMAIN entries = 1 .. Len(entries)
  BY <1>1, LenProperties
<1>3. \A k \in DOMAIN entries : SignedInputs(k) # {}
  <2> SUFFICES ASSUME NEW k \in DOMAIN entries
               PROVE  SignedInputs(k) # {}
    OBVIOUS
  <2>1. PICK i \in DOMAIN entries[k].inputs : entries[k].inputs[i].role # None
    BY <1>1
  <2>2. <<k, i>> \in SignedInputs(k)
    BY <2>1 DEF SignedInputs, SignedOf
  <2> QED
    BY <2>2
<1>4. \A j, k : j # k => SignedInputs(j) \cap SignedInputs(k) = {}
  BY DEF SignedInputs
<1>5. Asked(Len(entries)) = Requested
  BY <1>2 DEF Asked, Requested
<1>6. Asked(0) = {}
  BY DEF Asked
<1> QED
  BY <1>2, <1>3, <1>4, <1>5, <1>6

\* Of a request signed up to entry p, exactly the first p are signed.
LEMMA SignedUpTo ==
    ASSUME request \in Requests, NEW p \in 0 .. Len(entries), signatures = Asked(p),
           NEW k \in DOMAIN entries
    PROVE  /\ EntrySigned(k) <=> k <= p
           /\ k > p => signatures \cap SignedInputs(k) = {}
<1>1. /\ Len(entries) \in Nat /\ DOMAIN entries = 1 .. Len(entries) /\ k \in Nat
      /\ SignedInputs(k) # {}
      /\ \A j : j # k => SignedInputs(j) \cap SignedInputs(k) = {}
  BY EntriesApart
<1>2. CASE k <= p
  <2>1. k \in 1 .. p
    BY <1>1, <1>2
  <2>2. SignedInputs(k) \subseteq Asked(p)
    BY <2>1 DEF Asked
  <2> QED
    BY <1>1, <1>2, <2>2 DEF EntrySigned
<1>3. CASE k > p
  <2>1. \A j \in 1 .. p : SignedInputs(j) \cap SignedInputs(k) = {}
    BY <1>1, <1>3
  <2>2. Asked(p) \cap SignedInputs(k) = {}
    BY <2>1 DEF Asked
  <2> QED
    BY <1>1, <1>3, <2>2 DEF EntrySigned
<1> QED
  BY <1>1, <1>2, <1>3

\* The request itself never changes.
LEMMA SameRequest ==
    ASSUME request' = request
    PROVE  /\ entries' = entries
           /\ \A k : SignedInputs(k)' = SignedInputs(k)
           /\ \A p : Asked(p)' = Asked(p)
           /\ Requested' = Requested
  BY DEF entries, SignedInputs, Asked, Requested

-----------------------------------------------------------------------------
LEMMA AnswerInit == Init => AnswerInv
<1> SUFFICES ASSUME Init
             PROVE  AnswerInv
  OBVIOUS
<1>1. SignedInOrder
  <2>1. request \in Requests /\ signatures = {} /\ stage = "received"
    BY DEF Init
  <2>2. 0 \in 0 .. Len(entries) /\ signatures = Asked(0)
    BY <2>1, EntriesApart
  <2> QED
    BY <2>1, <2>2 DEF SignedInOrder
<1> QED
  BY <1>1 DEF Init, AnswerInv, StageInv

\* Signing an entry, or refusing to, keeps AnswerInv.
LEMMA SignEntryKeeps ==
    ASSUME AnswerInv, SignEntry
    PROVE  AnswerInv'
<1>1. /\ request \in Requests /\ request' = request /\ stage = "signing"
      /\ recorded = None /\ recorded' = None /\ approved /\ approved' = approved
      /\ returned = {} /\ returned' = {}
  BY DEF AnswerInv, StageInv, SignEntry
<1>2. PICK k \in DOMAIN entries :
        /\ ~EntrySigned(k)
        /\ \A j \in 1 .. k - 1 : EntrySigned(j)
        /\ signatures' = signatures \cup SignedInputs(k)
        /\ stage' = IF k = Len(entries) THEN "signed" ELSE stage
  BY DEF SignEntry
<1>3. PICK p \in 0 .. Len(entries) : signatures = Asked(p)
  BY DEF AnswerInv, SignedInOrder
<1>4. Len(entries) \in Nat /\ DOMAIN entries = 1 .. Len(entries)
  BY <1>1, EntriesApart
<1>5. k = p + 1
  <2>1. k > p
    BY <1>1, <1>2, <1>3, <1>4, SignedUpTo
  <2>2. \A j \in 1 .. k - 1 : j \in DOMAIN entries /\ j <= p
    BY <1>1, <1>2, <1>3, <1>4, SignedUpTo
  <2> QED
    BY <1>2, <1>4, <2>1, <2>2
<1>6. signatures' = Asked(k)
  <2>1. 1 .. k = (1 .. p) \cup {k}
    BY <1>3, <1>4, <1>5
  <2> QED
    BY <1>2, <1>3, <2>1 DEF Asked
<1>7. SignedInOrder'
  <2>1. entries' = entries /\ Asked(k)' = Asked(k)
    BY <1>1, SameRequest
  <2>2. k \in 0 .. Len(entries)
    BY <1>2, <1>4
  <2>3. stage' \in {"signed", "returned"} => k = Len(entries)
    BY <1>1, <1>2
  <2>4. \E q \in 0 .. Len(entries) :
          /\ signatures' = Asked(q)'
          /\ q > 0 => approved'
          /\ stage' \in {"signed", "returned"} => q = Len(entries)
    <3> WITNESS k \in 0 .. Len(entries)
    <3> QED
      BY <1>1, <1>6, <2>1, <2>3
  <2> QED
    BY <2>1, <2>4 DEF SignedInOrder
<1>8. StageInv'
  BY <1>1, <1>2 DEF StageInv
<1> QED
  BY <1>1, <1>7, <1>8 DEF AnswerInv

\* Steps that sign nothing.
LEMMA OtherStepKeeps ==
    ASSUME AnswerInv, [Next]_vars, ~SignEntry
    PROVE  AnswerInv'
<1>1. /\ request \in Requests /\ request' = request /\ signatures' = signatures
  BY DEF AnswerInv, Next, vars, Prepare, Verify, OpenDialog, Toggle, Approve, Reject, Record,
     Answer, Fail
<1>2. PICK p \in 0 .. Len(entries) :
        /\ signatures = Asked(p)
        /\ p > 0 => approved
        /\ stage \in {"signed", "returned"} => p = Len(entries)
  BY DEF AnswerInv, SignedInOrder
<1>3. entries' = entries /\ Asked(p)' = Asked(p) /\ Requested' = Requested
  BY <1>1, SameRequest
<1>4. StageInv
  BY DEF AnswerInv
<1>5. /\ (approved => approved')
      /\ stage' \in {"signed", "returned"} => stage \in {"signed", "returned"}
  BY DEF Next, vars, Prepare, Verify, OpenDialog, Toggle, Approve, Reject, Record, Answer, Fail
<1>6. SignedInOrder'
  BY <1>1, <1>2, <1>3, <1>5 DEF SignedInOrder
<1>7. StageInv'
  <2>1. CASE Prepare \/ Verify
    <3>1. recorded' = None /\ approved' = approved /\ returned' = returned
      BY <1>4, <2>1 DEF StageInv, Prepare, Verify
    <3> QED
      BY <1>1, <1>3, <1>4, <2>1, <3>1 DEF StageInv, Prepare, Verify
  <2>2. CASE OpenDialog \/ Toggle \/ Reject \/ Fail
    <3>1. RecordedAction' = RecordedAction /\ approved' = approved /\ recorded' = recorded
      BY <2>2 DEF RecordedAction, OpenDialog, Toggle, Reject, Fail
    <3>2. returned' = returned /\ (returned # {} => stage' = stage)
      BY <1>4, <2>2 DEF StageInv, OpenDialog, Toggle, Reject, Fail
    <3>3. stage' \in {"dialog", "rejected"} => ~approved
      BY <1>4, <2>2 DEF StageInv, OpenDialog, Toggle, Reject, Fail
    <3>4. stage' = stage \/ stage' \in {"dialog", "rejected", "failed"}
      BY <2>2 DEF OpenDialog, Toggle, Reject, Fail
    <3> QED
      BY <1>1, <1>3, <1>4, <3>1, <3>2, <3>3, <3>4 DEF StageInv
  <2>3. CASE Approve
    <3>1. RecordedAction' = RecordedAction /\ recorded' = None /\ recorded = None
      BY <1>4, <2>3 DEF StageInv, RecordedAction, Approve
    <3> QED
      BY <1>1, <1>3, <1>4, <2>3, <3>1 DEF StageInv, Approve
  <2>4. CASE UNCHANGED vars
    <3>1. RecordedAction' = RecordedAction
      BY <2>4 DEF RecordedAction, vars
    <3> QED
      BY <1>1, <1>3, <1>4, <2>4, <3>1 DEF StageInv, vars
  <2>5. CASE Record
    <3>1. RecordedAction' = RecordedAction
      BY <2>5 DEF RecordedAction, Record
    <3>2. signatures = Requested
      BY <1>1, <1>2, <2>5, EntriesApart DEF Record
    <3> QED
      BY <1>1, <1>3, <1>4, <2>5, <3>1, <3>2 DEF StageInv, Record
  <2>6. CASE Answer
    <3>1. RecordedAction' = RecordedAction
      BY <2>6 DEF RecordedAction, Answer
    <3> QED
      BY <1>1, <1>3, <1>4, <2>6, <3>1 DEF StageInv, Answer
  <2> QED
    BY <2>1, <2>2, <2>3, <2>4, <2>5, <2>6 DEF Next
<1> QED
  BY <1>1, <1>6, <1>7 DEF AnswerInv

LEMMA AnswerNext == AnswerInv /\ [Next]_vars => AnswerInv'
  BY SignEntryKeeps, OtherStepKeeps

\* What a website receives is the whole request: every input asked for, of every
\* entry, approved, signed and on record; and nothing is signed or recorded of a
\* request that was not approved.
THEOREM AnswersAreWhole == Spec => []AllOrNothing
<1>1. AnswerInv => AllOrNothing
  <2> SUFFICES ASSUME AnswerInv
               PROVE  AllOrNothing
    OBVIOUS
  <2>1. request \in Requests /\ StageInv
    BY DEF AnswerInv
  <2>2. PICK p \in 0 .. Len(entries) :
        /\ signatures = Asked(p)
        /\ p > 0 => approved
    BY DEF AnswerInv, SignedInOrder
  <2>3. Len(entries) \in Nat /\ DOMAIN entries = 1 .. Len(entries) /\ Asked(0) = {}
    BY <2>1, EntriesApart
  <2>4. returned # {} => approved /\ returned = Requested /\ recorded = RecordedAction
    BY <2>1 DEF StageInv
  <2>5. ~approved => signatures = {} /\ recorded = None
    BY <2>1, <2>2, <2>3 DEF StageInv
  <2>6. recorded # None => signatures = Requested
    BY <2>1 DEF StageInv
  <2>7. ASSUME NEW j \in DOMAIN entries, NEW k \in DOMAIN entries, j < k,
               signatures \cap SignedInputs(k) # {}
        PROVE  EntrySigned(j)
    <3>1. k <= p
      BY <2>1, <2>2, <2>3, <2>7, SignedUpTo
    <3>2. j <= p
      BY <2>3, <2>7, <3>1
    <3> QED
      BY <2>1, <2>2, <3>2, SignedUpTo
  <2> QED
    BY <2>4, <2>5, <2>6, <2>7 DEF AllOrNothing
<1> QED
  BY <1>1, AnswerInit, AnswerNext, PTL DEF Spec

-----------------------------------------------------------------------------
(* The summaries and the dialog of a request.                              *)

Prepared == [k \in DOMAIN entries |-> summarizePsbt(entries[k], account)]
Verified ==
    [k \in DOMAIN entries |-> verify(entries[k], Prepared[k], account, protocol, request.asset)]
Shown ==
    LET k == vaultReview(Verified, protocol) IN
    IF k # None THEN nativeDialog(entries[k], k, Verified, protocol)
    ELSE IF request.batch THEN batchDialog(Verified, request.vault, protocol)
    ELSE psbtDialog(Verified[1], request.vault, protocol)

\* The dialog is the one built from the verified summaries, and neither changes
\* from then on: so what holds of a dialog is a fact about the request.
DialogInv ==
    /\ request \in Requests
    /\ stage \in Stages /\ expanded \in BOOLEAN
    /\ summaries \in {<<>>, Prepared, Verified}
    /\ stage = "received" => summaries = <<>>
    /\ stage = "prepared" => summaries = Prepared
    /\ stage \in {"verified", "dialog", "signing", "signed"} => summaries = Verified
    /\ stage \in {"received", "prepared", "verified"} => dialog = None /\ recorded = None
    /\ dialog # None => summaries = Verified /\ dialog = Shown
    /\ recorded # None => summaries = Verified

\* What the dialog says depends on the request alone.
LEMMA SameDialog ==
    ASSUME request' = request
    PROVE  /\ Prepared' = Prepared /\ Verified' = Verified /\ Shown' = Shown
  BY DEF Prepared, Verified, Shown, entries, account, protocol

LEMMA DialogInit == Init => DialogInv
  BY DEF Init, DialogInv, Stages

LEMMA DialogStep == AnswerInv /\ DialogInv /\ [Next]_vars => DialogInv'
<1> SUFFICES ASSUME AnswerInv, DialogInv, [Next]_vars
             PROVE  DialogInv'
  OBVIOUS
<1>1. request' = request /\ entries' = entries
  BY DEF Next, vars, entries, Prepare, Verify, OpenDialog, Toggle, Approve, Reject, SignEntry, Record,
     Answer, Fail
<1>2. Prepared' = Prepared /\ Verified' = Verified /\ Shown' = Shown
  BY <1>1, SameDialog
<1>3. CASE Prepare
  <2>1. summaries' = Prepared
    BY <1>3 DEF Prepare, Prepared
  <2> QED
    BY <1>1, <1>2, <1>3, <2>1 DEF DialogInv, Prepare, Stages
<1>4. CASE Verify
  <2>1. summaries' = Verified
    BY <1>4 DEF Verify, Verified, DialogInv
  <2> QED
    BY <1>1, <1>2, <1>4, <2>1 DEF DialogInv, Verify, Stages
<1>5. CASE OpenDialog
  <2>1. dialog' = Shown /\ summaries = Verified
    BY <1>5 DEF OpenDialog, Shown, DialogInv
  <2> QED
    BY <1>1, <1>2, <1>5, <2>1 DEF DialogInv, OpenDialog, Stages
<1>6. CASE Toggle \/ Approve \/ Reject \/ Answer \/ Fail
  BY <1>1, <1>2, <1>6 DEF DialogInv, Toggle, Approve, Reject, Answer, Fail, Stages
<1>7. CASE SignEntry
  <2>1. /\ stage = "signing" /\ stage' \in {"signing", "signed"}
        /\ summaries' = summaries /\ dialog' = dialog /\ recorded' = recorded /\ expanded' = expanded
    BY <1>7 DEF SignEntry
  <2> QED
    BY <1>1, <1>2, <2>1 DEF DialogInv, Stages
<1>8. CASE Record
  BY <1>1, <1>2, <1>8 DEF DialogInv, Record, Stages
<1>9. CASE UNCHANGED vars
  BY <1>1, <1>2, <1>9 DEF DialogInv, vars
<1> QED
  BY <1>3, <1>4, <1>5, <1>6, <1>7, <1>8, <1>9 DEF Next

ReviewInv == AnswerInv /\ DialogInv

LEMMA ReviewInit == Init => ReviewInv
  BY AnswerInit, DialogInit DEF ReviewInv

LEMMA ReviewStep == ReviewInv /\ [Next]_vars => ReviewInv'
  BY AnswerNext, DialogStep DEF ReviewInv

-----------------------------------------------------------------------------
(* What a summary has.                                                     *)

\* What RequestsAssumption says of an entry.
LEMMA EntryIs ==
    ASSUME request \in Requests, NEW k \in DOMAIN entries
    PROVE  /\ ParsedEntry(entries[k])
           /\ DOMAIN entries[k].inputs = 1 .. Len(entries[k].inputs)
           /\ DOMAIN entries[k].outputs = 1 .. Len(entries[k].outputs)
           /\ Len(entries[k].inputs) \in Nat /\ Len(entries[k].outputs) \in Nat
           /\ \A i \in DOMAIN entries[k].inputs : AcceptedInput(entries[k].inputs[i], account)
           /\ protocol # None =>
                /\ protocol.minimumSats \in Nat /\ protocol.divisibility \in 0 .. 8
                /\ \A g \in DOMAIN protocol.guardians : protocol.guardians[g] \in Keys
<1>1. /\ ParsedEntry(entries[k])
      /\ \A i \in DOMAIN entries[k].inputs : AcceptedInput(entries[k].inputs[i], account)
  BY RequestsAssumption DEF entries, account
<1>2. /\ entries[k].inputs \in Seq(Range(entries[k].inputs))
      /\ entries[k].outputs \in Seq({entries[k].outputs[n] : n \in DOMAIN entries[k].outputs})
  BY <1>1 DEF ParsedEntry, Parsed
<1>3. /\ DOMAIN entries[k].inputs = 1 .. Len(entries[k].inputs) /\ Len(entries[k].inputs) \in Nat
      /\ DOMAIN entries[k].outputs = 1 .. Len(entries[k].outputs) /\ Len(entries[k].outputs) \in Nat
  BY <1>2, LenProperties
<1>4. protocol # None =>
        /\ protocol.minimumSats \in Nat /\ protocol.divisibility \in 0 .. 8
        /\ \A g \in DOMAIN protocol.guardians : protocol.guardians[g] \in Keys
  BY RequestsAssumption DEF protocol
<1> QED
  BY <1>1, <1>3, <1>4

\* A function on 1 .. c is a sequence.
LEMMA FunctionIsSeq ==
    ASSUME NEW f, NEW c \in Nat, f = [i \in 1 .. c |-> f[i]]
    PROVE  f \in Seq({f[i] : i \in 1 .. c}) /\ Len(f) = c /\ (f = <<>> <=> c = 0)
<1> DEFINE T == {f[i] : i \in 1 .. c}
<1>1. f \in Seq(T)
  <2>1. f \in [1 .. c -> T]
    OBVIOUS
  <2> HIDE DEF T
  <2> QED
    BY <2>1, SeqDef
<1>2. Len(f) = c
  <2>1. DOMAIN f = 1 .. c
    OBVIOUS
  <2> HIDE DEF T
  <2> QED
    BY <1>1, <2>1, LenProperties
<1>3. f = <<>> <=> c = 0
  <2> HIDE DEF T
  <2> QED
    BY <1>1, <1>2, EmptySeq
<1> QED
  BY <1>1, <1>2, <1>3

\* Every element selected is one of those at the positions, and there are as
\* many as there are positions.
LEMMA SelectedIs ==
    ASSUME NEW s, NEW S \in SUBSET Int, IsFiniteSet(S)
    PROVE  /\ Cardinality(S) \in Nat
           /\ DOMAIN Selected(s, S) = 1 .. Cardinality(S) /\ Len(Selected(s, S)) = Cardinality(S)
           /\ \A k \in 1 .. Cardinality(S) : \E n \in S : Selected(s, S)[k] = s[n]
           /\ Selected(s, S) = <<>> <=> S = {}
<1>1. Cardinality(S) \in Nat /\ (Cardinality(S) = 0 <=> S = {})
  BY FS_CardinalityType, FS_EmptySet
<1>2. \A k \in 1 .. Cardinality(S) : \E n \in S : Selected(s, S)[k] = s[n]
  <2> SUFFICES ASSUME NEW k \in 1 .. Cardinality(S)
               PROVE  \E n \in S : Selected(s, S)[k] = s[n]
    OBVIOUS
  <2> DEFINE n == CHOOSE n \in S : Cardinality({m \in S : m <= n}) = k
  <2>1. n \in S
    BY Ranked
  <2>2. Selected(s, S)[k] = s[n]
    BY DEF Selected
  <2> QED
    BY <2>1, <2>2
<1> DEFINE sel == Selected(s, S)
<1>3. sel = [k \in 1 .. Cardinality(S) |-> sel[k]]
  BY DEF Selected
<1>4. DOMAIN sel = 1 .. Cardinality(S)
  BY DEF Selected
<1> HIDE DEF sel
<1>5. Len(sel) = Cardinality(S) /\ (sel = <<>> <=> S = {})
  BY <1>1, <1>3, FunctionIsSeq
<1> QED
  BY <1>1, <1>2, <1>4, <1>5 DEF sel

\* verify leaves what it does not name.
LEMMA VerifiedIs ==
    ASSUME NEW k \in DOMAIN entries
    PROVE  LET e == entries[k]
               s == Prepared[k]
               v == Verified[k]
               updates == [j \in DOMAIN s.updates |->
                              bindVaultOutput(s.updates[j], e.outputs, account, protocol)]
               vaults == {updates[j].vaultOutputIndex + 1 : j \in {j \in DOMAIN updates : updates[j].bound}}
           IN  /\ v.tx = e.tx /\ v.inputs = e.inputs /\ v.fee = s.fee
               /\ v.updates = updates
               /\ v.outputs = [n \in DOMAIN s.outputs |->
                       IF n \in vaults THEN [s.outputs[n] EXCEPT !.mine = TRUE, !.role = "vault"]
                       ELSE s.outputs[n]]
               /\ v.external = SumFunctionOnSet(Values(v.outputs), Foreign(v.outputs))
               /\ s.warnings \subseteq v.warnings
               /\ v.transfers = IF protocol = None THEN None
                                ELSE unitTransferEdicts(e.outputs, request.asset, protocol.divisibility)
<1> DEFINE e == entries[k]
           s == Prepared[k]
           v == Verified[k]
           updates == [j \in DOMAIN s.updates |->
                          bindVaultOutput(s.updates[j], e.outputs, account, protocol)]
           bound == {j \in DOMAIN updates : updates[j].bound}
           vaults == {updates[j].vaultOutputIndex + 1 : j \in bound}
           outputs == [n \in DOMAIN s.outputs |->
                       IF n \in vaults THEN [s.outputs[n] EXCEPT !.mine = TRUE, !.role = "vault"]
                       ELSE s.outputs[n]]
<1>1. s = summarizePsbt(e, account)
  BY DEF Prepared
<1>2. /\ DOMAIN s = {"tx", "inputs", "outputs", "fee", "external", "updates", "transfers", "before", "warnings"}
      /\ s.tx = e.tx /\ s.inputs = e.inputs
  BY <1>1 DEF summarizePsbt
<1>3. \E before, warnings :
        v = [s EXCEPT
                !.updates = updates, !.outputs = outputs,
                !.external = SumFunctionOnSet(Values(outputs), Foreign(outputs)),
                !.transfers = IF protocol = None THEN None
                              ELSE unitTransferEdicts(e.outputs, request.asset, protocol.divisibility),
                !.before = before,
                !.warnings = s.warnings \cup warnings]
  <2>1. v = verify(e, s, account, protocol, request.asset)
    BY DEF Verified
  <2> HIDE DEF v, s, e
  <2> QED
    BY <2>1 DEF verify
<1> HIDE DEF e, s, v, updates, outputs
<1>4. PICK before, warnings :
        v = [s EXCEPT
                !.updates = updates, !.outputs = outputs,
                !.external = SumFunctionOnSet(Values(outputs), Foreign(outputs)),
                !.transfers = IF protocol = None THEN None
                              ELSE unitTransferEdicts(e.outputs, request.asset, protocol.divisibility),
                !.before = before,
                !.warnings = s.warnings \cup warnings]
  BY <1>3
<1>5. /\ v.tx = e.tx /\ v.inputs = e.inputs /\ v.fee = s.fee /\ v.updates = updates
      /\ v.outputs = outputs /\ v.warnings = s.warnings \cup warnings
  BY <1>2, <1>4
<1>6. v.external = SumFunctionOnSet(Values(outputs), Foreign(outputs))
  BY <1>2, <1>4
<1>7. v.transfers = IF protocol = None THEN None
                    ELSE unitTransferEdicts(e.outputs, request.asset, protocol.divisibility)
  BY <1>2, <1>4
<1>8. /\ v.external = SumFunctionOnSet(Values(v.outputs), Foreign(v.outputs))
      /\ s.warnings \subseteq v.warnings
  BY <1>5, <1>6
<1> QED
  BY <1>5, <1>7, <1>8 DEF e, s, v, updates, outputs

\* The outputs, the vault states and the fee of a prepared entry.
LEMMA PreparedIs ==
    ASSUME NEW k \in DOMAIN entries
    PROVE  LET e == entries[k]
               s == Prepared[k]
               decoded == [n \in DOMAIN e.outputs |->
                              IF n - 1 \in ReturnIndexes(ViewOf(e), account)
                              THEN decodeReturn(ViewOf(e), n - 1, account) ELSE None]
           IN  /\ s.outputs = [n \in DOMAIN e.outputs |-> OutputRow(e, n, account)]
               /\ s.updates = Selected(decoded, {n \in DOMAIN e.outputs : decoded[n] # None})
               /\ s.fee = SumFunction(Values(e.inputs)) - SumFunction(Values(s.outputs))
               /\ s.warnings = buildWarnings(e, s.outputs)
<1> DEFINE e == entries[k]
           s == Prepared[k]
           rows == [n \in DOMAIN e.outputs |-> OutputRow(e, n, account)]
           decoded == [n \in DOMAIN e.outputs |->
                          IF n - 1 \in ReturnIndexes(ViewOf(e), account)
                          THEN decodeReturn(ViewOf(e), n - 1, account) ELSE None]
<1>1. s = summarizePsbt(e, account)
  BY DEF Prepared
<1>2. /\ s.outputs = rows
      /\ s.fee = SumFunction(Values(e.inputs)) - SumFunction(Values(rows))
      /\ s.warnings = buildWarnings(e, rows)
  BY <1>1 DEF summarizePsbt
<1>3. s.updates = Selected(decoded, {n \in DOMAIN e.outputs : decoded[n] # None})
  <2>1. \A n \in DOMAIN e.outputs : rows[n].vaultData <=> n - 1 \in ReturnIndexes(ViewOf(e), account)
    BY DEF OutputRow
  <2> DEFINE given == [n \in DOMAIN e.outputs |->
                          IF rows[n].vaultData THEN decodeReturn(ViewOf(e), n - 1, account) ELSE None]
  <2>2. given = decoded
    <3> HIDE DEF rows, e
    <3> QED
      BY <2>1
  <2>3. s.updates = Selected(given, {n \in DOMAIN given : given[n] # None})
    BY <1>1 DEF summarizePsbt
  <2>4. DOMAIN decoded = DOMAIN e.outputs
    OBVIOUS
  <2> HIDE DEF given, decoded, s, e
  <2> QED
    BY <2>2, <2>3, <2>4
<1> HIDE DEF s, e, rows, decoded
<1>4. /\ s.fee = SumFunction(Values(e.inputs)) - SumFunction(Values(s.outputs))
      /\ s.warnings = buildWarnings(e, s.outputs)
  BY <1>2
<1> QED
  BY <1>2, <1>3, <1>4 DEF s, e, rows, decoded

\* The vault states of a summary are decoded from outputs of the transaction.
LEMMA UpdatesOf ==
    ASSUME request \in Requests, NEW k \in DOMAIN entries
    PROVE  LET e == entries[k]
               updates == Prepared[k].updates
           IN  /\ Len(updates) \in Nat /\ DOMAIN updates = 1 .. Len(updates)
               /\ updates = <<>> <=> Len(updates) = 0
               /\ \A j \in DOMAIN updates :
                    /\ DecodedState(updates[j], e.outputs, account)
                    /\ updates[j].flag \in DOMAIN FlagByte
<1> DEFINE e == entries[k]
           updates == Prepared[k].updates
           decoded == [n \in DOMAIN e.outputs |->
                          IF n - 1 \in ReturnIndexes(ViewOf(e), account)
                          THEN decodeReturn(ViewOf(e), n - 1, account) ELSE None]
           S == {n \in DOMAIN e.outputs : decoded[n] # None}
<1>1. /\ DOMAIN e.outputs = 1 .. Len(e.outputs) /\ Len(e.outputs) \in Nat
      /\ Parsed(e.outputs) /\ DOMAIN e.inputs \subseteq Nat
  BY EntryIs DEF ParsedEntry
<1>2. S \in SUBSET Int /\ IsFiniteSet(S)
  <2>1. IsFiniteSet(DOMAIN e.outputs)
    BY <1>1, FS_Interval
  <2>2. S \subseteq DOMAIN e.outputs
    OBVIOUS
  <2> HIDE DEF S
  <2> QED
    BY <1>1, <2>1, <2>2, FS_Subset
<1>3. updates = Selected(decoded, S)
  BY PreparedIs
<1>4. \A n \in S : /\ n - 1 \in ReturnIndexes(ViewOf(e), account)
                   /\ decoded[n] = decodeReturn(ViewOf(e), n - 1, account)
  OBVIOUS
<1>5. ViewOf(e).outputs = e.outputs /\ DOMAIN ViewOf(e).sequences \subseteq Nat
  BY <1>1 DEF ViewOf
<1> HIDE DEF e, updates, decoded, S
<1>6. \A n \in S : DecodedState(decoded[n], e.outputs, account) /\ decoded[n].flag \in DOMAIN FlagByte
  <2> SUFFICES ASSUME NEW n \in S
               PROVE  DecodedState(decoded[n], e.outputs, account) /\ decoded[n].flag \in DOMAIN FlagByte
    OBVIOUS
  <2>1. DecodedState(decodeReturn(ViewOf(e), n - 1, account), e.outputs, account)
    BY <1>1, <1>4, <1>5, DecodeState
  <2>2. decodeReturn(ViewOf(e), n - 1, account) # None
    BY <1>4 DEF ReturnIndexes
  <2> QED
    BY <1>4, <1>5, <2>1, <2>2, DecodedFlag
<1>7. /\ Len(updates) \in Nat /\ DOMAIN updates = 1 .. Len(updates)
      /\ updates = <<>> <=> Len(updates) = 0
      /\ \A j \in DOMAIN updates : \E n \in S : updates[j] = decoded[n]
  BY <1>2, <1>3, SelectedIs, FS_CardinalityType, FS_EmptySet
<1>8. \A j \in DOMAIN updates :
        /\ DecodedState(updates[j], e.outputs, account)
        /\ updates[j].flag \in DOMAIN FlagByte
  BY <1>6, <1>7
<1> QED
  BY <1>7, <1>8 DEF e, updates

\* Verification replaces vault states, and neither adds nor drops any.
LEMMA VerifiedUpdates ==
    ASSUME request \in Requests, NEW k \in DOMAIN entries
    PROVE  LET updates == Verified[k].updates
           IN  /\ Len(updates) = Len(Prepared[k].updates) /\ Len(updates) \in Nat
               /\ DOMAIN updates = 1 .. Len(updates) /\ DOMAIN updates = DOMAIN Prepared[k].updates
               /\ updates = <<>> <=> Len(updates) = 0
               /\ \A j \in DOMAIN updates : updates[j].flag \in DOMAIN FlagByte /\ updates[j].balance \in Nat
<1> DEFINE s == Prepared[k]
           updates == Verified[k].updates
           c == Len(s.updates)
<1>1. /\ updates = [j \in DOMAIN s.updates |->
                       bindVaultOutput(s.updates[j], entries[k].outputs, account, protocol)]
  BY VerifiedIs
<1>2. /\ c \in Nat /\ DOMAIN s.updates = 1 .. c
      /\ \A j \in DOMAIN s.updates :
            /\ DecodedState(s.updates[j], entries[k].outputs, account)
            /\ s.updates[j].flag \in DOMAIN FlagByte
  BY UpdatesOf
<1> HIDE DEF s, updates, c
<1>3. updates = [j \in 1 .. c |-> updates[j]] /\ DOMAIN updates = 1 .. c
  BY <1>1, <1>2
<1>4. Len(updates) = c /\ (updates = <<>> <=> c = 0)
  BY <1>2, <1>3, FunctionIsSeq
<1>5. \A j \in DOMAIN updates : updates[j].flag \in DOMAIN FlagByte /\ updates[j].balance \in Nat
  <2> SUFFICES ASSUME NEW j \in 1 .. c
               PROVE  updates[j].flag \in DOMAIN FlagByte /\ updates[j].balance \in Nat
    BY <1>3
  <2>1. updates[j] = bindVaultOutput(s.updates[j], entries[k].outputs, account, protocol)
    BY <1>1, <1>2
  <2>2. s.updates[j].balance \in Nat
    BY <1>2 DEF DecodedState
  <2> QED
    BY <1>2, <2>1, <2>2, BindKeeps
<1> QED
  BY <1>2, <1>3, <1>4, <1>5 DEF updates, s, c

\* The entry whose vault state names the action.
LEMMA DecodedEntryIs ==
    ASSUME request \in Requests, DecodedEntry(Verified) # None
    PROVE  LET k == DecodedEntry(Verified)
           IN  k \in DOMAIN entries /\ Verified[k].updates # <<>> /\ 1 \in DOMAIN Verified[k].updates
<1> DEFINE decoded == {k \in DOMAIN Verified : Verified[k].updates # <<>>}
           k == CHOOSE k \in decoded : \A j \in decoded : k <= j
<1>1. decoded # {} /\ DecodedEntry(Verified) = k
  BY DEF DecodedEntry
<1>2. decoded \in SUBSET Nat
  BY EntriesApart DEF Verified
<1>3. k \in decoded
  <2> HIDE DEF decoded
  <2> QED
    BY <1>1, <1>2, Least
<1>4. k \in DOMAIN entries /\ Verified[k].updates # <<>>
  BY <1>3 DEF Verified
<1>5. 1 \in DOMAIN Verified[k].updates
  <2> HIDE DEF k
  <2> QED
    BY <1>4, VerifiedUpdates
<1> HIDE DEF k
<1> QED
  BY <1>1, <1>4, <1>5

-----------------------------------------------------------------------------
\* The three dialogs a request may have.
LEMMA ShownKind ==
    \/ Shown.kind = "vault" /\ Shown.figures = None
    \/ Shown.kind = "batch" /\ request.batch /\ Shown = batchDialog(Verified, request.vault, protocol)
    \/ Shown.kind = "psbt" /\ ~request.batch /\ Shown = psbtDialog(Verified[1], request.vault, protocol)
  BY DEF Shown, nativeDialog, batchDialog, psbtDialog, Dialog

\* At every stage a request has one of the summaries, dialogs and histories that
\* the code can give it, and only inputs asked for are signed or returned.
THEOREM ConfirmationTyped == Spec => []TypeOK
<1>1. ReviewInv => TypeOK
  <2> SUFFICES ASSUME ReviewInv
               PROVE  TypeOK
    OBVIOUS
  <2>1. AnswerInv /\ DialogInv /\ request \in Requests
    BY DEF ReviewInv, DialogInv
  <2>2. summaries # <<>> => DOMAIN summaries = DOMAIN entries
    BY <2>1 DEF DialogInv, Prepared, Verified
  <2>3. dialog # None => dialog.kind \in {"psbt", "batch", "vault"}
    BY <2>1, ShownKind DEF DialogInv
  <2>4. signatures \subseteq Requested /\ returned \subseteq Requested
    <3>1. PICK p \in 0 .. Len(entries) : signatures = Asked(p)
      BY <2>1 DEF AnswerInv, SignedInOrder
    <3>2. 1 .. p \subseteq DOMAIN entries
      BY <2>1, EntriesApart
    <3>3. signatures \subseteq Requested
      BY <3>1, <3>2 DEF Asked, Requested
    <3> QED
      BY <2>1, <3>3 DEF AnswerInv, StageInv
  <2>5. recorded \in {None, "app"} \cup DOMAIN FlagByte
    <3> SUFFICES ASSUME recorded # None
                 PROVE  recorded \in {"app"} \cup DOMAIN FlagByte
      OBVIOUS
    <3>1. recorded = RecordedAction /\ summaries = Verified
      BY <2>1 DEF AnswerInv, StageInv, DialogInv
    <3>2. CASE DecodedEntry(Verified) = None
      BY <3>1, <3>2 DEF RecordedAction
    <3>3. CASE DecodedEntry(Verified) # None
      <4> DEFINE k == DecodedEntry(Verified)
      <4>1. k \in DOMAIN entries /\ 1 \in DOMAIN Verified[k].updates
        BY <2>1, <3>3, DecodedEntryIs
      <4>2. Verified[k].updates[1].flag \in DOMAIN FlagByte
        <5> HIDE DEF k
        <5> QED
          BY <2>1, <4>1, VerifiedUpdates
      <4> QED
        BY <3>1, <3>3, <4>2 DEF RecordedAction
    <3> QED
      BY <3>2, <3>3
  <2> QED
    BY <2>1, <2>2, <2>3, <2>4, <2>5 DEF TypeOK, DialogInv, AnswerInv, StageInv
<1> QED
  BY <1>1, ReviewInit, ReviewStep, PTL DEF Spec

\* Vault figures that the app supplies are not shown for a single PSBT, nor where
\* a transaction of the batch carries a vault state itself.
THEOREM FiguresOfAppYield == Spec => []AppFiguresYield
<1>1. ReviewInv => AppFiguresYield
  <2> SUFFICES ASSUME ReviewInv, ~request.batch \/ (dialog # None /\ dialog.verified),
                      dialog # None, dialog.figures # None
               PROVE  \E k \in DOMAIN summaries : \E u \in DOMAIN summaries[k].updates :
                        LET data == summaries[k].updates[u] IN
                        /\ dialog.figures.collateral = Collateral(summaries[k], data)
                        /\ dialog.figures.debt = DebtOf(data, protocol)
    BY DEF AppFiguresYield, FiguresAreDecoded
  <2>1. request \in Requests /\ summaries = Verified /\ dialog = Shown
    BY DEF ReviewInv, DialogInv
  <2>2. ASSUME NEW k \in DOMAIN entries, Verified[k].updates # <<>>, NEW claim,
               dialog.figures = contextFromDecodedVault(Verified[k], claim, protocol)
        PROVE  \E u \in DOMAIN Verified[k].updates :
                 LET data == Verified[k].updates[u] IN
                 /\ dialog.figures.collateral = Collateral(Verified[k], data)
                 /\ dialog.figures.debt = DebtOf(data, protocol)
    <3>1. 1 \in DOMAIN Verified[k].updates
      BY <2>1, <2>2, VerifiedUpdates
    <3> DEFINE data == Verified[k].updates[1]
    <3>2. dialog.figures.collateral = Collateral(Verified[k], data) /\ dialog.figures.debt = DebtOf(data, protocol)
      BY <2>2 DEF contextFromDecodedVault
    <3> QED
      BY <3>1, <3>2
  <2>3. \E k \in DOMAIN entries : /\ Verified[k].updates # <<>>
                                  /\ dialog.figures = contextFromDecodedVault(Verified[k], request.vault, protocol)
    <3>1. CASE Shown = psbtDialog(Verified[1], request.vault, protocol)
      <4>1. dialog.figures = contextFromDecodedVault(Verified[1], request.vault, protocol)
        BY <2>1, <3>1 DEF psbtDialog, Dialog
      <4>2. Verified[1].updates # <<>>
        BY <4>1 DEF contextFromDecodedVault
      <4>3. 1 \in DOMAIN entries
        <5>1. entries # <<>> /\ entries \in Seq(Range(entries))
          BY <2>1, RequestsAssumption DEF entries
        <5> QED
          BY <5>1, EmptySeq, LenProperties
      <4> QED
        BY <4>1, <4>2, <4>3
    <3>2. CASE request.batch /\ Shown = batchDialog(Verified, request.vault, protocol)
      <4>1. dialog.verified = (DecodedEntry(Verified) # None)
        BY <2>1, <3>2 DEF batchDialog, Dialog
      <4>2. DecodedEntry(Verified) # None
        BY <3>2, <4>1
      <4> DEFINE k == DecodedEntry(Verified)
      <4>3. dialog.figures = contextFromDecodedVault(Verified[k], request.vault, protocol)
        BY <2>1, <3>2, <4>2 DEF batchDialog, Dialog
      <4> QED
        BY <2>1, <4>2, <4>3, DecodedEntryIs
    <3> QED
      BY <2>1, <3>1, <3>2, ShownKind
  <2>4. DOMAIN Verified = DOMAIN entries
    BY DEF Verified
  <2> QED
    BY <2>1, <2>2, <2>3, <2>4
<1> QED
  BY <1>1, ReviewInit, ReviewStep, PTL DEF Spec

-----------------------------------------------------------------------------
(* "You pay".                                                              *)

LEMMA OwnScriptIs == \A script : OwnScript(script) <=> OwnScriptOf(account, script)
  BY DEF OwnScript, OwnScriptOf

\* Of each output the dialog has its value; it counts as the user's own only an
\* own script, and nothing but its label changes while PSBTs are verified.
LEMMA OutputsOf ==
    ASSUME request \in Requests, NEW k \in DOMAIN entries
    PROVE  /\ DOMAIN Verified[k].outputs = DOMAIN entries[k].outputs
           /\ DOMAIN Prepared[k].outputs = DOMAIN entries[k].outputs
           /\ \A n \in DOMAIN entries[k].outputs :
                LET row == Verified[k].outputs[n]
                    script == entries[k].outputs[n].script
                IN  /\ row.value = entries[k].outputs[n].value
                    /\ Prepared[k].outputs[n].value = entries[k].outputs[n].value
                    /\ row.mine => OwnScript(script)
                    /\ row.mine \in BOOLEAN
                    /\ \/ row = OutputRow(entries[k], n, account)
                       \/ row.role = "vault" /\ OwnScript(script) /\ row.mine
<1> DEFINE e == entries[k]
           s == Prepared[k]
           v == Verified[k]
           updates == [j \in DOMAIN s.updates |->
                          bindVaultOutput(s.updates[j], e.outputs, account, protocol)]
           vaults == {updates[j].vaultOutputIndex + 1 : j \in {j \in DOMAIN updates : updates[j].bound}}
<1>1. s.outputs = [n \in DOMAIN e.outputs |-> OutputRow(e, n, account)]
  BY PreparedIs
<1>2. v.outputs = [n \in DOMAIN s.outputs |->
                       IF n \in vaults THEN [s.outputs[n] EXCEPT !.mine = TRUE, !.role = "vault"]
                       ELSE s.outputs[n]]
  BY VerifiedIs
<1>3. ASSUME NEW n \in vaults
      PROVE  OwnScript(e.outputs[n].script)
  <2>1. PICK j \in DOMAIN s.updates : updates[j].bound /\ n = updates[j].vaultOutputIndex + 1
    OBVIOUS
  <2>2. updates[j] = bindVaultOutput(s.updates[j], e.outputs, account, protocol)
    BY <2>1
  <2>3. DecodedState(s.updates[j], e.outputs, account)
    BY <2>1, UpdatesOf
  <2>4. Parsed(e.outputs) /\ (protocol # None =>
            \A g \in DOMAIN protocol.guardians : protocol.guardians[g] \in Keys)
    BY EntryIs DEF ParsedEntry
  <2> HIDE DEF e, s, updates
  <2>5. OwnScriptOf(account, OutputAt(e.outputs, updates[j].vaultOutputIndex).script)
    BY <2>1, <2>2, <2>3, <2>4, BoundIsOwn
  <2> QED
    BY <2>1, <2>5, OwnScriptIs DEF OutputAt
<1> HIDE DEF vaults
<1>4. ASSUME NEW n \in DOMAIN e.outputs
      PROVE  LET row == v.outputs[n] IN
             /\ row.value = e.outputs[n].value
             /\ s.outputs[n].value = e.outputs[n].value
             /\ row.mine => OwnScript(e.outputs[n].script)
             /\ row.mine \in BOOLEAN
             /\ \/ row = OutputRow(e, n, account)
                \/ row.role = "vault" /\ OwnScript(e.outputs[n].script) /\ row.mine
  <2> DEFINE first == OutputRow(e, n, account)
             row == v.outputs[n]
  <2>1. /\ first.value = e.outputs[n].value /\ first.mine \in BOOLEAN
        /\ first.mine => OwnScript(e.outputs[n].script)
        /\ DOMAIN first = {"value", "role", "mine", "vaultData"}
    <3>1. /\ first.value = e.outputs[n].value /\ first.mine \in BOOLEAN
          /\ first.mine = (OutputRole(account, e.outputs[n].script) \in Roles)
          /\ DOMAIN first = {"value", "role", "mine", "vaultData"}
      BY DEF OutputRow
    <3> HIDE DEF first, e
    <3> QED
      BY <3>1, RoleIsOwn, OwnScriptIs
  <2>2. s.outputs[n] = first
    BY <1>1
  <2>3. row = IF n \in vaults THEN [first EXCEPT !.mine = TRUE, !.role = "vault"] ELSE first
    BY <1>1, <1>2
  <2> HIDE DEF first, row
  <2>4. CASE n \in vaults
    <3>1. row.value = first.value /\ row.mine = TRUE /\ row.role = "vault"
      BY <2>1, <2>3, <2>4
    <3> QED
      BY <1>3, <2>1, <2>2, <2>4, <3>1 DEF row
  <2>5. CASE n \notin vaults
    <3>1. row = first
      BY <2>3, <2>5
    <3> HIDE DEF e, s, v
    <3>2. /\ v.outputs[n] = first /\ first = OutputRow(e, n, account)
      BY <3>1 DEF row, first
    <3> QED
      BY <2>1, <2>2, <3>2
  <2> QED
    BY <2>4, <2>5
<1> QED
  BY <1>1, <1>2, <1>4

InSum(k) == SumFunctionOnSet(Values(entries[k].inputs), DOMAIN entries[k].inputs)
SpentSum(k) == SumFunctionOnSet(Values(entries[k].inputs), SignedOf(entries[k].inputs))
Mine(k) == {n \in DOMAIN entries[k].outputs : Verified[k].outputs[n].mine}
MineSum(k) == SumFunctionOnSet(Values(entries[k].outputs), Mine(k))
Own(k) == {n \in DOMAIN entries[k].outputs : OwnScript(entries[k].outputs[n].script)}
OwnSum(k) == SumFunctionOnSet(Values(entries[k].outputs), Own(k))

\* The values of an entry are numbers, and its own outputs and those counted
\* as own are finitely many of its outputs.
LEMMA ValuesOf ==
    ASSUME request \in Requests, NEW k \in DOMAIN entries
    PROVE  /\ IsFiniteSet(DOMAIN entries[k].inputs) /\ IsFiniteSet(DOMAIN entries[k].outputs)
           /\ IsFiniteSet(SignedOf(entries[k].inputs)) /\ SignedOf(entries[k].inputs) \subseteq DOMAIN entries[k].inputs
           /\ IsFiniteSet(Mine(k)) /\ IsFiniteSet(Own(k))
           /\ Mine(k) \subseteq Own(k) /\ Own(k) \subseteq DOMAIN entries[k].outputs
           /\ \A i \in DOMAIN entries[k].inputs :
                /\ entries[k].inputs[i].value \in Nat
                /\ Values(entries[k].inputs)[i] = entries[k].inputs[i].value
           /\ \A n \in DOMAIN entries[k].outputs :
                /\ entries[k].outputs[n].value \in Nat
                /\ Values(entries[k].outputs)[n] = entries[k].outputs[n].value
           /\ Values(Verified[k].outputs) = Values(entries[k].outputs)
           /\ Values(Prepared[k].outputs) = Values(entries[k].outputs)
           /\ DOMAIN Values(entries[k].inputs) = DOMAIN entries[k].inputs
           /\ DOMAIN Values(entries[k].outputs) = DOMAIN entries[k].outputs
<1>1. IsFiniteSet(DOMAIN entries[k].inputs) /\ IsFiniteSet(DOMAIN entries[k].outputs)
  BY EntryIs, FS_Interval
<1>2. /\ SignedOf(entries[k].inputs) \subseteq DOMAIN entries[k].inputs
      /\ Mine(k) \subseteq Own(k) /\ Own(k) \subseteq DOMAIN entries[k].outputs
  BY OutputsOf DEF SignedOf, Mine, Own
<1>3. IsFiniteSet(SignedOf(entries[k].inputs)) /\ IsFiniteSet(Mine(k)) /\ IsFiniteSet(Own(k))
  BY <1>1, <1>2, FS_Subset
<1>4. /\ \A i \in DOMAIN entries[k].inputs : entries[k].inputs[i].value \in Nat
      /\ \A n \in DOMAIN entries[k].outputs : entries[k].outputs[n].value \in Nat
  BY EntryIs DEF ParsedEntry, ParsedInput
<1>5. /\ Values(Verified[k].outputs) = Values(entries[k].outputs)
      /\ Values(Prepared[k].outputs) = Values(entries[k].outputs)
  BY OutputsOf DEF Values
<1>6. /\ \A i \in DOMAIN entries[k].inputs : Values(entries[k].inputs)[i] = entries[k].inputs[i].value
      /\ \A n \in DOMAIN entries[k].outputs : Values(entries[k].outputs)[n] = entries[k].outputs[n].value
      /\ DOMAIN Values(entries[k].inputs) = DOMAIN entries[k].inputs
      /\ DOMAIN Values(entries[k].outputs) = DOMAIN entries[k].outputs
  BY DEF Values
<1> QED
  BY <1>1, <1>2, <1>3, <1>4, <1>5, <1>6

\* The fee and what goes to others are what the inputs hold and the outputs
\* counted as own do not get back.
LEMMA OutflowOf ==
    ASSUME request \in Requests, NEW k \in DOMAIN entries
    PROVE  /\ Verified[k].fee \in Int /\ Verified[k].external \in Int
           /\ InSum(k) \in Int /\ MineSum(k) \in Int /\ SpentSum(k) \in Int /\ OwnSum(k) \in Int
           /\ Verified[k].fee + Verified[k].external = InSum(k) - MineSum(k)
           /\ SpentSum(k) <= InSum(k) /\ MineSum(k) <= OwnSum(k)
<1> DEFINE ins == Values(entries[k].inputs)
           outs == Values(entries[k].outputs)
           D == DOMAIN entries[k].outputs
           I == DOMAIN entries[k].inputs
           S == SignedOf(entries[k].inputs)
           F == D \ Mine(k)
<1>1. /\ IsFiniteSet(I) /\ IsFiniteSet(D) /\ IsFiniteSet(S) /\ S \in SUBSET I
      /\ IsFiniteSet(Mine(k)) /\ IsFiniteSet(Own(k)) /\ Mine(k) \in SUBSET Own(k) /\ Own(k) \in SUBSET D
      /\ \A i \in I : ins[i] \in Nat
      /\ \A n \in D : outs[n] \in Nat
      /\ DOMAIN ins = I /\ DOMAIN outs = D
  BY ValuesOf
<1>2. Verified[k].fee = SumFunctionOnSet(ins, I) - SumFunctionOnSet(outs, D)
  <2>1. /\ Verified[k].fee = Prepared[k].fee
        /\ Prepared[k].fee = SumFunction(ins) - SumFunction(Values(Prepared[k].outputs))
    BY VerifiedIs, PreparedIs
  <2>2. Values(Prepared[k].outputs) = outs
    BY ValuesOf
  <2> QED
    BY <1>1, <2>1, <2>2 DEF SumFunction
<1>3. Verified[k].external = SumFunctionOnSet(outs, F)
  <2>1. Verified[k].external = SumFunctionOnSet(Values(Verified[k].outputs), Foreign(Verified[k].outputs))
    BY VerifiedIs
  <2>2. Values(Verified[k].outputs) = outs
    BY ValuesOf
  <2>3. Foreign(Verified[k].outputs) = F
    BY OutputsOf DEF Foreign, Mine
  <2> QED
    BY <2>1, <2>2, <2>3
<1> HIDE DEF ins, outs, D, I, S
<1>4. IsFiniteSet(F) /\ Mine(k) \cup F = D /\ Mine(k) \cap F = {}
  BY <1>1, FS_Subset
<1>5. SumFunctionOnSet(outs, D) = SumFunctionOnSet(outs, Mine(k)) + SumFunctionOnSet(outs, F)
  <2>1. \A n \in Mine(k) \cup F : outs[n] \in Int
    BY <1>1, <1>4
  <2> HIDE DEF F
  <2>2. SumFunctionOnSet(outs, Mine(k) \cup F) = SumFunctionOnSet(outs, Mine(k)) + SumFunctionOnSet(outs, F)
    BY <1>1, <1>4, <2>1, SumUnion
  <2> QED
    BY <1>4, <2>2
<1>6. /\ SumFunctionOnSet(ins, I) \in Int /\ SumFunctionOnSet(ins, S) \in Int
      /\ SumFunctionOnSet(outs, D) \in Int /\ SumFunctionOnSet(outs, F) \in Int
      /\ SumFunctionOnSet(outs, Mine(k)) \in Int /\ SumFunctionOnSet(outs, Own(k)) \in Int
  <2>1. /\ \A i \in S : ins[i] \in Int
        /\ \A n \in F : outs[n] \in Int
        /\ \A n \in Own(k) : outs[n] \in Int
        /\ \A n \in Mine(k) : outs[n] \in Int
    BY <1>1
  <2> HIDE DEF F
  <2> QED
    BY <1>1, <1>4, <2>1, SumType
<1>7. SumFunctionOnSet(ins, S) <= SumFunctionOnSet(ins, I)
  BY <1>1, SumSubset
<1>8. SumFunctionOnSet(outs, Mine(k)) <= SumFunctionOnSet(outs, Own(k))
  <2>1. \A n \in Own(k) : outs[n] \in Int /\ outs[n] >= 0
    BY <1>1
  <2> QED
    BY <1>1, <2>1, SumSubset
<1>9. /\ InSum(k) = SumFunctionOnSet(ins, I) /\ SpentSum(k) = SumFunctionOnSet(ins, S)
      /\ MineSum(k) = SumFunctionOnSet(outs, Mine(k)) /\ OwnSum(k) = SumFunctionOnSet(outs, Own(k))
  BY DEF InSum, SpentSum, MineSum, OwnSum, ins, outs, I, S
<1> HIDE DEF F
<1> QED
  BY <1>2, <1>3, <1>5, <1>6, <1>7, <1>8, <1>9

\* What the account loses by a request, summed up entry by entry.
LEMMA LossOf ==
    ASSUME request \in Requests
    PROVE  LET K == DOMAIN entries
           IN  Loss = SumFunctionOnSet([k \in K |-> SpentSum(k)], K) - SumFunctionOnSet([k \in K |-> OwnSum(k)], K)
<1> DEFINE K == DOMAIN entries
           spent == Requested
           kept == {x \in UNION {{k} \X DOMAIN entries[k].outputs : k \in K} :
                       OwnScript(entries[x[1]].outputs[x[2]].script)}
           f == [x \in spent |-> entries[x[1]].inputs[x[2]].value]
           g == [x \in kept |-> entries[x[1]].outputs[x[2]].value]
           X == [k \in K |-> SignedOf(entries[k].inputs)]
           Y == [k \in K |-> Own(k)]
           fs == [k \in K |-> Values(entries[k].inputs)]
           gs == [k \in K |-> Values(entries[k].outputs)]
           h == [k \in K |-> SpentSum(k)]
           j == [k \in K |-> OwnSum(k)]
<1>1. IsFiniteSet(K)
  BY EntriesApart, FS_Interval
<1>2. SumFunctionOnSet(f, PairsIn(K, X)) = SumFunctionOnSet(h, K)
  <2>1. ASSUME NEW k \in K
        PROVE  /\ IsFiniteSet(X[k])
               /\ \A i \in X[k] : f[<<k, i>>] \in Int /\ fs[k][i] = f[<<k, i>>]
               /\ h[k] = SumFunctionOnSet(fs[k], X[k])
    <3>1. IsFiniteSet(X[k]) /\ h[k] = SumFunctionOnSet(fs[k], X[k])
      BY <2>1, ValuesOf DEF SpentSum
    <3>2. ASSUME NEW i \in X[k]
          PROVE  f[<<k, i>>] \in Int /\ fs[k][i] = f[<<k, i>>]
      <4>1. <<k, i>> \in spent
        BY <3>2 DEF Requested, SignedInputs
      <4>2. f[<<k, i>>] = entries[k].inputs[i].value
        BY <4>1
      <4>3. i \in DOMAIN entries[k].inputs
        BY <3>2 DEF SignedOf
      <4> QED
        BY <2>1, <4>2, <4>3, ValuesOf
    <3> QED
      BY <3>1, <3>2
  <2> HIDE DEF K, X, f, fs, h
  <2>2. /\ \A k \in K : IsFiniteSet(X[k])
        /\ \A k \in K : \A i \in X[k] : f[<<k, i>>] \in Int
        /\ \A k \in K : \A i \in X[k] : fs[k][i] = f[<<k, i>>]
        /\ \A k \in K : h[k] = SumFunctionOnSet(fs[k], X[k])
    BY <2>1
  <2> QED
    BY <1>1, <2>2, SumPairs
<1>3. SumFunctionOnSet(g, PairsIn(K, Y)) = SumFunctionOnSet(j, K)
  <2>1. ASSUME NEW k \in K
        PROVE  /\ IsFiniteSet(Y[k])
               /\ \A n \in Y[k] : g[<<k, n>>] \in Int /\ gs[k][n] = g[<<k, n>>]
               /\ j[k] = SumFunctionOnSet(gs[k], Y[k])
    <3>1. IsFiniteSet(Y[k]) /\ j[k] = SumFunctionOnSet(gs[k], Y[k])
      BY <2>1, ValuesOf DEF OwnSum
    <3>2. ASSUME NEW n \in Y[k]
          PROVE  g[<<k, n>>] \in Int /\ gs[k][n] = g[<<k, n>>]
      <4>1. <<k, n>> \in kept
        BY <3>2 DEF Own
      <4>2. g[<<k, n>>] = entries[k].outputs[n].value
        BY <4>1
      <4>3. n \in DOMAIN entries[k].outputs
        BY <3>2 DEF Own
      <4> QED
        BY <2>1, <4>2, <4>3, ValuesOf
    <3> QED
      BY <3>1, <3>2
  <2> HIDE DEF K, Y, g, gs, j
  <2>2. /\ \A k \in K : IsFiniteSet(Y[k])
        /\ \A k \in K : \A n \in Y[k] : g[<<k, n>>] \in Int
        /\ \A k \in K : \A n \in Y[k] : gs[k][n] = g[<<k, n>>]
        /\ \A k \in K : j[k] = SumFunctionOnSet(gs[k], Y[k])
    BY <2>1
  <2> QED
    BY <1>1, <2>2, SumPairs
<1>4. spent = PairsIn(K, X)
  BY DEF Requested, SignedInputs, PairsIn, PairsOf
<1>5. kept = PairsIn(K, Y)
  BY DEF Own, PairsIn, PairsOf
<1>6. Loss = SumFunction(f) - SumFunction(g)
  BY DEF Loss
<1>7. DOMAIN f = spent /\ DOMAIN g = kept
  OBVIOUS
<1> HIDE DEF f, g, h, j, spent, kept, X, Y, K
<1>8. Loss = SumFunctionOnSet(h, K) - SumFunctionOnSet(j, K)
  BY <1>2, <1>3, <1>4, <1>5, <1>6, <1>7 DEF SumFunction
<1> QED
  BY <1>8 DEF h, j, K

\* What a dialog says is paid: no less than what is lost.
LEMMA PaidOf ==
    ASSUME request \in Requests, Shown.pay # None
    PROVE  Shown.pay >= Loss
<1> DEFINE K == DOMAIN entries
           spent == [k \in K |-> SpentSum(k)]
           own == [k \in K |-> OwnSum(k)]
           lost == [k \in K |-> SpentSum(k) - OwnSum(k)]
           fees == [k \in K |-> Verified[k].fee]
           others == [k \in K |-> Verified[k].external]
           paid == [k \in K |-> Verified[k].external + Verified[k].fee]
<1>1. IsFiniteSet(K) /\ DOMAIN Verified = K
  BY EntriesApart, FS_Interval DEF Verified
<1>2. \A k \in K : /\ spent[k] \in Int /\ own[k] \in Int /\ lost[k] \in Int /\ spent[k] = lost[k] + own[k]
                   /\ others[k] \in Int /\ fees[k] \in Int /\ paid[k] = others[k] + fees[k]
                   /\ paid[k] \in Int /\ lost[k] <= paid[k]
  <2> SUFFICES ASSUME NEW k \in K
               PROVE  /\ SpentSum(k) \in Int /\ OwnSum(k) \in Int
                      /\ Verified[k].fee \in Int /\ Verified[k].external \in Int
                      /\ SpentSum(k) - OwnSum(k) <= Verified[k].external + Verified[k].fee
    OBVIOUS
  <2> QED
    BY OutflowOf
<1>3. Loss = SumFunctionOnSet(spent, K) - SumFunctionOnSet(own, K)
  BY LossOf
<1>4. Shown.pay = SumFunctionOnSet(paid, K)
  <2>1. CASE request.batch /\ Shown = batchDialog(Verified, request.vault, protocol)
    <3>1. Shown.pay = ExternalTotal(Verified) + FeeTotal(Verified)
      BY <2>1 DEF batchDialog, Dialog
    <3>2. ExternalTotal(Verified) = SumFunctionOnSet(others, K) /\ FeeTotal(Verified) = SumFunctionOnSet(fees, K)
      BY <1>1 DEF ExternalTotal, FeeTotal, SumFunction
    <3> HIDE DEF K, others, fees, paid
    <3>3. SumFunctionOnSet(paid, K) = SumFunctionOnSet(others, K) + SumFunctionOnSet(fees, K)
      BY <1>1, <1>2, SumPlus
    <3> QED
      BY <3>1, <3>2, <3>3
  <2>2. CASE ~request.batch /\ Shown = psbtDialog(Verified[1], request.vault, protocol)
    <3>1. Len(entries) = 1
      BY <2>2, RequestsAssumption DEF entries
    <3>2. K = {1}
      BY <3>1, EntriesApart
    <3>3. Shown.pay = Verified[1].external + Verified[1].fee
      BY <2>2 DEF psbtDialog, Dialog
    <3>4. paid[1] = Verified[1].external + Verified[1].fee /\ paid[1] \in Int
      BY <1>2, <3>2
    <3> HIDE DEF K, paid
    <3> QED
      BY <3>2, <3>3, <3>4, SumSingle
  <2>3. CASE Shown.kind = "vault"
    <3>1. Shown.kind = "vault" => Shown.pay = None
      BY DEF Shown, nativeDialog, batchDialog, psbtDialog, Dialog
    <3> QED
      BY <2>3, <3>1
  <2> QED
    BY <2>1, <2>2, <2>3, ShownKind
<1> HIDE DEF K, spent, own, lost, others, fees, paid
<1>5. SumFunctionOnSet(spent, K) = SumFunctionOnSet(lost, K) + SumFunctionOnSet(own, K)
  BY <1>1, <1>2, SumPlus
<1>6. SumFunctionOnSet(lost, K) <= SumFunctionOnSet(paid, K)
  BY <1>1, <1>2, SumAtMost
<1>7. /\ SumFunctionOnSet(lost, K) \in Int /\ SumFunctionOnSet(own, K) \in Int
      /\ SumFunctionOnSet(paid, K) \in Int
  BY <1>1, <1>2, SumType
<1> QED
  BY <1>3, <1>4, <1>5, <1>6, <1>7

-----------------------------------------------------------------------------
(* What a dialog lists.                                                    *)

\* The row of an output, where the dialog lists it.
LEMMA RowsOf ==
    ASSUME NEW ss, NEW listed, NEW k \in DOMAIN ss, NEW n \in listed[k]
    PROVE  /\ <<k, n>> \in DOMAIN OutputRows(ss, listed)
           /\ OutputRows(ss, listed)[<<k, n>>] =
                [value |-> ss[k].outputs[n].value, label |-> RowLabel(ss[k].outputs[n])]
<1> DEFINE X == UNION {{j} \X listed[j] : j \in DOMAIN ss}
           row(x) == LET r == ss[x[1]].outputs[x[2]] IN [value |-> r.value, label |-> RowLabel(r)]
<1>1. <<k, n>> \in X
  OBVIOUS
<1>2. OutputRows(ss, listed) = [x \in X |-> row(x)]
  BY DEF OutputRows
<1> HIDE DEF X
<1>3. <<k, n>> \in DOMAIN OutputRows(ss, listed) /\ OutputRows(ss, listed)[<<k, n>>] = row(<<k, n>>)
  BY <1>1, <1>2
<1> QED
  BY <1>3

\* The rows and the warnings of the dialog that is shown: those of a function of
\* the summaries, each entry's taken from a set that has every output that is
\* neither data nor the user's own.
LEMMA ShownRows ==
    ASSUME request \in Requests
    PROVE  /\ \A k \in DOMAIN entries : Verified[k].warnings # {} => k \in Shown.warned
           /\ \E listed : /\ \A k \in DOMAIN entries :
                                Foreign(Verified[k].outputs) \ DataOutputs(Verified[k].outputs) \subseteq listed[k]
                          /\ \A k \in DOMAIN entries : \A n \in listed[k] :
                                /\ <<k, n>> \in DOMAIN Shown.rows
                                /\ Shown.rows[<<k, n>>] =
                                    [value |-> Verified[k].outputs[n].value,
                                     label |-> RowLabel(Verified[k].outputs[n])]
<1> DEFINE all == [k \in DOMAIN Verified |-> DOMAIN Verified[k].outputs]
           foreign == [k \in DOMAIN Verified |-> ListedOfBatch(Verified[k])]
           single == <<Verified[1]>>
           one == <<ListedOfPsbt(Verified[1])>>
           Good(listed) ==
               /\ \A k \in DOMAIN entries :
                     Foreign(Verified[k].outputs) \ DataOutputs(Verified[k].outputs) \subseteq listed[k]
               /\ \A k \in DOMAIN entries : \A n \in listed[k] :
                     /\ <<k, n>> \in DOMAIN Shown.rows
                     /\ Shown.rows[<<k, n>>] =
                         [value |-> Verified[k].outputs[n].value,
                          label |-> RowLabel(Verified[k].outputs[n])]
<1>1. DOMAIN Verified = DOMAIN entries
  BY DEF Verified
<1>2. ASSUME NEW listed, DOMAIN listed = DOMAIN entries,
             Shown.rows = OutputRows(Verified, listed), Shown.warned = Warned(Verified),
             \A k \in DOMAIN entries :
                Foreign(Verified[k].outputs) \ DataOutputs(Verified[k].outputs) \subseteq listed[k]
      PROVE  /\ \A k \in DOMAIN entries : Verified[k].warnings # {} => k \in Shown.warned
             /\ Good(listed)
  <2>1. \A k \in DOMAIN entries : Verified[k].warnings # {} => k \in Shown.warned
    BY <1>1, <1>2 DEF Warned
  <2> HIDE DEF all, foreign
  <2>2. \A k \in DOMAIN entries : \A n \in listed[k] :
          /\ <<k, n>> \in DOMAIN Shown.rows
          /\ Shown.rows[<<k, n>>] = [value |-> Verified[k].outputs[n].value,
                                     label |-> RowLabel(Verified[k].outputs[n])]
    <3> SUFFICES ASSUME NEW k \in DOMAIN entries, NEW n \in listed[k]
                 PROVE  /\ <<k, n>> \in DOMAIN Shown.rows
                        /\ Shown.rows[<<k, n>>] = [value |-> Verified[k].outputs[n].value,
                                                   label |-> RowLabel(Verified[k].outputs[n])]
      OBVIOUS
    <3> DEFINE ss == Verified
    <3>0. k \in DOMAIN ss /\ n \in listed[k]
      BY <1>1
    <3> HIDE DEF ss
    <3>1. /\ <<k, n>> \in DOMAIN OutputRows(ss, listed)
          /\ OutputRows(ss, listed)[<<k, n>>] =
                [value |-> ss[k].outputs[n].value, label |-> RowLabel(ss[k].outputs[n])]
      BY <3>0, RowsOf
    <3> USE DEF ss
    <3> QED
      BY <1>2, <3>1
  <2> QED
    BY <1>2, <2>1, <2>2
<1>3. CASE vaultReview(Verified, protocol) # None
  <2>1. Shown.rows = OutputRows(Verified, all) /\ Shown.warned = Warned(Verified)
    BY <1>3 DEF Shown, nativeDialog, Dialog
  <2>2. DOMAIN all = DOMAIN entries /\ \A k \in DOMAIN entries :
           Foreign(Verified[k].outputs) \ DataOutputs(Verified[k].outputs) \subseteq all[k]
    BY <1>1 DEF Foreign
  <2> HIDE DEF all, Good
  <2>3. /\ \A k \in DOMAIN entries : Verified[k].warnings # {} => k \in Shown.warned
        /\ Good(all)
    BY <1>2, <2>1, <2>2
  <2> QED
    BY <2>3 DEF Good
<1>4. CASE vaultReview(Verified, protocol) = None /\ request.batch
  <2>1. Shown.rows = OutputRows(Verified, foreign) /\ Shown.warned = Warned(Verified)
    BY <1>4 DEF Shown, batchDialog, Dialog
  <2>2. DOMAIN foreign = DOMAIN entries /\ \A k \in DOMAIN entries :
           Foreign(Verified[k].outputs) \ DataOutputs(Verified[k].outputs) \subseteq foreign[k]
    BY <1>1 DEF ListedOfBatch
  <2> HIDE DEF foreign, Good
  <2>3. /\ \A k \in DOMAIN entries : Verified[k].warnings # {} => k \in Shown.warned
        /\ Good(foreign)
    BY <1>2, <2>1, <2>2
  <2> QED
    BY <2>3 DEF Good
<1>5. CASE vaultReview(Verified, protocol) = None /\ ~request.batch
  <2>1. DOMAIN entries = {1}
    <3>1. Len(entries) = 1
      BY <1>5, RequestsAssumption DEF entries
    <3> QED
      BY <3>1, EntriesApart
  <2>2. Shown.rows = OutputRows(single, one) /\ Shown.warned = Warned(single)
    BY <1>5 DEF Shown, psbtDialog, Dialog
  <2>3. single[1] = Verified[1] /\ DOMAIN single = {1} /\ one[1] = ListedOfPsbt(Verified[1])
    OBVIOUS
  <2>4. Foreign(Verified[1].outputs) \ DataOutputs(Verified[1].outputs) \subseteq one[1]
    BY <2>3 DEF ListedOfPsbt, Foreign
  <2>5. \A n \in one[1] :
          /\ <<1, n>> \in DOMAIN Shown.rows
          /\ Shown.rows[<<1, n>>] = [value |-> Verified[1].outputs[n].value,
                                     label |-> RowLabel(Verified[1].outputs[n])]
    <3> SUFFICES ASSUME NEW n \in one[1]
                 PROVE  /\ <<1, n>> \in DOMAIN Shown.rows
                        /\ Shown.rows[<<1, n>>] = [value |-> Verified[1].outputs[n].value,
                                                   label |-> RowLabel(Verified[1].outputs[n])]
      OBVIOUS
    <3> HIDE DEF single, one
    <3>1. /\ <<1, n>> \in DOMAIN OutputRows(single, one)
          /\ OutputRows(single, one)[<<1, n>>] =
                [value |-> single[1].outputs[n].value, label |-> RowLabel(single[1].outputs[n])]
      BY <2>3, RowsOf
    <3> QED
      BY <2>2, <2>3, <3>1
  <2>6. Verified[1].warnings # {} => 1 \in Shown.warned
    <3> HIDE DEF single
    <3> QED
      BY <2>2, <2>3 DEF Warned
  <2> HIDE DEF one
  <2> QED
    BY <2>1, <2>4, <2>5, <2>6
<1> QED
  BY <1>3, <1>4, <1>5

\* An output that pays somebody else is listed with its value, not as the user's
\* own, or, if it is data, warned of.
LEMMA ListedOf ==
    ASSUME request \in Requests, NEW k \in DOMAIN entries, NEW n \in DOMAIN entries[k].outputs,
           ~OwnScript(entries[k].outputs[n].script), entries[k].outputs[n].value > 0
    PROVE  \/ IsReturn(entries[k].outputs[n].script) /\ k \in Shown.warned
           \/ /\ <<k, n>> \in DOMAIN Shown.rows
              /\ Shown.rows[<<k, n>>].value = entries[k].outputs[n].value
              /\ Shown.rows[<<k, n>>].label # "own"
<1> DEFINE e == entries[k]
           row == Verified[k].outputs[n]
           first == Prepared[k].outputs[n]
<1>1. /\ row.value = e.outputs[n].value /\ row.mine = FALSE
      /\ row = OutputRow(e, n, account)
      /\ DOMAIN Verified[k].outputs = DOMAIN e.outputs
  BY OutputsOf
<1>2. row.role = OutputRole(account, e.outputs[n].script)
  BY <1>1 DEF OutputRow
<1>3. CASE IsReturn(e.outputs[n].script)
  <2>1. first = OutputRow(e, n, account) /\ n \in DOMAIN Prepared[k].outputs
    BY PreparedIs
  <2>2. first.role = "op_return" /\ first.value > 0
    BY <1>1, <1>2, <1>3, <2>1 DEF OutputRole
  <2>3. "valued data" \in buildWarnings(e, Prepared[k].outputs)
    <3> HIDE DEF e
    <3> QED
      BY <2>1, <2>2 DEF buildWarnings
  <2>4. Prepared[k].warnings = buildWarnings(e, Prepared[k].outputs)
    BY PreparedIs
  <2>5. Prepared[k].warnings \subseteq Verified[k].warnings
    BY VerifiedIs
  <2> QED
    BY <1>3, <2>3, <2>4, <2>5, ShownRows
<1>4. CASE ~IsReturn(e.outputs[n].script)
  <2>1. row.role # "op_return"
    BY <1>2, <1>4 DEF OutputRole
  <2>2. n \in Foreign(Verified[k].outputs) \ DataOutputs(Verified[k].outputs)
    BY <1>1, <2>1 DEF Foreign, DataOutputs
  <2>3. PICK listed :
          /\ Foreign(Verified[k].outputs) \ DataOutputs(Verified[k].outputs) \subseteq listed[k]
          /\ \A m \in listed[k] :
                /\ <<k, m>> \in DOMAIN Shown.rows
                /\ Shown.rows[<<k, m>>] = [value |-> Verified[k].outputs[m].value,
                                           label |-> RowLabel(Verified[k].outputs[m])]
    BY ShownRows
  <2>4. <<k, n>> \in DOMAIN Shown.rows /\ Shown.rows[<<k, n>>] = [value |-> row.value, label |-> RowLabel(row)]
    BY <2>2, <2>3
  <2>5. RowLabel(row) # "own"
    BY <1>1 DEF RowLabel
  <2> HIDE DEF row
  <2> QED
    BY <1>1, <2>4, <2>5 DEF row
<1> QED
  BY <1>3, <1>4

\* Nothing leaves the account unseen: what a dialog says is paid is no less than
\* what the signed inputs hold and own outputs do not get back, and it lists or
\* warns of every output that pays somebody else.
THEOREM LossIsShown == Spec => []NothingLeavesUnseen
<1>1. ReviewInv => NothingLeavesUnseen
  <2> SUFFICES ASSUME ReviewInv, dialog # None
               PROVE  /\ dialog.pay # None => dialog.pay >= Loss
                      /\ \A k \in DOMAIN entries : \A n \in DOMAIN entries[k].outputs :
                           LET output == entries[k].outputs[n] IN
                           ~OwnScript(output.script) /\ output.value > 0 =>
                             \/ IsReturn(output.script) /\ k \in dialog.warned
                             \/ /\ <<k, n>> \in DOMAIN dialog.rows
                                /\ dialog.rows[<<k, n>>].value = output.value
                                /\ dialog.rows[<<k, n>>].label # "own"
    BY DEF NothingLeavesUnseen
  <2>1. request \in Requests /\ dialog = Shown
    BY DEF ReviewInv, DialogInv
  <2>2. dialog.pay # None => dialog.pay >= Loss
    BY <2>1, PaidOf
  <2> QED
    BY <2>1, <2>2, ListedOf
<1> QED
  BY <1>1, ReviewInit, ReviewStep, PTL DEF Spec

-----------------------------------------------------------------------------
(* The vault before.                                                       *)

\* A set with one element has the one that CHOOSE takes.
LEMMA OnlyMember ==
    ASSUME NEW S, IsFiniteSet(S), Cardinality(S) = 1
    PROVE  S = {CHOOSE x \in S : TRUE}
<1>1. PICK y : S = {y}
  BY FS_Singleton
<1> QED
  BY <1>1

\* Amounts in 10^-8 UNIT are numbers, in the order of the amounts they convert.
LEMMA UnitOrder ==
    ASSUME NEW d \in 0 .. 8, NEW a \in Nat, NEW b \in Nat
    PROVE  /\ UnitOf(a, d) \in Nat
           /\ UnitOf(a, d) = 0 <=> a = 0
           /\ UnitOf(a, d) <= UnitOf(b, d) <=> a <= b
<1>1. /\ d \in {0, 1, 2} => Scale[d + 1] \in {100000000, 10000000, 1000000}
      /\ d \in {3, 4, 5} => Scale[d + 1] \in {100000, 10000, 1000}
      /\ d \in {6, 7, 8} => Scale[d + 1] \in {100, 10, 1}
  BY DEF Scale
<1>2. Scale[d + 1] \in {100000000, 10000000, 1000000, 100000, 10000, 1000, 100, 10, 1}
  BY <1>1
<1> DEFINE scale == Scale[d + 1]
<1>3. UnitOf(a, d) = a * scale /\ UnitOf(b, d) = b * scale
  BY DEF UnitOf
<1> HIDE DEF scale
<1>4. /\ a * scale \in Nat
      /\ a * scale = 0 <=> a = 0
      /\ a * scale <= b * scale <=> a <= b
  BY <1>2 DEF scale
<1> QED
  BY <1>3, <1>4

LEMMA UnitLesser ==
    ASSUME NEW d \in 0 .. 8, NEW a \in Nat, NEW b \in Nat
    PROVE  UnitOf(Lesser(a, b), d) = Lesser(UnitOf(a, d), UnitOf(b, d))
  BY UnitOrder DEF Lesser

\* The debt of a state whose protocol is the request's.
LEMMA DebtIsNat ==
    ASSUME request \in Requests, NEW state, state.balance \in Nat, state.bound => protocol # None
    PROVE  DebtOf(state, protocol) \in Nat
<1> DEFINE d == IF state.bound THEN protocol.divisibility ELSE 2
<1>1. protocol # None => protocol.divisibility \in 0 .. 8
  BY RequestsAssumption DEF protocol
<1>2. d \in 0 .. 8
  BY <1>1
<1>3. DebtOf(state, protocol) = UnitOf(state.balance, d)
  BY DEF DebtOf
<1> HIDE DEF d
<1> QED
  BY <1>2, <1>3, UnitOrder

\* Only with a vault protocol is a state bound to an output.
LEMMA BoundHasProtocol ==
    ASSUME NEW outputs, NEW acct, NEW proto, NEW data, DecodedState(data, outputs, acct),
           bindVaultOutput(data, outputs, acct, proto).bound
    PROVE  proto # None
  BY DEF bindVaultOutput, DecodedState, Binds, Bindable

\* The transaction that is shown natively is the last one of the request, with one
\* vault state and the collateral of one own output; all but a deposit or a
\* withdrawal have a transaction before it.
LEMMA ReviewedIs ==
    ASSUME request \in Requests, vaultReview(Verified, protocol) # None
    PROVE  LET k == vaultReview(Verified, protocol)
               action == Verified[k].updates[1].flag
           IN  /\ k = Len(entries) /\ k \in DOMAIN entries
               /\ ShowsOneVault(Verified[k])
               /\ action \notin {"deposit", "withdraw"} =>
                    Len(entries) = 2 /\ IsPackage(Verified[1], Verified[2], protocol)
<1> DEFINE candidates == {k \in DOMAIN Verified : Verified[k].updates # <<>>}
           k == CHOOSE k \in candidates : TRUE
           action == Verified[k].updates[1].flag
<1>1. /\ Len(entries) \in Nat /\ DOMAIN entries = 1 .. Len(entries) /\ DOMAIN Verified = DOMAIN entries
  BY EntriesApart DEF Verified
<1>2. Len(Verified) = Len(entries)
  <2> DEFINE ss == Verified
             c == Len(entries)
  <2>1. c \in Nat /\ ss = [j \in 1 .. c |-> ss[j]]
    BY <1>1 DEF Verified
  <2> HIDE DEF ss, c
  <2>2. Len(ss) = c
    BY <2>1, FunctionIsSeq
  <2> QED
    BY <2>2 DEF ss, c
<1>3. /\ Cardinality(candidates) = 1
      /\ ShowsOneVault(Verified[k])
      /\ vaultReview(Verified, protocol) = k
      /\ action \in {"deposit", "withdraw"} => Len(Verified) = 1
      /\ action \notin {"deposit", "withdraw"} =>
            Len(Verified) = 2 /\ k = 2 /\ IsPackage(Verified[1], Verified[2], protocol)
  BY DEF vaultReview
<1>4. k \in candidates
  <2>1. IsFiniteSet(DOMAIN Verified) /\ candidates \subseteq DOMAIN Verified
    BY <1>1, FS_Interval
  <2>2. IsFiniteSet(candidates)
    BY <2>1, FS_Subset
  <2> HIDE DEF candidates
  <2> QED
    BY <1>3, <2>2, OnlyMember
<1>5. k \in DOMAIN entries
  BY <1>1, <1>4
<1> HIDE DEF k
<1>6. k = Len(entries)
  BY <1>1, <1>2, <1>3, <1>5
<1> QED
  BY <1>2, <1>3, <1>5, <1>6

\* What an own vault input is: one that the account's script or a leaf of its
\* vault key locks.
LEMMA VaultInputIsOwn ==
    ASSUME request \in Requests, NEW k \in DOMAIN entries, NEW i \in DOMAIN entries[k].inputs,
           entries[k].inputs[i].role = "vault",
           \/ entries[k].inputs[i].script = OutputScriptForRole(account, "vault")
           \/ entries[k].inputs[i].kind = "cosign"
    PROVE  OwnScript(entries[k].inputs[i].script)
<1> DEFINE input == entries[k].inputs[i]
<1>1. AcceptedInput(input, account)
  BY EntryIs
<1>2. CASE input.script = OutputScriptForRole(account, "vault")
  BY <1>2 DEF OwnScript, Roles
<1>3. CASE input.kind = "cosign"
  <2>1. /\ IsTaproot(input.script)
        /\ \E g \in Keys : BagIn(CosignHead(account.vault, g), input.script.leaves)
    BY <1>1, <1>3 DEF AcceptedInput
  <2> QED
    BY <2>1 DEF OwnScript
<1> QED
  BY <1>2, <1>3

\* The state that created a spent vault output.
LEMMA PriorIs ==
    ASSUME NEW input, ParsedInput(input), NEW acct, NEW proto,
           PriorState(input, acct, proto) # None
    PROVE  LET state == PriorState(input, acct, proto)
           IN  /\ input.prior # None
               /\ state = previousVaultState(input.prior, input.outpoint.vout, acct, proto)
               /\ state.balance \in Nat
               /\ state.bound => proto # None
<1> DEFINE tx == input.prior
           state == PriorState(input, acct, proto)
           returns == ReturnIndexes(tx, acct)
           n == CHOOSE n \in returns : TRUE
           data == decodeReturn(tx, n, acct)
<1>1. tx # None /\ state = previousVaultState(tx, input.outpoint.vout, acct, proto)
  BY DEF PriorState
<1>2. Parsed(tx.outputs)
  BY <1>1 DEF ParsedInput
<1>3. state = bindVaultOutput(data, tx.outputs, acct, proto) /\ \E m \in returns : returns = {m}
  BY <1>1 DEF previousVaultState
<1>4. n \in returns
  <2> HIDE DEF returns
  <2> QED
    BY <1>3
<1>5. DecodedState(data, tx.outputs, acct)
  BY <1>2, <1>4, DecodeState
<1> HIDE DEF tx, state, data
<1>6. state.balance \in Nat /\ (state.bound => proto # None)
  <2> DEFINE outs == tx.outputs
  <2>1. state = bindVaultOutput(data, outs, acct, proto) /\ DecodedState(data, outs, acct)
    BY <1>3, <1>5
  <2>2. data.balance \in Nat
    BY <2>1 DEF DecodedState
  <2> HIDE DEF outs
  <2>3. state.balance = data.balance
    BY <2>1, BindKeeps
  <2>4. state.bound => proto # None
    BY <2>1, BoundHasProtocol
  <2> QED
    BY <2>2, <2>3, <2>4
<1> QED
  BY <1>1, <1>6 DEF state, tx

\* The vault before that verify notes is of one own vault input.
LEMMA BeforeIs ==
    ASSUME request \in Requests, NEW k \in DOMAIN entries, Verified[k].before # None
    PROVE  \E i \in DOMAIN entries[k].inputs :
              LET input == entries[k].inputs[i]
                  state == PriorState(input, account, protocol)
              IN  /\ OwnedVaultInput(input, account) /\ state # None
                  /\ Verified[k].before = Before(input, i, state, protocol)
<1> DEFINE e == entries[k]
           s == Prepared[k]
           v == Verified[k]
           State(i) == PriorState(s.inputs[i], account, protocol)
           priors == {i \in DOMAIN s.inputs : OwnedVaultInput(s.inputs[i], account) /\ State(i) # None}
           i == CHOOSE i \in priors : TRUE
<1>1. DOMAIN s = {"tx", "inputs", "outputs", "fee", "external", "updates", "transfers", "before", "warnings"}
      /\ s.inputs = e.inputs
  <2>1. s = summarizePsbt(e, account)
    BY DEF Prepared
  <2> QED
    BY <2>1 DEF summarizePsbt
<1>2. /\ Cardinality(priors) = 1
      /\ v.before = Before(s.inputs[i], i, State(i), protocol)
  <2>1. v = verify(e, s, account, protocol, request.asset)
    BY DEF Verified
  <2>2. v.before # None
    OBVIOUS
  <2> HIDE DEF v, s, e
  <2> QED
    BY <1>1, <2>1, <2>2 DEF verify
<1>3. IsFiniteSet(priors)
  <2>1. IsFiniteSet(DOMAIN e.inputs)
    BY ValuesOf
  <2>2. priors \subseteq DOMAIN e.inputs
    BY <1>1
  <2> HIDE DEF priors, e
  <2> QED
    BY <2>1, <2>2, FS_Subset
<1>4. i \in priors
  <2> HIDE DEF priors
  <2> QED
    BY <1>2, <1>3, OnlyMember
<1> HIDE DEF i
<1>5. /\ i \in DOMAIN e.inputs /\ OwnedVaultInput(e.inputs[i], account)
      /\ PriorState(e.inputs[i], account, protocol) # None
      /\ v.before = Before(e.inputs[i], i, PriorState(e.inputs[i], account, protocol), protocol)
  BY <1>1, <1>2, <1>4
<1> QED
  BY <1>5

\* The figures of the vault before, from an entry with the state data.
LEMMA FiguresOf ==
    ASSUME NEW e, NEW k, NEW ss, NEW proto, ss[k].updates[1].flag # "open"
    PROVE  LET s == ss[k]
               data == s.updates[1]
               before == verifiedBefore(s)
               gross == depositBeforeCollateral(s, e)
               reserve == Collateral(s, data) - Balance(s, data, proto)
               native == NativeFigures(e, k, ss, proto)
           IN  /\ native.action = data.flag
               /\ native.collateralAfter = Balance(s, data, proto)
               /\ native.debtAfter = DebtOf(data, proto)
               /\ native.debtBefore = IF before = None THEN None ELSE before.debt
               /\ native.collateralBefore =
                    IF before # None /\ before.balance # None THEN before.balance
                    ELSE IF gross = None THEN None
                    ELSE IF gross > reserve THEN gross - reserve ELSE 0
<1> DEFINE s == ss[k]
           data == s.updates[1]
<1> HIDE DEF s, data
<1>1. data.flag # "open"
  BY DEF s, data
<1> QED
  BY <1>1 DEF NativeFigures, s, data

\* The collateral of the entry shown, and its reserve.
LEMMA ReserveOf ==
    ASSUME request \in Requests, NEW k \in DOMAIN entries, ShowsOneVault(Verified[k])
    PROVE  LET s == Verified[k]
               data == s.updates[1]
               reserve == Collateral(s, data) - Balance(s, data, protocol)
           IN  /\ Collateral(s, data) \in Nat
               /\ reserve = IF data.bound THEN protocol.minimumSats ELSE 0
               /\ reserve \in Nat
<1> DEFINE s == Verified[k]
           data == s.updates[1]
           min == protocol.minimumSats
<1>1. Collateral(s, data) \in Nat
  <2>1. PICK v \in DOMAIN s.outputs : s.outputs[v].value = Collateral(s, data)
    BY DEF ShowsOneVault
  <2>2. v \in DOMAIN entries[k].outputs /\ s.outputs[v].value = entries[k].outputs[v].value
    BY <2>1, OutputsOf
  <2>3. entries[k].outputs[v].value \in Nat
    BY <2>2, ValuesOf
  <2> QED
    BY <2>1, <2>2, <2>3
<1>2. data.bound => min \in Nat
  <2> DEFINE prepared == Prepared[k].updates
             outs == entries[k].outputs
  <2>1. Len(s.updates) = 1
    BY DEF ShowsOneVault
  <2>2. 1 \in DOMAIN prepared
    <3>1. DOMAIN s.updates = 1 .. Len(s.updates) /\ DOMAIN s.updates = DOMAIN prepared
      BY VerifiedUpdates
    <3> QED
      BY <2>1, <3>1
  <2>3. data = bindVaultOutput(prepared[1], outs, account, protocol)
    BY <2>2, VerifiedIs
  <2>4. DecodedState(prepared[1], outs, account)
    BY <2>2, UpdatesOf
  <2> HIDE DEF data, prepared, outs
  <2>5. data.bound => protocol # None
    BY <2>3, <2>4, BoundHasProtocol
  <2> QED
    BY <2>5, EntryIs
<1>3. Balance(s, data, protocol) = IF data.bound THEN Collateral(s, data) - min ELSE Collateral(s, data)
  BY DEF Balance
<1> DEFINE collateral == Collateral(s, data)
           balance == Balance(s, data, protocol)
<1> HIDE DEF s, data, min, collateral, balance
<1>4. collateral \in Nat /\ (data.bound => min \in Nat)
      /\ balance = IF data.bound THEN collateral - min ELSE collateral
  BY <1>1, <1>2, <1>3 DEF collateral, balance
<1>5. /\ collateral - balance = IF data.bound THEN min ELSE 0
      /\ collateral - balance \in Nat
  <2>1. CASE data.bound
    BY <1>4, <2>1
  <2>2. CASE ~data.bound
    BY <1>4, <2>2
  <2> QED
    BY <2>1, <2>2
<1> QED
  BY <1>1, <1>5 DEF s, data, min, collateral, balance

\* The collateral before: of the vault whose state was decoded.
LEMMA DecodedBefore ==
    ASSUME request \in Requests, NEW k \in DOMAIN entries, ShowsOneVault(Verified[k]),
           verifiedBefore(Verified[k]) # None
    PROVE  \E i \in DOMAIN entries[k].inputs :
              LET input == entries[k].inputs[i]
                  before == verifiedBefore(Verified[k])
              IN  /\ input.role = "vault" /\ OwnScript(input.script) /\ input.value \in Nat
                  /\ input.prior # None
                  /\ before.debt \in Nat
                  /\ before.debt = DebtOf(
                        previousVaultState(input.prior, input.outpoint.vout, account, protocol), protocol)
                  /\ depositBeforeCollateral(Verified[k], entries[k]) = input.value
                  /\ before.balance # None =>
                        /\ protocol.minimumSats \in Nat
                        /\ before.balance = input.value - protocol.minimumSats
<1> DEFINE e == entries[k]
           s == Verified[k]
           before == verifiedBefore(s)
<1>1. s.before # None /\ before = s.before
  BY DEF verifiedBefore
<1>2. PICK i \in DOMAIN e.inputs :
        /\ OwnedVaultInput(e.inputs[i], account)
        /\ PriorState(e.inputs[i], account, protocol) # None
        /\ s.before = Before(e.inputs[i], i, PriorState(e.inputs[i], account, protocol), protocol)
  BY <1>1, BeforeIs
<1> DEFINE input == e.inputs[i]
           state == PriorState(input, account, protocol)
<1>3. /\ input.role = "vault" /\ OwnScript(input.script)
  BY <1>2, VaultInputIsOwn DEF OwnedVaultInput
<1>4. ParsedInput(input) /\ input.value \in Nat
  BY EntryIs DEF ParsedEntry, ParsedInput
<1>5. /\ input.prior # None
      /\ state = previousVaultState(input.prior, input.outpoint.vout, account, protocol)
      /\ state.balance \in Nat
      /\ state.bound => protocol # None
  <2> HIDE DEF input
  <2> QED
    BY <1>2, <1>4, PriorIs DEF input
<1> HIDE DEF input, state
<1>6. s.before = Before(input, i, state, protocol)
  BY <1>2 DEF input, state
<1> HIDE DEF before
<1>7. /\ before.debt = DebtOf(state, protocol) /\ before.collateral = input.value
      /\ before.balance = IF state.bound THEN input.value - protocol.minimumSats ELSE None
  BY <1>1, <1>6 DEF Before
<1>8. depositBeforeCollateral(s, e) = before.collateral
  BY DEF depositBeforeCollateral, before
<1>9. state.bound => protocol.minimumSats \in Nat
  BY <1>5, EntryIs
<1>10. DebtOf(state, protocol) \in Nat
  BY <1>5, DebtIsNat
<1> QED
  BY <1>3, <1>4, <1>5, <1>7, <1>8, <1>9, <1>10 DEF input, before

\* Or else of the only vault that is spent.
LEMMA OnlyBefore ==
    ASSUME request \in Requests, NEW k \in DOMAIN entries,
           verifiedBefore(Verified[k]) = None,
           depositBeforeCollateral(Verified[k], entries[k]) # None
    PROVE  \E i \in DOMAIN entries[k].inputs :
              LET input == entries[k].inputs[i] IN
              /\ {j \in DOMAIN entries[k].inputs : entries[k].inputs[j].role = "vault"} = {i}
              /\ SignedOf(entries[k].inputs) = DOMAIN entries[k].inputs
              /\ OwnScript(input.script) /\ input.value \in Nat
              /\ depositBeforeCollateral(Verified[k], entries[k]) = input.value
<1> DEFINE e == entries[k]
           s == Verified[k]
           vaults == {j \in DOMAIN e.inputs : e.inputs[j].role = "vault"}
           i == CHOOSE j \in vaults : TRUE
<1>1. s.inputs = e.inputs
  BY VerifiedIs
<1>2. /\ OwnVaults(s) # {} /\ SignedOf(e.inputs) = DOMAIN e.inputs
      /\ \A j \in vaults : \/ e.inputs[j].script = e.outputs[FirstOwnVault(s)].script
                           \/ e.inputs[j].kind = "cosign"
      /\ Cardinality(vaults) = 1
      /\ depositBeforeCollateral(s, e) = e.inputs[i].value
  <2> HIDE DEF e, s
  <2> QED
    BY <1>1 DEF depositBeforeCollateral, e, s
<1>3. vaults = {i}
  <2>1. IsFiniteSet(DOMAIN e.inputs) /\ vaults \subseteq DOMAIN e.inputs
    BY ValuesOf
  <2> HIDE DEF vaults, e
  <2>2. IsFiniteSet(vaults)
    BY <2>1, FS_Subset
  <2> QED
    BY <1>2, <2>2, OnlyMember
<1>4. i \in DOMAIN e.inputs /\ e.inputs[i].role = "vault"
  BY <1>3
<1> HIDE DEF i
<1>5. e.inputs[i].value \in Nat
  BY <1>4, ValuesOf
<1>6. OwnScript(e.inputs[i].script)
  <2>1. CASE e.inputs[i].kind = "cosign"
    BY <1>4, <2>1, VaultInputIsOwn
  <2>2. CASE e.inputs[i].script = e.outputs[FirstOwnVault(s)].script
    <3>1. OwnVaults(s) \in SUBSET Nat
      <4>1. DOMAIN s.outputs = DOMAIN e.outputs
        BY OutputsOf
      <4>2. DOMAIN e.outputs \in SUBSET Nat
        BY EntryIs
      <4> QED
        BY <4>1, <4>2 DEF OwnVaults
    <3>2. FirstOwnVault(s) \in OwnVaults(s)
      <4> DEFINE V == OwnVaults(s)
      <4>1. FirstOwnVault(s) = CHOOSE n \in V : \A m \in V : n <= m
        BY DEF FirstOwnVault
      <4>2. V \in SUBSET Nat /\ V # {}
        BY <1>2, <3>1
      <4> HIDE DEF V
      <4>3. FirstOwnVault(s) \in V
        BY <4>1, <4>2, Least
      <4> QED
        BY <4>3 DEF V
    <3> DEFINE first == FirstOwnVault(s)
    <3> HIDE DEF first
    <3>3. first \in DOMAIN e.outputs /\ s.outputs[first].mine
      BY <3>2, OutputsOf DEF OwnVaults, first
    <3>4. OwnScript(e.outputs[first].script)
      BY <3>3, OutputsOf
    <3> QED
      BY <2>2, <3>4 DEF first
  <2> QED
    BY <1>2, <1>3, <2>1, <2>2
<1> QED
  BY <1>2, <1>3, <1>4, <1>5, <1>6

\* The native dialog is that of the entry shown.
LEMMA NativeOf ==
    ASSUME Shown.native # None
    PROVE  LET k == vaultReview(Verified, protocol)
           IN  k # None /\ Shown.native = NativeFigures(entries[k], k, Verified, protocol)
  BY DEF Shown, nativeDialog, batchDialog, psbtDialog, Dialog

\* The collateral that a native dialog counts from is that of an own vault output
\* which the transaction spends: the one whose state was decoded, or the only one
\* when all inputs are known.
THEOREM BeforeIsSpent == Spec => []BeforeIsSpentVault
<1>1. ReviewInv => BeforeIsSpentVault
  <2> SUFFICES ASSUME ReviewInv, dialog # None, dialog.native # None, dialog.native.action # "open",
                      dialog.native.collateralBefore # None
               PROVE  LET native == dialog.native
                          k == Len(entries)
                          s == summaries[k]
                          vaults == {i \in DOMAIN entries[k].inputs : entries[k].inputs[i].role = "vault"}
                          reserve == Collateral(s, s.updates[1]) - native.collateralAfter
                      IN  \E i \in vaults :
                            LET input == entries[k].inputs[i] IN
                            /\ OwnScript(input.script)
                            /\ \/ native.collateralBefore = input.value - reserve
                               \/ native.collateralBefore = 0 /\ input.value < reserve
                               \/ native.debtBefore # None
                                  /\ native.collateralBefore \in input.value - protocol.minimumSats .. input.value
                            /\ native.debtBefore = None =>
                                vaults = {i} /\ SignedOf(entries[k].inputs) = DOMAIN entries[k].inputs
                            /\ native.debtBefore # None =>
                                /\ input.prior # None
                                /\ native.debtBefore = DebtOf(
                                    previousVaultState(input.prior, input.outpoint.vout, account, protocol),
                                    protocol)
    BY DEF BeforeIsSpentVault
  <2> DEFINE k == Len(entries)
             e == entries[k]
             s == Verified[k]
             data == s.updates[1]
             native == dialog.native
             before == verifiedBefore(s)
             gross == depositBeforeCollateral(s, e)
             reserve == Collateral(s, data) - Balance(s, data, protocol)
             vaults == {i \in DOMAIN e.inputs : e.inputs[i].role = "vault"}
             min == protocol.minimumSats
  <2>1. request \in Requests /\ dialog = Shown /\ summaries = Verified
    BY DEF ReviewInv, DialogInv
  <2>2. /\ vaultReview(Verified, protocol) # None
        /\ native = NativeFigures(entries[vaultReview(Verified, protocol)], vaultReview(Verified, protocol), Verified, protocol)
    BY <2>1, NativeOf
  <2>3. k = vaultReview(Verified, protocol) /\ k \in DOMAIN entries /\ ShowsOneVault(s)
    BY <2>1, <2>2, ReviewedIs
  <2>4. native = NativeFigures(e, k, Verified, protocol)
    BY <2>2, <2>3
  <2>5. data.flag # "open"
    <3>1. NativeFigures(e, k, Verified, protocol).action = data.flag
      BY DEF NativeFigures
    <3> QED
      BY <2>4, <3>1
  <2>6. /\ native.collateralAfter = Balance(s, data, protocol)
        /\ native.debtBefore = IF before = None THEN None ELSE before.debt
        /\ native.collateralBefore =
            IF before # None /\ before.balance # None THEN before.balance
            ELSE IF gross = None THEN None
            ELSE IF gross > reserve THEN gross - reserve ELSE 0
    BY <2>4, <2>5, FiguresOf
  <2>7. reserve \in Nat
    BY <2>1, <2>3, ReserveOf
  <2> DEFINE Good(i) ==
        /\ OwnScript(e.inputs[i].script)
        /\ \/ native.collateralBefore = e.inputs[i].value - reserve
           \/ native.collateralBefore = 0 /\ e.inputs[i].value < reserve
           \/ native.debtBefore # None
              /\ native.collateralBefore \in e.inputs[i].value - min .. e.inputs[i].value
        /\ native.debtBefore = None => vaults = {i} /\ SignedOf(e.inputs) = DOMAIN e.inputs
        /\ native.debtBefore # None =>
            /\ e.inputs[i].prior # None
            /\ native.debtBefore = DebtOf(
                previousVaultState(e.inputs[i].prior, e.inputs[i].outpoint.vout, account, protocol), protocol)
  <2>8. \E i \in vaults : Good(i)
    <3>1. CASE before # None
      <4>1. PICK i \in DOMAIN e.inputs :
              /\ e.inputs[i].role = "vault" /\ OwnScript(e.inputs[i].script) /\ e.inputs[i].value \in Nat
              /\ e.inputs[i].prior # None
              /\ before.debt \in Nat
              /\ before.debt = DebtOf(
                    previousVaultState(e.inputs[i].prior, e.inputs[i].outpoint.vout, account, protocol), protocol)
              /\ gross = e.inputs[i].value
              /\ before.balance # None => min \in Nat /\ before.balance = e.inputs[i].value - min
        BY <2>1, <2>3, <3>1, DecodedBefore
      <4>2. native.debtBefore = before.debt /\ native.debtBefore # None
        BY <2>6, <3>1, <4>1, NoneAssumption
      <4> DEFINE value == e.inputs[i].value
      <4>3. value \in Nat /\ value # None /\ i \in vaults
        BY <4>1, NoneAssumption
      <4>4. \/ native.collateralBefore = value - reserve
            \/ native.collateralBefore = 0 /\ value < reserve
            \/ native.debtBefore # None /\ native.collateralBefore \in value - min .. value
        <5>1. CASE before.balance # None
          <6>1. native.collateralBefore = value - min /\ min \in Nat
            BY <2>6, <3>1, <4>1, <5>1
          <6> HIDE DEF native, min, value
          <6> QED
            BY <4>2, <4>3, <6>1
        <5>2. CASE before.balance = None
          <6>1. native.collateralBefore = IF value > reserve THEN value - reserve ELSE 0
            BY <2>6, <3>1, <4>1, <4>3, <5>2
          <6> HIDE DEF native, min, value, reserve
          <6> QED
            BY <2>7, <4>3, <6>1
        <5> QED
          BY <5>1, <5>2
      <4>5. Good(i)
        <5> HIDE DEF native, before, reserve, min, vaults, k
        <5> QED
          BY <4>1, <4>2, <4>4
      <4> QED
        BY <4>3, <4>5
    <3>2. CASE before = None
      <4>1. gross # None
        BY <2>6, <3>2
      <4>2. PICK i \in DOMAIN e.inputs :
              /\ vaults = {i} /\ SignedOf(e.inputs) = DOMAIN e.inputs
              /\ OwnScript(e.inputs[i].script) /\ e.inputs[i].value \in Nat
              /\ gross = e.inputs[i].value
        BY <2>1, <2>3, <3>2, <4>1, OnlyBefore
      <4>3. native.debtBefore = None
        BY <2>6, <3>2
      <4> DEFINE value == e.inputs[i].value
      <4>4. \/ native.collateralBefore = value - reserve
            \/ native.collateralBefore = 0 /\ value < reserve
        <5>1. native.collateralBefore = IF value > reserve THEN value - reserve ELSE 0
          BY <2>6, <3>2, <4>1, <4>2
        <5>2. value \in Nat
          BY <4>2
        <5> HIDE DEF native, value, reserve
        <5> QED
          BY <2>7, <5>1, <5>2
      <4>5. Good(i)
        <5> HIDE DEF native, reserve, min, vaults, k
        <5> QED
          BY <4>2, <4>3, <4>4
      <4>6. i \in vaults
        BY <4>2
      <4> QED
        BY <4>5, <4>6
    <3> QED
      BY <3>1, <3>2
  <2> QED
    BY <2>1, <2>6, <2>8
<1> QED
  BY <1>1, ReviewInit, ReviewStep, PTL DEF Spec

-----------------------------------------------------------------------------
(* The ids of edicts: the differences, added up one by one, are the sums   *)
(* of the protocol's rule.                                                 *)

BlockAt(v, k) == SumFunction([j \in 1 .. k |-> EdictAt(v, j).block])
FirstAt(v, k) == CHOOSE j \in 1 .. k : /\ BlockAt(v, j) = BlockAt(v, k)
                                       /\ \A m \in 1 .. k : BlockAt(v, m) = BlockAt(v, k) => j <= m
IndexAt(v, k) == SumFunction([j \in FirstAt(v, k) .. k |-> EdictAt(v, j).tx])
IdAt(v, k) == [block |-> BlockAt(v, k), tx |-> IndexAt(v, k)]

\* The varints of a stone that has nothing but whole edicts.
Edicts(v) == v \in Seq(Nat) /\ v # <<>> /\ (Len(v) - 1) % 4 = 0

\* The integers of the edicts are numbers.
LEMMA EdictValues ==
    ASSUME NEW v, Edicts(v)
    PROVE  /\ EdictCount(v) \in Nat
           /\ \A j \in 1 .. EdictCount(v) :
                /\ EdictAt(v, j).block \in Nat /\ EdictAt(v, j).tx \in Nat
                /\ EdictAt(v, j).amount \in Nat /\ EdictAt(v, j).output \in Nat
<1> DEFINE count == EdictCount(v)
           len == Len(v)
<1>1. /\ len \in Nat /\ len # 0 /\ DOMAIN v = 1 .. len /\ \A n \in 1 .. len : v[n] \in Nat
      /\ (len - 1) % 4 = 0
  BY EmptySeq, LenProperties, ElementOfSeq DEF Edicts
<1>2. count = (len - 1) \div 4
  BY DEF EdictCount
<1> HIDE DEF count, len
<1>3. count \in Nat /\ 4 * count + 1 = len
  BY <1>1, <1>2
<1>4. ASSUME NEW j \in 1 .. count
      PROVE  /\ EdictAt(v, j).block \in Nat /\ EdictAt(v, j).tx \in Nat
             /\ EdictAt(v, j).amount \in Nat /\ EdictAt(v, j).output \in Nat
  <2>1. /\ 4 * j - 2 \in 1 .. len /\ 4 * j - 1 \in 1 .. len
        /\ 4 * j \in 1 .. len /\ 4 * j + 1 \in 1 .. len
    BY <1>1, <1>3
  <2>2. /\ v[4 * j - 2] \in Nat /\ v[4 * j - 1] \in Nat /\ v[4 * j] \in Nat /\ v[4 * j + 1] \in Nat
    BY <1>1, <2>1
  <2> QED
    BY <2>2 DEF EdictAt
<1> QED
  BY <1>3, <1>4 DEF count

\* A sum over an interval, and over one that is longer by one.
LEMMA IntervalSum ==
    ASSUME NEW a \in Int, NEW b \in Int, a <= b, NEW f, NEW g,
           \A j \in a .. b : f[j] \in Int, \A j \in a .. b - 1 : g[j] = f[j]
    PROVE  SumFunctionOnSet(f, a .. b) = f[b] + SumFunctionOnSet(g, a .. b - 1)
<1> DEFINE S == a .. b - 1
<1>1. IsFiniteSet(S)
  BY FS_Interval
<1>2. a .. b = S \cup {b} /\ b \notin S
  OBVIOUS
<1>3. \A j \in S \cup {b} : f[j] \in Int
  BY <1>2
<1>4. \A j \in S : f[j] \in Int /\ g[j] = f[j]
  OBVIOUS
<1> HIDE DEF S
<1>5. SumFunctionOnSet(f, S \cup {b}) = f[b] + SumFunctionOnSet(f, S)
  BY <1>1, <1>2, <1>3, SumAdd
<1>6. SumFunctionOnSet(g, S) = SumFunctionOnSet(f, S)
  BY <1>1, <1>4, SumEqual
<1> QED
  BY <1>2, <1>5, <1>6 DEF S

\* The block of an edict is that of the edict before it, increased.
LEMMA BlockStep ==
    ASSUME NEW v, Edicts(v), NEW k \in 1 .. EdictCount(v)
    PROVE  /\ BlockAt(v, k) \in Nat
           /\ k = 1 => BlockAt(v, k) = EdictAt(v, k).block
           /\ k > 1 => BlockAt(v, k) = EdictAt(v, k).block + BlockAt(v, k - 1)
<1> DEFINE f(i) == [j \in 1 .. i |-> EdictAt(v, j).block]
           ff == f(k)
           gg == f(k - 1)
<1>1. EdictCount(v) \in Nat /\ \A j \in 1 .. EdictCount(v) : EdictAt(v, j).block \in Nat
  BY EdictValues
<1>2. /\ BlockAt(v, k) = SumFunctionOnSet(ff, 1 .. k)
      /\ BlockAt(v, k - 1) = SumFunctionOnSet(gg, 1 .. k - 1)
  BY DEF BlockAt, SumFunction
<1>3. /\ \A j \in 1 .. k : ff[j] \in Nat
      /\ \A j \in 1 .. k - 1 : gg[j] = ff[j]
      /\ ff[k] = EdictAt(v, k).block /\ k \in Int /\ 1 \in Int /\ 1 <= k
  BY <1>1
<1> HIDE DEF ff, gg, f
<1>4. SumFunctionOnSet(ff, 1 .. k) \in Nat
  <2> DEFINE S == 1 .. k
  <2>1. IsFiniteSet(S) /\ \A j \in S : ff[j] \in Nat
    BY <1>3, FS_Interval
  <2> HIDE DEF S
  <2>2. SumFunctionOnSet(ff, S) \in Nat
    BY <2>1, SumNatural
  <2> QED
    BY <2>2 DEF S
<1>5. SumFunctionOnSet(ff, 1 .. k) = ff[k] + SumFunctionOnSet(gg, 1 .. k - 1)
  <2>1. \A j \in 1 .. k : ff[j] \in Int
    BY <1>3
  <2> QED
    BY <1>3, <2>1, IntervalSum
<1>6. k = 1 => SumFunctionOnSet(gg, 1 .. k - 1) = 0
  <2> SUFFICES ASSUME k = 1
               PROVE  SumFunctionOnSet(gg, 1 .. k - 1) = 0
    OBVIOUS
  <2>1. 1 .. k - 1 = {}
    OBVIOUS
  <2> QED
    BY <2>1, SumEmpty
<1> QED
  BY <1>1, <1>2, <1>3, <1>4, <1>5, <1>6

\* The first edict of a block.
LEMMA FirstIs ==
    ASSUME NEW v, Edicts(v), NEW k \in 1 .. EdictCount(v)
    PROVE  /\ FirstAt(v, k) \in 1 .. k
           /\ BlockAt(v, FirstAt(v, k)) = BlockAt(v, k)
           /\ \A m \in 1 .. k : BlockAt(v, m) = BlockAt(v, k) => FirstAt(v, k) <= m
<1> DEFINE I == {j \in 1 .. k : BlockAt(v, j) = BlockAt(v, k)}
<1>1. I \in SUBSET Nat /\ k \in I
  BY EdictValues
<1>2. \E j \in I : \A m \in I : j <= m
  <2> HIDE DEF I
  <2> QED
    BY <1>1, Least
<1>3. \E j \in 1 .. k : /\ BlockAt(v, j) = BlockAt(v, k)
                        /\ \A m \in 1 .. k : BlockAt(v, m) = BlockAt(v, k) => j <= m
  BY <1>2
<1> QED
  BY <1>3 DEF FirstAt

\* Blocks do not decrease from edict to edict.
LEMMA BlocksRise ==
    ASSUME NEW v, Edicts(v), NEW k \in 1 .. EdictCount(v), NEW m \in 1 .. k
    PROVE  BlockAt(v, m) <= BlockAt(v, k)
<1> DEFINE count == EdictCount(v)
           Fine(j) == \A i \in 1 .. j : BlockAt(v, i) <= BlockAt(v, j)
           F == {j \in 0 .. count : Fine(j)}
<1>0. count \in Nat
  BY EdictValues
<1>1. 0 \in F
  BY <1>0
<1>2. ASSUME NEW j \in 1 .. count, j - 1 \in F
      PROVE  j \in F
  <2>1. /\ BlockAt(v, j) \in Nat
        /\ j > 1 => BlockAt(v, j) = EdictAt(v, j).block + BlockAt(v, j - 1)
    BY BlockStep
  <2>2. EdictAt(v, j).block \in Nat
    BY EdictValues
  <2>3. ASSUME NEW i \in 1 .. j, i # j
        PROVE  BlockAt(v, i) <= BlockAt(v, j)
    <3>1. i \in 1 .. j - 1 /\ j > 1 /\ j - 1 \in 1 .. count /\ i \in 1 .. count
      BY <1>0, <2>3
    <3>2. BlockAt(v, i) <= BlockAt(v, j - 1)
      BY <1>2, <3>1
    <3>3. BlockAt(v, j - 1) \in Nat /\ BlockAt(v, i) \in Nat
      BY <3>1, BlockStep
    <3> QED
      BY <2>1, <2>2, <3>1, <3>2, <3>3
  <2>4. Fine(j)
    BY <2>1, <2>3
  <2> QED
    BY <1>0, <2>4
<1>3. \A j \in 0 .. count : j \in F
  <2> HIDE DEF F, count
  <2> QED
    BY <1>0, <1>1, <1>2, IntervalInduction
<1>4. Fine(k)
  BY <1>0, <1>3
<1> QED
  BY <1>4

\* Within a block the transaction index adds up; a new block starts anew.
LEMMA IndexStep ==
    ASSUME NEW v, Edicts(v), NEW k \in 1 .. EdictCount(v)
    PROVE  IndexAt(v, k) = IF k > 1 /\ EdictAt(v, k).block = 0
                           THEN IndexAt(v, k - 1) + EdictAt(v, k).tx
                           ELSE EdictAt(v, k).tx
<1> DEFINE count == EdictCount(v)
           first == FirstAt(v, k)
           ff == [j \in first .. k |-> EdictAt(v, j).tx]
<1>1. count \in Nat /\ k \in 1 .. count /\ \A j \in 1 .. count : EdictAt(v, j).tx \in Nat
  BY EdictValues
<1>2. /\ first \in 1 .. k
      /\ BlockAt(v, first) = BlockAt(v, k)
      /\ \A m \in 1 .. k : BlockAt(v, m) = BlockAt(v, k) => first <= m
  BY FirstIs
<1>3. IndexAt(v, k) = SumFunctionOnSet(ff, first .. k)
  BY DEF IndexAt, SumFunction
<1>4. (\A j \in first .. k : ff[j] \in Int) /\ ff[k] = EdictAt(v, k).tx
  <2> HIDE DEF first
  <2> QED
    BY <1>1, <1>2
<1>5. CASE k > 1 /\ EdictAt(v, k).block = 0
  <2> DEFINE prev == FirstAt(v, k - 1)
             gg == [j \in prev .. k - 1 |-> EdictAt(v, j).tx]
  <2>1. k - 1 \in 1 .. count /\ BlockAt(v, k) = BlockAt(v, k - 1)
    <3>1. k - 1 \in 1 .. count
      BY <1>1, <1>5
    <3>2. BlockAt(v, k) = EdictAt(v, k).block + BlockAt(v, k - 1) /\ BlockAt(v, k - 1) \in Nat
      BY <1>5, <3>1, BlockStep
    <3> QED
      BY <1>5, <3>1, <3>2
  <2>2. /\ prev \in 1 .. k - 1
        /\ BlockAt(v, prev) = BlockAt(v, k - 1)
        /\ \A m \in 1 .. k - 1 : BlockAt(v, m) = BlockAt(v, k - 1) => prev <= m
    BY <2>1, FirstIs
  <2>3. IndexAt(v, k - 1) = SumFunctionOnSet(gg, prev .. k - 1)
    BY DEF IndexAt, SumFunction
  <2> HIDE DEF first, prev
  <2>4. first = prev
    <3>1. first <= prev /\ first <= k - 1
      BY <1>1, <1>2, <2>1, <2>2
    <3>2. prev <= first
      BY <1>1, <1>2, <2>1, <2>2, <3>1
    <3> QED
      BY <1>1, <1>2, <2>2, <3>1, <3>2
  <2>5. \A j \in first .. k - 1 : gg[j] = ff[j]
    BY <1>1, <1>2, <2>4
  <2> HIDE DEF ff, gg
  <2>6. SumFunctionOnSet(ff, first .. k) = ff[k] + SumFunctionOnSet(gg, first .. k - 1)
    <3>1. first \in Int /\ k \in Int /\ first <= k
      BY <1>1, <1>2
    <3> QED
      BY <1>4, <2>5, <3>1, IntervalSum
  <2>7. SumFunctionOnSet(gg, prev .. k - 1) \in Int
    <3> DEFINE S == prev .. k - 1
    <3>1. IsFiniteSet(S)
      BY <1>1, <2>2, FS_Interval
    <3>3. \A j \in S : gg[j] \in Int
      BY <1>1, <2>2 DEF gg
    <3> HIDE DEF S
    <3>2. SumFunctionOnSet(gg, S) \in Int
      BY <3>1, <3>3, SumType
    <3> QED
      BY <3>2 DEF S
  <2> QED
    BY <1>1, <1>3, <1>4, <1>5, <2>3, <2>4, <2>6, <2>7
<1>6. CASE ~(k > 1 /\ EdictAt(v, k).block = 0)
  <2>1. first = k
    <3>1. CASE k = 1
      BY <1>2, <3>1
    <3>2. CASE k > 1 /\ EdictAt(v, k).block # 0
      <4>1. k - 1 \in 1 .. count
        BY <1>1, <3>2
      <4>2. /\ BlockAt(v, k) = EdictAt(v, k).block + BlockAt(v, k - 1)
            /\ BlockAt(v, k - 1) \in Nat /\ EdictAt(v, k).block \in Nat
        BY <3>2, <4>1, BlockStep, EdictValues
      <4> HIDE DEF first
      <4>3. ASSUME first < k
            PROVE  FALSE
        <5>1. first \in 1 .. k - 1 /\ first \in 1 .. count
          BY <1>1, <1>2, <4>3
        <5>2. BlockAt(v, first) <= BlockAt(v, k - 1)
          BY <4>1, <5>1, BlocksRise
        <5>3. BlockAt(v, first) \in Nat
          BY <5>1, BlockStep
        <5> QED
          BY <1>2, <3>2, <4>2, <5>2, <5>3
      <4> QED
        BY <1>1, <1>2, <4>3
    <3> QED
      BY <1>1, <1>6, <3>1, <3>2
  <2>2. first .. k = {k}
    BY <1>1, <2>1
  <2> HIDE DEF first, ff
  <2>3. SumFunctionOnSet(ff, {k}) = ff[k]
    <3>1. ff[k] \in Int
      BY <1>1, <1>4
    <3> QED
      BY <3>1, SumSingle
  <2> QED
    BY <1>3, <1>4, <1>6, <2>2, <2>3
<1> QED
  BY <1>5, <1>6

\* The difference that an edict adds to the id before it.
NextId(v, j, id) ==
    [block |-> id.block + EdictAt(v, j).block,
     tx |-> IF EdictAt(v, j).block = 0 THEN id.tx + EdictAt(v, j).tx ELSE EdictAt(v, j).tx]
NoId == [block |-> 0, tx |-> 0]

\* One step of the decoder of edicts.
LEMMA IdStep ==
    ASSUME NEW v, Edicts(v), NEW k \in 1 .. EdictCount(v)
    PROVE  IdAt(v, k) = NextId(v, k, IF k = 1 THEN NoId ELSE IdAt(v, k - 1))
<1>1. /\ EdictCount(v) \in Nat /\ EdictAt(v, k).block \in Nat /\ EdictAt(v, k).tx \in Nat
  BY EdictValues
<1>2. CASE k = 1
  <2>1. BlockAt(v, k) = EdictAt(v, k).block /\ IndexAt(v, k) = EdictAt(v, k).tx
    BY <1>2, BlockStep, IndexStep
  <2>2. NextId(v, k, NoId) = [block |-> EdictAt(v, k).block, tx |-> EdictAt(v, k).tx]
    BY <1>1 DEF NextId, NoId
  <2> QED
    BY <1>2, <2>1, <2>2 DEF IdAt
<1>3. CASE k > 1
  <2>1. k - 1 \in 1 .. EdictCount(v)
    BY <1>1, <1>3
  <2>2. /\ BlockAt(v, k) = EdictAt(v, k).block + BlockAt(v, k - 1)
        /\ BlockAt(v, k - 1) \in Nat
    BY <1>3, <2>1, BlockStep
  <2>3. IndexAt(v, k) = IF EdictAt(v, k).block = 0 THEN IndexAt(v, k - 1) + EdictAt(v, k).tx
                        ELSE EdictAt(v, k).tx
    BY <1>3, IndexStep
  <2>4. NextId(v, k, IdAt(v, k - 1)) =
            [block |-> BlockAt(v, k - 1) + EdictAt(v, k).block,
             tx |-> IF EdictAt(v, k).block = 0 THEN IndexAt(v, k - 1) + EdictAt(v, k).tx
                    ELSE EdictAt(v, k).tx]
    BY DEF NextId, IdAt
  <2>5. BlockAt(v, k) = BlockAt(v, k - 1) + EdictAt(v, k).block
    BY <1>1, <2>2
  <2> QED
    BY <1>3, <2>3, <2>4, <2>5 DEF IdAt
<1> QED
  BY <1>1, <1>2, <1>3

\* The code's ids are the protocol's.
LEMMA EdictIdIs ==
    ASSUME NEW v, Edicts(v), NEW k \in 1 .. EdictCount(v)
    PROVE  EdictId(v, k) = IdAt(v, k)
<1> DEFINE sums == [j \in 0 .. k |-> IF j = 0 THEN NoId ELSE IdAt(v, j)]
           Body(f) == [j \in 0 .. k |-> IF j = 0 THEN NoId ELSE NextId(v, j, f[j - 1])]
           id == CHOOSE f : f = Body(f)
<1>0. EdictCount(v) \in Nat /\ k \in Nat /\ k \in 1 .. EdictCount(v)
  BY EdictValues
<1>1. EdictId(v, k) = id[k]
  BY DEF EdictId, NextId, NoId
<1>2. sums = Body(sums)
  <2>1. ASSUME NEW j \in 0 .. k
        PROVE  sums[j] = IF j = 0 THEN NoId ELSE NextId(v, j, sums[j - 1])
    <3>1. CASE j = 0
      BY <3>1
    <3>2. CASE j # 0
      <4>1. j \in 1 .. EdictCount(v) /\ j - 1 \in 0 .. k
        BY <1>0, <3>2
      <4>2. IdAt(v, j) = NextId(v, j, IF j = 1 THEN NoId ELSE IdAt(v, j - 1))
        BY <4>1, IdStep
      <4>3. sums[j - 1] = IF j = 1 THEN NoId ELSE IdAt(v, j - 1)
        BY <3>2, <4>1
      <4>4. sums[j] = IdAt(v, j)
        BY <3>2
      <4> QED
        BY <3>2, <4>2, <4>3, <4>4
    <3> QED
      BY <3>1, <3>2
  <2>2. sums = [j \in 0 .. k |-> sums[j]]
    OBVIOUS
  <2> HIDE DEF sums
  <2> QED
    BY <2>1, <2>2
<1>3. id = Body(id)
  <2> HIDE DEF sums, Body
  <2> QED
    BY <1>2
<1> HIDE DEF id
<1>4. \A j \in 0 .. k : id[j] = IF j = 0 THEN NoId ELSE NextId(v, j, id[j - 1])
  <2> DEFINE body == Body(id)
  <2>1. \A j \in 0 .. k : body[j] = IF j = 0 THEN NoId ELSE NextId(v, j, id[j - 1])
    OBVIOUS
  <2> HIDE DEF body
  <2> QED
    BY <1>3, <2>1 DEF body
<1>5. \A j \in 0 .. k : sums[j] = IF j = 0 THEN NoId ELSE NextId(v, j, sums[j - 1])
  <2> DEFINE body == Body(sums)
  <2>1. \A j \in 0 .. k : body[j] = IF j = 0 THEN NoId ELSE NextId(v, j, sums[j - 1])
    OBVIOUS
  <2> HIDE DEF body, sums
  <2> QED
    BY <1>2, <2>1 DEF body
<1> HIDE DEF sums
<1> DEFINE F == {j \in 0 .. k : id[j] = sums[j]}
<1>6. 0 \in F
  BY <1>0, <1>4, <1>5
<1>7. \A j \in 1 .. k : j - 1 \in F => j \in F
  BY <1>0, <1>4, <1>5
<1>8. \A j \in 0 .. k : j \in F
  <2> HIDE DEF F
  <2> QED
    BY <1>0, <1>6, <1>7, IntervalInduction
<1>9. id[k] = sums[k]
  BY <1>0, <1>8
<1> QED
  BY <1>0, <1>1, <1>9 DEF sums

-----------------------------------------------------------------------------
(* The UNIT amount shown.                                                  *)

\* What an edict takes of the units left, and what is left after each.
TakenBy(v, k, left) ==
    LET amount == EdictAt(v, k).amount IN
    IF IdAt(v, k) # request.asset THEN 0
    ELSE IF amount = 0 \/ amount > left THEN left ELSE amount
LeftAfter(v, held, f) ==
    [k \in 0 .. EdictCount(v) |-> IF k = 0 THEN held ELSE f[k - 1] - TakenBy(v, k, f[k - 1])]
LeftOf(v, held) == CHOOSE f : f = LeftAfter(v, held, f)
EdictsTo(v, n) == {k \in 1 .. EdictCount(v) : EdictAt(v, k).output = n}

LEMMA AllocatedIs ==
    ASSUME NEW v, NEW outputs, NEW n, NEW held
    PROVE  AllocatedTo(v, outputs, n, held) =
              SumFunctionOnSet([k \in EdictsTo(v, n) |-> TakenBy(v, k, LeftOf(v, held)[k - 1])],
                               EdictsTo(v, n))
              + IF GetsRest(outputs, n) THEN LeftOf(v, held)[EdictCount(v)] ELSE 0
<1> DEFINE to == {k \in 1 .. EdictCount(v) : EdictAt(v, k).output = n}
           taken == [k \in to |-> TakenBy(v, k, LeftOf(v, held)[k - 1])]
<1>1. AllocatedTo(v, outputs, n, held) =
        SumFunction(taken) + IF GetsRest(outputs, n) THEN LeftOf(v, held)[EdictCount(v)] ELSE 0
  BY DEF AllocatedTo, TakenBy, LeftAfter, LeftOf, IdAt, IndexAt, FirstAt, BlockAt
<1>2. SumFunction(taken) = SumFunctionOnSet(taken, to)
  <2>1. DOMAIN taken = to
    OBVIOUS
  <2> HIDE DEF taken, to
  <2> QED
    BY <2>1 DEF SumFunction
<1> QED
  BY <1>1, <1>2 DEF EdictsTo

\* Before the first edict all units are left.
LEMMA AllLeftAtFirst ==
    ASSUME NEW v, Edicts(v), NEW held
    PROVE  LeftOf(v, held)[0] = held
<1> DEFINE count == EdictCount(v)
           Part(m, f) == [k \in 0 .. m |-> IF k = 0 THEN held ELSE f[k - 1] - TakenBy(v, k, f[k - 1])]
           F == {m \in 0 .. count : \E f : f = Part(m, f)}
<1>1. count \in Nat
  BY EdictValues
<1>2. 0 \in F
  <2> DEFINE f == [k \in 0 .. 0 |-> held]
  <2>1. f = Part(0, f)
    OBVIOUS
  <2>2. \E g : g = Part(0, g)
    <3> HIDE DEF f, Part
    <3> QED
      BY <2>1
  <2> HIDE DEF Part
  <2> QED
    BY <1>1, <2>2
<1>3. ASSUME NEW m \in 1 .. count, m - 1 \in F
      PROVE  m \in F
  <2>1. PICK f : f = Part(m - 1, f)
    BY <1>3
  <2> DEFINE g == [k \in 0 .. m |-> IF k < m THEN f[k] ELSE f[m - 1] - TakenBy(v, m, f[m - 1])]
             body == Part(m, g)
             part == Part(m - 1, f)
  <2>2. ASSUME NEW k \in 0 .. m
        PROVE  g[k] = body[k]
    <3>1. CASE k = 0
      <4>1. part[0] = held /\ 0 \in 0 .. m - 1
        BY <1>1
      <4>2. f[0] = held
        BY <2>1, <4>1
      <4> QED
        BY <1>1, <3>1, <4>2
    <3>2. CASE k # 0 /\ k < m
      <4>1. k \in 0 .. m - 1 /\ k - 1 \in 0 .. m /\ k - 1 < m
        BY <1>1, <3>2
      <4>2. part[k] = f[k - 1] - TakenBy(v, k, f[k - 1])
        BY <3>2, <4>1
      <4>3. f[k] = f[k - 1] - TakenBy(v, k, f[k - 1])
        BY <2>1, <4>2
      <4>4. g[k] = f[k] /\ g[k - 1] = f[k - 1]
        BY <3>2, <4>1
      <4>5. body[k] = g[k - 1] - TakenBy(v, k, g[k - 1])
        BY <3>2
      <4> HIDE DEF g, body
      <4> QED
        BY <4>3, <4>4, <4>5
    <3>3. CASE k = m
      <4>1. m - 1 \in 0 .. m /\ m - 1 < m /\ m # 0
        BY <1>1
      <4>2. g[m] = f[m - 1] - TakenBy(v, m, f[m - 1]) /\ g[m - 1] = f[m - 1]
        BY <1>1, <4>1
      <4>3. body[m] = g[m - 1] - TakenBy(v, m, g[m - 1])
        BY <4>1
      <4> HIDE DEF g, body
      <4> QED
        BY <3>3, <4>2, <4>3
    <3> QED
      BY <1>1, <3>1, <3>2, <3>3
  <2>3. g = [k \in 0 .. m |-> g[k]] /\ body = [k \in 0 .. m |-> body[k]]
    OBVIOUS
  <2>4. g = body
    <3> HIDE DEF g, body
    <3> QED
      BY <2>2, <2>3
  <2>5. \E h : h = Part(m, h)
    <3> HIDE DEF g, Part
    <3> QED
      BY <2>4 DEF body
  <2> HIDE DEF Part
  <2> QED
    BY <1>1, <2>5
<1>4. count \in F
  <2> HIDE DEF F, count
  <2> QED
    BY <1>1, <1>2, <1>3, IntervalInduction
<1>5. \E f : f = LeftAfter(v, held, f)
  BY <1>4 DEF LeftAfter
<1> DEFINE left == LeftOf(v, held)
           body == LeftAfter(v, held, left)
<1>6. left = body
  BY <1>5 DEF LeftOf
<1>7. body[0] = held
  BY <1>1 DEF LeftAfter
<1> HIDE DEF left, body
<1> QED
  BY <1>6, <1>7 DEF left

\* Where the rest stays apart, output 1 is allocated nothing, or by one edict, the
\* first, its amount or all there is.
LEMMA AllocatedToOne ==
    ASSUME NEW v, Edicts(v), \A k \in 1 .. EdictCount(v) : EdictId(v, k) = request.asset,
           NEW outputs, RestIsApart(v, outputs), NEW held \in Nat
    PROVE  /\ (\A k \in 1 .. EdictCount(v) : EdictAt(v, k).amount = 0) =>
                AllocatedTo(v, outputs, 1, held) = 0
           /\ \A p \in 1 .. EdictCount(v) :
                /\ EdictAt(v, p).amount # 0 /\ EdictAt(v, p).output = 1
                /\ \A k \in 1 .. EdictCount(v) : k # p => EdictAt(v, k).amount = 0
                => AllocatedTo(v, outputs, 1, held) = Lesser(EdictAt(v, p).amount, held)
<1> DEFINE count == EdictCount(v)
           to == EdictsTo(v, 1)
           taken == [k \in to |-> TakenBy(v, k, LeftOf(v, held)[k - 1])]
<1>1. count \in Nat /\ \A k \in 1 .. count : EdictAt(v, k).amount \in Nat
  BY EdictValues
<1>2. AllocatedTo(v, outputs, 1, held) = SumFunctionOnSet(taken, to) + 0
  <2>1. ~GetsRest(outputs, 1)
    BY DEF RestIsApart
  <2> QED
    BY <2>1, AllocatedIs
<1>3. \A j, k \in 1 .. count : j <= k /\ EdictAt(v, j).amount = 0 => EdictAt(v, k).output # 1
  BY DEF RestIsApart
<1>5. ASSUME \A k \in 1 .. count : EdictAt(v, k).amount = 0
      PROVE  AllocatedTo(v, outputs, 1, held) = 0
  <2>1. to = {}
    BY <1>1, <1>3, <1>5 DEF EdictsTo
  <2> HIDE DEF to, taken
  <2> QED
    BY <1>2, <2>1, SumEmpty
<1>6. ASSUME NEW p \in 1 .. count, EdictAt(v, p).amount # 0, EdictAt(v, p).output = 1,
             \A k \in 1 .. count : k # p => EdictAt(v, k).amount = 0
      PROVE  AllocatedTo(v, outputs, 1, held) = Lesser(EdictAt(v, p).amount, held)
  <2>1. p \in 1 .. count /\ EdictAt(v, p).amount \in Nat /\ EdictAt(v, p).amount # 0
    BY <1>1, <1>6
  <2>2. p = 1
    <3> SUFFICES ASSUME p # 1
                 PROVE  FALSE
      OBVIOUS
    <3>1. 1 \in 1 .. count /\ 1 <= p
      BY <1>1, <2>1
    <3> QED
      BY <1>3, <1>6, <2>1, <3>1
  <2>3. to = {p}
    <3>1. \A k \in 1 .. count : k # p => EdictAt(v, k).output # 1
      BY <1>1, <1>3, <1>6
    <3> QED
      BY <1>6, <2>1, <3>1 DEF EdictsTo
  <2>4. taken[p] = TakenBy(v, p, held)
    <3>1. LeftOf(v, held)[p - 1] = held
      BY <2>2, AllLeftAtFirst
    <3> QED
      BY <2>3, <3>1
  <2>5. IdAt(v, p) = request.asset
    BY <2>1, EdictIdIs
  <2>6. TakenBy(v, p, held) = Lesser(EdictAt(v, p).amount, held)
    BY <2>1, <2>5 DEF TakenBy, Lesser
  <2>7. Lesser(EdictAt(v, p).amount, held) \in Nat
    BY <2>1 DEF Lesser
  <2> HIDE DEF to, taken
  <2>8. SumFunctionOnSet(taken, to) = Lesser(EdictAt(v, p).amount, held)
    <3>1. taken[p] = Lesser(EdictAt(v, p).amount, held)
      BY <2>4, <2>6
    <3>2. taken[p] \in Int
      BY <2>7, <3>1
    <3>3. SumFunctionOnSet(taken, {p}) = taken[p]
      BY <3>2, SumSingle
    <3> QED
      BY <2>3, <3>1, <3>3
  <2> QED
    BY <1>2, <2>7, <2>8
<1> QED
  BY <1>5, <1>6

\* The transfers of a transaction are those of its one Runestone, all of the asset.
LEMMA TransfersOf ==
    ASSUME request \in Requests, NEW k \in DOMAIN entries, Verified[k].transfers # None
    PROVE  \E n \in DOMAIN entries[k].outputs :
              LET v == entries[k].outputs[n].script.stone IN
              /\ IsStone(entries[k].outputs[n].script) /\ protocol # None
              /\ Edicts(v) /\ \A j \in 1 .. EdictCount(v) : EdictId(v, j) = request.asset
              /\ Verified[k].transfers =
                    [j \in 1 .. EdictCount(v) |->
                        [output |-> EdictAt(v, j).output,
                         amount |-> UnitOf(EdictAt(v, j).amount, protocol.divisibility)]]
<1> DEFINE outputs == entries[k].outputs
           stones == {n \in DOMAIN outputs : IsStone(outputs[n].script)}
           n == CHOOSE n \in stones : TRUE
           v == outputs[n].script.stone
<1>1. Verified[k].transfers = unitTransferEdicts(outputs, request.asset, protocol.divisibility)
      /\ protocol # None
  BY VerifiedIs
<1>2. /\ Cardinality(stones) = 1
      /\ v # <<>> /\ (Len(v) - 1) % 4 = 0
      /\ EdictsAllowed(v, outputs, request.asset)
      /\ Verified[k].transfers =
            [j \in 1 .. EdictCount(v) |->
                [output |-> EdictAt(v, j).output,
                 amount |-> UnitOf(EdictAt(v, j).amount, protocol.divisibility)]]
  <2> HIDE DEF outputs
  <2> QED
    BY <1>1 DEF unitTransferEdicts
<1>3. n \in stones
  <2>1. IsFiniteSet(DOMAIN outputs) /\ stones \subseteq DOMAIN outputs
    BY ValuesOf
  <2> HIDE DEF stones, outputs
  <2>2. IsFiniteSet(stones)
    BY <2>1, FS_Subset
  <2> QED
    BY <1>2, <2>2, OnlyMember
<1> HIDE DEF n
<1>4. v \in Seq(Nat)
  BY <1>3, EntryIs DEF ParsedEntry
<1>5. \A j \in 1 .. EdictCount(v) : EdictId(v, j) = request.asset
  BY <1>2 DEF EdictsAllowed
<1>6. Edicts(v)
  BY <1>2, <1>4 DEF Edicts
<1> QED
  BY <1>1, <1>2, <1>3, <1>5, <1>6

\* With one positive transfer at most, and that to output 1, its amount is what
\* output 1 is allocated, or all there is.
LEMMA AmountIs ==
    ASSUME request \in Requests, NEW parent, NEW v, Edicts(v),
           \A j \in 1 .. EdictCount(v) : EdictId(v, j) = request.asset,
           NEW d \in 0 .. 8, DOMAIN parent.transfers = 1 .. EdictCount(v),
           \A j \in 1 .. EdictCount(v) :
              /\ parent.transfers[j].amount = UnitOf(EdictAt(v, j).amount, d)
              /\ parent.transfers[j].output = EdictAt(v, j).output,
           Len(PositiveTransfers(parent)) <= 1,
           PositiveTransfers(parent) # <<>> => PositiveTransfers(parent)[1].output = 1,
           NEW outputs, NEW held \in Nat
    PROVE  /\ TransferAmount(parent) \in Nat
           /\ RestIsApart(v, outputs) =>
                UnitOf(AllocatedTo(v, outputs, 1, held), d) =
                    Lesser(TransferAmount(parent), UnitOf(held, d))
<1> DEFINE count == EdictCount(v)
           ts == parent.transfers
           P == {j \in DOMAIN ts : ts[j].amount > 0}
           Q == {j \in 1 .. count : EdictAt(v, j).amount > 0}
           positive == PositiveTransfers(parent)
<1>1. count \in Nat /\ \A j \in 1 .. count : EdictAt(v, j).amount \in Nat
  BY EdictValues
<1>2. /\ DOMAIN ts = 1 .. count
      /\ \A j \in 1 .. count : /\ ts[j].amount = UnitOf(EdictAt(v, j).amount, d)
                               /\ ts[j].output = EdictAt(v, j).output
  OBVIOUS
<1> HIDE DEF ts, count
<1>3. P = Q
  <2>1. \A j \in 1 .. count : ts[j].amount > 0 <=> EdictAt(v, j).amount > 0
    <3> SUFFICES ASSUME NEW j \in 1 .. count
                 PROVE  ts[j].amount > 0 <=> EdictAt(v, j).amount > 0
      OBVIOUS
    <3> DEFINE a == EdictAt(v, j).amount
    <3>1. a \in Nat /\ ts[j].amount = UnitOf(a, d)
      BY <1>1, <1>2
    <3> HIDE DEF a
    <3>2. UnitOf(a, d) \in Nat /\ (UnitOf(a, d) = 0 <=> a = 0)
      BY <3>1, UnitOrder
    <3> QED
      BY <3>1, <3>2 DEF a
  <2> QED
    BY <1>2, <2>1
<1>4. P \in SUBSET Int /\ IsFiniteSet(P) /\ P \subseteq 1 .. count
  <2> DEFINE C == 1 .. count
  <2>1. IsFiniteSet(C) /\ C \subseteq Int
    BY <1>1, FS_Interval
  <2>2. P \subseteq C
    BY <1>2
  <2> HIDE DEF P, C
  <2>3. P \in SUBSET Int /\ IsFiniteSet(P) /\ P \subseteq C
    BY <2>1, <2>2, FS_Subset
  <2> QED
    BY <2>3 DEF C
<1>5. positive = Selected(ts, P)
  BY DEF PositiveTransfers, ts
<1>6. RestIsApart(v, outputs) =>
        /\ Q = {} => AllocatedTo(v, outputs, 1, held) = 0
        /\ \A p : Q = {p} /\ EdictAt(v, p).output = 1 =>
             AllocatedTo(v, outputs, 1, held) = Lesser(EdictAt(v, p).amount, held)
  <2> SUFFICES ASSUME RestIsApart(v, outputs)
               PROVE  /\ Q = {} => AllocatedTo(v, outputs, 1, held) = 0
                      /\ \A p : Q = {p} /\ EdictAt(v, p).output = 1 =>
                           AllocatedTo(v, outputs, 1, held) = Lesser(EdictAt(v, p).amount, held)
    OBVIOUS
  <2>1. ASSUME Q = {}
        PROVE  AllocatedTo(v, outputs, 1, held) = 0
    <3>1. \A j \in 1 .. count : EdictAt(v, j).amount = 0
      BY <1>1, <2>1
    <3> HIDE DEF Q
    <3> QED
      BY <3>1, AllocatedToOne DEF count
  <2>2. ASSUME NEW p, Q = {p}, EdictAt(v, p).output = 1
        PROVE  AllocatedTo(v, outputs, 1, held) = Lesser(EdictAt(v, p).amount, held)
    <3>1. /\ p \in 1 .. count /\ EdictAt(v, p).amount # 0
          /\ \A k \in 1 .. count : k # p => EdictAt(v, k).amount = 0
      BY <1>1, <2>2
    <3> HIDE DEF Q
    <3> QED
      BY <2>2, <3>1, AllocatedToOne DEF count
  <2> HIDE DEF Q
  <2> QED
    BY <2>1, <2>2
<1>7. CASE positive = <<>>
  <2>1. P = {}
    <3> HIDE DEF P, positive
    <3> QED
      BY <1>4, <1>5, <1>7, SelectedIs
  <2>2. TransferAmount(parent) = 0
    BY <1>7 DEF TransferAmount, positive
  <2>3. RestIsApart(v, outputs) => AllocatedTo(v, outputs, 1, held) = 0
    BY <1>3, <1>6, <2>1
  <2>4. UnitOf(0, d) = 0 /\ UnitOf(held, d) \in Nat
    BY UnitOrder
  <2> QED
    BY <2>2, <2>3, <2>4 DEF Lesser
<1>8. CASE positive # <<>>
  <2>1. /\ Cardinality(P) \in Nat /\ Len(positive) = Cardinality(P) /\ P # {}
        /\ \A i \in 1 .. Cardinality(P) : \E n \in P : positive[i] = ts[n]
    <3> HIDE DEF P, positive
    <3>1. /\ Cardinality(P) \in Nat /\ Len(positive) = Cardinality(P)
          /\ \A i \in 1 .. Cardinality(P) : \E n \in P : positive[i] = ts[n]
      BY <1>4, <1>5, SelectedIs
    <3>2. P = {} => positive = <<>>
      BY <1>4, <1>5, SelectedIs
    <3> QED
      BY <1>8, <3>1, <3>2
  <2>2. Cardinality(P) = 1
    <3>1. Cardinality(P) # 0
      BY <1>4, <2>1, FS_EmptySet
    <3>2. Len(positive) <= 1
      OBVIOUS
    <3> HIDE DEF P, positive
    <3> QED
      BY <2>1, <3>1, <3>2
  <2>3. PICK p \in P : positive[1] = ts[p]
    <3>1. 1 \in 1 .. Cardinality(P)
      BY <2>2
    <3> HIDE DEF P, positive
    <3> QED
      BY <2>1, <3>1
  <2>4. P = {p}
    <3> DEFINE x == CHOOSE x \in P : TRUE
    <3>1. P = {x}
      <4> HIDE DEF P
      <4> QED
        BY <1>4, <2>2, OnlyMember
    <3> QED
      BY <2>3, <3>1
  <2> DEFINE a == EdictAt(v, p).amount
  <2>5. p \in 1 .. count /\ a \in Nat
    BY <1>1, <1>4
  <2>6. TransferAmount(parent) = positive[1].amount
    BY <1>8 DEF TransferAmount
  <2>7. TransferAmount(parent) = UnitOf(a, d) /\ EdictAt(v, p).output = 1
    BY <1>2, <1>8, <2>3, <2>5, <2>6
  <2>8. RestIsApart(v, outputs) => AllocatedTo(v, outputs, 1, held) = Lesser(a, held)
    <3>1. Q = {p}
      BY <1>3, <2>4
    <3> HIDE DEF Q, P
    <3> QED
      BY <1>6, <2>7, <3>1
  <2> HIDE DEF a
  <2>9. UnitOf(Lesser(a, held), d) = Lesser(UnitOf(a, d), UnitOf(held, d)) /\ UnitOf(a, d) \in Nat
    BY <2>5, UnitLesser, UnitOrder
  <2> QED
    BY <2>7, <2>8, <2>9
<1> QED
  BY <1>7, <1>8

\* What the inputs of a transaction hold.
LEMMA HeldIs ==
    ASSUME request \in Requests, NEW k \in DOMAIN entries
    PROVE  SumFunction([i \in DOMAIN entries[k].inputs |-> entries[k].inputs[i].units]) \in Nat
<1> DEFINE D == DOMAIN entries[k].inputs
           units == [i \in D |-> entries[k].inputs[i].units]
<1>1. IsFiniteSet(D)
  BY ValuesOf
<1>2. \A i \in D : units[i] \in Nat
  BY EntryIs DEF ParsedEntry, ParsedInput
<1>3. DOMAIN units = D
  OBVIOUS
<1> HIDE DEF units, D
<1>4. SumFunctionOnSet(units, D) \in Nat
  BY <1>1, <1>2, SumNatural
<1>5. SumFunction(units) \in Nat
  BY <1>3, <1>4 DEF SumFunction
<1> QED
  BY <1>5 DEF units, D

\* The output 1 of the first transaction is what the second spends, or data.
LEMMA PackageLinks ==
    ASSUME request \in Requests, Len(entries) = 2, IsPackage(Verified[1], Verified[2], protocol)
    PROVE  LET action == Verified[2].updates[1].flag
           IN  /\ action = "repay" => IsReturn(entries[1].outputs[2].script)
               /\ action # "repay" =>
                    \E i \in DOMAIN entries[2].inputs :
                        entries[2].inputs[i].outpoint = [tx |-> entries[1].tx, vout |-> 1]
<1> DEFINE parent == Verified[1]
           s == Verified[2]
           action == s.updates[1].flag
<1>1. 1 \in DOMAIN entries /\ 2 \in DOMAIN entries
  BY EntriesApart
<1>2. /\ LinkedToParent(s, parent, action)
      /\ action = "repay" => Len(parent.outputs) > 1 /\ parent.outputs[2].role = "op_return"
  BY DEF IsPackage
<1>3. CASE action = "repay"
  <2> DEFINE rows == parent.outputs
             c == Len(entries[1].outputs)
  <2>1. c \in Nat /\ DOMAIN entries[1].outputs = 1 .. c /\ DOMAIN rows = DOMAIN entries[1].outputs
    BY <1>1, EntryIs, OutputsOf
  <2>2. \E f : rows = [n \in DOMAIN rows |-> f[n]]
    <3>1. \E D, g : rows = [n \in D |-> g[n]]
      <4> DEFINE first == Prepared[1].outputs
                 updates == [j \in DOMAIN Prepared[1].updates |->
                                bindVaultOutput(Prepared[1].updates[j], entries[1].outputs, account, protocol)]
                 vaults == {updates[j].vaultOutputIndex + 1 : j \in {j \in DOMAIN updates : updates[j].bound}}
      <4>1. rows = [n \in DOMAIN first |->
                       IF n \in vaults THEN [first[n] EXCEPT !.mine = TRUE, !.role = "vault"]
                       ELSE first[n]]
        BY <1>1, VerifiedIs
      <4>2. \E g : rows = [n \in DOMAIN first |-> g[n]]
        <5> WITNESS rows
        <5> HIDE DEF vaults, first
        <5> QED
          BY <4>1
      <4> QED
        BY <4>2
    <3> QED
      BY <3>1
  <2> HIDE DEF rows, c
  <2>3. Len(rows) = c
    <3>1. rows = [n \in 1 .. c |-> rows[n]]
      BY <2>1, <2>2
    <3> QED
      BY <2>1, <3>1, FunctionIsSeq
  <2>4. 2 \in DOMAIN entries[1].outputs /\ rows[2].role = "op_return"
    BY <1>2, <1>3, <2>1, <2>3 DEF rows
  <2>5. rows[2] = OutputRow(entries[1], 2, account)
    BY <1>1, <2>4, OutputsOf DEF rows
  <2>6. OutputRole(account, entries[1].outputs[2].script) = "op_return"
    BY <2>4, <2>5 DEF OutputRow
  <2>7. IsReturn(entries[1].outputs[2].script)
    BY <2>6 DEF OutputRole
  <2> QED
    BY <1>3, <2>7
<1>4. CASE action # "repay"
  <2>1. {1, 2} = {s.inputs[i].outpoint.vout : i \in {i \in DOMAIN s.inputs : s.inputs[i].outpoint.tx = parent.tx}}
    BY <1>2, <1>4 DEF LinkedToParent
  <2>2. s.inputs = entries[2].inputs /\ parent.tx = entries[1].tx
    BY <1>1, VerifiedIs
  <2>3. PICK i \in DOMAIN entries[2].inputs : /\ entries[2].inputs[i].outpoint.tx = entries[1].tx
                                              /\ entries[2].inputs[i].outpoint.vout = 1
    <3> HIDE DEF s, parent
    <3> QED
      BY <2>1, <2>2
  <2>4. entries[2].inputs[i].outpoint \in [tx : {entries[2].inputs[i].outpoint.tx}, vout : Nat]
    BY <1>1, EntryIs DEF ParsedEntry, ParsedInput
  <2> QED
    BY <1>4, <2>3, <2>4
<1> QED
  BY <1>3, <1>4

\* The debts of the figures: a vault that is opened had none.
LEMMA DebtsOf ==
    ASSUME NEW e, NEW k, NEW ss, NEW proto
    PROVE  LET data == ss[k].updates[1]
               before == verifiedBefore(ss[k])
               native == NativeFigures(e, k, ss, proto)
           IN  /\ native.action = data.flag
               /\ native.debtAfter = DebtOf(data, proto)
               /\ native.debtBefore = IF data.flag = "open" THEN 0
                                      ELSE IF before = None THEN None ELSE before.debt
               /\ data.flag \in {"borrow", "repay"} => native.amount = TransferAmount(ss[1])
<1> DEFINE s == ss[k]
           data == s.updates[1]
<1> HIDE DEF s, data
<1> QED
  BY DEF NativeFigures, s, data

\* The UNIT amount of a native dialog is the amount of the asset that the first
\* transaction allocates to its output 1, where the rest stays apart from it; the
\* second one spends that output or, when UNIT is repaid, it burns the amount; and
\* the debt changes by it.
THEOREM UnitIsAllocated == Spec => []UnitShownIsAllocated
<1>1. ReviewInv => UnitShownIsAllocated
  <2> DEFINE native == dialog.native
             action == native.action
             stone(n) == entries[1].outputs[n].script.stone
  <2> SUFFICES ASSUME ReviewInv, IsUnitDialog
               PROVE  /\ \E n \in DOMAIN entries[1].outputs :
                           /\ IsStone(entries[1].outputs[n].script)
                           /\ RestIsApart(stone(n), entries[1].outputs) => AmountIsAllocated(stone(n))
                      /\ action = "repay" => IsReturn(entries[1].outputs[2].script)
                      /\ action # "repay" =>
                           \E i \in DOMAIN entries[2].inputs :
                             entries[2].inputs[i].outpoint = [tx |-> entries[1].tx, vout |-> 1]
                      /\ native.debtBefore # None =>
                           Near(UnitShown, IF action = "repay" THEN native.debtBefore - native.debtAfter
                                           ELSE native.debtAfter - native.debtBefore)
    BY DEF UnitShownIsAllocated
  <2> DEFINE parent == Verified[1]
             s == Verified[2]
             data == s.updates[1]
             before == verifiedBefore(s)
             amount == TransferAmount(parent)
             debt == DebtOf(data, protocol)
             d == protocol.divisibility
  <2>1. request \in Requests /\ dialog = Shown
    BY DEF ReviewInv, DialogInv, IsUnitDialog
  <2>2. /\ vaultReview(Verified, protocol) # None
        /\ native = NativeFigures(entries[vaultReview(Verified, protocol)],
                                  vaultReview(Verified, protocol), Verified, protocol)
    <3>1. Shown.native # None
      BY <2>1 DEF IsUnitDialog
    <3> QED
      BY <2>1, <3>1, NativeOf
  <2>3. action = Verified[vaultReview(Verified, protocol)].updates[1].flag
    BY <2>2, DebtsOf
  <2>4. /\ Len(entries) = 2 /\ vaultReview(Verified, protocol) = 2
        /\ ShowsOneVault(s) /\ IsPackage(parent, s, protocol)
    <3>1. action \in {"open", "borrow", "repay"}
      BY DEF IsUnitDialog
    <3> HIDE DEF action
    <3> QED
      BY <2>1, <2>2, <2>3, <3>1, ReviewedIs
  <2>5. 1 \in DOMAIN entries /\ 2 \in DOMAIN entries
    BY <2>1, <2>4, EntriesApart
  <2>6. /\ action = data.flag /\ native.debtAfter = debt
        /\ native.debtBefore = IF data.flag = "open" THEN 0 ELSE IF before = None THEN None ELSE before.debt
        /\ data.flag \in {"borrow", "repay"} => native.amount = amount
    BY <2>2, <2>4, DebtsOf
  <2>7. /\ parent.transfers # None
        /\ Len(PositiveTransfers(parent)) <= 1
        /\ PositiveTransfers(parent) # <<>> => PositiveTransfers(parent)[1].output = 1
        /\ DebtChange(s, protocol) = None \/ Near(DebtChange(s, protocol), amount)
    BY <2>4 DEF IsPackage
  <2>8. PICK n \in DOMAIN entries[1].outputs :
          LET v == entries[1].outputs[n].script.stone IN
          /\ IsStone(entries[1].outputs[n].script) /\ protocol # None
          /\ Edicts(v) /\ \A j \in 1 .. EdictCount(v) : EdictId(v, j) = request.asset
          /\ parent.transfers =
                [j \in 1 .. EdictCount(v) |->
                    [output |-> EdictAt(v, j).output,
                     amount |-> UnitOf(EdictAt(v, j).amount, protocol.divisibility)]]
    BY <2>1, <2>5, <2>7, TransfersOf
  <2>9. d \in 0 .. 8
    BY <2>1, <2>5, <2>8, EntryIs
  <2> DEFINE v == entries[1].outputs[n].script.stone
             outputs == entries[1].outputs
             held == SumFunction([i \in DOMAIN entries[1].inputs |-> entries[1].inputs[i].units])
  <2>10. held \in Nat
    BY <2>1, <2>5, HeldIs
  <2>11. /\ amount \in Nat
         /\ RestIsApart(v, outputs) =>
              UnitOf(AllocatedTo(v, outputs, 1, held), d) = Lesser(amount, UnitOf(held, d))
    <3>1. Edicts(v) /\ \A j \in 1 .. EdictCount(v) : EdictId(v, j) = request.asset
      BY <2>8
    <3>2. /\ DOMAIN parent.transfers = 1 .. EdictCount(v)
          /\ \A j \in 1 .. EdictCount(v) :
               /\ parent.transfers[j].amount = UnitOf(EdictAt(v, j).amount, d)
               /\ parent.transfers[j].output = EdictAt(v, j).output
      <4> DEFINE ts == parent.transfers
      <4>1. ts = [j \in 1 .. EdictCount(v) |->
                     [output |-> EdictAt(v, j).output, amount |-> UnitOf(EdictAt(v, j).amount, d)]]
        BY <2>8
      <4> HIDE DEF ts, v, d
      <4> QED
        <5>1. DOMAIN ts = 1 .. EdictCount(v)
          BY <4>1
        <5>2. \A j \in 1 .. EdictCount(v) : ts[j].amount = UnitOf(EdictAt(v, j).amount, d)
          BY <4>1
        <5>3. \A j \in 1 .. EdictCount(v) : ts[j].output = EdictAt(v, j).output
          BY <4>1
        <5> HIDE DEF parent
        <5> QED
          BY <5>1, <5>2, <5>3 DEF ts
    <3> HIDE DEF parent, v, d, outputs, held
    <3> QED
      BY <2>1, <2>7, <2>9, <2>10, <3>1, <3>2, AmountIs
  <2>12. debt \in Nat
    <3>1. 1 \in DOMAIN s.updates
      <4>1. Len(s.updates) = 1
        BY <2>4 DEF ShowsOneVault
      <4> QED
        BY <2>1, <2>5, <4>1, VerifiedUpdates
    <3>2. data.balance \in Nat
      BY <2>1, <2>5, <3>1, VerifiedUpdates
    <3> HIDE DEF data
    <3> QED
      BY <2>1, <2>8, <3>2, DebtIsNat
  <2>13. before # None => before.debt \in Nat
    BY <2>1, <2>4, <2>5, DecodedBefore
  <2>14. DebtChange(s, protocol) = IF action = "open" THEN debt
                                   ELSE IF before = None THEN None
                                   ELSE IF action = "repay" THEN before.debt - debt
                                   ELSE debt - before.debt
    BY <2>6 DEF DebtChange
  <2>15. UnitShown = (IF action = "open" THEN debt ELSE amount)
    <3>1. action \in {"open", "borrow", "repay"}
      BY DEF IsUnitDialog
    <3> QED
      BY <2>6, <3>1 DEF UnitShown
  <2>16. action = "open" => Near(debt, amount)
    <3> HIDE DEF action, debt, amount
    <3> QED
      BY <2>7, <2>12, <2>14, NoneAssumption
  <2>17. RestIsApart(v, outputs) => AmountIsAllocated(v)
    <3> SUFFICES ASSUME RestIsApart(v, outputs)
                 PROVE  AmountIsAllocated(v)
      OBVIOUS
    <3> DEFINE allocated == UnitOf(AllocatedTo(v, outputs, 1, held), d)
               all == UnitOf(held, d)
               shown == UnitShown
    <3>1. allocated = Lesser(amount, all)
      BY <2>11
    <3>2. all \in Nat
      BY <2>9, <2>10, UnitOrder
    <3>3. AmountIsAllocated(v) <=> IF action = "open" THEN Near(allocated, Lesser(shown, all))
                                   ELSE allocated = Lesser(shown, all)
      BY DEF AmountIsAllocated
    <3>4. shown = IF action = "open" THEN debt ELSE amount
      BY <2>15
    <3> HIDE DEF allocated, all, shown, action, debt, amount, v
    <3> QED
      BY <2>11, <2>12, <2>16, <3>1, <3>2, <3>3, <3>4 DEF Lesser, Near
  <2>18. native.debtBefore # None =>
            Near(UnitShown, IF action = "repay" THEN native.debtBefore - native.debtAfter
                            ELSE native.debtAfter - native.debtBefore)
    <3> DEFINE shown == UnitShown
               was == native.debtBefore
               is == native.debtAfter
    <3>1. /\ action = "open" => was = 0
          /\ action # "open" => was = IF before = None THEN None ELSE before.debt
          /\ is = debt /\ shown = IF action = "open" THEN debt ELSE amount
      BY <2>6, <2>15
    <3> HIDE DEF shown, was, is, action, debt, amount, before
    <3>2. CASE action = "open"
      BY <2>12, <3>1, <3>2 DEF Near, shown, was, is
    <3>3. CASE action # "open" /\ before # None
      <4> DEFINE change == IF action = "repay" THEN before.debt - debt ELSE debt - before.debt
      <4>1. change \in Int /\ DebtChange(s, protocol) = change
        BY <2>12, <2>13, <2>14, <3>3
      <4>2. Near(change, amount)
        <5> HIDE DEF change
        <5> QED
          BY <2>7, <4>1, NoneAssumption
      <4>3. Near(amount, change)
        <5> HIDE DEF change
        <5> QED
          BY <2>11, <4>1, <4>2 DEF Near
      <4>4. shown = amount /\ is = debt /\ was = before.debt
        BY <3>1, <3>3
      <4>5. Near(shown, IF action = "repay" THEN was - is ELSE is - was)
        BY <4>3, <4>4
      <4> QED
        BY <4>5 DEF shown, was, is
    <3>4. CASE action # "open" /\ before = None
      BY <3>1, <3>4 DEF was
    <3> QED
      BY <3>2, <3>3, <3>4
  <2>19. /\ action = "repay" => IsReturn(entries[1].outputs[2].script)
         /\ action # "repay" =>
              \E i \in DOMAIN entries[2].inputs :
                entries[2].inputs[i].outpoint = [tx |-> entries[1].tx, vout |-> 1]
    BY <2>1, <2>4, <2>6, PackageLinks DEF data
  <2> QED
    BY <2>8, <2>17, <2>18, <2>19
<1> QED
  BY <1>1, ReviewInit, ReviewStep, PTL DEF Spec
=============================================================================
