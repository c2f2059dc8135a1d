--------------------------- MODULE PsbtReviewProofs ---------------------------
(***************************************************************************)
(* What the review of a PSBT shows is what is signed, what is signed is an *)
(* own spend that waits out its window, and the two shapes of a leaf are   *)
(* recognized exactly, for any PSBT, account, policy and vault protocol.   *)
(***************************************************************************)
EXTENDS PsbtReview, ReviewLemmas

Accepted == \A i \in SignedInputs : ValidInput(psbt.inputs[i])
AsReviewed == inputs = [i \in SignedInputs |-> InputShown(psbt.inputs[i])]

\* Whatever is shown or signed is of inputs that Prepare accepted, as it found
\* them: nothing that signing looks up again has changed.
ReviewInv ==
    /\ case \in Cases
    /\ stage \in {"received", "prepared", "dialog", "signed", "failed"}
    /\ stage = "received" => inputs = <<>>
    /\ stage \in {"prepared", "dialog", "signed"} => Accepted /\ AsReviewed
    /\ inputs = <<>> \/ (Accepted /\ AsReviewed)
    /\ stage # "signed" => signatures = {}
    /\ signatures \subseteq
        {[input |-> i, key |-> account[resolveInputRole(psbt.inputs[i])],
          path |-> SignedPath(psbt.inputs[i]), value |-> SignedValue(psbt.inputs[i])] :
            i \in SignedInputs}

LEMMA ReviewInit == Init => ReviewInv
<1> SUFFICES ASSUME Init
             PROVE  ReviewInv
  OBVIOUS
<1>1. case \in Cases /\ stage = "received" /\ inputs = <<>> /\ signatures = {}
  BY DEF Init
<1> QED
  BY <1>1 DEF ReviewInv

\* Nothing about a case changes: the lookups give what they gave.
LEMMA SameCase ==
    ASSUME case' = case
    PROVE  /\ Accepted' = Accepted
           /\ SignedInputs' = SignedInputs /\ psbt' = psbt /\ account' = account
           /\ \A i : InputShown(psbt.inputs[i])' = InputShown(psbt.inputs[i])
           /\ \A i : SignedPath(psbt.inputs[i])' = SignedPath(psbt.inputs[i])
           /\ \A i : resolveInputRole(psbt.inputs[i])' = resolveInputRole(psbt.inputs[i])
<1>1. psbt' = psbt /\ account' = account /\ SignedInputs' = SignedInputs
  BY DEF psbt, account, SignedInputs
<1>2. \A i : resolveInputRole(psbt.inputs[i])' = resolveInputRole(psbt.inputs[i])
  <2>1. \A x : RolesForAddress(x)' = RolesForAddress(x)
    BY <1>1 DEF RolesForAddress
  <2> QED
    BY <1>1, <2>1 DEF resolveInputRole
<1>3. \A i : Verification(psbt.inputs[i], resolveInputRole(psbt.inputs[i]))'
                = Verification(psbt.inputs[i], resolveInputRole(psbt.inputs[i]))
  <2>1. /\ \A x, y : OwnTimeoutLeaves(x, y)' = OwnTimeoutLeaves(x, y)
        /\ \A x, y : OwnCosignLeaves(x, y)' = OwnCosignLeaves(x, y)
    BY <1>1 DEF OwnTimeoutLeaves, OwnCosignLeaves
  <2>2. \A x, y, z : ScriptPathOwnership(x, y, z)' = ScriptPathOwnership(x, y, z)
    BY <2>1 DEF ScriptPathOwnership
  <2>3. \A x, y : OwnAccountOutput(x, y)' = OwnAccountOutput(x, y)
    BY <1>1 DEF OwnAccountOutput
  <2> QED
    BY <1>1, <1>2, <2>2, <2>3 DEF Verification
<1>4. \A x, y : TimeoutPolicy(x, y)' = TimeoutPolicy(x, y)
  BY <1>1 DEF TimeoutPolicy
<1>5. \A i : ValidInput(psbt.inputs[i])' = ValidInput(psbt.inputs[i])
  BY <1>1, <1>2, <1>3, <1>4 DEF ValidInput
<1>6. \A i : InputShown(psbt.inputs[i])' = InputShown(psbt.inputs[i])
  BY <1>1, <1>3 DEF InputShown
<1>7. \A i : SignedPath(psbt.inputs[i])' = SignedPath(psbt.inputs[i])
  BY <1>3 DEF SignedPath
<1> QED
  BY <1>1, <1>2, <1>5, <1>6, <1>7 DEF Accepted

LEMMA ReviewStep == ReviewInv /\ [Next]_vars => ReviewInv'
<1> SUFFICES ASSUME ReviewInv, [Next]_vars
             PROVE  ReviewInv'
  OBVIOUS
<1>1. case' = case
  BY DEF Next, Prepare, Verify, Sign, Fail, vars
<1>2. CASE Prepare
  BY <1>1, <1>2, SameCase DEF Prepare, ReviewInv, AsReviewed, Accepted
<1>3. CASE Verify
  BY <1>1, <1>3, SameCase DEF Verify, ReviewInv, AsReviewed
<1>4. CASE Sign
  BY <1>1, <1>4, SameCase DEF Sign, ReviewInv, AsReviewed, shown
<1>5. CASE Fail
  BY <1>1, <1>5, SameCase DEF Fail, ReviewInv, AsReviewed, shown
<1>6. CASE UNCHANGED vars
  BY <1>1, <1>6, SameCase DEF vars, ReviewInv, AsReviewed, shown
<1> QED
  BY <1>2, <1>3, <1>4, <1>5, <1>6 DEF Next

-----------------------------------------------------------------------------
\* The first of some indexes is one of them.
LEMMA FirstIsMember ==
    ASSUME NEW I \in SUBSET Nat, I # {}
    PROVE  FirstOf(I) \in I
BY Least DEF FirstOf

\* A role that is found is a role.
LEMMA SomeRole ==
    ASSUME NEW input, resolveInputRole(input) # None
    PROVE  resolveInputRole(input) \in Roles
  BY DEF resolveInputRole, Roles

\* The three ways in which an accepted input is an own spend.
OwnSpend(input, v) ==
    LET script == input.witnessUtxo.script
        role == resolveInputRole(input)
    IN
    \/ /\ v.kind = "account" /\ v.leaf = None
       /\ script = OutputScriptForRole(account, role)
    \/ /\ v.kind \in {"timeout", "cosign"} /\ role = "vault"
       /\ v.leaf # None /\ IsTaproot(script) /\ BagIn(v.leaf, script.leaves)
       /\ v.kind = "timeout" =>
            matchTimeoutLeaf(v.leaf) # None /\ matchTimeoutLeaf(v.leaf).operator = account.vault
       /\ v.kind = "cosign" =>
            /\ matchCosignLeaf(v.leaf) # None /\ matchCosignLeaf(v.leaf).client = account.vault
            /\ v.guard = matchCosignLeaf(v.leaf).guard
            /\ isKnownGuardianPubkey(case.network, v.guard)

\* A script path found for an input is by one of its leaves, in the tree spent.
LEMMA ScriptPathIsOwn ==
    ASSUME NEW input, NEW script, NEW role, DOMAIN input.tapLeafScript \subseteq Nat,
           ScriptPathOwnership(input, script, role) # None
    PROVE  LET v == ScriptPathOwnership(input, script, role) IN
           /\ role = "vault" /\ IsTaproot(script)
           /\ \E l \in DOMAIN input.tapLeafScript :
                v.leaf = input.tapLeafScript[l].script /\ BagIn(v.leaf, script.leaves)
           /\ \/ /\ v.kind = "timeout" /\ v.guard = None
                 /\ matchTimeoutLeaf(v.leaf) # None
                 /\ matchTimeoutLeaf(v.leaf).operator = account.vault
              \/ /\ v.kind = "cosign"
                 /\ matchCosignLeaf(v.leaf) # None /\ matchCosignLeaf(v.leaf).client = account.vault
                 /\ v.guard = matchCosignLeaf(v.leaf).guard
                 /\ isKnownGuardianPubkey(case.network, v.guard)
<1> DEFINE timeouts == OwnTimeoutLeaves(input, script)
           cosigns == OwnCosignLeaves(input, script)
           Leaf(I) == input.tapLeafScript[FirstOf(I)].script
           v == ScriptPathOwnership(input, script, role)
<1>1. role = "vault" /\ IsTaproot(script)
  BY DEF ScriptPathOwnership
<1>2. \/ timeouts # {} /\ v = [kind |-> "timeout", leaf |-> Leaf(timeouts), guard |-> None]
      \/ /\ cosigns # {} /\ isKnownGuardianPubkey(case.network, matchCosignLeaf(Leaf(cosigns)).guard)
         /\ v = [kind |-> "cosign", leaf |-> Leaf(cosigns),
                 guard |-> matchCosignLeaf(Leaf(cosigns)).guard]
  BY <1>1 DEF ScriptPathOwnership
<1>3. timeouts \in SUBSET Nat /\ cosigns \in SUBSET Nat
  BY DEF OwnTimeoutLeaves, OwnCosignLeaves
<1>4. CASE timeouts # {} /\ v = [kind |-> "timeout", leaf |-> Leaf(timeouts), guard |-> None]
  <2>1. FirstOf(timeouts) \in timeouts
    BY <1>3, <1>4, FirstIsMember
  <2>2. /\ FirstOf(timeouts) \in DOMAIN input.tapLeafScript
        /\ matchTimeoutLeaf(Leaf(timeouts)) # None
        /\ matchTimeoutLeaf(Leaf(timeouts)).operator = account.vault
        /\ BagIn(Leaf(timeouts), script.leaves)
    BY <2>1 DEF OwnTimeoutLeaves, Commits
  <2>3. v.kind = "timeout" /\ v.leaf = Leaf(timeouts) /\ v.guard = None
    BY <1>4
  <2> QED
    BY <1>1, <2>2, <2>3
<1>5. CASE /\ cosigns # {} /\ isKnownGuardianPubkey(case.network, matchCosignLeaf(Leaf(cosigns)).guard)
           /\ v = [kind |-> "cosign", leaf |-> Leaf(cosigns),
                   guard |-> matchCosignLeaf(Leaf(cosigns)).guard]
  <2>1. FirstOf(cosigns) \in cosigns
    BY <1>3, <1>5, FirstIsMember
  <2>2. /\ FirstOf(cosigns) \in DOMAIN input.tapLeafScript
        /\ matchCosignLeaf(Leaf(cosigns)) # None
        /\ matchCosignLeaf(Leaf(cosigns)).client = account.vault
        /\ BagIn(Leaf(cosigns), script.leaves)
    BY <2>1 DEF OwnCosignLeaves, Commits
  <2>3. /\ v.kind = "cosign" /\ v.leaf = Leaf(cosigns)
        /\ v.guard = matchCosignLeaf(Leaf(cosigns)).guard
    BY <1>5
  <2> QED
    BY <1>1, <1>5, <2>2, <2>3
<1> QED
  BY <1>2, <1>4, <1>5

\* What LeavesAssumption says of an input.
LEMMA LeavesOfCase ==
    ASSUME NEW c \in Cases, NEW j \in DOMAIN c.psbt.inputs
    PROVE  /\ DOMAIN c.psbt.inputs[j].tapLeafScript \subseteq Nat
           /\ \A l \in DOMAIN c.psbt.inputs[j].tapLeafScript :
                 c.psbt.inputs[j].tapLeafScript[l].script # None
  BY LeavesAssumption

\* An accepted input is an own spend, of the value it claims.
LEMMA AcceptedIsOwn ==
    ASSUME case \in Cases, NEW i \in SignedInputs, ValidInput(psbt.inputs[i])
    PROVE  LET input == psbt.inputs[i]
               v == Verification(input, resolveInputRole(input))
           IN  /\ resolveInputRole(input) \in Roles
               /\ OwnSpend(input, v)
               /\ v.kind = "timeout" => TimeoutPolicy(input, matchTimeoutLeaf(v.leaf).window)
               /\ SignedValue(input) = input.witnessUtxo.value
<1> DEFINE input == psbt.inputs[i]
           role == resolveInputRole(input)
           script == input.witnessUtxo.script
           v == Verification(input, role)
<1>1. /\ role # None /\ v # None
      /\ v.kind = "timeout" => TimeoutPolicy(input, matchTimeoutLeaf(v.leaf).window)
      /\ input.nonWitnessUtxo \in {None, input.witnessUtxo}
  BY DEF ValidInput
<1>2. role \in Roles
  BY <1>1, SomeRole
<1>3. SignedValue(input) = input.witnessUtxo.value
  BY <1>1 DEF SignedValue
<1>4. CASE OwnAccountOutput(input, role)
  <2>1. v = [kind |-> "account", leaf |-> None, guard |-> None]
    BY <1>4 DEF Verification
  <2>2. OwnSpend(input, v)
    BY <1>4, <2>1 DEF OwnSpend, OwnAccountOutput
  <2> QED
    BY <1>1, <1>2, <1>3, <2>2
<1>5. CASE ~OwnAccountOutput(input, role)
  <2>1. v = ScriptPathOwnership(input, script, role)
    BY <1>1, <1>5 DEF Verification
  <2>2. /\ DOMAIN input.tapLeafScript \subseteq Nat
        /\ \A l \in DOMAIN input.tapLeafScript : input.tapLeafScript[l].script # None
    <3>1. i \in DOMAIN case.psbt.inputs
      BY DEF psbt, SignedInputs
    <3>2. /\ DOMAIN case.psbt.inputs[i].tapLeafScript \subseteq Nat
          /\ \A l \in DOMAIN case.psbt.inputs[i].tapLeafScript :
                case.psbt.inputs[i].tapLeafScript[l].script # None
      BY <3>1, LeavesOfCase
    <3> QED
      BY <3>2 DEF psbt
  <2> HIDE DEF v, role, script, input
  <2>3. OwnSpend(input, v)
    BY <1>1, <2>1, <2>2, ScriptPathIsOwn DEF OwnSpend, role, script
  <2> QED
    BY <1>1, <1>2, <1>3, <2>3 DEF v, role, input
<1> QED
  BY <1>4, <1>5

-----------------------------------------------------------------------------
\* A signature is of an accepted input, at the path and the value it was
\* reviewed with.
LEMMA SignatureOfReview ==
    ASSUME ReviewInv, NEW s \in signatures
    PROVE  \E i \in SignedInputs :
            LET input == psbt.inputs[i]
                v == Verification(input, resolveInputRole(input))
            IN  /\ s.input = i /\ s.key = account[resolveInputRole(input)]
                /\ s.path = v.leaf /\ s.value = input.witnessUtxo.value
                /\ resolveInputRole(input) \in Roles /\ OwnSpend(input, v)
                /\ v.kind = "timeout" => TimeoutPolicy(input, matchTimeoutLeaf(v.leaf).window)
                /\ inputs[i].kind = v.kind /\ inputs[i].guard = v.guard
                /\ inputs[i].value = input.witnessUtxo.value
<1>1. PICK i \in SignedInputs :
        s = [input |-> i, key |-> account[resolveInputRole(psbt.inputs[i])],
             path |-> SignedPath(psbt.inputs[i]), value |-> SignedValue(psbt.inputs[i])]
  BY DEF ReviewInv
<1> DEFINE input == psbt.inputs[i]
           v == Verification(input, resolveInputRole(input))
<1>2. case \in Cases /\ Accepted /\ AsReviewed
  BY DEF ReviewInv
<1>3. ValidInput(input) /\ inputs[i] = InputShown(input)
  BY <1>2 DEF Accepted, AsReviewed
<1>4. /\ resolveInputRole(input) \in Roles /\ OwnSpend(input, v)
      /\ v.kind = "timeout" => TimeoutPolicy(input, matchTimeoutLeaf(v.leaf).window)
      /\ SignedValue(input) = input.witnessUtxo.value
  BY <1>2, <1>3, AcceptedIsOwn
<1>5. /\ inputs[i].kind = v.kind /\ inputs[i].guard = v.guard
      /\ inputs[i].value = input.witnessUtxo.value
  BY <1>3 DEF InputShown
<1>6. s.path = v.leaf
  BY <1>1 DEF SignedPath
<1> QED
  BY <1>1, <1>4, <1>5, <1>6

\* A signature spends an output of the key that makes it, or one whose tree has
\* the leaf signed for: for any tree, leaves and guardian policy.
THEOREM ReviewSignsOwn == Spec => []SignaturesAreOwnSpends
<1>1. ReviewInv => SignaturesAreOwnSpends
  <2> SUFFICES ASSUME ReviewInv, NEW s \in signatures
               PROVE  LET script == psbt.inputs[s.input].witnessUtxo.script IN
                      IF s.path = None
                      THEN script \in {Wpkh(s.key), Taproot(s.key, {})}
                      ELSE /\ IsTaproot(script) /\ BagIn(s.path, script.leaves)
                           /\ s.key = account.vault
                           /\ \/ matchTimeoutLeaf(s.path) # None /\ matchTimeoutLeaf(s.path).operator = s.key
                              \/ /\ matchCosignLeaf(s.path) # None
                                 /\ matchCosignLeaf(s.path).client = s.key
                                 /\ isKnownGuardianPubkey(case.network, matchCosignLeaf(s.path).guard)
    BY DEF SignaturesAreOwnSpends
  <2>1. PICK i \in SignedInputs :
          LET input == psbt.inputs[i]
              v == Verification(input, resolveInputRole(input))
          IN  /\ s.input = i /\ s.key = account[resolveInputRole(input)]
              /\ s.path = v.leaf
              /\ resolveInputRole(input) \in Roles /\ OwnSpend(input, v)
    BY SignatureOfReview
  <2> DEFINE input == psbt.inputs[i]
             role == resolveInputRole(input)
             v == Verification(input, role)
             script == input.witnessUtxo.script
  <2>2. s.input = i /\ s.key = account[role] /\ s.path = v.leaf /\ role \in Roles
    BY <2>1
  <2>3. OwnSpend(input, v)
    BY <2>1
  <2> HIDE DEF v, role
  <2>4. CASE v.leaf = None /\ script = OutputScriptForRole(account, role)
    <3>1. script \in {Wpkh(account[role]), Taproot(account[role], {})}
      BY <2>2, <2>4 DEF OutputScriptForRole
    <3> QED
      BY <2>2, <2>4, <3>1
  <2>5. CASE ~(v.leaf = None /\ script = OutputScriptForRole(account, role))
    <3>1. /\ role = "vault" /\ v.kind \in {"timeout", "cosign"}
          /\ v.leaf # None /\ IsTaproot(script) /\ BagIn(v.leaf, script.leaves)
          /\ v.kind = "timeout" =>
                matchTimeoutLeaf(v.leaf) # None /\ matchTimeoutLeaf(v.leaf).operator = account.vault
          /\ v.kind = "cosign" =>
                /\ matchCosignLeaf(v.leaf) # None /\ matchCosignLeaf(v.leaf).client = account.vault
                /\ v.guard = matchCosignLeaf(v.leaf).guard
                /\ isKnownGuardianPubkey(case.network, v.guard)
      BY <2>3, <2>5 DEF OwnSpend, role
    <3> QED
      BY <2>2, <3>1
  <2> QED
    BY <2>4, <2>5
<1> QED
  BY <1>1, ReviewInit, ReviewStep, PTL DEF Spec

\* The dialog says by which path, with which guardian and at which value each
\* input is spent, though signing looks the path and the value up again.
THEOREM ReviewShowsSigned == Spec => []ShownIsSigned
<1>1. ReviewInv => ShownIsSigned
  <2> SUFFICES ASSUME ReviewInv, NEW s \in signatures
               PROVE  LET v == inputs[s.input] IN
                      /\ v.value = s.value
                      /\ (v.kind = "account") <=> (s.path = None)
                      /\ v.kind = "timeout" => matchTimeoutLeaf(s.path) # None
                      /\ v.kind = "cosign" => matchCosignLeaf(s.path).guard = v.guard
    BY DEF ShownIsSigned
  <2>1. PICK i \in SignedInputs :
          LET input == psbt.inputs[i]
              v == Verification(input, resolveInputRole(input))
          IN  /\ s.input = i /\ s.path = v.leaf /\ s.value = input.witnessUtxo.value
              /\ OwnSpend(input, v)
              /\ inputs[i].kind = v.kind /\ inputs[i].guard = v.guard
              /\ inputs[i].value = input.witnessUtxo.value
    BY SignatureOfReview
  <2> QED
    BY <2>1 DEF OwnSpend
<1> QED
  BY <1>1, ReviewInit, ReviewStep, PTL DEF Spec

-----------------------------------------------------------------------------
tx == [sequences |-> [i \in DOMAIN psbt.inputs |-> psbt.inputs[i].sequence],
       outputs |-> psbt.outputs]

\* Between Prepare and Verify the dialog has the vault states as decoded, and
\* counts as own what pays an address of the account.
DecodedInv ==
    /\ stage = "prepared" =>
        /\ returns = {decodeReturn(tx, n, account) : n \in ReturnIndexes(tx, account)}
        /\ mine = {n \in 0 .. Len(psbt.outputs) - 1 :
                        OutputRole(account, OutputAt(psbt.outputs, n).script) \in Roles}
    /\ stage \in {"received", "prepared"} => before = {}

OwnInv == ReviewInv /\ DecodedInv /\ MineIsOwn /\ BeforeIsOwnVault

LEMMA OwnInit == Init => OwnInv
  BY ReviewInit DEF Init, OwnInv, DecodedInv, MineIsOwn, BeforeIsOwnVault

\* What OutputsAssumption says of the case under review.
LEMMA CaseParsed ==
    ASSUME case \in Cases
    PROVE  /\ Parsed(psbt.outputs)
           /\ case.protocol # None =>
                \A g \in DOMAIN case.protocol.guardians : case.protocol.guardians[g] \in Keys
           /\ \A i \in SignedInputs :
                LET input == psbt.inputs[i] IN
                input.prior # None =>
                    /\ Parsed(input.prior.outputs)
                    /\ input.vout \in Nat /\ HasOutput(input.prior.outputs, input.vout)
                    /\ OutputAt(input.prior.outputs, input.vout) = input.witnessUtxo
  BY OutputsAssumption DEF psbt, SignedInputs

LEMMA OwnScriptIs == \A script : OwnScript(script) <=> OwnScriptOf(account, script)
  BY DEF OwnScript, OwnScriptOf

\* Each decoded state names an own output, bound or not.
LEMMA DecodedIsOwn ==
    ASSUME ReviewInv, DecodedInv, stage = "prepared", NEW data \in returns
    PROVE  LET state == bindVaultOutput(data, psbt.outputs, account, case.protocol)
               index == state.vaultOutputIndex
           IN  /\ state.bound \in BOOLEAN
               /\ (state.bound \/ index # None) => OwnOutput(index)
               /\ (~state.bound /\ index # None) => index \in mine
<1>1. Parsed(psbt.outputs) /\ tx.outputs = psbt.outputs
  BY CaseParsed DEF ReviewInv, tx
<1>2. PICK n \in ReturnIndexes(tx, account) : data = decodeReturn(tx, n, account)
  BY DEF DecodedInv
<1>3. DecodedState(data, psbt.outputs, account)
  BY <1>1, <1>2, DecodeState
<1> DEFINE state == bindVaultOutput(data, psbt.outputs, account, case.protocol)
           index == state.vaultOutputIndex
<1>4. /\ state.bound \in BOOLEAN
      /\ (state.bound \/ index # None) =>
            /\ index \in 0 .. Len(psbt.outputs) - 1
            /\ OwnScriptOf(account, OutputAt(psbt.outputs, index).script)
      /\ (~state.bound /\ index # None) =>
            OutputRole(account, OutputAt(psbt.outputs, index).script) = "vault"
  BY <1>1, <1>3, CaseParsed, BoundIsOwn DEF ReviewInv
<1> HIDE DEF state
<1>5. (~state.bound /\ index # None) => index \in mine
  BY <1>4 DEF DecodedInv, Roles
<1> QED
  BY <1>4, <1>5, OwnScriptIs DEF OwnOutput, state

\* A prior state is of the very output its input spends, which is own.
LEMMA PriorIsOwn ==
    ASSUME case \in Cases, NEW i \in SignedInputs, PriorState(i) # None
    PROVE  LET input == psbt.inputs[i] IN
           /\ input.prior # None
           /\ PriorState(i).vaultOutputIndex = input.vout
           /\ input.witnessUtxo.value = OutputAt(input.prior.outputs, input.vout).value
           /\ OwnScript(input.witnessUtxo.script)
<1> DEFINE input == psbt.inputs[i]
           found == ReturnIndexes(input.prior, account)
           data == decodeReturn(input.prior, CHOOSE n \in found : TRUE, account)
           state == bindVaultOutput(data, input.prior.outputs, account, case.protocol)
<1>1. /\ input.prior # None
      /\ \E n \in found : found = {n}
      /\ PriorState(i) = state /\ state.vaultOutputIndex = input.vout
  BY DEF PriorState, previousVaultState
<1>2. /\ Parsed(input.prior.outputs) /\ input.vout \in Nat
      /\ OutputAt(input.prior.outputs, input.vout) = input.witnessUtxo
  BY <1>1, CaseParsed
<1>3. (CHOOSE n \in found : TRUE) \in found
  BY <1>1
<1>4. DecodedState(data, input.prior.outputs, account)
  <2> HIDE DEF found
  <2> QED
    BY <1>2, <1>3, DecodeState DEF found
<1> HIDE DEF data
<1>5. state.vaultOutputIndex # None =>
        OwnScriptOf(account, OutputAt(input.prior.outputs, state.vaultOutputIndex).script)
  BY <1>2, <1>4, CaseParsed, BoundIsOwn
<1> HIDE DEF state
<1> QED
  BY <1>1, <1>2, <1>5, OwnScriptIs, NoneAssumption

\* What is own does not change during a review.
LEMMA SameOwn ==
    ASSUME case' = case
    PROVE  /\ \A n : OwnOutput(n)' = OwnOutput(n)
           /\ \A script : OwnScript(script)' = OwnScript(script)
           /\ psbt' = psbt /\ account' = account /\ tx' = tx
<1>1. psbt' = psbt /\ account' = account
  BY DEF psbt, account
<1>2. \A script : OwnScript(script)' = OwnScript(script)
  BY <1>1 DEF OwnScript
<1> QED
  BY <1>1, <1>2 DEF OwnOutput, tx

LEMMA OwnStep == OwnInv /\ [Next]_vars => OwnInv'
<1> SUFFICES ASSUME OwnInv, [Next]_vars
             PROVE  OwnInv'
  OBVIOUS
<1>1. case' = case /\ ReviewInv /\ ReviewInv'
  BY ReviewStep DEF OwnInv, Next, Prepare, Verify, Sign, Fail, vars
<1>2. CASE Prepare
  <2>1. DecodedInv'
    BY <1>1, <1>2, SameOwn DEF Prepare, DecodedInv, OwnInv, tx
  <2>2. MineIsOwn' /\ BeforeIsOwnVault'
    BY <1>2 DEF Prepare, MineIsOwn, BeforeIsOwnVault, OwnInv, DecodedInv
  <2> QED
    BY <1>1, <2>1, <2>2 DEF OwnInv
<1>3. CASE Verify
  <2> DEFINE bound == {bindVaultOutput(data, psbt.outputs, account, case.protocol) : data \in returns}
             priors == {i \in SignedInputs : SpendsVault(i) /\ PriorState(i) # None}
  <2>1. /\ stage = "prepared" /\ stage' = "dialog" /\ inputs' = inputs /\ returns' = bound
        /\ mine' = mine \cup {data.vaultOutputIndex : data \in {d \in bound : d.bound}}
        /\ before' \in {{}, {PriorState(i) : i \in priors}}
    BY <1>3 DEF Verify
  <2>2. DecodedInv'
    BY <2>1 DEF DecodedInv
  <2>3. ASSUME NEW d \in bound
        PROVE  /\ d.bound \in BOOLEAN
               /\ (d.bound \/ d.vaultOutputIndex # None) => OwnOutput(d.vaultOutputIndex)
               /\ (~d.bound /\ d.vaultOutputIndex # None) => d.vaultOutputIndex \in mine
    BY <1>1, <2>1, DecodedIsOwn DEF OwnInv
  <2>4. \A n \in mine : OwnOutput(n)
    BY <2>1, RoleIsOwn, OwnScriptIs DEF OwnInv, DecodedInv, OwnOutput
  <2>5. MineIsOwn'
    <3> HIDE DEF bound
    <3>1. \A n \in mine' : OwnOutput(n)
      BY <2>1, <2>3, <2>4
    <3>2. \A d \in bound : d.vaultOutputIndex # None =>
            d.vaultOutputIndex \in mine' /\ OwnOutput(d.vaultOutputIndex)
      BY <2>1, <2>3
    <3> QED
      BY <1>1, <2>1, <3>1, <3>2, SameOwn DEF MineIsOwn
  <2>6. ASSUME NEW i \in priors
        PROVE  /\ i \in DOMAIN inputs /\ psbt.inputs[i].prior # None
               /\ PriorState(i).vaultOutputIndex = psbt.inputs[i].vout
               /\ inputs[i].value = OutputAt(psbt.inputs[i].prior.outputs, psbt.inputs[i].vout).value
               /\ OwnScript(psbt.inputs[i].witnessUtxo.script)
    BY <1>1, <2>1, PriorIsOwn DEF ReviewInv, AsReviewed, InputShown
  <2>7. BeforeIsOwnVault'
    <3> HIDE DEF priors
    <3>1. \A state \in before' : \E i \in DOMAIN inputs :
            /\ psbt.inputs[i].prior # None
            /\ state.vaultOutputIndex = psbt.inputs[i].vout
            /\ inputs[i].value = OutputAt(psbt.inputs[i].prior.outputs, state.vaultOutputIndex).value
            /\ OwnScript(psbt.inputs[i].witnessUtxo.script)
      BY <2>1, <2>6
    <3> QED
      BY <1>1, <2>1, <3>1, SameOwn DEF BeforeIsOwnVault
  <2> QED
    BY <1>1, <2>2, <2>5, <2>7 DEF OwnInv
<1>4. CASE stage' \in {"signed", "failed"} /\ (stage' = "signed" => stage = "dialog") /\ UNCHANGED shown
  BY <1>1, <1>4, SameOwn DEF OwnInv, DecodedInv, MineIsOwn, BeforeIsOwnVault, shown
<1>5. CASE UNCHANGED vars
  BY <1>1, <1>5, SameOwn DEF OwnInv, DecodedInv, MineIsOwn, BeforeIsOwnVault, vars, shown
<1> QED
  BY <1>2, <1>3, <1>4, <1>5 DEF Next, Sign, Fail

\* Whatever a dialog counts as the user's own, the collateral of a vault
\* included, pays the account or a tree its vault key cosigns for.
THEOREM ReviewCountsOwn == Spec => []MineIsOwn
  BY OwnInit, OwnStep, PTL DEF Spec, OwnInv

\* The vault state before the transaction is that of an own output which one of
\* its signed inputs spends.
THEOREM ReviewComparesOwn == Spec => []BeforeIsOwnVault
  BY OwnInit, OwnStep, PTL DEF Spec, OwnInv

-----------------------------------------------------------------------------
TypeInv == OwnInv /\ TypeOK

\* The keys of an account are keys.
LEMMA AccountKeys ==
    ASSUME case \in Cases, NEW role \in Roles
    PROVE  account[role] \in Keys
  BY CasesAssumption DEF account

\* The guardian of a cosign leaf is a key.
LEMMA CosignGuardIsKey ==
    ASSUME NEW leaf, matchCosignLeaf(leaf) # None
    PROVE  matchCosignLeaf(leaf).guard \in Keys
  BY DEF matchCosignLeaf

\* What the dialog says of an accepted input.
LEMMA ShownTyped ==
    ASSUME case \in Cases, Accepted, NEW i \in SignedInputs
    PROVE  LET v == InputShown(psbt.inputs[i]) IN
           v.kind \in VerificationKinds /\ v.guard \in Keys \cup {None} /\ v.value \in Nat
<1> DEFINE input == psbt.inputs[i]
           role == resolveInputRole(input)
           v == Verification(input, role)
<1>1. ValidInput(input) /\ i \in DOMAIN case.psbt.inputs
  BY DEF Accepted, SignedInputs, psbt
<1>2. OwnSpend(input, v)
  BY <1>1, AcceptedIsOwn
<1>3. input.witnessUtxo # None
  BY <1>1 DEF ValidInput
<1>4. input.witnessUtxo.value \in Nat
  BY <1>1, <1>3, ValuesAssumption DEF psbt
<1>5. v.kind = "cosign" => v.guard \in Keys
  BY <1>2, CosignGuardIsKey DEF OwnSpend
<1>6. v.kind # "cosign" => v.guard = None
  <2>1. CASE OwnAccountOutput(input, role)
    BY <2>1 DEF Verification
  <2>2. CASE ~OwnAccountOutput(input, role)
    <3>1. v # None /\ v = ScriptPathOwnership(input, input.witnessUtxo.script, role)
      BY <1>1, <2>2 DEF Verification, ValidInput
    <3>2. DOMAIN input.tapLeafScript \subseteq Nat
      BY <1>1, LeavesOfCase DEF psbt
    <3> HIDE DEF v, role, input
    <3> QED
      BY <3>1, <3>2, ScriptPathIsOwn
  <2> QED
    BY <2>1, <2>2
<1>7. v.kind \in VerificationKinds
  BY <1>2 DEF OwnSpend, VerificationKinds
<1> HIDE DEF v
<1>8. InputShown(input) = [kind |-> v.kind, guard |-> v.guard, value |-> input.witnessUtxo.value]
  BY DEF InputShown, v
<1> QED
  BY <1>4, <1>5, <1>6, <1>7, <1>8

LEMMA TypeInit == Init => TypeInv
  BY OwnInit DEF Init, TypeInv, TypeOK

\* A decoded state names an output, or none.
LEMMA DecodedTyped ==
    ASSUME ReviewInv, NEW n \in ReturnIndexes(tx, account)
    PROVE  decodeReturn(tx, n, account).vaultOutputIndex \in 0 .. Len(psbt.outputs) - 1 \cup {None}
<1>1. Parsed(tx.outputs) /\ tx.outputs = psbt.outputs
  BY CaseParsed DEF ReviewInv, tx
<1> QED
  BY <1>1, DecodeState DEF DecodedState, PaysVault

\* So does a bound one.
LEMMA BoundTyped ==
    ASSUME ReviewInv, DecodedInv, stage = "prepared", NEW data \in returns
    PROVE  LET state == bindVaultOutput(data, psbt.outputs, account, case.protocol)
               index == state.vaultOutputIndex
           IN  (state.bound \/ index # None) => index \in 0 .. Len(psbt.outputs) - 1
<1>1. Parsed(psbt.outputs) /\ tx.outputs = psbt.outputs
  BY CaseParsed DEF ReviewInv, tx
<1>2. PICK n \in ReturnIndexes(tx, account) : data = decodeReturn(tx, n, account)
  BY DEF DecodedInv
<1>3. DecodedState(data, psbt.outputs, account)
  BY <1>1, <1>2, DecodeState
<1> QED
  BY <1>1, <1>3, CaseParsed, BoundIsOwn DEF ReviewInv

LEMMA TypeStep == TypeInv /\ [Next]_vars => TypeInv'
<1> SUFFICES ASSUME TypeInv, [Next]_vars
             PROVE  TypeInv'
  OBVIOUS
<1>1. /\ OwnInv /\ OwnInv' /\ TypeOK /\ ReviewInv /\ ReviewInv' /\ DecodedInv
      /\ case' = case /\ psbt' = psbt /\ account' = account /\ SignedInputs' = SignedInputs
  BY OwnStep, SameCase DEF TypeInv, OwnInv, Next, Prepare, Verify, Sign, Fail, vars
<1> DEFINE Indexes == 0 .. Len(psbt.outputs) - 1
           InputsTyped == \A i \in DOMAIN inputs :
                            /\ i \in SignedInputs /\ inputs[i].kind \in VerificationKinds
                            /\ inputs[i].guard \in Keys \cup {None} /\ inputs[i].value \in Nat
           ReturnsTyped == \A data \in returns : data.vaultOutputIndex \in Indexes \cup {None}
           SignaturesTyped == \A s \in signatures : s.input \in SignedInputs /\ s.key \in Keys
<1>2. InputsTyped'
  <2>1. CASE inputs' = <<>>
    BY <2>1
  <2>2. CASE inputs' # <<>>
    <3>1. inputs' = [i \in SignedInputs |-> InputShown(psbt.inputs[i])] /\ case \in Cases /\ Accepted
      BY <1>1, <2>2, SameCase DEF ReviewInv, AsReviewed
    <3> QED
      BY <1>1, <3>1, ShownTyped
  <2> QED
    BY <2>1, <2>2
<1>3. SignaturesTyped'
  <2> SUFFICES ASSUME NEW s \in signatures'
               PROVE  s.input \in SignedInputs /\ s.key \in Keys
    BY <1>1
  <2>1. case \in Cases
    BY <1>1 DEF ReviewInv
  <2>2. CASE signatures' = signatures
    BY <1>1, <2>2 DEF TypeOK
  <2>3. CASE signatures' # signatures
    <3>1. stage = "dialog" /\ \E i \in SignedInputs :
            s.input = i /\ s.key = account[resolveInputRole(psbt.inputs[i])]
      BY <2>3 DEF Next, Prepare, Verify, Sign, Fail, vars
    <3>2. \A i \in SignedInputs : resolveInputRole(psbt.inputs[i]) \in Roles
      BY <1>1, <2>1, <3>1, AcceptedIsOwn DEF ReviewInv, Accepted
    <3> QED
      BY <2>1, <3>1, <3>2, AccountKeys
  <2> QED
    BY <2>2, <2>3
<1>4. ReturnsTyped' /\ mine' \subseteq Indexes
  <2>1. CASE Prepare
    <3>1. /\ returns' = {decodeReturn(tx, n, account) : n \in ReturnIndexes(tx, account)}
          /\ mine' \subseteq Indexes
      BY <2>1 DEF Prepare, tx
    <3> QED
      BY <1>1, <3>1, DecodedTyped
  <2>2. CASE Verify
    <3> DEFINE bound == {bindVaultOutput(data, psbt.outputs, account, case.protocol) : data \in returns}
    <3>1. /\ stage = "prepared" /\ returns' = bound
          /\ mine' = mine \cup {data.vaultOutputIndex : data \in {d \in bound : d.bound}}
      BY <2>2 DEF Verify
    <3>2. \A d \in bound : (d.bound \/ d.vaultOutputIndex # None) => d.vaultOutputIndex \in Indexes
      BY <1>1, <3>1, BoundTyped
    <3> HIDE DEF bound
    <3>3. mine' \subseteq Indexes
      BY <1>1, <3>1, <3>2 DEF TypeOK
    <3> QED
      BY <1>1, <3>1, <3>2, <3>3
  <2>3. CASE UNCHANGED <<returns, mine>>
    BY <1>1, <2>3 DEF TypeOK
  <2> QED
    BY <2>1, <2>2, <2>3 DEF Next, Sign, Fail, vars, shown
<1>5. TypeOK'
  BY <1>1, <1>2, <1>3, <1>4 DEF TypeOK, ReviewInv
<1> QED
  BY <1>1, <1>5 DEF TypeInv

\* Every state of a review is well typed: kinds, guardians and values of the
\* inputs shown, output positions, and the keys that sign.
THEOREM ReviewTyped == Spec => []TypeOK
  BY TypeInit, TypeStep, PTL DEF Spec, TypeInv

-----------------------------------------------------------------------------
\* What SequencesAssumption says of an input.
LEMMA SequencesOfCase ==
    ASSUME NEW c \in Cases, NEW j \in DOMAIN c.psbt.inputs
    PROVE  c.psbt.inputs[j].sequence.high \in Nat /\ c.psbt.inputs[j].sequence.high < 65536
  BY SequencesAssumption

\* A sequence that passes assertBitvm3TimeoutPolicy makes OP_CSV succeed.
LEMMA PolicyMakesCsvSucceed ==
    ASSUME case \in Cases, NEW i \in SignedInputs, NEW w, TimeoutPolicy(psbt.inputs[i], w)
    PROVE  CsvSucceeds(w, psbt.version, psbt.inputs[i].sequence)
<1> DEFINE high == psbt.inputs[i].sequence.high
<1>1. high \in Nat /\ high < 65536
  BY SequencesOfCase DEF psbt, SignedInputs
<1>2. (high \div 32768) % 2 # 1 /\ (high \div 64) % 2 # 1
  BY DEF TimeoutPolicy, TimelockDisabled, TimeUnits, BitSet
<1> HIDE DEF high
<1>3. high < 32768
  BY <1>1, <1>2
<1>4. (high \div 64) % 2 = 0
  BY <1>1, <1>2
<1> QED
  BY <1>3, <1>4 DEF CsvSucceeds, TimeoutPolicy, high

-----------------------------------------------------------------------------
(* Leaves.  What the recognizers accept is canonical.                      *)

\* One step of LittleEndian.
NextValue(v, b) == IF v * 256 + b > Saturated THEN Saturated ELSE v * 256 + b

\* Its value of up to five bytes, of which a is the first.
Value1(a) == NextValue(0, a)
Value2(a, b) == NextValue(Value1(b), a)
Value3(a, b, c) == NextValue(Value2(b, c), a)
Value4(a, b, c, d) == NextValue(Value3(b, c, d), a)
Value5(a, b, c, d, e) == NextValue(Value4(b, c, d, e), a)

\* The steps of LittleEndian for a sequence of up to five numbers.
LEMMA LittleEndianSteps ==
    ASSUME NEW b \in Seq(Nat), Len(b) \in 0 .. 5
    PROVE  \E f : /\ LittleEndian(b) = f[Len(b)] /\ f[0] = 0
                  /\ \A i \in 1 .. Len(b) : f[i] = NextValue(f[i - 1], b[Len(b) - i + 1])
<1> DEFINE n == Len(b)
           Body(f) == [i \in 0 .. n |-> IF i = 0 THEN 0 ELSE NextValue(f[i - 1], b[n - i + 1])]
           value == CHOOSE f : f = Body(f)
           v1 == NextValue(0, b[n])
           v2 == NextValue(v1, b[n - 1])
           v3 == NextValue(v2, b[n - 2])
           v4 == NextValue(v3, b[n - 3])
           v5 == NextValue(v4, b[n - 4])
           At(i) == CASE i = 0 -> 0 [] i = 1 -> v1 [] i = 2 -> v2
                      [] i = 3 -> v3 [] i = 4 -> v4 [] i = 5 -> v5
           witness == [i \in 0 .. n |-> At(i)]
<1>1. LittleEndian(b) = value[n]
  BY DEF LittleEndian, NextValue
<1>2. witness = Body(witness)
  <2>1. ASSUME NEW i \in 0 .. n
        PROVE  witness[i] = IF i = 0 THEN 0 ELSE NextValue(witness[i - 1], b[n - i + 1])
    <3>0. n \in 0 .. 5 /\ i \in 0 .. n
      OBVIOUS
    <3> HIDE DEF n, v1, v2, v3, v4, v5
    <3>1. CASE i = 0
      BY <3>0, <3>1
    <3>2. CASE i = 1
      BY <3>0, <3>2 DEF v1
    <3>3. CASE i = 2
      BY <3>0, <3>3 DEF v2
    <3>4. CASE i = 3
      BY <3>0, <3>4 DEF v3
    <3>5. CASE i = 4
      BY <3>0, <3>5 DEF v4
    <3>6. CASE i = 5
      BY <3>0, <3>6 DEF v5
    <3> QED
      <4>1. i \in 0 .. 5
        BY <3>0
      <4>2. i = 0 \/ i = 1 \/ i = 2 \/ i = 3 \/ i = 4 \/ i = 5
        BY <4>1
      <4> HIDE DEF witness
      <4> QED
        BY <4>2, <3>1, <3>2, <3>3, <3>4, <3>5, <3>6
  <2>2. witness = [i \in 0 .. n |-> witness[i]]
    <3> HIDE DEF At
    <3> QED
      OBVIOUS
  <2> HIDE DEF witness
  <2> QED
    BY <2>1, <2>2
<1>3. value = Body(value)
  <2> HIDE DEF witness, Body
  <2> QED
    BY <1>2
<1> HIDE DEF value
<1>4. \A i \in 0 .. n : value[i] = IF i = 0 THEN 0 ELSE NextValue(value[i - 1], b[n - i + 1])
  <2> DEFINE body == Body(value)
  <2>1. \A i \in 0 .. n : body[i] = IF i = 0 THEN 0 ELSE NextValue(value[i - 1], b[n - i + 1])
    OBVIOUS
  <2> HIDE DEF body
  <2> QED
    BY <1>3, <2>1 DEF body
<1> QED
  BY <1>1, <1>4

\* The value of up to five numbers.
LEMMA LittleEndianIs ==
    ASSUME NEW b \in Seq(Nat), Len(b) \in 0 .. 5
    PROVE  /\ Len(b) = 0 => LittleEndian(b) = 0
           /\ Len(b) = 1 => LittleEndian(b) = Value1(b[1])
           /\ Len(b) = 2 => LittleEndian(b) = Value2(b[1], b[2])
           /\ Len(b) = 3 => LittleEndian(b) = Value3(b[1], b[2], b[3])
           /\ Len(b) = 4 => LittleEndian(b) = Value4(b[1], b[2], b[3], b[4])
           /\ Len(b) = 5 => LittleEndian(b) = Value5(b[1], b[2], b[3], b[4], b[5])
<1> DEFINE n == Len(b)
<1>1. PICK f : /\ LittleEndian(b) = f[n] /\ f[0] = 0
               /\ \A i \in 1 .. n : f[i] = NextValue(f[i - 1], b[n - i + 1])
  BY LittleEndianSteps
<1>2. n \in 0 .. 5
  OBVIOUS
<1> HIDE DEF n
<1>3. n >= 1 => f[1] = NextValue(f[0], b[n])
  BY <1>1, <1>2
<1>4. n >= 2 => f[2] = NextValue(f[1], b[n - 1])
  BY <1>1, <1>2
<1>5. n >= 3 => f[3] = NextValue(f[2], b[n - 2])
  BY <1>1, <1>2
<1>6. n >= 4 => f[4] = NextValue(f[3], b[n - 3])
  BY <1>1, <1>2
<1>7. n >= 5 => f[5] = NextValue(f[4], b[n - 4])
  BY <1>1, <1>2
<1>8. CASE n = 0
  BY <1>1, <1>8 DEF n
<1>9. CASE n = 1
  BY <1>1, <1>3, <1>9 DEF n, Value1
<1>10. CASE n = 2
  BY <1>1, <1>3, <1>4, <1>10 DEF n, Value1, Value2
<1>11. CASE n = 3
  BY <1>1, <1>3, <1>4, <1>5, <1>11 DEF n, Value1, Value2, Value3
<1>12. CASE n = 4
  BY <1>1, <1>3, <1>4, <1>5, <1>6, <1>12 DEF n, Value1, Value2, Value3, Value4
<1>13. CASE n = 5
  BY <1>1, <1>3, <1>4, <1>5, <1>6, <1>7, <1>13 DEF n, Value1, Value2, Value3, Value4, Value5
<1> QED
  BY <1>2, <1>8, <1>9, <1>10, <1>11, <1>12, <1>13 DEF n

-----------------------------------------------------------------------------
\* The bytes of a block delay, for each length they may have.
LEMMA DelayOfOne ==
    ASSUME NEW a \in Nat, a < 128
    PROVE  Value1(a) = a
BY DEF Value1, NextValue, Saturated

LEMMA DelayOfTwo ==
    ASSUME NEW a \in Byte, NEW b \in Nat, b < 128
    PROVE  Value2(a, b) = a + 256 * b
BY DEF Value2, Value1, NextValue, Saturated, Byte

LEMMA DelayOfThree ==
    ASSUME NEW a \in Byte, NEW b \in Nat, NEW c \in Nat, c < 128
    PROVE  /\ Value3(a, b, c) <= 65535 => c = 0 /\ b <= 255
           /\ c = 0 /\ b <= 255 => Value3(a, b, c) = a + 256 * b
BY DEF Value3, Value2, Value1, NextValue, Saturated, Byte

LEMMA DelayOfFour ==
    ASSUME NEW a \in Nat, NEW b \in Nat, NEW c \in Nat, NEW d \in Nat,
           Value4(a, b, c, d) <= 65535
    PROVE  c = 0 /\ d = 0
BY DEF Value4, Value3, Value2, Value1, NextValue, Saturated, Byte

LEMMA DelayOfFive ==
    ASSUME NEW a \in Nat, NEW b \in Nat, NEW c \in Nat, NEW d \in Nat, NEW e \in Nat,
           Value5(a, b, c, d, e) <= 65535
    PROVE  d = 0 /\ e = 0
BY DEF Value5, Value4, Value3, Value2, Value1, NextValue, Saturated, Byte

\* The shortest bytes of a number from 17 to 65535 that is not negative.
ShortNumber(b, w) ==
    /\ w \in Nat /\ w > 16 /\ w <= 65535
    /\ \/ Len(b) = 1 /\ w < 128 /\ b[1] = w
       \/ Len(b) = 2 /\ w >= 128 /\ w < 32768 /\ b[1] = w % 256 /\ b[2] = w \div 256
       \/ Len(b) = 3 /\ w >= 32768 /\ b[1] = w % 256 /\ b[2] = w \div 256 /\ b[3] = 0

\* What is accepted as a delay is the shortest push of the number it is.
LEMMA BlockDelayIs ==
    ASSUME NEW b \in Seq(Nat), Len(b) \in 1 .. 5, b[1] \in Byte, BlockDelay(b)
    PROVE  ShortNumber(b, LittleEndian(b))
<1> DEFINE w == LittleEndian(b)
           n == Len(b)
           p == b[1]
           q == b[2]
           r == b[3]
           s == b[4]
           t == b[5]
<1>0. n \in 1 .. 5 /\ p \in Byte
  OBVIOUS
<1>1. /\ p \in Nat /\ (n >= 2 => q \in Nat) /\ (n >= 3 => r \in Nat)
      /\ (n >= 4 => s \in Nat) /\ (n >= 5 => t \in Nat)
  BY ElementOfSeq
<1>2. w > 16 /\ w <= 65535
  BY DEF BlockDelay
<1>3. /\ n = 1 => w = Value1(p)
      /\ n = 2 => w = Value2(p, q)
      /\ n = 3 => w = Value3(p, q, r)
      /\ n = 4 => w = Value4(p, q, r, s)
      /\ n = 5 => w = Value5(p, q, r, s, t)
  BY LittleEndianIs
<1>4. /\ n = 1 => ~(p >= 128)
      /\ n = 2 => ~(q >= 128) /\ (q % 128 # 0 \/ p >= 128)
      /\ n = 3 => ~(r >= 128) /\ (r % 128 # 0 \/ q >= 128)
      /\ n = 4 => s % 128 # 0 \/ r >= 128
      /\ n = 5 => t % 128 # 0 \/ s >= 128
  <2>1. ~(b[n] >= 128) /\ (b[n] % 128 # 0 \/ (n > 1 /\ b[n - 1] >= 128))
    BY DEF BlockDelay, NegativeNumber, MinimalNumber
  <2> HIDE DEF n
  <2>2. CASE n = 1
    BY <2>1, <2>2
  <2>3. CASE n = 2
    BY <2>1, <2>3
  <2>4. CASE n = 3
    BY <2>1, <2>4
  <2>5. CASE n = 4
    BY <2>1, <2>5
  <2>6. CASE n = 5
    BY <2>1, <2>6
  <2> QED
    BY <1>0, <2>2, <2>3, <2>4, <2>5, <2>6
<1> HIDE DEF w, n, p, q, r, s, t
<1>5. ASSUME n = 1
      PROVE  w \in Nat /\ w > 16 /\ w <= 65535 /\ w < 128 /\ p = w
  <2>1. w = p
    BY <1>1, <1>3, <1>4, <1>5, DelayOfOne
  <2> QED
    BY <1>1, <1>2, <1>4, <1>5, <2>1
<1>6. ASSUME n = 2
      PROVE  /\ w \in Nat /\ w > 16 /\ w <= 65535 /\ w >= 128 /\ w < 32768
             /\ p = w % 256 /\ q = w \div 256
  <2>1. q \in Nat /\ q < 128 /\ (q # 0 \/ p >= 128)
    BY <1>1, <1>4, <1>6
  <2>2. w = p + 256 * q
    BY <1>0, <1>3, <1>6, <2>1, DelayOfTwo
  <2>3. w \in Nat /\ w >= 128 /\ w < 32768 /\ p = w % 256 /\ q = w \div 256
    BY <1>0, <2>1, <2>2 DEF Byte
  <2> QED
    BY <1>2, <1>6, <2>3
<1>7. ASSUME n = 3
      PROVE  /\ w \in Nat /\ w > 16 /\ w <= 65535 /\ w >= 32768
             /\ p = w % 256 /\ q = w \div 256 /\ r = 0
  <2>1. q \in Nat /\ r \in Nat /\ r < 128 /\ (r # 0 \/ q >= 128)
    BY <1>1, <1>4, <1>7
  <2>2. r = 0 /\ q <= 255
    BY <1>0, <1>2, <1>3, <1>7, <2>1, DelayOfThree
  <2>3. w = p + 256 * q
    BY <1>0, <1>3, <1>7, <2>1, <2>2, DelayOfThree
  <2>4. w >= 32768 /\ p = w % 256 /\ q = w \div 256 /\ w \in Nat
    BY <1>0, <2>1, <2>2, <2>3 DEF Byte
  <2> QED
    BY <1>2, <1>7, <2>2, <2>4
<1>8. n # 4
  <2> SUFFICES ASSUME n = 4
               PROVE  FALSE
    OBVIOUS
  <2>1. p \in Nat /\ q \in Nat /\ r \in Nat /\ s \in Nat
    BY <1>1
  <2>2. r = 0 /\ s = 0
    BY <1>2, <1>3, <2>1, DelayOfFour
  <2> QED
    BY <1>4, <2>2
<1>9. n # 5
  <2> SUFFICES ASSUME n = 5
               PROVE  FALSE
    OBVIOUS
  <2>1. p \in Nat /\ q \in Nat /\ r \in Nat /\ s \in Nat /\ t \in Nat
    BY <1>1
  <2>2. s = 0 /\ t = 0
    BY <1>2, <1>3, <2>1, DelayOfFive
  <2> QED
    BY <1>4, <2>2
<1>10. n = 1 \/ n = 2 \/ n = 3 \/ n = 4 \/ n = 5
  BY <1>0
<1>11. /\ w \in Nat /\ w > 16 /\ w <= 65535
       /\ \/ n = 1 /\ w < 128 /\ p = w
          \/ n = 2 /\ w >= 128 /\ w < 32768 /\ p = w % 256 /\ q = w \div 256
          \/ n = 3 /\ w >= 32768 /\ p = w % 256 /\ q = w \div 256 /\ r = 0
  BY <1>5, <1>6, <1>7, <1>8, <1>9, <1>10
<1> QED
  BY <1>11 DEF ShortNumber, w, n, p, q, r

\* The four encodings of a window.
LEMMA NumberPushIs ==
    ASSUME NEW w \in Nat
    PROVE  /\ w <= 16 => NumberPush(w) = <<80 + w>>
           /\ 16 < w /\ w < 128 => NumberPush(w) = <<1, w>>
           /\ 128 <= w /\ w < 32768 => NumberPush(w) = <<2, w % 256, w \div 256>>
           /\ 32768 <= w => NumberPush(w) = <<3, w % 256, w \div 256, 0>>
<1>1. OP_1 + w - 1 = 80 + w
  BY DEF OP_1
<1>2. NumberPush(w) = IF w <= 16 THEN <<80 + w>>
                      ELSE IF w < 128 THEN <<1, w>>
                      ELSE IF w < 32768 THEN <<2, w % 256, w \div 256>>
                      ELSE <<3, w % 256, w \div 256, 0>>
  BY <1>1 DEF NumberPush
<1> DEFINE v == w % 256
           u == w \div 256
           push == NumberPush(w)
<1>3. push = IF w <= 16 THEN <<80 + w>> ELSE IF w < 128 THEN <<1, w>>
             ELSE IF w < 32768 THEN <<2, v, u>> ELSE <<3, v, u, 0>>
  BY <1>2
<1> HIDE DEF u, v, push
<1>4. /\ w <= 16 => push = <<80 + w>>
      /\ 16 < w /\ w < 128 => push = <<1, w>>
      /\ 128 <= w /\ w < 32768 => push = <<2, v, u>>
      /\ 32768 <= w => push = <<3, v, u, 0>>
  BY <1>3
<1> QED
  BY <1>4 DEF push, u, v

\* The elements of a part of a script.
LEMMA PartOf ==
    ASSUME NEW s, NEW m \in Nat, NEW n \in Nat, m >= 1, m <= n, \A i \in m .. n : s[i] \in Nat
    PROVE  /\ SubSeq(s, m, n) \in Seq(Nat) /\ Len(SubSeq(s, m, n)) = n - m + 1
           /\ \A i \in 1 .. n - m + 1 : SubSeq(s, m, n)[i] = s[m + i - 1]
<1>1. /\ SubSeq(s, m, n) \in Seq(Nat)
      /\ Len(SubSeq(s, m, n)) = IF m <= n THEN n - m + 1 ELSE 0
      /\ \A i \in 1 .. n - m + 1 : SubSeq(s, m, n)[i] = s[m + i - 1]
  BY SubSeqProperties
<1> QED
  BY <1>1

\* What the recognizer of a timeout leaf accepts is the one canonical script of
\* the window and the key that it reads from it.
LEMMA TimeoutIsCanonical ==
    ASSUME NEW leaf, IsScript(leaf), matchTimeoutLeaf(leaf) # None
    PROVE  LET m == matchTimeoutLeaf(leaf) IN
           /\ m.window \in Nat /\ 1 <= m.window /\ m.window <= 65535
           /\ m.operator \in Keys /\ leaf = TimeoutLeaf(m.window, m.operator)
<1> DEFINE d == decodeWindow(leaf)
           tail == SubSeq(leaf, d.consumed + 1, Len(leaf))
           m == matchTimeoutLeaf(leaf)
<1>1. /\ d # None /\ Len(tail) = 5 /\ tail[4] \in Keys /\ tail = TimeoutTail(tail[4])
      /\ m = [operator |-> tail[4], window |-> d.window]
  BY DEF matchTimeoutLeaf
<1>2. /\ leaf \in Seq(Nat) /\ Len(leaf) \in Nat
      /\ \A i \in 1 .. Len(leaf) : leaf[i] \in Nat /\ leaf[i] \in Byte \cup Keys
      /\ \A i \in 1 .. Len(leaf) : leaf[i] \in Keys => i > 1 /\ leaf[i - 1] \in {20, 32}
  <2>1. leaf \in Seq(Byte \cup Keys) /\ Byte \cup Keys \subseteq Nat
    BY KeysAssumption DEF IsScript, Byte
  <2>2. /\ Len(leaf) \in Nat /\ DOMAIN leaf = 1 .. Len(leaf)
        /\ \A i \in 1 .. Len(leaf) : leaf[i] \in Byte \cup Keys
    BY <2>1, LenProperties, ElementOfSeq
  <2>3. leaf \in Seq(Nat)
    BY <2>1, SeqMonotonic
  <2>4. \A i \in 1 .. Len(leaf) : leaf[i] \in Keys => i > 1 /\ leaf[i - 1] \in {20, 32}
    BY <2>2 DEF IsScript, PUSH_32
  <2> QED
    BY <2>1, <2>2, <2>3, <2>4
<1>3. ASSUME NEW n \in Nat, n < Len(leaf), d.consumed = n + 1 
      PROVE  leaf = SubSeq(leaf, 1, n + 1) \o TimeoutTail(tail[4])
  <2>1. SubSeq(leaf, 1, n + 1) \o SubSeq(leaf, n + 2, Len(leaf)) = SubSeq(leaf, 1, Len(leaf))
    <3>1. /\ 1 \in 1 .. Len(leaf) + 1 /\ n + 1 \in 1 - 1 .. Len(leaf)
          /\ Len(leaf) \in n + 1 .. Len(leaf) /\ n + 1 + 1 = n + 2
      BY <1>2, <1>3
    <3> QED
      BY <1>2, <3>1, ConcatAdjacentSubSeq
  <2>2. SubSeq(leaf, 1, Len(leaf)) = leaf
    BY <1>2, SubSeqFull
  <2>3. tail = SubSeq(leaf, n + 2, Len(leaf))
    BY <1>3
  <2> QED
    BY <1>1, <2>1, <2>2, <2>3
<1>4. CASE SmallDelay(leaf)
  <2>1. d = [window |-> leaf[1] - 80, consumed |-> 1]
    BY <1>4 DEF decodeWindow, OP_1, SmallDelay, OP_16
  <2>2. leaf[1] \in Nat /\ leaf[1] >= 81 /\ leaf[1] <= 96 /\ Len(leaf) > 0
    BY <1>2, <1>4, EmptySeq DEF SmallDelay, OP_1, OP_16
  <2>3. leaf = SubSeq(leaf, 1, 1) \o TimeoutTail(tail[4])
    <3>1. 0 \in Nat /\ 0 < Len(leaf) /\ d.consumed = 0 + 1 /\ 0 + 1 = 1
      BY <1>2, <2>1, <2>2
    <3> HIDE DEF d, tail
    <3>2. leaf = SubSeq(leaf, 1, 0 + 1) \o TimeoutTail(tail[4])
      BY <1>3, <3>1
    <3> QED
      BY <3>1, <3>2
  <2>4. SubSeq(leaf, 1, 1) = <<leaf[1]>>
    <3> DEFINE push == SubSeq(leaf, 1, 1)
    <3>1. \A i \in 1 .. 1 : leaf[i] \in Nat
      BY <2>2
    <3>2. push \in Seq(Nat) /\ Len(push) = 1 /\ push[1] = leaf[1]
      <4>1. 1 - 1 + 1 = 1 /\ 1 + 1 - 1 = 1 /\ 1 \in Nat /\ 1 >= 1 /\ 1 <= 1 /\ 1 \in 1 .. 1
        OBVIOUS
      <4> QED
        BY <3>1, <4>1, PartOf
    <3> HIDE DEF push
    <3>3. push = <<leaf[1]>>
      BY <2>2, <3>2
    <3> QED
      BY <3>3 DEF push
  <2>5. NumberPush(leaf[1] - 80) = <<leaf[1]>>
    <3>1. leaf[1] - 80 \in Nat /\ leaf[1] - 80 <= 16 /\ 80 + (leaf[1] - 80) = leaf[1]
      BY <2>2
    <3> QED
      BY <3>1, NumberPushIs
  <2>6. d.window = leaf[1] - 80 /\ d.window \in Nat /\ 1 <= d.window /\ d.window <= 65535
    BY <2>1, <2>2
  <2>7. leaf = TimeoutLeaf(d.window, tail[4])
    <3>1. NumberPush(d.window) = NumberPush(leaf[1] - 80)
      <4>1. d.window = leaf[1] - 80
        BY <2>6
      <4> HIDE DEF d
      <4> QED
        BY <4>1, Zenon
    <3> QED
      BY <2>3, <2>4, <2>5, <3>1, Zenon DEF TimeoutLeaf
  <2> HIDE DEF d, tail
  <2> QED
    BY <1>1, <2>6, <2>7
<1>5. CASE ~SmallDelay(leaf)
  <2> DEFINE n == leaf[1]
             b == PushedBytes(leaf)
             w == LittleEndian(b)
  <2>1. PushedDelay(leaf) /\ d = [window |-> w, consumed |-> 1 + n]
    BY <1>1, <1>5 DEF decodeWindow
  <2>2. n \in 1 .. 5 /\ Len(leaf) >= 1 + n /\ BlockDelay(b)
    BY <2>1 DEF PushedDelay
  <2>3. b \in Seq(Nat) /\ Len(b) = n /\ \A i \in 1 .. n : b[i] = leaf[i + 1]
    <3>1. \A i \in 2 .. n + 1 : leaf[i] \in Nat
      BY <1>2, <2>2
    <3>2. 2 \in Int /\ n + 1 \in Int /\ 2 <= n + 1 /\ n + 1 - 2 + 1 = n /\ \A i \in 1 .. n : 2 + i - 1 = i + 1
      BY <2>2
    <3>3. b = SubSeq(leaf, 2, n + 1)
      BY DEF PushedBytes
    <3> HIDE DEF b, n
    <3> DEFINE top == n + 1
    <3>4. 2 \in Nat /\ top \in Nat /\ 2 <= top /\ 2 >= 1 /\ top - 2 + 1 = n
      BY <2>2
    <3> HIDE DEF top
    <3>6. \A i \in 2 .. top : leaf[i] \in Nat
      BY <3>1 DEF top
    <3>7. b = SubSeq(leaf, 2, top)
      BY <3>3 DEF top
    <3>8. /\ SubSeq(leaf, 2, top) \in Seq(Nat) /\ Len(SubSeq(leaf, 2, top)) = top - 2 + 1
          /\ \A i \in 1 .. top - 2 + 1 : SubSeq(leaf, 2, top)[i] = leaf[2 + i - 1]
      BY <3>4, <3>6, PartOf
    <3>5. b \in Seq(Nat) /\ Len(b) = n /\ \A i \in 1 .. n : b[i] = leaf[2 + i - 1]
      BY <3>4, <3>7, <3>8
    <3> QED
      BY <3>2, <3>5
  <2>4. b[1] \in Byte
    <3>1. 2 \in 1 .. Len(leaf) /\ leaf[2 - 1] = n /\ b[1] = leaf[2]
      BY <1>2, <2>2, <2>3
    <3> QED
      BY <1>2, <2>2, <3>1
  <2>5. /\ w \in Nat /\ w > 16 /\ w <= 65535
        /\ \/ n = 1 /\ w < 128 /\ b[1] = w
           \/ n = 2 /\ w >= 128 /\ w < 32768 /\ b[1] = w % 256 /\ b[2] = w \div 256
           \/ n = 3 /\ w >= 32768 /\ b[1] = w % 256 /\ b[2] = w \div 256 /\ b[3] = 0
    <3>1. Len(b) \in 1 .. 5
      BY <2>2, <2>3
    <3>2. Len(b) = n /\ b \in Seq(Nat) /\ BlockDelay(b)
      BY <2>2, <2>3
    <3>4. w = LittleEndian(b)
      OBVIOUS
    <3> HIDE DEF w, b, n
    <3>3. ShortNumber(b, w)
      BY <2>4, <3>1, <3>2, <3>4, BlockDelayIs
    <3> QED
      BY <3>2, <3>3 DEF ShortNumber
  <2> HIDE DEF w, b, n
  <2>6. SubSeq(leaf, 1, n + 1) = NumberPush(w)
    <3> DEFINE push == SubSeq(leaf, 1, n + 1)
    <3>1. push \in Seq(Nat) /\ Len(push) = n + 1 /\ \A i \in 1 .. n + 1 : push[i] = leaf[i]
      <4>1. \A i \in 1 .. n + 1 : leaf[i] \in Nat
        BY <1>2, <2>2
      <4>2. 1 \in Int /\ n + 1 \in Int /\ 1 <= n + 1 /\ n + 1 - 1 + 1 = n + 1 /\ \A i \in 1 .. n + 1 : 1 + i - 1 = i
        BY <2>2
      <4> QED
        BY <4>1, <4>2, SubSeqProperties
    <3>2. push[1] = n
      BY <2>2, <3>1 DEF n
    <3> HIDE DEF push
    <3>3. CASE n = 1 /\ w < 128 /\ b[1] = w
      <4>1. push[2] = w /\ Len(push) = 2
        BY <2>3, <3>1, <3>3
      <4>2. push = <<1, w>>
        BY <2>5, <3>1, <3>2, <3>3, <4>1
      <4>3. NumberPush(w) = <<1, w>>
        BY <2>5, <3>3, NumberPushIs
      <4> QED
        BY <4>2, <4>3, Zenon DEF push
    <3>4. CASE n = 2 /\ w >= 128 /\ w < 32768 /\ b[1] = w % 256 /\ b[2] = w \div 256
      <4>1. push[2] = w % 256 /\ push[3] = w \div 256 /\ Len(push) = 3
        BY <2>3, <3>1, <3>4
      <4>2. push = <<2, w % 256, w \div 256>>
        BY <2>5, <3>1, <3>2, <3>4, <4>1
      <4>3. NumberPush(w) = <<2, w % 256, w \div 256>>
        BY <2>5, <3>4, NumberPushIs
      <4> QED
        BY <4>2, <4>3, Zenon DEF push
    <3>5. CASE n = 3 /\ w >= 32768 /\ b[1] = w % 256 /\ b[2] = w \div 256 /\ b[3] = 0
      <4>1. push[2] = w % 256 /\ push[3] = w \div 256 /\ push[4] = 0 /\ Len(push) = 4
        BY <2>3, <3>1, <3>5
      <4>2. push = <<3, w % 256, w \div 256, 0>>
        BY <2>5, <3>1, <3>2, <3>5, <4>1
      <4>3. NumberPush(w) = <<3, w % 256, w \div 256, 0>>
        BY <2>5, <3>5, NumberPushIs
      <4> QED
        BY <4>2, <4>3, Zenon DEF push
    <3> QED
      BY <2>5, <3>3, <3>4, <3>5
  <2>7. leaf = NumberPush(w) \o TimeoutTail(tail[4])
    <3>1. n \in Nat /\ n < Len(leaf) /\ d.consumed = n + 1
      BY <1>2, <2>1, <2>2
    <3> QED
      BY <1>3, <2>6, <3>1
  <2>8. d.window = w /\ leaf = TimeoutLeaf(w, tail[4])
    <3>1. d.window = w
      BY <2>1
    <3> QED
      BY <2>7, <3>1, Zenon DEF TimeoutLeaf
  <2> HIDE DEF d, tail
  <2> QED
    BY <1>1, <2>5, <2>8
<1> QED
  BY <1>4, <1>5

\* The shortest bytes of such a number are accepted as that delay.
LEMMA ShortIsBlockDelay ==
    ASSUME NEW b \in Seq(Nat), Len(b) \in 1 .. 3, NEW w, ShortNumber(b, w)
    PROVE  BlockDelay(b) /\ LittleEndian(b) = w
<1> DEFINE n == Len(b)
           p == b[1]
           q == b[2]
           r == b[3]
           v == LittleEndian(b)
<1>1. n \in 1 .. 3 /\ p \in Nat
  BY ElementOfSeq
<1>2. /\ w \in Nat /\ w > 16 /\ w <= 65535
      /\ \/ n = 1 /\ w < 128 /\ p = w
         \/ n = 2 /\ w >= 128 /\ w < 32768 /\ p = w % 256 /\ q = w \div 256
         \/ n = 3 /\ w >= 32768 /\ p = w % 256 /\ q = w \div 256 /\ r = 0
  BY DEF ShortNumber
<1>3. /\ n = 1 => v = Value1(p)
      /\ n = 2 => v = Value2(p, q)
      /\ n = 3 => v = Value3(p, q, r)
  <2>1. Len(b) \in 0 .. 5
    OBVIOUS
  <2> QED
    BY <2>1, LittleEndianIs
<1>4. BlockDelay(b) <=> /\ b[n] % 128 # 0 \/ (n > 1 /\ b[n - 1] >= 128)
                        /\ ~(b[n] >= 128)
                        /\ v > 16 /\ v <= 65535
  BY DEF BlockDelay, MinimalNumber, NegativeNumber
<1> HIDE DEF n, p, q, r, v
<1>5. ASSUME n = 1
      PROVE  BlockDelay(b) /\ v = w
  <2>1. p < 128 /\ v = w
    BY <1>1, <1>2, <1>3, <1>5, DelayOfOne
  <2>2. b[n] = p
    BY <1>5 DEF p
  <2> QED
    BY <1>1, <1>2, <1>4, <1>5, <2>1, <2>2
<1>6. ASSUME n = 2
      PROVE  BlockDelay(b) /\ v = w
  <2>1. w >= 128 /\ w < 32768 /\ p = w % 256 /\ q = w \div 256
    BY <1>2, <1>6
  <2>2. p \in Byte /\ q \in Nat /\ q < 128 /\ p + 256 * q = w
    BY <1>2, <2>1 DEF Byte
  <2>3. v = w
    BY <1>3, <1>6, <2>2, DelayOfTwo
  <2>4. b[n] = q /\ b[n - 1] = p
    BY <1>6 DEF p, q
  <2>5. q % 128 # 0 \/ p >= 128
    BY <1>2, <2>1, <2>2
  <2> QED
    BY <1>2, <1>4, <1>6, <2>2, <2>3, <2>4, <2>5
<1>7. ASSUME n = 3
      PROVE  BlockDelay(b) /\ v = w
  <2>1. w >= 32768 /\ p = w % 256 /\ q = w \div 256 /\ r = 0
    BY <1>2, <1>7
  <2>2. p \in Byte /\ q \in Nat /\ q <= 255 /\ q >= 128 /\ p + 256 * q = w
    BY <1>2, <2>1 DEF Byte
  <2>3. v = w
    BY <1>3, <1>7, <2>1, <2>2, DelayOfThree
  <2>4. b[n] = 0 /\ b[n - 1] = q
    BY <1>7, <2>1 DEF q, r
  <2> QED
    BY <1>2, <1>4, <1>7, <2>2, <2>3, <2>4
<1>8. n = 1 \/ n = 2 \/ n = 3
  BY <1>1
<1> QED
  BY <1>5, <1>6, <1>7, <1>8 DEF v

\* The canonical push of a number above sixteen is its length and such bytes.
LEMMA PushIsShort ==
    ASSUME NEW w \in Nat, w > 16, w <= 65535
    PROVE  \E n \in 1 .. 3 :
            /\ NumberPush(w) \in Seq(Nat) /\ Len(NumberPush(w)) = n + 1
            /\ NumberPush(w)[1] = n
            /\ SubSeq(NumberPush(w), 2, n + 1) \in Seq(Nat)
            /\ Len(SubSeq(NumberPush(w), 2, n + 1)) = n
            /\ ShortNumber(SubSeq(NumberPush(w), 2, n + 1), w)
<1> DEFINE push == NumberPush(w)
           lo == w % 256
           hi == w \div 256
<1>1. /\ w < 128 => push = <<1, w>>
      /\ 128 <= w /\ w < 32768 => push = <<2, lo, hi>>
      /\ 32768 <= w => push = <<3, lo, hi, 0>>
  BY NumberPushIs
<1>2. lo \in Nat /\ hi \in Nat
  OBVIOUS
<1> HIDE DEF push, lo, hi
<1>3. ASSUME NEW n \in 1 .. 3, push \in Seq(Nat), Len(push) = n + 1, push[1] = n,
             n = 1 => push[2] = w /\ w < 128,
             n = 2 => push[2] = lo /\ push[3] = hi /\ w >= 128 /\ w < 32768,
             n = 3 => push[2] = lo /\ push[3] = hi /\ push[4] = 0 /\ w >= 32768
      PROVE  /\ SubSeq(push, 2, n + 1) \in Seq(Nat) /\ Len(SubSeq(push, 2, n + 1)) = n
             /\ ShortNumber(SubSeq(push, 2, n + 1), w)
  <2> DEFINE top == n + 1
             b == SubSeq(push, 2, top)
  <2>1. \A i \in 2 .. top : push[i] \in Nat
    <3>1. \A i \in 1 .. Len(push) : push[i] \in Nat
      BY <1>3, ElementOfSeq
    <3> QED
      BY <1>3, <3>1
  <2>2. 2 \in Nat /\ top \in Nat /\ 2 >= 1 /\ 2 <= top /\ top - 2 + 1 = n /\ \A i \in 1 .. n : 2 + i - 1 = i + 1
    OBVIOUS
  <2> HIDE DEF top
  <2>3. /\ SubSeq(push, 2, top) \in Seq(Nat) /\ Len(SubSeq(push, 2, top)) = top - 2 + 1
        /\ \A i \in 1 .. top - 2 + 1 : SubSeq(push, 2, top)[i] = push[2 + i - 1]
    BY <2>1, <2>2, PartOf
  <2>4. b \in Seq(Nat) /\ Len(b) = n /\ \A i \in 1 .. n : b[i] = push[i + 1]
    BY <2>2, <2>3
  <2> HIDE DEF b
  <2>5. /\ n >= 1 => b[1] = push[2]
        /\ n >= 2 => b[2] = push[3]
        /\ n >= 3 => b[3] = push[4]
    BY <2>4
  <2>6. ShortNumber(b, w)
    <3>1. CASE n = 1
      BY <1>3, <2>4, <2>5, <3>1 DEF ShortNumber
    <3>2. CASE n = 2
      BY <1>3, <2>4, <2>5, <3>2 DEF ShortNumber, lo, hi
    <3>3. CASE n = 3
      BY <1>3, <2>4, <2>5, <3>3 DEF ShortNumber, lo, hi
    <3> QED
      BY <3>1, <3>2, <3>3
  <2> QED
    BY <2>4, <2>6 DEF b, top
<1>4. \E n \in 1 .. 3 :
        /\ push \in Seq(Nat) /\ Len(push) = n + 1 /\ push[1] = n
        /\ n = 1 => push[2] = w /\ w < 128
        /\ n = 2 => push[2] = lo /\ push[3] = hi /\ w >= 128 /\ w < 32768
        /\ n = 3 => push[2] = lo /\ push[3] = hi /\ push[4] = 0 /\ w >= 32768
  <2>1. CASE w < 128
    <3>1. push = <<1, w>>
      BY <1>1, <2>1
    <3> QED
      BY <2>1, <3>1
  <2>2. CASE 128 <= w /\ w < 32768
    <3>1. push = <<2, lo, hi>>
      BY <1>1, <2>2
    <3> QED
      BY <1>2, <2>2, <3>1
  <2>3. CASE 32768 <= w
    <3>1. push = <<3, lo, hi, 0>>
      BY <1>1, <2>3
    <3> QED
      BY <1>2, <2>3, <3>1
  <2> QED
    BY <2>1, <2>2, <2>3
<1> QED
  BY <1>3, <1>4 DEF push

\* Where the elements of two joined sequences are.
LEMMA Joined ==
    ASSUME NEW s \in Seq(Nat), NEW t \in Seq(Nat)
    PROVE  /\ s \o t \in Seq(Nat) /\ Len(s \o t) = Len(s) + Len(t)
           /\ \A i \in 1 .. Len(s) + Len(t) :
                (s \o t)[i] = IF i <= Len(s) THEN s[i] ELSE t[i - Len(s)]
BY ConcatProperties

\* The end of two joined sequences is the second.
LEMMA JoinedEnd ==
    ASSUME NEW s \in Seq(Nat), NEW t \in Seq(Nat), Len(t) > 0
    PROVE  SubSeq(s \o t, Len(s) + 1, Len(s) + Len(t)) = t
<1> DEFINE m == Len(s) + 1
           n == Len(s) + Len(t)
<1>1. Len(s) \in Nat /\ Len(t) \in Nat
  BY LenProperties
<1>2. m \in Len(s) + 1 .. Len(s) + Len(t) /\ n \in Len(s) + 1 .. Len(s) + Len(t)
      /\ m - Len(s) = 1 /\ n - Len(s) = Len(t)
  BY <1>1
<1> HIDE DEF m, n
<1>3. SubSeq(s \o t, m, n) = SubSeq(t, m - Len(s), n - Len(s))
  BY <1>2, SubSeqOfConcat2
<1>4. SubSeq(s \o t, m, n) = t
  BY <1>2, <1>3, SubSeqFull
<1> QED
  BY <1>4 DEF m, n

\* The bytes a leaf pushes are those of its first part.
LEMMA PushedIsPart ==
    ASSUME NEW s \in Seq(Nat), NEW t \in Seq(Nat), NEW n \in Nat, n >= 1,
           Len(s) = n + 1, s[1] = n
    PROVE  PushedBytes(s \o t) = SubSeq(s, 2, n + 1)
<1> DEFINE top == n + 1
           leaf == s \o t
<1>1. leaf[1] = n
  <2>1. 1 \in 1 .. Len(s) + Len(t) /\ 1 <= Len(s)
    BY LenProperties
  <2> QED
    BY <2>1, Joined
<1>2. 2 \in 1 .. Len(s) /\ top \in 1 .. Len(s)
  OBVIOUS
<1> HIDE DEF top
<1>3. SubSeq(leaf, 2, top) = SubSeq(s, 2, top)
  BY <1>2, SubSeqOfConcat1
<1> HIDE DEF leaf
<1>4. PushedBytes(leaf) = SubSeq(leaf, 2, top)
  BY <1>1 DEF PushedBytes, top
<1> QED
  BY <1>3, <1>4 DEF leaf, top

\* The canonical script of every window is recognized, with its window.
LEMMA CanonicalIsTimeout ==
    ASSUME NEW w \in Nat, 1 <= w, w <= 65535, NEW k \in Keys
    PROVE  matchTimeoutLeaf(TimeoutLeaf(w, k)) = [operator |-> k, window |-> w]
<1> DEFINE P == NumberPush(w)
           T == TimeoutTail(k)
           leaf == TimeoutLeaf(w, k)
           d == decodeWindow(leaf)
<1>1. T \in Seq(Nat) /\ Len(T) = 5 /\ T[4] = k
  BY KeysAssumption DEF TimeoutTail, OP_CSV, OP_DROP, PUSH_32, OP_CHECKSIG
<1>2. P \in Seq(Nat) /\ Len(P) \in Nat /\ Len(P) >= 1
  <2>1. CASE w <= 16
    <3>1. P = <<80 + w>>
      BY <2>1, NumberPushIs
    <3> HIDE DEF P
    <3> QED
      BY <3>1
  <2>2. CASE w > 16
    <3>1. \E n \in 1 .. 3 : P \in Seq(Nat) /\ Len(P) = n + 1
      BY <2>2, PushIsShort
    <3> HIDE DEF P
    <3> QED
      BY <3>1
  <2> QED
    BY <2>1, <2>2
<1> HIDE DEF P, T
<1>12. P \in Seq(Nat)
  BY <1>2
<1>13. T \in Seq(Nat)
  BY <1>1
<1>3. leaf = P \o T
  BY DEF TimeoutLeaf, P, T
<1>4. /\ leaf \in Seq(Nat) /\ Len(leaf) = Len(P) + 5
      /\ \A i \in 1 .. Len(P) + 5 : leaf[i] = IF i <= Len(P) THEN P[i] ELSE T[i - Len(P)]
  <2>1. /\ P \o T \in Seq(Nat) /\ Len(P \o T) = Len(P) + Len(T)
        /\ \A i \in 1 .. Len(P) + Len(T) : (P \o T)[i] = IF i <= Len(P) THEN P[i] ELSE T[i - Len(P)]
    BY <1>12, <1>13, Joined
  <2> HIDE DEF leaf
  <2> QED
    BY <1>1, <1>3, <2>1
<1>5. SubSeq(leaf, Len(P) + 1, Len(leaf)) = T
  <2>1. SubSeq(P \o T, Len(P) + 1, Len(P) + Len(T)) = T
    <3>1. Len(T) > 0
      BY <1>1
    <3> QED
      BY <1>12, <1>13, <3>1, JoinedEnd
  <2>2. Len(leaf) = Len(P) + Len(T)
    BY <1>1, <1>4
  <2> HIDE DEF leaf
  <2> QED
    BY <1>3, <2>1, <2>2
<1>6. leaf # <<>> /\ leaf[1] = P[1]
  BY <1>2, <1>4, EmptySeq
<1>7. d = [window |-> w, consumed |-> Len(P)]
  <2> HIDE DEF leaf
  <2>1. CASE w <= 16
    <3>1. P = <<80 + w>>
      BY <2>1, NumberPushIs DEF P
    <3>2. Len(P) = 1 /\ leaf[1] = 80 + w
      BY <1>6, <3>1
    <3>3. SmallDelay(leaf) /\ leaf[1] - OP_1 + 1 = w
      BY <1>6, <2>1, <3>2 DEF SmallDelay, OP_1, OP_16
    <3> QED
      BY <3>2, <3>3 DEF decodeWindow
  <2>2. CASE w > 16
    <3>1. PICK n \in 1 .. 3 :
            /\ Len(P) = n + 1 /\ P[1] = n
            /\ SubSeq(P, 2, n + 1) \in Seq(Nat) /\ Len(SubSeq(P, 2, n + 1)) = n
            /\ ShortNumber(SubSeq(P, 2, n + 1), w)
      BY <2>2, PushIsShort DEF P
    <3> DEFINE b == SubSeq(P, 2, n + 1)
    <3>2. BlockDelay(b) /\ LittleEndian(b) = w
      <4> HIDE DEF b
      <4>1. b \in Seq(Nat) /\ Len(b) \in 1 .. 3 /\ ShortNumber(b, w)
        BY <3>1 DEF b
      <4> QED
        BY <4>1, ShortIsBlockDelay
    <3>3. PushedBytes(leaf) = b
      <4>1. PushedBytes(P \o T) = b
        BY <1>12, <1>13, <3>1, PushedIsPart
      <4> HIDE DEF b
      <4> QED
        BY <1>3, <4>1
    <3> HIDE DEF b
    <3>4. ~SmallDelay(leaf)
      BY <1>6, <3>1 DEF SmallDelay, OP_1, OP_16
    <3>5. PushedDelay(leaf)
      BY <1>4, <1>6, <3>1, <3>2, <3>3 DEF PushedDelay
    <3>6. 1 + leaf[1] = Len(P)
      BY <1>6, <3>1
    <3> QED
      BY <3>2, <3>3, <3>4, <3>5, <3>6 DEF decodeWindow
  <2> QED
    BY <2>1, <2>2
<1>8. d # None
  BY <1>2, <1>7, NoneAssumption
<1> HIDE DEF leaf, d
<1>9. d.consumed = Len(P) /\ d.window = w
  BY <1>7
<1>10. SubSeq(leaf, d.consumed + 1, Len(leaf)) = T
  BY <1>5, <1>9
<1>11. matchTimeoutLeaf(leaf) = [operator |-> k, window |-> w]
  <2> DEFINE tail == SubSeq(leaf, d.consumed + 1, Len(leaf))
  <2>1. matchTimeoutLeaf(leaf) =
          IF d = None THEN None
          ELSE IF Len(tail) = 5 /\ tail[4] \in Keys /\ tail = TimeoutTail(tail[4])
               THEN [operator |-> tail[4], window |-> d.window] ELSE None
    BY DEF matchTimeoutLeaf, d
  <2>2. tail = T
    BY <1>10
  <2>3. T = TimeoutTail(T[4])
    BY <1>1 DEF T
  <2> HIDE DEF tail
  <2> QED
    BY <1>1, <1>8, <1>9, <2>1, <2>2, <2>3
<1> QED
  BY <1>11 DEF leaf

-----------------------------------------------------------------------------
(* Envelopes: the loop accepts what an interpreter skips, and no more.     *)

\* The length in an operand, saturated.
LEMMA LengthOfOne ==
    ASSUME NEW a \in Nat
    PROVE  Value1(a) = IF a <= Saturated THEN a ELSE Saturated
BY DEF Value1, NextValue, Saturated

LEMMA LengthOfTwo ==
    ASSUME NEW a \in Nat, NEW b \in Nat
    PROVE  Value2(a, b) = IF a + 256 * b <= Saturated THEN a + 256 * b ELSE Saturated
BY DEF Value2, Value1, NextValue, Saturated

LEMMA LengthOfFour ==
    ASSUME NEW a \in Nat, NEW b \in Nat, NEW c \in Nat, NEW d \in Nat
    PROVE  Value4(a, b, c, d) =
              IF d = 0 /\ a + 256 * b + 65536 * c <= Saturated
              THEN a + 256 * b + 65536 * c ELSE Saturated
<1>1. CASE d = 0
  <2>1. Value1(d) = 0
    BY <1>1 DEF Value1, NextValue, Saturated
  <2>2. Value2(c, d) = IF c <= Saturated THEN c ELSE Saturated
    BY <2>1 DEF Value2, NextValue, Saturated
  <2>3. Value3(b, c, d) = IF b + 256 * c <= Saturated THEN b + 256 * c ELSE Saturated
    BY <2>2 DEF Value3, NextValue, Saturated
  <2>4. Value4(a, b, c, d) = IF a + 256 * b + 65536 * c <= Saturated
                             THEN a + 256 * b + 65536 * c ELSE Saturated
    BY <2>3 DEF Value4, NextValue, Saturated
  <2> QED
    BY <1>1, <2>4
<1>2. CASE d # 0
  <2>1. Value1(d) \in Nat /\ Value1(d) >= 1
    BY <1>2 DEF Value1, NextValue, Saturated
  <2>2. Value2(c, d) \in Nat /\ Value2(c, d) >= 256
    BY <2>1 DEF Value2, NextValue, Saturated
  <2>3. Value3(b, c, d) \in Nat /\ Value3(b, c, d) >= 65536
    BY <2>2 DEF Value3, NextValue, Saturated
  <2>4. Value4(a, b, c, d) = Saturated
    BY <2>3 DEF Value4, NextValue, Saturated
  <2> QED
    BY <1>2, <2>4
<1> QED
  BY <1>1, <1>2

\* What the loop reads of a push.
LEMMA PushLengthIs ==
    ASSUME NEW e \in Seq(Nat), NEW i \in 1 .. Len(e), e[i] <= 78,
           i + LengthBytes(e[i]) <= Len(e)
    PROVE  /\ e[i] < 76 => LengthBytes(e[i]) = 0 /\ PushLength(e, i) = e[i]
           /\ e[i] = 76 => LengthBytes(e[i]) = 1 /\ PushLength(e, i) = Value1(e[i + 1])
           /\ e[i] = 77 => LengthBytes(e[i]) = 2 /\ PushLength(e, i) = Value2(e[i + 1], e[i + 2])
           /\ e[i] = 78 => /\ LengthBytes(e[i]) = 4
                           /\ PushLength(e, i) = Value4(e[i + 1], e[i + 2], e[i + 3], e[i + 4])
<1> DEFINE op == e[i]
           n == LengthBytes(op)
           lo == i + 1
           hi == i + n
           b == SubSeq(e, lo, hi)
<1>0. Len(e) \in Nat /\ op \in Nat /\ \A m \in 1 .. Len(e) : e[m] \in Nat
  BY LenProperties, ElementOfSeq
<1>1. /\ op < 76 => n = 0 /\ PushLength(e, i) = op
      /\ op = 76 => n = 1
      /\ op = 77 => n = 2
      /\ op = 78 => n = 4
  BY <1>0 DEF LengthBytes, PushLength, OP_PUSHDATA1, OP_PUSHDATA2, OP_PUSHDATA4
<1>2. op >= 76 => PushLength(e, i) = LittleEndian(b)
  BY <1>0 DEF PushLength, OP_PUSHDATA1
<1>3. ASSUME n \in 1 .. 4, hi <= Len(e)
      PROVE  /\ b \in Seq(Nat) /\ Len(b) = n
             /\ b[1] = e[i + 1] /\ (n >= 2 => b[2] = e[i + 2])
             /\ (n >= 3 => b[3] = e[i + 3]) /\ (n >= 4 => b[4] = e[i + 4])
  <2>1. /\ lo \in Nat /\ hi \in Nat /\ lo >= 1 /\ lo <= hi /\ hi - lo + 1 = n
        /\ \A m \in 1 .. n : lo + m - 1 = i + m
        /\ \A m \in lo .. hi : m \in 1 .. Len(e)
    <3>1. i \in Nat /\ i >= 1 /\ n \in Nat /\ n >= 1
      BY <1>0, <1>3
    <3> HIDE DEF n, op
    <3>2. lo \in Nat /\ hi \in Nat /\ lo >= 1 /\ lo <= hi /\ hi - lo + 1 = n
      BY <3>1
    <3>3. \A m \in 1 .. n : lo + m - 1 = i + m
      BY <3>1
    <3>4. \A m \in lo .. hi : m \in 1 .. Len(e)
      <4> HIDE DEF hi
      <4> QED
        BY <1>0, <1>3, <3>1, <3>2
    <3> QED
      BY <3>2, <3>3, <3>4
  <2>2. \A m \in lo .. hi : e[m] \in Nat
    BY <1>0, <2>1
  <2> HIDE DEF lo, hi
  <2>3. /\ SubSeq(e, lo, hi) \in Seq(Nat) /\ Len(SubSeq(e, lo, hi)) = hi - lo + 1
        /\ \A m \in 1 .. hi - lo + 1 : SubSeq(e, lo, hi)[m] = e[lo + m - 1]
    BY <2>1, <2>2, PartOf
  <2> HIDE DEF n
  <2>4. b \in Seq(Nat) /\ Len(b) = n /\ \A m \in 1 .. n : b[m] = e[i + m]
    BY <2>1, <2>3
  <2> HIDE DEF b
  <2> QED
    BY <1>3, <2>4
<1>4. n \in 1 .. 4 => Len(b) \in 0 .. 5
  BY <1>3
<1>5. op \in Nat /\ op <= 78 /\ i + n <= Len(e)
  BY <1>0
<1> HIDE DEF b, n, op
<1>6. ASSUME op = 76
      PROVE  PushLength(e, i) = Value1(e[i + 1])
  <2>1. b \in Seq(Nat) /\ Len(b) = 1 /\ Len(b) \in 0 .. 5 /\ b[1] = e[i + 1]
    BY <1>1, <1>3, <1>5, <1>6
  <2> QED
    BY <1>2, <1>5, <1>6, <2>1, LittleEndianIs
<1>7. ASSUME op = 77
      PROVE  PushLength(e, i) = Value2(e[i + 1], e[i + 2])
  <2>1. b \in Seq(Nat) /\ Len(b) = 2 /\ Len(b) \in 0 .. 5 /\ b[1] = e[i + 1] /\ b[2] = e[i + 2]
    BY <1>1, <1>3, <1>5, <1>7
  <2> QED
    BY <1>2, <1>5, <1>7, <2>1, LittleEndianIs
<1>8. ASSUME op = 78
      PROVE  PushLength(e, i) = Value4(e[i + 1], e[i + 2], e[i + 3], e[i + 4])
  <2>1. /\ b \in Seq(Nat) /\ Len(b) = 4 /\ Len(b) \in 0 .. 5
        /\ b[1] = e[i + 1] /\ b[2] = e[i + 2] /\ b[3] = e[i + 3] /\ b[4] = e[i + 4]
    BY <1>1, <1>3, <1>5, <1>8
  <2>2. LittleEndian(b) = Value4(b[1], b[2], b[3], b[4])
    BY <2>1, LittleEndianIs
  <2>3. Value4(b[1], b[2], b[3], b[4]) = Value4(e[i + 1], e[i + 2], e[i + 3], e[i + 4])
    BY <2>1
  <2> QED
    BY <1>2, <1>5, <1>8, <2>2, <2>3
<1>9. /\ op < 76 => n = 0 /\ PushLength(e, i) = op
      /\ op = 76 => n = 1 /\ PushLength(e, i) = Value1(e[i + 1])
      /\ op = 77 => n = 2 /\ PushLength(e, i) = Value2(e[i + 1], e[i + 2])
      /\ op = 78 => n = 4 /\ PushLength(e, i) = Value4(e[i + 1], e[i + 2], e[i + 3], e[i + 4])
  BY <1>1, <1>6, <1>7, <1>8
<1> QED
  BY <1>9 DEF n, op

LEMMA LengthsAreNat ==
    ASSUME NEW a \in Nat, NEW b \in Nat, NEW c \in Nat, NEW d \in Nat
    PROVE  Value1(a) \in Nat /\ Value2(a, b) \in Nat /\ Value4(a, b, c, d) \in Nat
<1>1. \A v, x \in Nat : NextValue(v, x) \in Nat
  BY DEF NextValue, Saturated
<1>2. Value1(a) \in Nat /\ Value1(b) \in Nat /\ Value1(d) \in Nat
  BY <1>1 DEF Value1
<1>3. Value2(a, b) \in Nat /\ Value2(c, d) \in Nat
  BY <1>1, <1>2 DEF Value2
<1>4. Value3(b, c, d) \in Nat
  BY <1>1, <1>3 DEF Value3
<1>5. Value4(a, b, c, d) \in Nat
  BY <1>1, <1>4 DEF Value4
<1> QED
  BY <1>2, <1>3, <1>5

\* A step of the loop moves on, within the script.
LEMMA NextIsLater ==
    ASSUME NEW e \in Seq(Nat), NEW i \in 1 .. Len(e), IsPush(e, i)
    PROVE  NextInstruction(e, i) \in i + 1 .. Len(e) + 1
<1> DEFINE n == LengthBytes(e[i])
           p == PushLength(e, i)
<1>1. e[i] \in Nat /\ e[i] <= 78 /\ i + n <= Len(e) /\ i + 1 + n + p <= Len(e) + 1
  BY ElementOfSeq DEF IsPush, NextInstruction, OP_PUSHDATA4
<1>2. n \in Nat /\ p \in Nat
  <2>1. \A m \in 1 .. Len(e) : e[m] \in Nat
    BY ElementOfSeq
  <2>2. CASE e[i] < 76
    BY <1>1, <2>2, PushLengthIs
  <2>3. CASE e[i] = 76
    <3>1. n = 1 /\ p = Value1(e[i + 1])
      BY <1>1, <2>3, PushLengthIs
    <3>2. e[i + 1] \in Nat
      BY <1>1, <2>1, <3>1
    <3>3. Value1(e[i + 1]) \in Nat
      BY <3>2, LengthsAreNat
    <3> QED
      BY <3>1, <3>3
  <2>4. CASE e[i] = 77
    <3>1. n = 2 /\ p = Value2(e[i + 1], e[i + 2])
      BY <1>1, <2>4, PushLengthIs
    <3>2. e[i + 1] \in Nat /\ e[i + 2] \in Nat
      BY <1>1, <2>1, <3>1
    <3>3. Value2(e[i + 1], e[i + 2]) \in Nat
      BY <3>2, LengthsAreNat
    <3> QED
      BY <3>1, <3>3
  <2>5. CASE e[i] = 78
    <3>1. n = 4 /\ p = Value4(e[i + 1], e[i + 2], e[i + 3], e[i + 4])
      BY <1>1, <2>5, PushLengthIs
    <3>2. e[i + 1] \in Nat /\ e[i + 2] \in Nat /\ e[i + 3] \in Nat /\ e[i + 4] \in Nat
      <4>1. i + 4 <= Len(e)
        BY <1>1, <3>1
      <4>2. \A k \in 1 .. 4 : i + k \in 1 .. Len(e)
        BY <4>1
      <4> QED
        BY <2>1, <4>2
    <3>3. Value4(e[i + 1], e[i + 2], e[i + 3], e[i + 4]) \in Nat
      BY <3>2, LengthsAreNat
    <3> QED
      BY <3>1, <3>3
  <2> QED
    BY <1>1, <2>2, <2>3, <2>4, <2>5
<1> HIDE DEF n, p
<1> QED
  BY <1>1, <1>2 DEF NextInstruction, n, p

\* The bytes from i to before j are one push instruction iff the loop, at i,
\* goes on at j.
LEMMA PushScriptIs ==
    ASSUME NEW e \in Seq(Nat), Len(e) < Saturated, NEW i \in 1 .. Len(e),
           NEW j \in Nat, i < j, j <= Len(e) + 1
    PROVE  IsPushScript(SubSeq(e, i, j - 1)) <=> IsPush(e, i) /\ j = NextInstruction(e, i)
<1> DEFINE last == j - 1
           s == SubSeq(e, i, last)
           op == e[i]
           n == LengthBytes(op)
           len == Len(e)
<1>0. len \in Nat /\ \A m \in 1 .. len : e[m] \in Nat
  BY LenProperties, ElementOfSeq
<1>1. /\ Len(s) = j - i
      /\ \A m \in 1 .. j - i : s[m] = e[i + m - 1]
  <2>1. /\ i \in Nat /\ i >= 1 /\ last \in Nat /\ i <= last /\ last - i + 1 = j - i
        /\ \A m \in i .. last : e[m] \in Nat
    BY <1>0
  <2> HIDE DEF last, len
  <2>2. /\ SubSeq(e, i, last) \in Seq(Nat) /\ Len(SubSeq(e, i, last)) = last - i + 1
        /\ \A m \in 1 .. last - i + 1 : SubSeq(e, i, last)[m] = e[i + m - 1]
    BY <2>1, PartOf
  <2> HIDE DEF s
  <2> QED
    BY <2>1, <2>2 DEF s
<1> HIDE DEF s
<1>2. /\ s[1] = op
      /\ j - i > 1 => s[2] = e[i + 1]
      /\ j - i > 2 => s[3] = e[i + 2]
      /\ j - i > 3 => s[4] = e[i + 3]
      /\ j - i > 4 => s[5] = e[i + 4]
  <2>1. i + 1 - 1 = i /\ i + 2 - 1 = i + 1 /\ i + 3 - 1 = i + 2 /\ i + 4 - 1 = i + 3 /\ i + 5 - 1 = i + 4
    BY <1>0
  <2>2. /\ 1 \in 1 .. j - i
        /\ j - i > 1 => 2 \in 1 .. j - i
        /\ j - i > 2 => 3 \in 1 .. j - i
        /\ j - i > 3 => 4 \in 1 .. j - i
        /\ j - i > 4 => 5 \in 1 .. j - i
    BY <1>0
  <2> QED
    BY <1>1, <2>1, <2>2
<1>3. IsPushScript(s) <=>
        \/ op < 76 /\ j - i = 1 + op
        \/ op = 76 /\ j - i > 1 /\ j - i = 2 + s[2]
        \/ op = 77 /\ j - i > 2 /\ j - i = 3 + s[2] + 256 * s[3]
        \/ op = 78 /\ j - i > 4 /\ s[5] = 0 /\ j - i = 5 + s[2] + 256 * s[3] + 65536 * s[4]
  BY <1>1, <1>2, SMT DEF IsPushScript, OP_PUSHDATA1, OP_PUSHDATA2, OP_PUSHDATA4
<1>4. IsPush(e, i) <=>
        /\ op <= 78 /\ i + n <= len
        /\ i + 1 + n + PushLength(e, i) <= len + 1
  BY DEF IsPush, NextInstruction, OP_PUSHDATA4
<1>5. NextInstruction(e, i) = i + 1 + n + PushLength(e, i)
  BY DEF NextInstruction
<1>15. Saturated \in Nat
  BY DEF Saturated
<1>6. op \in Nat /\ len < Saturated /\ Saturated \in Nat /\ i \in Nat /\ i >= 1 /\ i <= len /\ j <= len + 1
  BY <1>0, <1>15
<1>7. /\ op < 76 => n = 0
      /\ op = 76 => n = 1
      /\ op = 77 => n = 2
      /\ op = 78 => n = 4
  BY <1>6 DEF LengthBytes, OP_PUSHDATA1, OP_PUSHDATA2, OP_PUSHDATA4
<1>8. op <= 78 /\ i + n <= len =>
        /\ op < 76 => PushLength(e, i) = op
        /\ op = 76 => PushLength(e, i) = Value1(e[i + 1])
        /\ op = 77 => PushLength(e, i) = Value2(e[i + 1], e[i + 2])
        /\ op = 78 => PushLength(e, i) = Value4(e[i + 1], e[i + 2], e[i + 3], e[i + 4])
  BY PushLengthIs
<1> DEFINE p == PushLength(e, i)
           next == NextInstruction(e, i)
           a == e[i + 1]
           b == e[i + 2]
           c == e[i + 3]
           d == e[i + 4]
<1>9. ASSUME op < 76
      PROVE  IsPushScript(s) <=> IsPush(e, i) /\ j = next
  <2>1. n = 0 /\ p = op
    BY <1>6, <1>7, <1>8, <1>9
  <2>2. IsPushScript(s) <=> j - i = 1 + op
    BY <1>3, <1>6, <1>9, SMT
  <2>3. IsPush(e, i) <=> i + 1 + op <= len + 1
    BY <1>4, <1>6, <1>9, <2>1
  <2>4. next = i + 1 + op
    BY <1>5, <1>6, <2>1
  <2> HIDE DEF next, op, len
  <2> QED
    BY <1>6, <2>2, <2>3, <2>4
<1>10. ASSUME op = 76
       PROVE  IsPushScript(s) <=> IsPush(e, i) /\ j = next
  <2>1. n = 1
    BY <1>7, <1>10
  <2>2. CASE i + 1 > len
    <3>1. ~ IsPush(e, i)
      BY <1>4, <1>6, <2>1, <2>2
    <3>2. ~(j - i > 1)
      BY <1>6, <2>2
    <3>3. ~ IsPushScript(s)
      BY <1>3, <1>10, <3>2, SMT
    <3> QED
      BY <3>1, <3>3
  <2>3. CASE i + 1 <= len
    <3>1. p = Value1(a)
      BY <1>8, <1>10, <2>1, <2>3
    <3>2. a \in Nat
      BY <1>0, <1>6, <2>3
    <3>3. p = IF a <= Saturated THEN a ELSE Saturated
      BY <3>1, <3>2, LengthOfOne
    <3>4. IsPushScript(s) <=> j - i > 1 /\ j - i = 2 + a
      BY <1>2, <1>3, <1>10, SMT
    <3>5. IsPush(e, i) <=> i + 2 + p <= len + 1
      BY <1>4, <1>6, <1>10, <2>1, <2>3, <3>2, <3>3
    <3>6. next = i + 2 + p
      BY <1>5, <1>6, <2>1, <3>2, <3>3
    <3> HIDE DEF next, op, len, p, a
    <3> QED
      BY <1>6, <3>2, <3>3, <3>4, <3>5, <3>6
  <2> QED
    BY <1>6, <2>2, <2>3
<1>11. ASSUME op = 77
       PROVE  IsPushScript(s) <=> IsPush(e, i) /\ j = next
  <2>1. n = 2
    BY <1>7, <1>11
  <2>2. CASE i + 2 > len
    <3>1. ~ IsPush(e, i)
      BY <1>4, <1>6, <2>1, <2>2
    <3>2. ~(j - i > 2)
      BY <1>6, <2>2
    <3>3. ~ IsPushScript(s)
      BY <1>3, <1>11, <3>2, SMT
    <3> QED
      BY <3>1, <3>3
  <2>3. CASE i + 2 <= len
    <3>1. p = Value2(a, b)
      BY <1>8, <1>11, <2>1, <2>3
    <3>2. a \in Nat /\ b \in Nat
      BY <1>0, <1>6, <2>3
    <3>3. p = IF a + 256 * b <= Saturated THEN a + 256 * b ELSE Saturated
      BY <3>1, <3>2, LengthOfTwo
    <3>4. IsPushScript(s) <=> j - i > 2 /\ j - i = 3 + a + 256 * b
      <4>1. j - i \in Int
        BY <1>6
      <4>2. j - i > 2 => s[2] = a /\ s[3] = b
        BY <1>2, <4>1
      <4> HIDE DEF op, a, b
      <4> QED
        BY <1>3, <1>11, <4>2, SMT
    <3>5. p \in Nat
      <4> HIDE DEF p, a, b
      <4> QED
        BY <1>15, <3>2, <3>3, SMT
    <3>6. IsPush(e, i) <=> i + 3 + p <= len + 1
      <4>1. IsPush(e, i) <=> i + 1 + n + p <= len + 1
        <5>1. op <= 78
          BY <1>11
        <5>2. i + n <= len
          BY <2>1, <2>3
        <5> QED
          BY <1>4, <5>1, <5>2
      <4> HIDE DEF n, p, len
      <4> QED
        BY <1>6, <2>1, <3>5, <4>1
    <3>7. next = i + 3 + p
      <4> HIDE DEF n, p
      <4> QED
        BY <1>5, <1>6, <2>1, <3>5 DEF p
    <3> HIDE DEF next, op, len, p, a, b
    <3> QED
      BY <1>6, <3>2, <3>3, <3>4, <3>6, <3>7
  <2> QED
    BY <1>6, <2>2, <2>3
<1>12. ASSUME op = 78
       PROVE  IsPushScript(s) <=> IsPush(e, i) /\ j = next
  <2>1. n = 4
    BY <1>7, <1>12, SMT
  <2>2. CASE i + 4 > len
    <3>1. ~ IsPush(e, i)
      BY <1>4, <1>6, <2>1, <2>2, SMT
    <3>2. ~(j - i > 4)
      BY <1>6, <2>2, SMT
    <3>3. ~ IsPushScript(s)
      BY <1>3, <1>12, <3>2, SMT
    <3> QED
      BY <3>1, <3>3, SMT
  <2>3. CASE i + 4 <= len
    <3>1. p = Value4(a, b, c, d)
      BY <1>8, <1>12, <2>1, <2>3, SMT
    <3>2. a \in Nat /\ b \in Nat /\ c \in Nat /\ d \in Nat
      BY <1>0, <1>6, <2>3, SMT
    <3>3. p = IF d = 0 /\ a + 256 * b + 65536 * c <= Saturated
              THEN a + 256 * b + 65536 * c ELSE Saturated
      <4> HIDE DEF a, b, c, d
      <4> QED
        BY <3>1, <3>2, LengthOfFour, SMT
    <3>4. IsPushScript(s) <=> j - i > 4 /\ d = 0 /\ j - i = 5 + a + 256 * b + 65536 * c
      <4>1. j - i \in Int
        BY <1>6
      <4>2. j - i > 4 => s[2] = a /\ s[3] = b /\ s[4] = c /\ s[5] = d
        BY <1>2, <4>1
      <4> HIDE DEF op, a, b, c, d
      <4> QED
        BY <1>3, <1>12, <4>2, SMT
    <3>5. p \in Nat
      <4> HIDE DEF p, a, b, c, d
      <4> QED
        BY <1>15, <3>2, <3>3, SMT
    <3>6. IsPush(e, i) <=> i + 5 + p <= len + 1
      <4>1. IsPush(e, i) <=> i + 1 + n + p <= len + 1
        <5>1. op <= 78
          BY <1>12
        <5>2. i + n <= len
          BY <2>1, <2>3
        <5> QED
          BY <1>4, <5>1, <5>2
      <4> HIDE DEF n, p, len
      <4> QED
        BY <1>6, <2>1, <3>5, <4>1
    <3>7. next = i + 5 + p
      <4> HIDE DEF n, p
      <4> QED
        BY <1>5, <1>6, <2>1, <3>5 DEF p
    <3> HIDE DEF next, op, len, p, a, b, c, d
    <3> QED
      BY <1>6, <3>2, <3>3, <3>4, <3>6, <3>7, SMT
  <2> QED
    BY <1>6, <2>2, <2>3, SMT
<1>13. ASSUME op > 78
       PROVE  IsPushScript(s) <=> IsPush(e, i) /\ j = next
  BY <1>3, <1>4, <1>6, <1>13, SMT
<1>14. op < 76 \/ op = 76 \/ op = 77 \/ op = 78 \/ op > 78
  BY <1>6
<1> QED
  BY <1>9, <1>10, <1>11, <1>12, <1>13, <1>14, SMT DEF s

\* From i on, the script can be cut into pushes and a last instruction.
Follows(cuts, a, b) == a < b /\ \A k \in cuts : k <= a \/ b <= k
CutsFrom(e, i) ==
    {cuts \in SUBSET (i .. Len(e)) :
        {i, Len(e)} \subseteq cuts
        /\ \A a, b \in cuts : Follows(cuts, a, b) => IsPushScript(SubSeq(e, a, b - 1))}
Inert(e, i) == i <= Len(e) /\ CutsFrom(e, i) # {}

\* A cut behind the first instruction is the end of it.
LEMMA InertGoesOn ==
    ASSUME NEW e \in Seq(Nat), Len(e) < Saturated, NEW i \in 1 .. Len(e), i < Len(e), Inert(e, i)
    PROVE  IsPush(e, i) /\ Inert(e, NextInstruction(e, i))
<1> DEFINE n == Len(e)
<1>1. n \in Nat /\ i \in Nat /\ i >= 1 /\ i < n /\ n < Saturated
  OBVIOUS
<1>2. PICK cuts \in CutsFrom(e, i) : TRUE
  BY DEF Inert
<1>3. /\ cuts \subseteq i .. n /\ i \in cuts /\ n \in cuts
      /\ \A a, b \in cuts : Follows(cuts, a, b) => IsPushScript(SubSeq(e, a, b - 1))
  BY <1>2 DEF CutsFrom
<1> HIDE DEF n
<1>4. PICK j \in cuts \ {i} : \A k \in cuts \ {i} : j <= k
  <2>1. cuts \ {i} \in SUBSET Nat /\ cuts \ {i} # {}
    BY <1>1, <1>3
  <2> QED
    BY <2>1, Least
<1>5. j \in Nat /\ i < j /\ j <= n
  BY <1>1, <1>3, <1>4
<1>6. Follows(cuts, i, j)
  BY <1>3, <1>4, <1>5 DEF Follows
<1>7. IsPushScript(SubSeq(e, i, j - 1))
  BY <1>3, <1>4, <1>6
<1>8. IsPush(e, i) /\ j = NextInstruction(e, i)
  <2>1. j <= Len(e) + 1
    BY <1>1, <1>5 DEF n
  <2> QED
    BY <1>5, <1>7, <2>1, PushScriptIs
<1>9. cuts \ {i} \in CutsFrom(e, j)
  <2>1. cuts \ {i} \subseteq j .. n /\ j \in cuts \ {i} /\ n \in cuts \ {i}
    BY <1>1, <1>3, <1>4, <1>5
  <2>2. ASSUME NEW a \in cuts \ {i}, NEW b \in cuts \ {i}, Follows(cuts \ {i}, a, b)
        PROVE  IsPushScript(SubSeq(e, a, b - 1))
    <3>1. i <= a
      BY <1>1, <1>3
    <3>2. Follows(cuts, a, b)
      BY <2>2, <3>1 DEF Follows
    <3> QED
      BY <1>3, <3>2
  <2> HIDE DEF n
  <2> QED
    BY <2>1, <2>2 DEF CutsFrom, n
<1> QED
  BY <1>5, <1>8, <1>9 DEF Inert, n

\* And an instruction can be put before what can be cut.
LEMMA InertBefore ==
    ASSUME NEW e \in Seq(Nat), Len(e) < Saturated, NEW i \in 1 .. Len(e), IsPush(e, i),
           Inert(e, NextInstruction(e, i))
    PROVE  Inert(e, i)
<1> DEFINE n == Len(e)
           j == NextInstruction(e, i)
<1>1. n \in Nat /\ i \in Nat /\ i >= 1 /\ i <= n /\ n < Saturated
  OBVIOUS
<1>2. j \in Nat /\ i < j /\ j <= n
  <2>1. j \in i + 1 .. n + 1
    BY NextIsLater
  <2>2. j <= n
    BY DEF Inert
  <2> HIDE DEF j, n
  <2> QED
    BY <1>1, <2>1, <2>2
<1>3. PICK cuts \in CutsFrom(e, j) : TRUE
  BY DEF Inert
<1>4. /\ cuts \subseteq j .. n /\ j \in cuts /\ n \in cuts
      /\ \A a, b \in cuts : Follows(cuts, a, b) => IsPushScript(SubSeq(e, a, b - 1))
  BY <1>3 DEF CutsFrom
<1>5. IsPushScript(SubSeq(e, i, j - 1))
  <2>1. j <= Len(e) + 1
    BY <1>1, <1>2 DEF n
  <2> HIDE DEF n
  <2>2. \A m \in Nat : i < m /\ m <= Len(e) + 1 /\ m = j =>
          (IsPushScript(SubSeq(e, i, m - 1)) <=> IsPush(e, i) /\ m = j)
    BY PushScriptIs
  <2> HIDE DEF j
  <2> QED
    BY <1>2, <2>1, <2>2
<1> HIDE DEF j, n
<1> DEFINE all == cuts \cup {i}
<1>6. all \subseteq i .. n /\ i \in all /\ n \in all
  BY <1>1, <1>2, <1>4
<1>7. ASSUME NEW a \in all, NEW b \in all, Follows(all, a, b)
      PROVE  IsPushScript(SubSeq(e, a, b - 1))
  <2>0. \A k \in cuts : k \in Nat /\ j <= k /\ i < k
    BY <1>1, <1>2, <1>4
  <2>1. b \in cuts
    <3>1. b # i
      <4> SUFFICES ASSUME b = i
                   PROVE  FALSE
        OBVIOUS
      <4>1. a = i \/ i < a
        BY <2>0
      <4> QED
        BY <1>1, <1>7, <2>0, <4>1 DEF Follows
    <3> QED
      BY <3>1
  <2>2. CASE a = i
    <3>1. b <= j
      BY <1>1, <1>2, <1>4, <1>7, <2>2 DEF Follows
    <3>2. b = j
      BY <1>2, <2>0, <2>1, <3>1
    <3> QED
      BY <1>5, <2>2, <3>2
  <2>3. CASE a # i
    <3>1. a \in cuts /\ Follows(cuts, a, b)
      BY <1>7, <2>3 DEF Follows
    <3> QED
      BY <1>4, <2>1, <3>1
  <2> QED
    BY <2>2, <2>3
<1>8. all \in CutsFrom(e, i)
  <2> HIDE DEF all
  <2> QED
    BY <1>6, <1>7 DEF CutsFrom, n
<1> QED
  BY <1>1, <1>8 DEF Inert, n

\* At its last instruction a script is cut.
LEMMA InertAtEnd ==
    ASSUME NEW e \in Seq(Nat), Len(e) >= 1
    PROVE  Inert(e, Len(e))
<1>1. Len(e) \in Nat
  OBVIOUS
<1>2. {Len(e)} \in CutsFrom(e, Len(e))
  BY <1>1 DEF CutsFrom, Follows
<1> QED
  BY <1>1, <1>2 DEF Inert

\* One step of the loop.
StepOf(e, f, i) ==
    IF i > Len(e) THEN FALSE
    ELSE IF e[i] = OP_ENDIF THEN i = Len(e)
    ELSE IsPush(e, i) /\ f[NextInstruction(e, i)]

\* Whether the rest of the script can be cut follows the loop.
LEMMA InertSteps ==
    ASSUME NEW e \in Seq(Nat), Len(e) < Saturated, Len(e) >= 1, e[Len(e)] = OP_ENDIF,
           NEW i \in 1 .. Len(e) + 1
    PROVE  Inert(e, i) <=> StepOf(e, [j \in 1 .. Len(e) + 1 |-> Inert(e, j)], i)
<1> DEFINE n == Len(e)
           f == [j \in 1 .. Len(e) + 1 |-> Inert(e, j)]
           next == NextInstruction(e, i)
<1>1. n \in Nat /\ i \in Nat /\ i >= 1 /\ i <= n + 1
  OBVIOUS
<1>2. CASE i > n
  BY <1>1, <1>2 DEF Inert, StepOf
<1>3. CASE i = n
  BY <1>1, <1>3, InertAtEnd DEF StepOf
<1>4. CASE i < n
  <2>1. i \in 1 .. n
    BY <1>1, <1>4
  <2>2. Inert(e, i) <=> IsPush(e, i) /\ Inert(e, next)
    BY <1>4, <2>1, InertGoesOn, InertBefore
  <2>3. IsPush(e, i) => e[i] # OP_ENDIF
    BY DEF IsPush, OP_PUSHDATA4, OP_ENDIF
  <2>4. IsPush(e, i) => (f[next] <=> Inert(e, next))
    <3>1. IsPush(e, i) => next \in i + 1 .. n + 1
      BY <2>1, NextIsLater
    <3> HIDE DEF next
    <3> QED
      BY <1>1, <3>1
  <2>5. StepOf(e, f, i) <=> e[i] # OP_ENDIF /\ IsPush(e, i) /\ f[next]
    <3>1. ~(i > n) /\ i # n
      BY <1>1, <1>4
    <3> HIDE DEF f, next
    <3> QED
      BY <3>1 DEF StepOf, next
  <2>6. Inert(e, i) <=> StepOf(e, f, i)
    <3> HIDE DEF f, next
    <3> QED
      BY <2>2, <2>3, <2>4, <2>5
  <2> QED
    BY <2>6
<1> HIDE DEF f
<1> QED
  BY <1>1, <1>2, <1>3, <1>4 DEF f

\* The loop accepts from the third element on iff the rest can be cut.
LEMMA ClosesIs ==
    ASSUME NEW e \in Seq(Nat), Len(e) < Saturated, Len(e) > 6, e[Len(e)] = OP_ENDIF
    PROVE  Closes(e) <=> Inert(e, 3)
<1> DEFINE D == 1 .. Len(e) + 1
           W == [i \in D |-> Inert(e, i)]
           Body(f) == [i \in D |->
                IF i > Len(e) THEN FALSE
                ELSE IF e[i] = OP_ENDIF THEN i = Len(e)
                ELSE IsPush(e, i) /\ f[NextInstruction(e, i)]]
           loop == CHOOSE f : f = Body(f)
<1>0. Len(e) \in Nat /\ 3 \in D
  OBVIOUS
<1>1. Closes(e) = loop[3]
  BY DEF Closes
<1>2. W = Body(W)
  <2>1. ASSUME NEW i \in D
        PROVE  W[i] = StepOf(e, W, i)
    <3>1. W[i] = Inert(e, i)
      OBVIOUS
    <3>2. Inert(e, i) <=> StepOf(e, W, i)
      BY <1>0, InertSteps
    <3>3. Inert(e, i) \in BOOLEAN /\ StepOf(e, W, i) \in BOOLEAN
      BY DEF Inert, StepOf, IsPush
    <3> QED
      BY <3>1, <3>2, <3>3
  <2>2. W = [i \in D |-> W[i]]
    OBVIOUS
  <2>3. Body(W) = [i \in D |-> StepOf(e, W, i)]
    <3> HIDE DEF W, D
    <3> QED
      BY DEF StepOf
  <2> HIDE DEF W, Body
  <2> QED
    BY <2>1, <2>2, <2>3
<1>3. loop = Body(loop)
  <2> HIDE DEF W, Body
  <2> QED
    BY <1>2
<1> HIDE DEF loop
<1>4. \A i \in D : loop[i] = StepOf(e, loop, i)
  <2> DEFINE body == Body(loop)
  <2>1. \A i \in D : body[i] = StepOf(e, loop, i)
    BY DEF StepOf
  <2> HIDE DEF body
  <2> QED
    BY <1>3, <2>1 DEF body
<1>5. \A i \in D : W[i] = StepOf(e, W, i)
  <2> DEFINE body == Body(W)
  <2>1. \A i \in D : body[i] = StepOf(e, W, i)
    BY DEF StepOf
  <2> HIDE DEF body, W
  <2> QED
    BY <1>2, <2>1 DEF body
<1> HIDE DEF W
<1> DEFINE Wrong == {i \in D : loop[i] # W[i]}
<1>6. ASSUME NEW i \in D, \A k \in D : k > i => loop[k] = W[k]
      PROVE  loop[i] = W[i]
  <2>1. loop[i] = StepOf(e, loop, i) /\ W[i] = StepOf(e, W, i)
    BY <1>4, <1>5
  <2>2. CASE i <= Len(e) /\ IsPush(e, i)
    <3>1. NextInstruction(e, i) \in i + 1 .. Len(e) + 1
      <4>1. i \in 1 .. Len(e)
        BY <1>0, <2>2
      <4> QED
        BY <2>2, <4>1, NextIsLater
    <3> DEFINE next == NextInstruction(e, i)
    <3>2. loop[next] = W[next]
      <4> HIDE DEF next
      <4>1. next \in D /\ next > i
        BY <1>0, <3>1 DEF next
      <4> QED
        BY <1>6, <4>1
    <3> QED
      BY <2>1, <3>2 DEF StepOf
  <2>3. CASE i > Len(e) \/ ~IsPush(e, i)
    BY <2>1, <2>3 DEF StepOf
  <2> QED
    BY <1>0, <2>2, <2>3
<1>7. Wrong = {}
  <2> SUFFICES ASSUME Wrong # {}
               PROVE  FALSE
    OBVIOUS
  <2>1. Wrong \in SUBSET Int /\ IsFiniteSet(Wrong)
    <3>1. IsFiniteSet(D)
      <4>1. 1 \in Int /\ Len(e) + 1 \in Int
        BY <1>0
      <4> QED
        BY <4>1, FS_Interval
    <3>2. Wrong \subseteq D /\ D \subseteq Int
      BY <1>0
    <3> HIDE DEF Wrong, D
    <3> QED
      BY <3>1, <3>2, FS_Subset
  <2>2. PICK i \in Wrong : \A k \in Wrong : k <= i
    <3> HIDE DEF Wrong
    <3> QED
      BY <2>1, Greatest
  <2>3. \A k \in D : k > i => loop[k] = W[k]
    BY <1>0, <2>2
  <2> QED
    BY <1>6, <2>2, <2>3
<1>8. loop[3] = W[3]
  BY <1>0, <1>7
<1>9. W[3] = Inert(e, 3)
  BY <1>0 DEF W
<1> QED
  BY <1>1, <1>8, <1>9

\* An envelope is accepted iff an interpreter skips it.
LEMMA EnvelopeIs ==
    ASSUME NEW e \in Seq(Nat), Len(e) < Saturated
    PROVE  isOrdEnvelope(e) <=> InertEnvelope(e)
<1>1. Len(OrdPrefix) = 6
  BY DEF OrdPrefix
<1>2. isOrdEnvelope(e) <=>
        /\ Len(e) > 6 /\ SubSeq(e, 1, 6) = OrdPrefix
        /\ e[Len(e)] = OP_ENDIF /\ Closes(e)
  BY <1>1 DEF isOrdEnvelope
<1>3. Len(e) > 6 => (Inert(e, 3) <=> \E cuts \in SUBSET (3 .. Len(e)) :
        /\ {3, Len(e)} \subseteq cuts
        /\ \A i, j \in cuts :
            (i < j /\ \A k \in cuts : k <= i \/ j <= k) => IsPushScript(SubSeq(e, i, j - 1)))
  <2>1. Len(e) > 6 => 3 <= Len(e)
    OBVIOUS
  <2> QED
    BY <2>1 DEF Inert, CutsFrom, Follows
<1>4. InertEnvelope(e) <=>
        /\ Len(e) > 6 /\ SubSeq(e, 1, 6) = OrdPrefix
        /\ e[Len(e)] = OP_ENDIF /\ Inert(e, 3)
  BY <1>3 DEF InertEnvelope
<1>5. Len(e) > 6 /\ e[Len(e)] = OP_ENDIF => (Closes(e) <=> Inert(e, 3))
  BY ClosesIs
<1> QED
  BY <1>2, <1>4, <1>5

\* A script is a sequence of numbers, and what follows a prefix of six, too.
LEMMA ScriptIsNumbers ==
    ASSUME NEW leaf, IsScript(leaf)
    PROVE  leaf \in Seq(Nat) /\ Len(leaf) \in Nat /\ Len(leaf) < Saturated
<1>1. leaf \in Seq(Byte \cup Keys) /\ Byte \cup Keys \subseteq Nat
  BY KeysAssumption DEF IsScript, Byte
<1>2. leaf \in Seq(Nat)
  BY <1>1, SeqMonotonic
<1> QED
  BY <1>2 DEF IsScript

\* What follows the first six elements of a script.
LEMMA RestOfScript ==
    ASSUME NEW leaf, IsScript(leaf), Len(leaf) > 6
    PROVE  LET e == SubSeq(leaf, 7, Len(leaf)) IN
           e \in Seq(Nat) /\ Len(e) = Len(leaf) - 6 /\ Len(e) < Saturated
<1> DEFINE n == Len(leaf)
<1>1. leaf \in Seq(Nat) /\ n \in Nat /\ n < Saturated /\ n > 6
  BY ScriptIsNumbers
<1>2. \A i \in 7 .. n : leaf[i] \in Nat
  BY <1>1, ElementOfSeq
<1> HIDE DEF n
<1>3. SubSeq(leaf, 7, n) \in Seq(Nat) /\ Len(SubSeq(leaf, 7, n)) = n - 7 + 1
  BY <1>1, <1>2, PartOf
<1>4. n - 7 + 1 = n - 6 /\ n - 6 < Saturated
  BY <1>1 DEF Saturated
<1> QED
  BY <1>3, <1>4 DEF n

\* What the recognizer of a cosign leaf accepts.
LEMMA CosignIs ==
    ASSUME NEW leaf, IsScript(leaf)
    PROVE  LET m == matchCosignLeaf(leaf) IN
           /\ m # None =>
                /\ Len(leaf) >= 6 /\ m = [client |-> leaf[2], guard |-> leaf[5]]
                /\ SubSeq(leaf, 1, 6) = CosignHead(leaf[2], leaf[5])
                /\ Len(leaf) > 6 => InertEnvelope(SubSeq(leaf, 7, Len(leaf)))
           /\ (/\ Len(leaf) > 6
               /\ leaf[2] \in Keys /\ leaf[5] \in Keys /\ leaf[2] # leaf[5]
               /\ SubSeq(leaf, 1, 6) = CosignHead(leaf[2], leaf[5])
               /\ InertEnvelope(SubSeq(leaf, 7, Len(leaf)))) => m # None
<1> DEFINE m == matchCosignLeaf(leaf)
           e == SubSeq(leaf, 7, Len(leaf))
<1>1. Len(leaf) > 6 => (isOrdEnvelope(e) <=> InertEnvelope(e)) /\ e # <<>>
  <2> SUFFICES ASSUME Len(leaf) > 6
               PROVE  (isOrdEnvelope(e) <=> InertEnvelope(e)) /\ e # <<>>
    OBVIOUS
  <2>1. e \in Seq(Nat) /\ Len(e) < Saturated /\ Len(e) > 0
    <3>1. e \in Seq(Nat) /\ Len(e) < Saturated /\ Len(e) = Len(leaf) - 6 /\ Len(leaf) \in Nat
      BY RestOfScript, ScriptIsNumbers
    <3> HIDE DEF e
    <3> QED
      BY <3>1
  <2> HIDE DEF e
  <2> QED
    BY <2>1, EnvelopeIs, EmptySeq
<1> DEFINE head == SubSeq(leaf, 1, 6)
           matches == /\ Len(leaf) >= 6
                      /\ leaf[2] \in Keys /\ leaf[5] \in Keys
                      /\ head = CosignHead(leaf[2], leaf[5])
                      /\ leaf[2] # leaf[5]
                      /\ e = <<>> \/ isOrdEnvelope(e)
<1>2. m = IF matches THEN [client |-> leaf[2], guard |-> leaf[5]] ELSE None
  BY DEF matchCosignLeaf
<1>3. matches => [client |-> leaf[2], guard |-> leaf[5]] \in [client : Keys, guard : Keys]
  OBVIOUS
<1>4. m # None => matches /\ m = [client |-> leaf[2], guard |-> leaf[5]]
  <2> HIDE DEF matches
  <2> QED
    BY <1>2
<1>5. matches => m # None
  <2> HIDE DEF matches, m
  <2> QED
    BY <1>2, <1>3, NoneAssumption
<1>6. Len(leaf) > 6 => Len(leaf) >= 6
  BY ScriptIsNumbers
<1> HIDE DEF m, e, head
<1>7. m # None =>
        /\ Len(leaf) >= 6 /\ m = [client |-> leaf[2], guard |-> leaf[5]]
        /\ head = CosignHead(leaf[2], leaf[5])
        /\ Len(leaf) > 6 => InertEnvelope(e)
  BY <1>1, <1>4
<1>8. (/\ Len(leaf) > 6
       /\ leaf[2] \in Keys /\ leaf[5] \in Keys /\ leaf[2] # leaf[5]
       /\ head = CosignHead(leaf[2], leaf[5])
       /\ InertEnvelope(e)) => m # None
  BY <1>1, <1>5, <1>6
<1> QED
  BY <1>7, <1>8 DEF m, e, head

\* No script is both.
LEMMA CosignIsNoTimeout ==
    ASSUME NEW leaf, IsScript(leaf), matchCosignLeaf(leaf) # None
    PROVE  matchTimeoutLeaf(leaf) = None
<1>1. Len(leaf) >= 6 /\ SubSeq(leaf, 1, 6) = CosignHead(leaf[2], leaf[5])
  BY CosignIs
<1>2. leaf[1] = 32
  <2>1. SubSeq(leaf, 1, 6)[1] = leaf[1]
    <3> DEFINE top == 6
    <3>1. leaf \in Seq(Nat) /\ Len(leaf) \in Nat
      BY ScriptIsNumbers
    <3>2. \A i \in 1 .. top : leaf[i] \in Nat
      BY <1>1, <3>1, ElementOfSeq
    <3>3. top \in Nat /\ top >= 1
      OBVIOUS
    <3> HIDE DEF top
    <3>4. \A i \in 1 .. top - 1 + 1 : SubSeq(leaf, 1, top)[i] = leaf[1 + i - 1]
      BY <3>2, <3>3, PartOf
    <3>5. 1 \in 1 .. top - 1 + 1 /\ 1 + 1 - 1 = 1
      BY <3>3
    <3>6. SubSeq(leaf, 1, top)[1] = leaf[1 + 1 - 1]
      BY <3>4, <3>5, Zenon
    <3>7. SubSeq(leaf, 1, top)[1] = leaf[1]
      BY <3>5, <3>6, Zenon
    <3> QED
      BY <3>7 DEF top
  <2>2. CosignHead(leaf[2], leaf[5])[1] = 32
    BY DEF CosignHead, PUSH_32
  <2> QED
    BY <1>1, <2>1, <2>2, Zenon
<1>3. ~SmallDelay(leaf) /\ ~PushedDelay(leaf)
  BY <1>2 DEF SmallDelay, PushedDelay, OP_1, OP_16
<1>4. decodeWindow(leaf) = None
  BY <1>3 DEF decodeWindow
<1> QED
  BY <1>4 DEF matchTimeoutLeaf

-----------------------------------------------------------------------------
\* The leaves of a PSBT are scripts.
LEMMA ScriptsOfCase ==
    ASSUME NEW c \in Cases, NEW j \in DOMAIN c.psbt.inputs,
           NEW l \in DOMAIN c.psbt.inputs[j].tapLeafScript
    PROVE  IsScript(c.psbt.inputs[j].tapLeafScript[l].script)
  BY LeavesAssumption

\* The windows at the ends of the encodings are windows.
LEMMA EdgesAreWindows == \A w \in WindowEdges : w \in Nat /\ 1 <= w /\ w <= 65535
  BY DEF WindowEdges

\* What holds of a timeout leaf, and of a cosign leaf, for any script.
LEMMA LeafIsCanonical ==
    ASSUME NEW leaf, IsScript(leaf)
    PROVE  LET timeout == matchTimeoutLeaf(leaf)
               cosign == matchCosignLeaf(leaf)
           IN  /\ timeout # None =>
                   timeout.window \in 1 .. MaxWindow /\ leaf = TimeoutLeaf(timeout.window, timeout.operator)
               /\ cosign # None =>
                   /\ SubSeq(leaf, 1, 6) = CosignHead(cosign.client, cosign.guard)
                   /\ Len(leaf) > 6 => InertEnvelope(SubSeq(leaf, 7, Len(leaf)))
               /\ (/\ Len(leaf) > 6
                   /\ leaf[2] \in Keys /\ leaf[5] \in Keys \ {leaf[2]}
                   /\ SubSeq(leaf, 1, 6) = CosignHead(leaf[2], leaf[5])
                   /\ InertEnvelope(SubSeq(leaf, 7, Len(leaf)))) => cosign # None
               /\ \A w \in WindowEdges, k \in Keys :
                   leaf = TimeoutLeaf(w, k) => timeout = [operator |-> k, window |-> w]
<1> DEFINE timeout == matchTimeoutLeaf(leaf)
           cosign == matchCosignLeaf(leaf)
           head == SubSeq(leaf, 1, 6)
           inert == InertEnvelope(SubSeq(leaf, 7, Len(leaf)))
<1>1. ASSUME timeout # None
      PROVE  timeout.window \in 1 .. MaxWindow /\ leaf = TimeoutLeaf(timeout.window, timeout.operator)
  <2>1. /\ timeout.window \in Nat /\ 1 <= timeout.window /\ timeout.window <= 65535
        /\ leaf = TimeoutLeaf(timeout.window, timeout.operator)
    BY <1>1, TimeoutIsCanonical
  <2>2. MaxWindow \in Int /\ timeout.window <= MaxWindow
    BY <2>1 DEF MaxWindow
  <2> HIDE DEF timeout
  <2> QED
    BY <2>1, <2>2
<1>2. \A w \in WindowEdges, k \in Keys : leaf = TimeoutLeaf(w, k) => timeout = [operator |-> k, window |-> w]
  BY EdgesAreWindows, CanonicalIsTimeout
<1>3. /\ cosign # None =>
            /\ Len(leaf) >= 6 /\ cosign = [client |-> leaf[2], guard |-> leaf[5]]
            /\ head = CosignHead(leaf[2], leaf[5])
            /\ Len(leaf) > 6 => inert
      /\ (/\ Len(leaf) > 6
          /\ leaf[2] \in Keys /\ leaf[5] \in Keys /\ leaf[2] # leaf[5]
          /\ head = CosignHead(leaf[2], leaf[5])
          /\ inert) => cosign # None
  BY CosignIs
<1> HIDE DEF timeout, cosign, head, inert
<1>4. cosign # None =>
        /\ head = CosignHead(cosign.client, cosign.guard)
        /\ Len(leaf) > 6 => inert
  BY <1>3
<1>5. (/\ Len(leaf) > 6
       /\ leaf[2] \in Keys /\ leaf[5] \in Keys \ {leaf[2]}
       /\ head = CosignHead(leaf[2], leaf[5])
       /\ inert) => cosign # None
  BY <1>3
<1> QED
  BY <1>1, <1>2, <1>4, <1>5, Zenon DEF timeout, cosign, head, inert

\* Each leaf of a PSBT is recognized as what its script is: a timeout leaf is
\* the canonical script of one window, from 1 to 65535 blocks, and one key, and
\* an envelope is a branch that a script interpreter never enters.
THEOREM ReviewLeavesAreCanonical == Spec => []LeavesAreCanonical
<1>1. ReviewInv => LeavesAreCanonical
  <2> SUFFICES ASSUME ReviewInv, NEW i \in DOMAIN psbt.inputs,
                      NEW l \in DOMAIN psbt.inputs[i].tapLeafScript
               PROVE  LET leaf == psbt.inputs[i].tapLeafScript[l].script
                          timeout == matchTimeoutLeaf(leaf)
                          cosign == matchCosignLeaf(leaf)
                      IN  /\ timeout # None =>
                              /\ timeout.window \in 1 .. MaxWindow
                              /\ leaf = TimeoutLeaf(timeout.window, timeout.operator)
                          /\ cosign # None =>
                              /\ SubSeq(leaf, 1, 6) = CosignHead(cosign.client, cosign.guard)
                              /\ Len(leaf) > 6 => InertEnvelope(SubSeq(leaf, 7, Len(leaf)))
                          /\ (/\ Len(leaf) > 6
                              /\ leaf[2] \in Keys /\ leaf[5] \in Keys \ {leaf[2]}
                              /\ SubSeq(leaf, 1, 6) = CosignHead(leaf[2], leaf[5])
                              /\ InertEnvelope(SubSeq(leaf, 7, Len(leaf)))) => cosign # None
                          /\ \A w \in WindowEdges, k \in Keys :
                              leaf = TimeoutLeaf(w, k) => timeout = [operator |-> k, window |-> w]
    BY Zenon DEF LeavesAreCanonical
  <2>1. IsScript(psbt.inputs[i].tapLeafScript[l].script)
    BY ScriptsOfCase DEF ReviewInv, psbt
  <2> QED
    BY <2>1, LeafIsCanonical, Zenon
<1> QED
  BY <1>1, ReviewInit, ReviewStep, PTL DEF Spec

\* A leaf an own spend goes by is one of the leaves of the PSBT.
LEMMA LeafOfSpend ==
    ASSUME case \in Cases, NEW i \in SignedInputs,
           ValidInput(psbt.inputs[i]), SignedPath(psbt.inputs[i]) # None
    PROVE  IsScript(SignedPath(psbt.inputs[i]))
<1> DEFINE input == psbt.inputs[i]
           role == resolveInputRole(input)
           v == Verification(input, role)
<1>1. v # None /\ v.leaf # None
  BY DEF ValidInput, SignedPath
<1>2. v = ScriptPathOwnership(input, input.witnessUtxo.script, role)
  BY <1>1 DEF Verification
<1>3. i \in DOMAIN case.psbt.inputs
  BY DEF psbt, SignedInputs
<1>4. /\ DOMAIN input.tapLeafScript \subseteq Nat
      /\ \A l \in DOMAIN input.tapLeafScript : IsScript(input.tapLeafScript[l].script)
  BY <1>3, LeavesOfCase, ScriptsOfCase DEF psbt
<1> HIDE DEF v, role, input
<1>5. PICK l \in DOMAIN input.tapLeafScript : v.leaf = input.tapLeafScript[l].script
  BY <1>1, <1>2, <1>4, ScriptPathIsOwn
<1>6. IsScript(v.leaf)
  BY <1>4, <1>5
<1> QED
  BY <1>6 DEF SignedPath, v, role, input

\* What is signed by a timeout leaf waits out the window of that leaf: the leaf
\* is the canonical script of the window and the signing key, and with the
\* transaction's version and the input's sequence OP_CSV succeeds.
THEOREM ReviewWaits == Spec => []TimeoutSpendMatures
<1>1. ReviewInv => TimeoutSpendMatures
  <2> SUFFICES ASSUME ReviewInv, NEW s \in signatures, s.path # None, matchTimeoutLeaf(s.path) # None
               PROVE  LET window == matchTimeoutLeaf(s.path).window IN
                      /\ s.path = TimeoutLeaf(window, s.key)
                      /\ CsvSucceeds(window, psbt.version, psbt.inputs[s.input].sequence)
    BY DEF TimeoutSpendMatures
  <2>1. PICK i \in SignedInputs :
          LET input == psbt.inputs[i]
              v == Verification(input, resolveInputRole(input))
          IN  /\ s.input = i /\ s.key = account[resolveInputRole(input)]
              /\ s.path = v.leaf
              /\ OwnSpend(input, v)
              /\ v.kind = "timeout" => TimeoutPolicy(input, matchTimeoutLeaf(v.leaf).window)
    BY SignatureOfReview
  <2> DEFINE input == psbt.inputs[i]
             role == resolveInputRole(input)
             v == Verification(input, role)
             window == matchTimeoutLeaf(s.path).window
  <2>2. case \in Cases /\ Accepted
    BY DEF ReviewInv
  <2>3. /\ s.input = i /\ s.key = account[role] /\ s.path = v.leaf /\ OwnSpend(input, v)
        /\ v.kind = "timeout" => TimeoutPolicy(input, matchTimeoutLeaf(v.leaf).window)
    BY <2>1
  <2>4. IsScript(s.path)
    BY <2>1, <2>2, LeafOfSpend DEF Accepted, SignedPath
  <2> HIDE DEF v, role, input
  <2>5. matchCosignLeaf(s.path) = None
    BY <2>4, CosignIsNoTimeout
  <2>6. v.kind = "timeout" /\ role = "vault" /\ matchTimeoutLeaf(s.path).operator = account.vault
    BY <2>3, <2>5 DEF OwnSpend, role
  <2>7. s.path = TimeoutLeaf(window, s.key)
    BY <2>3, <2>4, <2>6, TimeoutIsCanonical
  <2>8. TimeoutPolicy(psbt.inputs[i], window)
    BY <2>3, <2>6 DEF input
  <2>9. CsvSucceeds(window, psbt.version, psbt.inputs[s.input].sequence)
    BY <2>2, <2>3, <2>8, PolicyMakesCsvSucceed
  <2> QED
    BY <2>7, <2>9
<1> QED
  BY <1>1, ReviewInit, ReviewStep, PTL DEF Spec
=============================================================================
