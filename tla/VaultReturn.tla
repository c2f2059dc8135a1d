----------------------------- MODULE VaultReturn -----------------------------
(***************************************************************************)
(* What the Snap reads from a transaction of the Ducat vault protocol      *)
(* (psbt.ts, vault-evidence.ts): the action its sequences name, the vault  *)
(* state its OP_RETURN output carries, and the output that holds the       *)
(* collateral.  Outputs are numbered from 0, as in the code; a sequence is *)
(* a number of 32 bits, here its two halves.                               *)
(***************************************************************************)
EXTENDS TapLeaf, FiniteSets

CONSTANT NUMS       \* NUMS_KEY, the internal key nobody has

BitSet(half, bit) == (half \div bit) % 2 = 1

\* SEQUENCE_TIMELOCK_DISABLE, SEQUENCE_METADATA_SIGNAL and _DISABLE,
\* SEQUENCE_TIMELOCK_TYPE, of the high half.
TimelockDisabled(s) == BitSet(s.high, 32768)
MetadataSignal(s) == BitSet(s.high, 16384)
MetadataDisabled(s) == BitSet(s.high, 8192)
TimeUnits(s) == BitSet(s.high, 64)

IsMetadata(s) == TimelockDisabled(s) /\ MetadataSignal(s) /\ ~MetadataDisabled(s)
MetadataVersion(s) == s.low % 256
MetadataCode(s) == (s.high % 256) * 256 + s.low \div 256

\* DUCAT_VAULT_ACTION_CODES.
ActionCodes == [code \in {161} \cup 163 .. 169 |->
    CASE code = 161 -> "open"
      [] code = 163 -> "close"
      [] code = 164 -> "borrow"
      [] code = 165 -> "repay"
      [] code = 166 -> "deposit"
      [] code = 167 -> "withdraw"
      [] code = 168 -> "repo"
      [] code = 169 -> "trim"]

VaultOutputIndex(flag) ==
    CASE flag \in {"open", "borrow"} -> 1
      [] flag = "close" -> -1
      [] OTHER -> 0

\* LEGACY_VAULT_OUTPUT_INDEX.
LegacyVaultOutputIndex(flag) ==
    CASE flag = "open" -> 2
      [] flag = "borrow" -> 1
      [] flag = "close" -> -1
      [] OTHER -> 0

-----------------------------------------------------------------------------
(* decodeVaultActionFromSequences: the first input that carries one.       *)

CarriesAction(s) ==
    IsMetadata(s) /\ MetadataVersion(s) = 1 /\ MetadataCode(s) \in DOMAIN ActionCodes

SequenceAction(sequences) ==
    LET carriers == {i \in DOMAIN sequences : CarriesAction(sequences[i])} IN
    IF carriers = {} THEN None
    ELSE LET i == CHOOSE i \in carriers : \A j \in carriers : i <= j
             flag == ActionCodes[MetadataCode(sequences[i])]
         IN  [flag |-> flag, index |-> VaultOutputIndex(flag)]

legacyVaultAction(flag) == [flag |-> flag, index |-> LegacyVaultOutputIndex(flag)]

-----------------------------------------------------------------------------
(* An account is the key of each role; an address stands for its script.   *)

Roles == {"sats", "runes", "vault"}

OutputScriptForRole(account, role) ==
    IF role = "sats" THEN Wpkh(account.sats) ELSE Taproot(account[role], {})

HasOutput(outputs, n) == n + 1 \in DOMAIN outputs
OutputAt(outputs, n) == outputs[n + 1]
IsReturn(script) == script.type = "return"

\* outputRole.  An imported account has one address for runes and vault.
OutputRole(account, script) ==
    IF IsReturn(script) THEN "op_return"
    ELSE IF script.type = "unknown" THEN "unknown"
    ELSE IF script = OutputScriptForRole(account, "sats") THEN "sats"
    ELSE IF script = OutputScriptForRole(account, "runes") THEN "runes"
    ELSE IF script = OutputScriptForRole(account, "vault") THEN "vault"
    ELSE "external"

\* Mutant of inferVaultCollateral: the output is chosen by its position only.
inferVaultCollateralAnywhere(action, outputs, account) ==
    IF /\ HasOutput(outputs, action.index)
       /\ OutputAt(outputs, action.index).value > 0
    THEN action.index ELSE None

\* inferVaultCollateralSats: the index of the output, if it pays the account's
\* vault address.
inferVaultCollateral(action, outputs, account) ==
    IF /\ HasOutput(outputs, action.index)
       /\ OutputAt(outputs, action.index).value > 0
       /\ OutputRole(account, OutputAt(outputs, action.index).script) = "vault"
    THEN action.index ELSE None

-----------------------------------------------------------------------------
(* decodeDucatVaultReturn.  A payload is its length, its first two bytes   *)
(* and the fields read behind them: the second byte is an action flag in   *)
(* the legacy format and the number of guardians in the current one.       *)

\* DUCAT_ACTION_TYPES, the characters c o b r d w x l.
FlagByte == [close |-> 99, open |-> 111, borrow |-> 98, repay |-> 114,
             deposit |-> 100, withdraw |-> 119, repo |-> 120, trim |-> 108]

ReturnPayload ==
    [length : Nat, version : Byte, second : Byte, balance : Nat, price : Nat,
     guardians : Seq(Byte), commits : Seq([price : Nat, hash : Keys])]

\* The outputs of a parsed transaction.  A payload that counts its guardians
\* lists them.
Parsed(outputs) ==
    /\ outputs \in Seq({outputs[n] : n \in DOMAIN outputs})
    /\ \A n \in DOMAIN outputs :
        LET payload == outputs[n].script.payload IN
        (IsReturn(outputs[n].script) /\ payload # None) =>
            /\ payload \in ReturnPayload
            /\ payload.second \in 1 .. 3 => DOMAIN payload.guardians # {}

Return(action, n, p, outputs, account) ==
    [flag |-> action.flag, outputIndex |-> n, locked |-> p.balance > 0,
     balance |-> p.balance, vaultOutputIndex |-> inferVaultCollateral(action, outputs, account),
     price |-> 0, hashes |-> None, guardians |-> None, bound |-> FALSE]

decodeLegacy(p, action, n, outputs, account) ==
    IF /\ p.length = (IF p.balance > 0 THEN 38 ELSE 14)
       /\ p.version = 1
       /\ p.second = FlagByte[action.flag]
    THEN [Return(action, n, p, outputs, account) EXCEPT !.price = p.price]
    ELSE None

\* The commit of the lowest price, the first of equally low ones.
LowestCommit(commits) ==
    commits[CHOOSE i \in DOMAIN commits :
        \A j \in DOMAIN commits :
            \/ commits[i].price < commits[j].price
            \/ commits[i].price = commits[j].price /\ i <= j]

decodeCore(p, action, n, outputs, account) ==
    LET bare == [Return(action, n, [p EXCEPT !.balance = 0], outputs, account)
                    EXCEPT !.hashes = <<>>, !.guardians = p.guardians]
        count == Len(p.commits)
    IN  IF ~(p.version = 1 /\ p.second \in 1 .. 3) THEN None
        ELSE IF p.length = 2 + p.second THEN bare
        ELSE IF count \in 1 .. 3 /\ p.length = 2 + p.second + 9 + 93 * count
        THEN [bare EXCEPT !.balance = p.balance, !.locked = p.balance > 0,
                !.price = LowestCommit(p.commits).price,
                !.hashes = [i \in 1 .. count |-> p.commits[i].hash]]
        ELSE None

decodeReturn(tx, n, account) ==
    LET p == OutputAt(tx.outputs, n).script.payload
        action == SequenceAction(tx.sequences)
        core == decodeCore(p, action, n, tx.outputs, account)
    IN  IF p = None THEN None
        ELSE IF action # None
        THEN IF core # None THEN core ELSE decodeLegacy(p, action, n, tx.outputs, account)
        ELSE IF \E flag \in DOMAIN FlagByte : FlagByte[flag] = p.second
        THEN decodeLegacy(p, legacyVaultAction(
                CHOOSE flag \in DOMAIN FlagByte : FlagByte[flag] = p.second), n, tx.outputs, account)
        ELSE None

ReturnIndexes(tx, account) ==
    {n \in 0 .. Len(tx.outputs) - 1 :
        IsReturn(OutputAt(tx.outputs, n).script) /\ decodeReturn(tx, n, account) # None}

-----------------------------------------------------------------------------
(* bindVaultOutput.  The protocol lists its guardians by index.            *)

HashLeaf(hash, guardian) == <<169, 20, hash, 136, PUSH_32, guardian, OP_CHECKSIG>>

\* hashes is a sequence: equal hashes make equal leaves, and another tree.
vaultOutputScript(client, guardians, hashes) ==
    LET unlocked == Taproot(NUMS, {CosignHead(client, g) : g \in guardians})
        byHash == [leaf \in {HashLeaf(hashes[i], g) : i \in DOMAIN hashes, g \in guardians} |->
                      Cardinality({i \in DOMAIN hashes : hashes[i] = leaf[3]})]
    IN  [unlocked EXCEPT !.leaves = unlocked.leaves (+) byHash]

BindIndex(flag) == IF flag \in {"open", "borrow"} THEN 1 ELSE 0

Bindable(data, outputs, protocol) ==
    /\ protocol # None
    /\ data.guardians # None
    /\ data.flag # "close"
    /\ HasOutput(outputs, BindIndex(data.flag))
    /\ OutputAt(outputs, BindIndex(data.flag)).value >= protocol.minimumSats
    /\ \A i \in DOMAIN data.guardians : data.guardians[i] \in DOMAIN protocol.guardians
    /\ \A i, j \in DOMAIN data.guardians :
        protocol.guardians[data.guardians[i]] = protocol.guardians[data.guardians[j]] => i = j

GuardianKeys(data, protocol) ==
    {protocol.guardians[data.guardians[i]] : i \in DOMAIN data.guardians}

ExpectedVault(data, account, protocol) ==
    vaultOutputScript(account.vault, GuardianKeys(data, protocol),
        IF data.locked THEN data.hashes ELSE <<>>)

\* Mutant of Binds: the output is not compared with the expected tree.
BindsAnyTree(data, outputs, account, protocol) == Bindable(data, outputs, protocol)

Binds(data, outputs, account, protocol) ==
    /\ Bindable(data, outputs, protocol)
    /\ OutputAt(outputs, BindIndex(data.flag)).script = ExpectedVault(data, account, protocol)

bindVaultOutput(data, outputs, account, protocol) ==
    IF Binds(data, outputs, account, protocol)
    THEN [data EXCEPT !.vaultOutputIndex = BindIndex(data.flag), !.bound = TRUE]
    ELSE data

\* Mutant of previousVaultState: the state may be of another output.
previousVaultStateAnywhere(tx, spent, account, protocol) ==
    LET returns == ReturnIndexes(tx, account) IN
    IF \E n \in returns : returns = {n}
    THEN bindVaultOutput(decodeReturn(tx, CHOOSE n \in returns : TRUE, account),
                         tx.outputs, account, protocol)
    ELSE None

\* previousVaultState, of the one vault state in the transaction that created
\* the spent output.
previousVaultState(tx, spent, account, protocol) ==
    LET returns == ReturnIndexes(tx, account)
        state == bindVaultOutput(decodeReturn(tx, CHOOSE n \in returns : TRUE, account),
                                 tx.outputs, account, protocol)
    IN  IF \E n \in returns : returns = {n}
        THEN IF state.vaultOutputIndex = spent THEN state ELSE None
        ELSE None
=============================================================================
