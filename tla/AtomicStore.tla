----------------------------- MODULE AtomicStore -----------------------------
(***************************************************************************)
(* What the rest of the Snap may assume of its persisted state: a store    *)
(* of sanitized fields in which every mutation is one atomic step on one   *)
(* field, computed from the value that field has at that step.  SnapState  *)
(* is shown to implement it although each of its mutations is an           *)
(* asynchronous read, an optional migration write and a keyed write.       *)
(***************************************************************************)
EXTENDS StoredFields

CONSTANTS
    EntryIds,   \* identities of recent actions
    KeyIds,     \* identities of imported keys
    Times       \* values of Date.now()

VARIABLES
    selection,  \* the deployment getState reports as selected
    actions,    \* the sanitized recent actions
    keys,       \* the sanitized key overrides
    overrides   \* the sanitized endpoint overrides

storeVars == <<selection, actions, keys, overrides>>

StoreInit ==
    /\ selection \in AllowedDeployments
    /\ Len(actions) <= MaxRecentActions
    /\ \A i \in DOMAIN keys : keys[i].valid
    /\ \A n \in Deployments : overrides[n] = NoOverride \/ OverrideUsable(overrides[n])

Select(n) ==
    /\ selection' = n
    /\ UNCHANGED <<actions, keys, overrides>>

\* The clock may have been set back: the new entry takes its place by time.
AppendAction(id, now) ==
    /\ actions' = SanitizedActions(
                    WithAction(actions, [id |-> id, at |-> now, valid |-> TRUE]))
    /\ UNCHANGED <<selection, keys, overrides>>

ClearActions ==
    /\ actions' = <<>>
    /\ UNCHANGED <<selection, keys, overrides>>

ImportKey(id, n, now) ==
    /\ keys' = ReplaceKeyOverride(keys,
                    [id |-> id, network |-> n, created |-> now, valid |-> TRUE])
    /\ UNCHANGED <<selection, actions, overrides>>

RemoveKey(n) ==
    /\ KeysOf(keys, n) # {}
    /\ keys' = KeyOverridesWithoutNetwork(keys, n)
    /\ UNCHANGED <<selection, actions, overrides>>

SaveEndpoint(n, kind, url) ==
    /\ overrides' = OverridesWithField(overrides, n, kind, url)
    /\ UNCHANGED <<selection, actions, keys>>

StoreNext ==
    \/ \E n \in AllowedDeployments : Select(n)
    \/ \E id \in EntryIds, now \in Times : AppendAction(id, now)
    \/ ClearActions
    \/ \E id \in KeyIds, n \in Deployments, now \in Times : ImportKey(id, n, now)
    \/ \E n \in Deployments : RemoveKey(n)
    \/ \E n \in Deployments, kind \in Kinds, url \in Urls \cup {None} :
            SaveEndpoint(n, kind, url)

StoreSpec == StoreInit /\ [][StoreNext]_storeVars

=============================================================================
