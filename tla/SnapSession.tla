----------------------------- MODULE SnapSession -----------------------------
(***************************************************************************)
(* The requests a Snap installation serves at the same time: website RPC   *)
(* requests (rpc.ts, network-selection.ts, notifications.ts) and the Home  *)
(* forms (home-network.ts, home-key-override.ts,                           *)
(* home-network-endpoints.ts).  They meet in the persisted state, which    *)
(* they read and mutate as AtomicStore allows, and in what the user is     *)
(* shown and answers.                                                      *)
(***************************************************************************)
EXTENDS AtomicStore

CONSTANTS
    Requests,               \* RPC requests and Home events
    Calls,                  \* what a request may ask for
    InitialKeys,            \* key overrides stored at the start
    AllowedOrigins,         \* ArtifactPolicy.allowed_origins
    Home,                   \* 'Ducat Snap Home', the origin of the Home forms
    MainnetBacked,          \* deployments on Bitcoin mainnet
    DevUnpromptedEnabled,   \* DEV_UNPROMPTED_ENABLED of this build
    Derived                 \* the account of the Snap entropy

VARIABLES
    lastOrigin,     \* origin of the last session
    pc,             \* where each request is
    call,           \* what it asks for
    chosen,         \* the account it resolved
    shown,          \* what its confirmation dialog displays
    approved,       \* requests whose dialog the user approved
    rejected,       \* requests whose dialog the user rejected
    notices,        \* notifications sent for each request
    signatures,     \* signatures made: request, network, account
    gateSelection   \* selection each request was checked against

request == <<pc, call, chosen, shown>>
user == <<approved, rejected>>
vars == <<storeVars, lastOrigin, request, user, notices, signatures, gateSelection>>

ASSUME SessionAssumption ==
    /\ AllowedOrigins \cap {Home} = {}
    /\ DevUnpromptedEnabled \in BOOLEAN
    /\ Requests \subseteq EntryIds /\ Requests \subseteq KeyIds
    /\ Derived \notin KeyIds /\ None \notin KeyIds \cup {Derived} \cup Deployments
    /\ Times # {} /\ Times \subseteq Int

KeyRecords == [id : KeyIds, network : Deployments, created : Int, valid : {TRUE}]
ASSUME InitialKeysAssumption == InitialKeys \subseteq Seq(KeyRecords)

PromptedMethods == {"signMessage", "signPsbt", "signBatch"}
SignMethods == PromptedMethods \cup {"signPsbtUnprompted"}
SelectedMethods == SignMethods \cup {"getAccounts", "getWalletInventory"}
FormMethods == {"importKey", "removeKey", "saveEndpoint", "clearEndpoint"}

ASSUME CallsAssumption ==
    \A c \in Calls :
        /\ c.method \in SelectedMethods \cup FormMethods \cup {"switchNetwork"}
        /\ c.network \in Deployments
        /\ c.method \in FormMethods => c.origin = Home
        /\ c.method \in SelectedMethods => c.origin # Home
        /\ c.method \in SignMethods => c.account \in KeyIds \cup {Derived}
        /\ c.method \in {"saveEndpoint", "clearEndpoint"} => c.kind \in Kinds
        /\ c.method = "saveEndpoint" => c.url \in Urls

Method(r) == call[r].method
Network(r) == call[r].network
Signs(r) == Method(r) \in SignMethods

\* getActiveAccountKeySet.
ActiveAccount(n) ==
    IF EffectiveKeyOverride(keys, n) = None THEN Derived
    ELSE EffectiveKeyOverride(keys, n).id

\* Mutant of Authorized: assertRequestDeploymentAvailable is left out.
AuthorizedAnyNetwork(c) == c.origin \in AllowedOrigins \cup {Home}

\* assertAllowedOrigin, assertRegisteredMethod, assertRequestDeploymentAvailable
\* and assertUnpromptedSigningNetwork.  Home reaches requestNetworkSwitch
\* directly, which checks the deployment itself.
Authorized(c) ==
    /\ c.origin \in AllowedOrigins \cup {Home}
    /\ c.network \in AllowedDeployments
    /\ c.method = "signPsbtUnprompted" =>
            DevUnpromptedEnabled /\ c.network \notin MainnetBacked

Ended == {"returned", "failed"}

Goto(r, stage) == pc' = [pc EXCEPT ![r] = stage]
Notify(r, status) == notices' = [notices EXCEPT ![r] = @ \cup {status}]

-----------------------------------------------------------------------------
Init ==
    /\ selection \in AllowedDeployments
    /\ actions = <<>>
    /\ keys \in InitialKeys
    /\ overrides = [n \in Deployments |-> NoOverride]
    /\ lastOrigin = None
    /\ pc = [r \in Requests |-> "idle"]
    /\ call \in [Requests -> Calls]
    /\ chosen = [r \in Requests |-> None]
    /\ shown = [r \in Requests |-> None]
    /\ approved = {} /\ rejected = {}
    /\ notices = [r \in Requests |-> {}]
    /\ signatures = {}
    /\ gateSelection = [r \in Requests |-> None]

-----------------------------------------------------------------------------
(* handleRpcRequest.                                                       *)

\* Mutant of FirstStage: signing left out of SELECTED_DEPLOYMENT_METHODS.
FirstStageUngated(c) ==
    CASE c.method \in SignMethods -> "resolve"
      [] c.method \in SelectedMethods \ SignMethods -> "gate"
      [] c.method = "switchNetwork" -> "readSwitch"
      [] c.method \in FormMethods -> "screen"

FirstStage(c) ==
    CASE c.method \in SelectedMethods -> "gate"
      [] c.method = "switchNetwork" -> "readSwitch"
      [] c.method \in FormMethods -> "screen"

\* The synchronous checks, before the first await.
Receive(r) ==
    /\ pc[r] = "idle"
    /\ Goto(r, IF Method(r) \in FormMethods \/ Authorized(call[r])
               THEN FirstStage(call[r]) ELSE "failed")
    /\ UNCHANGED <<storeVars, lastOrigin, call, chosen, shown, user, notices,
                   signatures, gateSelection>>

\* assertRequestNetwork.
CheckSelection(r) ==
    /\ pc[r] = "gate"
    /\ gateSelection' = [gateSelection EXCEPT ![r] = selection]
    /\ Goto(r, IF Network(r) # selection THEN "failed"
               ELSE IF Method(r) = "getWalletInventory" THEN "remember" ELSE "resolve")
    /\ UNCHANGED <<storeVars, lastOrigin, call, chosen, shown, user, notices, signatures>>

\* The key set is resolved, and the request rejected unless it names an
\* account of it.  A PSBT is then verified against prevout evidence.
ResolveAccount(r) ==
    LET managed == Signs(r) => call[r].account = ActiveAccount(Network(r)) IN
    /\ pc[r] = "resolve"
    /\ chosen' = [chosen EXCEPT ![r] = ActiveAccount(Network(r))]
    /\ UNCHANGED notices \/ (~managed /\ Notify(r, "failed"))
    /\ Goto(r, IF ~managed THEN "failed"
               ELSE IF Method(r) \in {"signMessage", "getAccounts"} THEN "remember" ELSE "verify")
    /\ UNCHANGED <<storeVars, lastOrigin, call, shown, user, signatures, gateSelection>>

VerifyPrevouts(r) ==
    /\ pc[r] = "verify"
    /\ Goto(r, "remember")
    /\ UNCHANGED <<storeVars, lastOrigin, call, chosen, shown, user, notices,
                   signatures, gateSelection>>

RememberSession(r) ==
    /\ pc[r] = "remember"
    /\ lastOrigin' = call[r].origin
    /\ Goto(r, CASE Signs(r) -> "pending"
                 [] Method(r) = "getAccounts" -> "returned"
                 [] Method(r) = "getWalletInventory" -> "inventory")
    /\ UNCHANGED <<storeVars, call, chosen, shown, user, notices, signatures, gateSelection>>

ReturnInventory(r) ==
    /\ pc[r] = "inventory"
    /\ Goto(r, "returned")
    /\ UNCHANGED <<storeVars, lastOrigin, call, chosen, shown, user, notices,
                   signatures, gateSelection>>

\* Best effort: a notification MetaMask refuses changes nothing else.
NotifyPending(r) ==
    /\ pc[r] = "pending"
    /\ Notify(r, "pending") \/ UNCHANGED notices
    /\ IF Method(r) \in PromptedMethods
       THEN /\ shown' = [shown EXCEPT ![r] = [network |-> Network(r), account |-> chosen[r]]]
            /\ Goto(r, "dialog")
       ELSE Goto(r, "unprompted") /\ UNCHANGED shown
    /\ UNCHANGED <<storeVars, lastOrigin, call, chosen, user, signatures, gateSelection>>

\* Mutant of Sign: the key set is resolved again after the dialog.
SignWithCurrentKey(r) ==
    /\ signatures' = signatures \cup
            {[request |-> r, network |-> Network(r), account |-> ActiveAccount(Network(r))]}
    /\ Goto(r, "append")
    /\ UNCHANGED <<storeVars, lastOrigin, call, chosen, shown, rejected, notices, gateSelection>>

\* Signing runs from the answer of the dialog to the next await, with the key
\* set resolved before the dialog.
Sign(r) ==
    /\ signatures' = signatures \cup
            {[request |-> r, network |-> Network(r), account |-> chosen[r]]}
    /\ Goto(r, "append")
    /\ UNCHANGED <<storeVars, lastOrigin, call, chosen, shown, rejected, notices, gateSelection>>

ApproveSigning(r) ==
    /\ pc[r] = "dialog" /\ Signs(r)
    /\ approved' = approved \cup {r}
    /\ Sign(r)

SignUnprompted(r) ==
    /\ pc[r] = "unprompted"
    /\ Sign(r)
    /\ UNCHANGED approved

\* Mutant of AppendRecentAction: a history that cannot be written is ignored.
AppendRecentActionBestEffort(r) ==
    /\ pc[r] = "append"
    /\ (\E now \in Times : AppendAction(r, now)) \/ UNCHANGED storeVars
    /\ Goto(r, "origin")
    /\ UNCHANGED <<lastOrigin, call, chosen, shown, user, notices, signatures, gateSelection>>

\* appendRecentAction: the history, then the origin.
AppendRecentAction(r) ==
    /\ pc[r] = "append"
    /\ \E now \in Times : AppendAction(r, now)
    /\ Goto(r, "origin")
    /\ UNCHANGED <<lastOrigin, call, chosen, shown, user, notices, signatures, gateSelection>>

AppendOrigin(r) ==
    /\ pc[r] = "origin"
    /\ lastOrigin' = call[r].origin
    /\ Goto(r, "completed")
    /\ UNCHANGED <<storeVars, call, chosen, shown, user, notices, signatures, gateSelection>>

NotifyCompleted(r) ==
    /\ pc[r] = "completed"
    /\ Notify(r, "completed") \/ UNCHANGED notices
    /\ Goto(r, "returned")
    /\ UNCHANGED <<storeVars, lastOrigin, call, chosen, shown, user, signatures, gateSelection>>

-----------------------------------------------------------------------------
(* requestNetworkSwitch.                                                   *)

\* Mutant of ReadForSwitch: a site switches without a dialog.
ReadForSwitchUnprompted(r) ==
    /\ pc[r] = "readSwitch"
    /\ IF Network(r) = selection
       THEN Goto(r, "returned") /\ UNCHANGED shown
       ELSE /\ shown' = [shown EXCEPT ![r] = [from |-> selection, to |-> Network(r)]]
            /\ Goto(r, IF call[r].origin = Home THEN "dialog" ELSE "select")
    /\ UNCHANGED <<storeVars, lastOrigin, call, chosen, user, notices, signatures, gateSelection>>

ReadForSwitch(r) ==
    /\ pc[r] = "readSwitch"
    /\ IF Network(r) = selection
       THEN Goto(r, "returned") /\ UNCHANGED shown
       ELSE /\ shown' = [shown EXCEPT ![r] = [from |-> selection, to |-> Network(r)]]
            /\ Goto(r, "dialog")
    /\ UNCHANGED <<storeVars, lastOrigin, call, chosen, user, notices, signatures, gateSelection>>

ApproveSwitch(r) ==
    /\ pc[r] = "dialog" /\ Method(r) = "switchNetwork"
    /\ approved' = approved \cup {r}
    /\ Goto(r, "select")
    /\ UNCHANGED <<storeVars, lastOrigin, call, chosen, shown, rejected, notices,
                   signatures, gateSelection>>

SetSelectedNetwork(r) ==
    /\ pc[r] = "select"
    /\ Select(Network(r))
    /\ Goto(r, "returned")
    /\ UNCHANGED <<lastOrigin, call, chosen, shown, user, notices, signatures, gateSelection>>

-----------------------------------------------------------------------------
(* The Home forms.  A form belongs to the network its screen was rendered  *)
(* for, which may no longer be the selected one.                           *)

CheckScreen(r) ==
    /\ pc[r] = "screen"
    /\ gateSelection' = [gateSelection EXCEPT ![r] = selection]
    /\ Goto(r, IF Network(r) # selection THEN "returned"
               ELSE IF Method(r) = "saveEndpoint" THEN "probe" ELSE "write")
    /\ UNCHANGED <<storeVars, lastOrigin, call, chosen, shown, user, notices, signatures>>

\* verifyDeploymentEndpointIdentity: up to ten seconds.
ProbeEndpoint(r) ==
    /\ pc[r] = "probe"
    /\ Goto(r, "write")
    /\ UNCHANGED <<storeVars, lastOrigin, call, chosen, shown, user, notices,
                   signatures, gateSelection>>

WriteForm(r) ==
    /\ pc[r] = "write"
    /\ \/ Method(r) = "importKey" /\ \E now \in Times : ImportKey(r, Network(r), now)
       \/ Method(r) = "removeKey" /\ RemoveKey(Network(r))
       \/ Method(r) = "saveEndpoint" /\ SaveEndpoint(Network(r), call[r].kind, call[r].url)
       \/ Method(r) = "clearEndpoint" /\ SaveEndpoint(Network(r), call[r].kind, None)
    /\ Goto(r, "returned")
    /\ UNCHANGED <<lastOrigin, call, chosen, shown, user, notices, signatures, gateSelection>>

-----------------------------------------------------------------------------
(* Refusals and failures.                                                  *)

\* Mutant of RejectDialog: the rejection is reported as a failure.
RejectDialogNotifying(r) ==
    /\ pc[r] = "dialog"
    /\ rejected' = rejected \cup {r}
    /\ Notify(r, "failed")
    /\ Goto(r, "failed")
    /\ UNCHANGED <<storeVars, lastOrigin, call, chosen, shown, approved, signatures,
                   gateSelection>>

\* USER_REJECTED: no failure notification.
RejectDialog(r) ==
    /\ pc[r] = "dialog"
    /\ rejected' = rejected \cup {r}
    /\ Goto(r, "failed")
    /\ UNCHANGED <<storeVars, lastOrigin, call, chosen, shown, approved, notices,
                   signatures, gateSelection>>

\* Parameters, PSBTs or evidence that fail a check, and every request to
\* MetaMask or to an endpoint that fails.
Fail(r) ==
    /\ pc[r] \notin {"idle", "pending", "completed"} \cup Ended
    /\ Goto(r, "failed")
    /\ IF Signs(r) /\ pc[r] # "gate"
       THEN Notify(r, "failed") \/ UNCHANGED notices
       ELSE UNCHANGED notices
    /\ UNCHANGED <<storeVars, lastOrigin, call, chosen, shown, user, signatures, gateSelection>>

Finished ==
    /\ \A r \in Requests : pc[r] \in Ended
    /\ UNCHANGED vars

RpcStep(r) ==
    \/ CheckSelection(r) \/ ResolveAccount(r) \/ VerifyPrevouts(r) \/ RememberSession(r)
    \/ ReturnInventory(r) \/ NotifyPending(r) \/ ApproveSigning(r) \/ SignUnprompted(r)
    \/ AppendRecentAction(r) \/ AppendOrigin(r) \/ NotifyCompleted(r)

SwitchStep(r) == ReadForSwitch(r) \/ ApproveSwitch(r) \/ SetSelectedNetwork(r)
FormStep(r) == CheckScreen(r) \/ ProbeEndpoint(r) \/ WriteForm(r)

Next ==
    \/ \E r \in Requests :
        Receive(r) \/ RpcStep(r) \/ SwitchStep(r) \/ FormStep(r) \/ RejectDialog(r) \/ Fail(r)
    \/ Finished

Spec == Init /\ [][Next]_vars

-----------------------------------------------------------------------------
(* Properties.                                                             *)

Stages == {"idle", "gate", "resolve", "verify", "remember", "inventory", "pending",
           "dialog", "unprompted", "append", "origin", "completed", "readSwitch",
           "select", "screen", "probe", "write"} \cup Ended

Accounts == KeyIds \cup {Derived}
SigningDialogs == [network : Deployments, account : Accounts]
SwitchDialogs == [from : Deployments, to : Deployments]

TypeOK ==
    /\ selection \in AllowedDeployments
    /\ lastOrigin \in AllowedOrigins \cup {None}
    /\ pc \in [Requests -> Stages]
    /\ call \in [Requests -> Calls]
    /\ chosen \in [Requests -> Accounts \cup {None}]
    /\ shown \in [Requests -> SigningDialogs \cup SwitchDialogs \cup {None}]
    /\ \A r \in Requests :
        shown[r] \in {None} \cup (IF Signs(r) THEN SigningDialogs ELSE SwitchDialogs)
    /\ approved \subseteq Requests /\ rejected \subseteq Requests
    /\ notices \in [Requests -> SUBSET {"pending", "completed", "failed"}]
    /\ signatures \subseteq [request : Requests, network : Deployments, account : Accounts]
    /\ gateSelection \in [Requests -> AllowedDeployments \cup {None}]

SignatureOf(r) == {s \in signatures : s.request = r}
Recorded(r) == \E i \in DOMAIN actions : actions[i].id = r

\* What is signed is what the user approved: the network and the account the
\* dialog showed, though keys are imported and removed while it is open.  Only
\* a development build signs without a dialog, and never on mainnet.
SignedAsShown ==
    \A s \in signatures :
        LET r == s.request IN
        /\ call[r].origin \in AllowedOrigins
        /\ s.network \in AllowedDeployments
        /\ IF Method(r) \in PromptedMethods
           THEN r \in approved /\ shown[r] = [network |-> s.network, account |-> s.account]
           ELSE DevUnpromptedEnabled /\ s.network \notin MainnetBacked

\* "A mismatch fails before account derivation, endpoint access, notifications,
\* signing prompts, or state mutation", of a request and of a form.
Effects(r) ==
    \/ chosen[r] # None \/ shown[r] # None \/ notices[r] # {} \/ SignatureOf(r) # {}
    \/ pc[r] \in {"remember", "inventory", "probe", "write"}

GateBeforeEffects ==
    \A r \in Requests :
        (Method(r) # "switchNetwork" /\ Effects(r)) => gateSelection[r] = Network(r)

\* A rejected request leaves no signature, no history and no notification but
\* the one that announced it.
RejectionLeavesNothing ==
    \A r \in rejected :
        /\ r \notin approved
        /\ SignatureOf(r) = {} /\ ~Recorded(r)
        /\ notices[r] \subseteq {"pending"}

\* The history records signatures that were made, and a signature is returned
\* to the website only once the history has it, or a full history newer ones.
HistoryIsTrue ==
    /\ \A r \in Requests : Recorded(r) => SignatureOf(r) # {}
    /\ \A r \in Requests :
        (Signs(r) /\ pc[r] = "returned")
            => SignatureOf(r) # {} /\ (Recorded(r) \/ Len(actions) = MaxRecentActions)

\* `ducat_switchNetwork()` and Home change the selection only to what an
\* approved dialog showed.
SwitchedOnlyAsConfirmed ==
    [][selection' # selection =>
        \E r \in approved :
            pc[r] = "select" /\ pc'[r] = "returned" /\ shown[r].to = selection']_vars

\* "Every deployment-sensitive method must exactly match the selected
\* deployment": also when it signs.
SignedUnderSelection ==
    [][\A s \in signatures' \ signatures : s.network = selection]_vars

\* "A stale Home screen cannot modify a different network" than the selected.
FormsWriteSelected ==
    [][(keys' # keys \/ overrides' # overrides) =>
        \E r \in Requests :
            pc[r] = "write" /\ pc'[r] = "returned" /\ Network(r) = selection]_vars

=============================================================================
