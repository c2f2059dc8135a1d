----------------------------- MODULE SnapState -----------------------------
(***************************************************************************)
(* state.ts: the state one Snap installation persists in MetaMask, and the *)
(* asynchronous calls that read and write it.  A handler is one call of    *)
(* the module's API made on behalf of an RPC request or a Home event; any  *)
(* number of them are in progress at once, and every snap_manageState or   *)
(* snap_setState request takes effect (or fails) at a time of its own.     *)
(***************************************************************************)
EXTENDS StoredFields

CONSTANTS
    Handlers,       \* calls of the state API
    Tasks,          \* what a call may ask for
    Times,          \* values of Date.now(); the clock may be set back
    InitialStores,  \* what an installation may have persisted so far
    OldIds,         \* identities of the records persisted so far
    NoView          \* a handler that has not read the state

VARIABLES
    present,                    \* MetaMask holds a state object (FALSE: null)
    selectedNetwork,            \* stored fields, None while absent
    lastNetwork,
    recentActions,
    keyOverrides,
    networkEndpointOverrides,
    lastOrigin,
    stateMutationQueue,         \* handlers whose mutation has not settled, in order
    pc,                         \* where each handler is
    task,                       \* what it was asked to do
    view                        \* what its getState returned

stored == <<present, selectedNetwork, lastNetwork, recentActions, keyOverrides,
            networkEndpointOverrides, lastOrigin>>

vars == <<stored, stateMutationQueue, pc, task, view>>

ASSUME TimesAssumption == Times \subseteq Int

MutationOps == {"append", "clear", "import", "remove", "saveEndpoint"}
ReadOps == {"get", "switch"}

Options(S) == S \cup {None}

EntryIds == OldIds \cup Handlers
KeyIds == OldIds \cup Handlers

Entries == [id : EntryIds, at : Times, valid : BOOLEAN]
Keys == [id : KeyIds, network : Deployments, created : Times, valid : BOOLEAN]
Overrides == [validator : Options(Urls \cup {BadUrl}),
              esplora : Options(Urls \cup {BadUrl}), verified : BOOLEAN]
Selections == Options(Deployments \cup Removed)

\* What parseSwitchParams, assertDeploymentAvailable and the Home forms let
\* through.
ASSUME TasksAssumption ==
    \A t \in Tasks :
        /\ t.op \in MutationOps \cup ReadOps \cup {"remember"}
        /\ t.op \in {"import", "remove", "saveEndpoint", "switch"}
            => t.network \in AllowedDeployments
        /\ t.op = "saveEndpoint" => t.kind \in Kinds /\ t.url \in Options(Urls)

\* Whatever was stored, a value that is no array or object counts as absent.
ASSUME InitialStoresAssumption ==
    \A s \in InitialStores :
        /\ s.present \in BOOLEAN
        /\ s.selectedNetwork \in Selections
        /\ s.lastNetwork \in Selections
        /\ s.recentActions \in Seq(Entries)
        /\ s.keyOverrides \in Seq(Keys)
        /\ s.networkEndpointOverrides \in [Deployments -> Overrides]

\* The state getState returns for what is stored now.
CurrentView ==
    [selectedNetwork |-> EffectiveSelection(selectedNetwork, lastNetwork),
     recentActions |-> SanitizedActions(recentActions),
     keyOverrides |-> SanitizedKeys(keyOverrides),
     networkEndpointOverrides |-> SanitizedOverrides(networkEndpointOverrides)]

\* Mutant: every read writes its selection back.
NeedsMigrationAlways == present

NeedsMigration ==
    present /\ selectedNetwork # EffectiveSelection(selectedNetwork, lastNetwork)

Stages == {"idle", "queued", "get", "migrate", "update", "put", "origin",
           "done", "failed"}

\* Mutant: a mutation starts as soon as it is queued.
RunningUnserialized(h) == \E i \in DOMAIN stateMutationQueue : stateMutationQueue[i] = h

\* A handler inside its mutation: the next one starts when it has settled.
Running(h) ==
    /\ stateMutationQueue # <<>>
    /\ h = Head(stateMutationQueue)

Release(h) ==
    stateMutationQueue' = IF Running(h) THEN Tail(stateMutationQueue)
                                        ELSE stateMutationQueue

-----------------------------------------------------------------------------
Init ==
    /\ \E s \in InitialStores :
        /\ present = s.present
        /\ selectedNetwork = s.selectedNetwork
        /\ lastNetwork = s.lastNetwork
        /\ recentActions = s.recentActions
        /\ keyOverrides = s.keyOverrides
        /\ networkEndpointOverrides = s.networkEndpointOverrides
        /\ lastOrigin = s.lastOrigin
    /\ stateMutationQueue = <<>>
    /\ pc = [h \in Handlers |-> "idle"]
    /\ task \in [Handlers -> Tasks]
    /\ view = [h \in Handlers |-> NoView]

-----------------------------------------------------------------------------
(* Calls of the API.                                                       *)

\* updateStateField: the mutation joins the queue.
Enqueue(h) ==
    /\ pc[h] = "idle"
    /\ task[h].op \in MutationOps
    /\ stateMutationQueue' = Append(stateMutationQueue, h)
    /\ pc' = [pc EXCEPT ![h] = "queued"]
    /\ UNCHANGED <<stored, task, view>>

CallGetState(h) ==
    /\ pc[h] = "idle"
    /\ task[h].op \in ReadOps
    /\ pc' = [pc EXCEPT ![h] = "get"]
    /\ UNCHANGED <<stored, stateMutationQueue, task, view>>

\* rememberDucatSession writes its key directly.
CallRememberSession(h) ==
    /\ pc[h] = "idle"
    /\ task[h].op = "remember"
    /\ pc' = [pc EXCEPT ![h] = "put"]
    /\ UNCHANGED <<stored, stateMutationQueue, task, view>>

-----------------------------------------------------------------------------
(* getState, alone or as the first half of a mutation or of a switch.      *)

\* Mutant: a switch runs as if it were a mutation.
AfterReadUndialogued(h, v) == IF task[h].op = "get" THEN "done" ELSE "update"

\* A switch to the network that is selected ends here; another one goes on to
\* its confirmation dialog, "put", and to the write if the user approves.
AfterRead(h, v) ==
    IF task[h].op = "get" THEN "done"
    ELSE IF task[h].op # "switch" THEN "update"
    ELSE IF task[h].network = v.selectedNetwork THEN "done" ELSE "put"

\* Mutant: the read of a mutation does not wait for the one before it.
ReadStateEarly(h) ==
    /\ pc[h] \in {"get", "queued"}
    /\ view' = [view EXCEPT ![h] = CurrentView]
    /\ pc' = [pc EXCEPT ![h] = IF NeedsMigration THEN "migrate" ELSE AfterRead(h, CurrentView)]
    /\ UNCHANGED <<stored, stateMutationQueue, task>>

ReadState(h) ==
    /\ pc[h] = "get" \/ (pc[h] = "queued" /\ Running(h))
    /\ view' = [view EXCEPT ![h] = CurrentView]
    /\ pc' = [pc EXCEPT ![h] = IF NeedsMigration THEN "migrate" ELSE AfterRead(h, CurrentView)]
    /\ UNCHANGED <<stored, stateMutationQueue, task>>

\* Mutant: the migration is computed and never stored.
MigrateSelectionUnwritten(h) ==
    /\ pc[h] = "migrate"
    /\ pc' = [pc EXCEPT ![h] = AfterRead(h, view[h])]
    /\ UNCHANGED <<stored, stateMutationQueue, task, view>>

\* Mutant: the migration stores the default instead of what was selected.
MigrateSelectionToDefault(h) ==
    /\ pc[h] = "migrate"
    /\ present' = TRUE
    /\ selectedNetwork' = DefaultDeployment
    /\ pc' = [pc EXCEPT ![h] = AfterRead(h, view[h])]
    /\ UNCHANGED <<lastNetwork, recentActions, keyOverrides,
                   networkEndpointOverrides, lastOrigin, stateMutationQueue,
                   task, view>>

\* The migration write carries the selection that was read, not the one that
\* is stored by the time it takes effect.
MigrateSelection(h) ==
    /\ pc[h] = "migrate"
    /\ present' = TRUE
    /\ selectedNetwork' = view[h].selectedNetwork
    /\ pc' = [pc EXCEPT ![h] = AfterRead(h, view[h])]
    /\ UNCHANGED <<lastNetwork, recentActions, keyOverrides,
                   networkEndpointOverrides, lastOrigin, stateMutationQueue,
                   task, view>>

-----------------------------------------------------------------------------
(* The keyed writes that end a mutation.                                   *)

WriteActions(h, value) ==
    /\ recentActions' = value
    /\ UNCHANGED <<keyOverrides, networkEndpointOverrides>>

WriteKeys(h, value) ==
    /\ keyOverrides' = value
    /\ UNCHANGED <<recentActions, networkEndpointOverrides>>

WriteOverrides(h, value) ==
    /\ networkEndpointOverrides' = value
    /\ UNCHANGED <<recentActions, keyOverrides>>

\* An account id selects one override of the network, no id the effective one.
RemovalFinds(keys, n, key) ==
    \E i \in KeysOf(keys, n) : key \in {None, keys[i].id}

Update(h) ==
    LET t == task[h] IN
    \/ /\ t.op = "append"
       /\ \E now \in Times :
            WriteActions(h, WithAction(view[h].recentActions,
                                [id |-> h, at |-> now, valid |-> TRUE]))
    \/ /\ t.op = "clear"
       /\ WriteActions(h, <<>>)
    \/ /\ t.op = "import"
       /\ \E now \in Times :
            WriteKeys(h, ReplaceKeyOverride(view[h].keyOverrides,
                [id |-> h, network |-> t.network, created |-> now, valid |-> TRUE]))
    \/ /\ t.op = "remove"
       /\ RemovalFinds(view[h].keyOverrides, t.network, t.key)
       /\ WriteKeys(h, KeyOverridesWithoutNetwork(view[h].keyOverrides, t.network))
    \/ /\ t.op = "saveEndpoint"
       /\ WriteOverrides(h, OverridesWithField(view[h].networkEndpointOverrides,
                                t.network, t.kind, t.url))

WriteField(h) ==
    /\ pc[h] = "update"
    /\ Update(h)
    /\ present' = TRUE
    /\ Release(h)
    /\ pc' = [pc EXCEPT ![h] = IF task[h].op = "append" THEN "origin" ELSE "done"]
    /\ UNCHANGED <<selectedNetwork, lastNetwork, lastOrigin, task, view>>

\* appendRecentAction's second write, outside the queue, and
\* rememberDucatSession.
WriteOrigin(h) ==
    /\ pc[h] = "origin" \/ (pc[h] = "put" /\ task[h].op = "remember")
    /\ present' = TRUE
    /\ lastOrigin' = task[h].origin
    /\ pc' = [pc EXCEPT ![h] = "done"]
    /\ UNCHANGED <<selectedNetwork, lastNetwork, recentActions, keyOverrides,
                   networkEndpointOverrides, stateMutationQueue, task, view>>

SetSelectedNetwork(h) ==
    /\ pc[h] = "put"
    /\ task[h].op = "switch"
    /\ present' = TRUE
    /\ selectedNetwork' = task[h].network
    /\ pc' = [pc EXCEPT ![h] = "done"]
    /\ UNCHANGED <<lastNetwork, recentActions, keyOverrides,
                   networkEndpointOverrides, lastOrigin, stateMutationQueue,
                   task, view>>

\* Mutant: a mutation that fails blocks those queued behind it.
FailWithoutRelease(h) ==
    /\ \/ pc[h] \in {"get", "migrate", "update", "put", "origin"}
       \/ pc[h] = "queued" /\ Running(h)
    /\ pc' = [pc EXCEPT ![h] = "failed"]
    /\ UNCHANGED <<stored, stateMutationQueue, task, view>>

\* A request MetaMask rejects, a switch the user rejects, or an update that
\* throws (a key override that is not there): the call fails, the queue goes on.
Fail(h) ==
    /\ \/ pc[h] \in {"get", "migrate", "update", "put", "origin"}
       \/ pc[h] = "queued" /\ Running(h)
    /\ Release(h)
    /\ pc' = [pc EXCEPT ![h] = "failed"]
    /\ UNCHANGED <<stored, task, view>>

Begin(h) == Enqueue(h) \/ CallGetState(h) \/ CallRememberSession(h)

\* What happens by itself once a call has been made.
Step(h) ==
    \/ ReadState(h) \/ MigrateSelection(h) \/ WriteField(h)
    \/ WriteOrigin(h) \/ SetSelectedNetwork(h) \/ Fail(h)

Settled(h) == pc[h] \in {"done", "failed"}

\* Every call has returned.
Finished ==
    /\ \A h \in Handlers : Settled(h)
    /\ UNCHANGED vars

Next == (\E h \in Handlers : Begin(h) \/ Step(h)) \/ Finished

\* MetaMask answers every request, with a result or an error; nothing obliges
\* a website or the user to make a call.
Fairness == \A h \in Handlers : WF_vars(Step(h))

Spec == Init /\ [][Next]_vars
FairSpec == Spec /\ Fairness

-----------------------------------------------------------------------------
(* Properties.                                                             *)

Views == [selectedNetwork : AllowedDeployments, recentActions : Seq(Entries),
          keyOverrides : Seq(Keys),
          networkEndpointOverrides : [Deployments -> Overrides]]

\* Every stored field holds what its schema allows, every handler past its
\* read holds a sanitized state, and only mutations wait in the queue.
TypeOK ==
    /\ present \in BOOLEAN
    /\ selectedNetwork \in Selections
    /\ lastNetwork \in Selections
    /\ recentActions \in Seq(Entries)
    /\ keyOverrides \in Seq(Keys)
    /\ networkEndpointOverrides \in [Deployments -> Overrides]
    /\ stateMutationQueue \in Seq(Handlers)
    /\ pc \in [Handlers -> Stages]
    /\ task \in [Handlers -> Tasks]
    /\ view \in [Handlers -> Views \cup {NoView}]
    /\ \A h \in Handlers :
        /\ pc[h] \in {"migrate", "update"} => view[h] \in Views
        /\ pc[h] \in {"queued", "update"} => task[h].op \in MutationOps
        /\ pc[h] = "get" => task[h].op \in ReadOps

\* updateStateField "serializes read-modify-write mutations": from the read of
\* a mutation to its write no other call changes a field a mutation writes, so
\* the value written is computed from the value it replaces.
NoLostUpdate ==
    \A h \in Handlers :
        (pc[h] \in {"migrate", "update"} /\ task[h].op \in MutationOps) =>
            /\ view[h].recentActions = SanitizedActions(recentActions)
            /\ view[h].keyOverrides = SanitizedKeys(keyOverrides)
            /\ view[h].networkEndpointOverrides =
                    SanitizedOverrides(networkEndpointOverrides)

Store == INSTANCE AtomicStore WITH
            selection <- EffectiveSelection(selectedNetwork, lastNetwork),
            actions <- SanitizedActions(recentActions),
            keys <- SanitizedKeys(keyOverrides),
            overrides <- SanitizedOverrides(networkEndpointOverrides)

\* Read through the sanitizers of getState, the state behaves like a store
\* whose mutations are atomic, whatever calls overlap.
ImplementsAtomicStore == Store!StoreSpec

\* The deployment the Snap reports as selected changes only by the write of
\* setSelectedNetwork, which follows a confirmation; never by a write a stale
\* read left behind.
SelectionChangesOnlyBySelect ==
    [][CurrentView.selectedNetwork' # CurrentView.selectedNetwork
        => \E h \in Handlers : SetSelectedNetwork(h)]_vars

\* The action that was just appended is part of the history getState returns,
\* also when the history is full and the clock has been set back.
AppendedActionIsVisible ==
    [][\A h \in Handlers :
        (pc[h] = "update" /\ pc'[h] = "origin") =>
            \E i \in DOMAIN SanitizedActions(recentActions') :
                SanitizedActions(recentActions')[i].id = h]_vars

\* A mutation settles whatever happens to those queued before it: the failure
\* of one does not stop the queue.
MutationsSettle == \A h \in Handlers : pc[h] = "queued" ~> Settled(h)

\* Legacy state is migrated once: after any getState on a stored state the
\* stored selection is the one every later getState reports.
MigratedOnceRead ==
    \A h \in Handlers :
        (view[h] # NoView /\ pc[h] \in {"update", "origin", "done"}) => ~NeedsMigration

=============================================================================
