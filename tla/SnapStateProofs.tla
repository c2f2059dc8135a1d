--------------------------- MODULE SnapStateProofs ---------------------------
(***************************************************************************)
(* Theorems about SnapState for any set of calls, tasks, deployments and   *)
(* persisted stores.                                                       *)
(***************************************************************************)
EXTENDS SnapState, StoredFieldsProofs

-----------------------------------------------------------------------------
(* Types of the values a handler reads and writes.                         *)

LEMMA EntriesHaveTimes == \A e \in Entries : e.at \in Int
  BY TimesAssumption DEF Entries

LEMMA EffectiveSelectionType ==
    ASSUME NEW s, NEW l
    PROVE  EffectiveSelection(s, l) \in AllowedDeployments
  BY DeploymentsAssumption DEF EffectiveSelection

LEMMA NoOverrideType == NoOverride \in Overrides
  BY DEF NoOverride, Overrides, Options

LEMMA SanitizedOverridesType ==
    ASSUME NEW o \in [Deployments -> Overrides]
    PROVE  SanitizedOverrides(o) \in [Deployments -> Overrides]
  BY NoOverrideType DEF SanitizedOverrides

LEMMA OverridesWithFieldType ==
    ASSUME NEW o \in [Deployments -> Overrides], NEW n \in Deployments,
           NEW kind \in Kinds, NEW url \in Options(Urls)
    PROVE  OverridesWithField(o, n, kind, url) \in [Deployments -> Overrides]
<1>1. ASSUME NEW v \in Overrides
      PROVE  EndpointOverrideWithField(v, kind, url) \in Overrides
  <2> DEFINE w == [v EXCEPT !.validator = IF kind = "validator" THEN url ELSE @,
                            !.esplora = IF kind = "esplora" THEN url ELSE @,
                            !.verified = @ \/ url # None]
  <2>1. (v.verified \/ url # None) \in BOOLEAN
    OBVIOUS
  <2>2. w \in Overrides
    BY <2>1 DEF Overrides, Options
  <2> HIDE DEF w
  <2>3. EndpointOverrideWithField(v, kind, url) =
            IF w.validator = None /\ w.esplora = None THEN NoOverride ELSE w
    BY DEF EndpointOverrideWithField, w
  <2> QED
    BY <2>2, <2>3, NoOverrideType
<1> QED
  BY <1>1 DEF OverridesWithField

LEMMA CurrentViewType ==
    ASSUME TypeOK
    PROVE  CurrentView \in Views
<1>1. SanitizedActions(recentActions) \in Seq(Entries)
  BY EntriesHaveTimes, SanitizedActionsType DEF TypeOK
<1>2. SanitizedKeys(keyOverrides) \in Seq(Keys)
  BY KeysFilterType DEF TypeOK
<1> QED
  BY <1>1, <1>2, EffectiveSelectionType, SanitizedOverridesType
     DEF TypeOK, Views, CurrentView

LEMMA AfterReadStage ==
    ASSUME NEW h \in Handlers, NEW v, task[h].op \in MutationOps \cup ReadOps
    PROVE  /\ AfterRead(h, v) \in {"done", "update", "put"}
           /\ AfterRead(h, v) = "update" => task[h].op \in MutationOps
  BY DEF AfterRead, MutationOps, ReadOps

-----------------------------------------------------------------------------
(* Type correctness.  Not inductive by itself: what a handler may do after *)
(* its migration write depends on the kind of its task.                    *)

TInv ==
    /\ TypeOK
    /\ \A h \in Handlers : pc[h] = "migrate" => task[h].op \in MutationOps \cup ReadOps

LEMMA TInvInit == Init => TInv
<1> SUFFICES ASSUME Init PROVE TInv
  OBVIOUS
<1>1. \E s \in InitialStores :
        /\ present = s.present
        /\ selectedNetwork = s.selectedNetwork
        /\ lastNetwork = s.lastNetwork
        /\ recentActions = s.recentActions
        /\ keyOverrides = s.keyOverrides
        /\ networkEndpointOverrides = s.networkEndpointOverrides
  BY DEF Init
<1>2. /\ present \in BOOLEAN /\ selectedNetwork \in Selections
      /\ lastNetwork \in Selections /\ recentActions \in Seq(Entries)
      /\ keyOverrides \in Seq(Keys)
      /\ networkEndpointOverrides \in [Deployments -> Overrides]
  BY <1>1, InitialStoresAssumption
<1>3. /\ stateMutationQueue = <<>> /\ pc = [h \in Handlers |-> "idle"]
      /\ task \in [Handlers -> Tasks] /\ view = [h \in Handlers |-> NoView]
  BY DEF Init
<1> QED
  BY <1>2, <1>3 DEF TInv, TypeOK, Stages

LEMMA ReleaseType ==
    ASSUME TypeOK, NEW h \in Handlers, Release(h)
    PROVE  stateMutationQueue' \in Seq(Handlers)
<1>1. CASE Running(h)
  BY <1>1, HeadTailProperties DEF Release, Running, TypeOK
<1>2. CASE ~Running(h)
  BY <1>2 DEF Release, TypeOK
<1> QED
  BY <1>1, <1>2

\* The value a mutation writes has the type of its field.
LEMMA UpdateType ==
    ASSUME TypeOK, NEW h \in Handlers, pc[h] = "update", Update(h)
    PROVE  /\ recentActions' \in Seq(Entries)
           /\ keyOverrides' \in Seq(Keys)
           /\ networkEndpointOverrides' \in [Deployments -> Overrides]
<1> DEFINE t == task[h]
<1>1. /\ view[h] \in Views /\ t \in Tasks
      /\ recentActions \in Seq(Entries) /\ keyOverrides \in Seq(Keys)
      /\ networkEndpointOverrides \in [Deployments -> Overrides]
  BY DEF TypeOK
<1>2. h \in EntryIds /\ h \in KeyIds
  BY DEF EntryIds, KeyIds
<1>3. ASSUME NEW now \in Times,
             WriteActions(h, WithAction(view[h].recentActions,
                                [id |-> h, at |-> now, valid |-> TRUE]))
      PROVE  recentActions' \in Seq(Entries) /\ UNCHANGED <<keyOverrides, networkEndpointOverrides>>
  <2>1. [id |-> h, at |-> now, valid |-> TRUE] \in Entries
    BY <1>2 DEF Entries
  <2> QED
    BY <1>1, <1>3, <2>1, WithActionType DEF WriteActions, Views
<1>4. ASSUME WriteActions(h, <<>>)
      PROVE  recentActions' \in Seq(Entries) /\ UNCHANGED <<keyOverrides, networkEndpointOverrides>>
  BY <1>4 DEF WriteActions
<1>5. ASSUME t.op = "import", NEW now \in Times,
             WriteKeys(h, ReplaceKeyOverride(view[h].keyOverrides,
                [id |-> h, network |-> t.network, created |-> now, valid |-> TRUE]))
      PROVE  keyOverrides' \in Seq(Keys) /\ UNCHANGED <<recentActions, networkEndpointOverrides>>
  <2>1. t.network \in Deployments
    BY <1>1, <1>5, TasksAssumption, DeploymentsAssumption
  <2>2. [id |-> h, network |-> t.network, created |-> now, valid |-> TRUE] \in Keys
    BY <1>2, <2>1 DEF Keys
  <2> QED
    BY <1>1, <1>5, <2>2, ReplaceKeyType DEF WriteKeys, Views
<1>6. ASSUME WriteKeys(h, KeyOverridesWithoutNetwork(view[h].keyOverrides, t.network))
      PROVE  keyOverrides' \in Seq(Keys) /\ UNCHANGED <<recentActions, networkEndpointOverrides>>
  BY <1>1, <1>6, KeysFilterType DEF WriteKeys, Views
<1>7. ASSUME t.op = "saveEndpoint",
             WriteOverrides(h, OverridesWithField(view[h].networkEndpointOverrides,
                                t.network, t.kind, t.url))
      PROVE  /\ networkEndpointOverrides' \in [Deployments -> Overrides]
             /\ UNCHANGED <<recentActions, keyOverrides>>
  <2>1. t.network \in Deployments /\ t.kind \in Kinds /\ t.url \in Options(Urls)
    BY <1>1, <1>7, TasksAssumption, DeploymentsAssumption
  <2> HIDE DEF t
  <2> QED
    BY <1>1, <1>7, <2>1, OverridesWithFieldType DEF WriteOverrides, Views
<1> QED
  BY <1>1, <1>3, <1>4, <1>5, <1>6, <1>7 DEF Update

LEMMA TInvStep == TInv /\ [Next]_vars => TInv'
<1> SUFFICES ASSUME TInv, [Next]_vars PROVE TInv'
  OBVIOUS
<1>0. TypeOK
  BY DEF TInv
<1>1. ASSUME NEW h \in Handlers, Enqueue(h) PROVE TInv'
  BY <1>0, <1>1, AppendProperties DEF Enqueue, TInv, TypeOK, stored, Stages
<1>2. ASSUME NEW h \in Handlers, CallGetState(h) PROVE TInv'
  BY <1>0, <1>2 DEF CallGetState, TInv, TypeOK, stored, Stages
<1>3. ASSUME NEW h \in Handlers, CallRememberSession(h) PROVE TInv'
  BY <1>0, <1>3 DEF CallRememberSession, TInv, TypeOK, stored, Stages
<1>4. ASSUME NEW h \in Handlers, ReadState(h) PROVE TInv'
  <2>1. task[h].op \in MutationOps \cup ReadOps
    BY <1>0, <1>4 DEF ReadState, TypeOK
  <2>2. CurrentView \in Views
    BY <1>0, CurrentViewType
  <2>3. /\ AfterRead(h, CurrentView) \in {"done", "update", "put"}
        /\ AfterRead(h, CurrentView) = "update" => task[h].op \in MutationOps
    BY <2>1, AfterReadStage
  <2> DEFINE next == IF NeedsMigration THEN "migrate" ELSE AfterRead(h, CurrentView)
  <2>4. /\ next \in {"migrate", "done", "update", "put"}
        /\ next = "update" => task[h].op \in MutationOps
    BY <2>3
  <2>5. /\ pc' = [pc EXCEPT ![h] = next]
        /\ view' = [view EXCEPT ![h] = CurrentView]
        /\ UNCHANGED <<stored, stateMutationQueue, task>>
    BY <1>4 DEF ReadState
  <2> HIDE DEF next
  <2> QED
    BY <1>0, <2>1, <2>2, <2>4, <2>5 DEF TInv, TypeOK, stored, Stages
<1>5. ASSUME NEW h \in Handlers, MigrateSelection(h) PROVE TInv'
  <2>1. /\ task[h].op \in MutationOps \cup ReadOps
        /\ view[h] \in Views
    BY <1>5 DEF MigrateSelection, TInv, TypeOK
  <2>2. view[h].selectedNetwork \in Selections
    BY <2>1, DeploymentsAssumption DEF Views, Selections, Options
  <2>3. /\ AfterRead(h, view[h]) \in {"done", "update", "put"}
        /\ AfterRead(h, view[h]) = "update" => task[h].op \in MutationOps
    BY <2>1, AfterReadStage
  <2> QED
    BY <1>0, <1>5, <2>1, <2>2, <2>3 DEF MigrateSelection, TInv, TypeOK, Stages
<1>6. ASSUME NEW h \in Handlers, WriteField(h) PROVE TInv'
  <2>1. stateMutationQueue' \in Seq(Handlers)
    BY <1>0, <1>6, ReleaseType DEF WriteField
  <2>2. /\ recentActions' \in Seq(Entries)
        /\ keyOverrides' \in Seq(Keys)
        /\ networkEndpointOverrides' \in [Deployments -> Overrides]
    BY <1>0, <1>6, UpdateType DEF WriteField
  <2> QED
    BY <1>0, <1>6, <2>1, <2>2 DEF WriteField, TInv, TypeOK, Stages
<1>7. ASSUME NEW h \in Handlers, WriteOrigin(h) PROVE TInv'
  BY <1>0, <1>7 DEF WriteOrigin, TInv, TypeOK, Stages
<1>8. ASSUME NEW h \in Handlers, SetSelectedNetwork(h) PROVE TInv'
  <2>1. task[h].network \in Selections
    BY <1>0, <1>8, TasksAssumption, DeploymentsAssumption
       DEF SetSelectedNetwork, TypeOK, Selections, Options
  <2> QED
    BY <1>0, <1>8, <2>1 DEF SetSelectedNetwork, TInv, TypeOK, Stages
<1>9. ASSUME NEW h \in Handlers, Fail(h) PROVE TInv'
  <2>1. stateMutationQueue' \in Seq(Handlers)
    BY <1>0, <1>9, ReleaseType DEF Fail
  <2> QED
    BY <1>0, <1>9, <2>1 DEF Fail, TInv, TypeOK, Stages, stored
<1>10. CASE UNCHANGED vars
  BY <1>0, <1>10 DEF vars, stored, TInv, TypeOK
<1> QED
  BY <1>1, <1>2, <1>3, <1>4, <1>5, <1>6, <1>7, <1>8, <1>9, <1>10
     DEF Next, Begin, Step, Finished

\* Whatever was persisted and whatever calls overlap, the fields keep their
\* schema and every mutation starts from a sanitized state.
THEOREM TypeCorrect == Spec => []TypeOK
<1>1. Init => TInv
  BY TInvInit
<1>2. TInv /\ [Next]_vars => TInv'
  BY TInvStep
<1>3. TInv => TypeOK
  BY DEF TInv
<1> QED
  BY <1>1, <1>2, <1>3, PTL DEF Spec

-----------------------------------------------------------------------------
(* No update is lost.  What makes NoLostUpdate inductive is that a         *)
(* mutation past its read is the head of the queue, so that at most one is *)
(* between its read and its write, and that the queue holds each handler   *)
(* in one place only while it waits or runs.                               *)

InMutation(h) == pc[h] \in {"migrate", "update"} /\ task[h].op \in MutationOps

RunningInv == \A h \in Handlers : InMutation(h) => Running(h)

FieldsAsRead(h) ==
    /\ view[h].recentActions = SanitizedActions(recentActions)
    /\ view[h].keyOverrides = SanitizedKeys(keyOverrides)
    /\ view[h].networkEndpointOverrides = SanitizedOverrides(networkEndpointOverrides)

LostInv == TInv /\ RunningInv /\ NoLostUpdate

fields == <<recentActions, keyOverrides, networkEndpointOverrides>>

LEMMA LostInvInit == Init => LostInv
<1> SUFFICES ASSUME Init PROVE LostInv
  OBVIOUS
<1>1. \A h \in Handlers : pc[h] = "idle"
  BY DEF Init
<1> QED
  BY <1>1, TInvInit DEF LostInv, RunningInv, InMutation, NoLostUpdate

\* An appended handler does not displace the head.
LEMMA AppendKeepsRunning ==
    ASSUME TypeOK, NEW h \in Handlers, NEW g \in Handlers, Running(g),
           stateMutationQueue' = Append(stateMutationQueue, h)
    PROVE  Running(g)'
<1>1. stateMutationQueue \in Seq(Handlers) /\ stateMutationQueue # <<>>
  BY DEF TypeOK, Running
<1>2. /\ Append(stateMutationQueue, h) # <<>>
      /\ Head(Append(stateMutationQueue, h)) = Head(stateMutationQueue)
  BY <1>1, AppendProperties, HeadTailProperties
<1> QED
  BY <1>2 DEF Running

\* A step that leaves the queue and the written fields alone, and moves no
\* handler into a mutation.
LEMMA LostInvElsewhere ==
    ASSUME RunningInv, NoLostUpdate, UNCHANGED <<fields, stateMutationQueue, task>>,
           \A g \in Handlers : InMutation(g)' => InMutation(g) /\ view'[g] = view[g]
    PROVE  RunningInv' /\ NoLostUpdate'
  BY DEF RunningInv, NoLostUpdate, InMutation, Running, fields,
         SanitizedActions, SanitizedKeys, SanitizedOverrides

\* The step that ends a mutation leaves no handler inside one.
LEMMA LostInvRelease ==
    ASSUME RunningInv, NEW h \in Handlers, Running(h), UNCHANGED task,
           \A g \in Handlers : InMutation(g)' => InMutation(g) /\ g # h
    PROVE  RunningInv' /\ NoLostUpdate'
<1>1. \A g \in Handlers : InMutation(g) => g = h
  BY DEF RunningInv, Running
<1>2. \A g \in Handlers : ~ InMutation(g)'
  BY <1>1
<1> QED
  BY <1>2 DEF RunningInv, NoLostUpdate, InMutation

LEMMA LostInvStep == LostInv /\ [Next]_vars => LostInv'
<1> SUFFICES ASSUME LostInv, [Next]_vars PROVE RunningInv' /\ NoLostUpdate'
  BY TInvStep DEF LostInv
<1>0. TInv /\ TypeOK /\ RunningInv /\ NoLostUpdate
  BY DEF LostInv, TInv
<1>a. pc \in [Handlers -> Stages] /\ view \in [Handlers -> Views \cup {NoView}]
  BY <1>0 DEF TypeOK
<1>1. ASSUME NEW h \in Handlers, Enqueue(h) PROVE RunningInv' /\ NoLostUpdate'
  <2>1. \A g \in Handlers : InMutation(g)' => InMutation(g)
    BY <1>a, <1>1 DEF Enqueue, InMutation
  <2>2. UNCHANGED <<fields, task, view>> /\ stateMutationQueue' = Append(stateMutationQueue, h)
    BY <1>1 DEF Enqueue, stored, fields
  <2>3. RunningInv'
    BY <1>0, <2>1, <2>2, AppendKeepsRunning DEF RunningInv
  <2>4. NoLostUpdate'
    BY <1>0, <2>1, <2>2 DEF NoLostUpdate, InMutation, fields,
         SanitizedActions, SanitizedKeys, SanitizedOverrides
  <2> QED
    BY <2>3, <2>4
<1>2. ASSUME NEW h \in Handlers, CallGetState(h) PROVE RunningInv' /\ NoLostUpdate'
  <2>1. \A g \in Handlers : InMutation(g)' => InMutation(g) /\ view'[g] = view[g]
    BY <1>a, <1>2 DEF CallGetState, InMutation
  <2>2. UNCHANGED <<fields, stateMutationQueue, task>>
    BY <1>2 DEF CallGetState, stored, fields
  <2> QED
    BY <1>0, <2>1, <2>2, LostInvElsewhere
<1>3. ASSUME NEW h \in Handlers, CallRememberSession(h) PROVE RunningInv' /\ NoLostUpdate'
  <2>1. \A g \in Handlers : InMutation(g)' => InMutation(g) /\ view'[g] = view[g]
    BY <1>a, <1>3 DEF CallRememberSession, InMutation
  <2>2. UNCHANGED <<fields, stateMutationQueue, task>>
    BY <1>3 DEF CallRememberSession, stored, fields
  <2> QED
    BY <1>0, <2>1, <2>2, LostInvElsewhere
<1>4. ASSUME NEW h \in Handlers, ReadState(h) PROVE RunningInv' /\ NoLostUpdate'
  <2>1. UNCHANGED <<fields, stateMutationQueue, task>>
    BY <1>4 DEF ReadState, stored, fields
  <2>2. \A g \in Handlers : g # h => (InMutation(g)' => InMutation(g) /\ view'[g] = view[g])
    BY <1>a, <1>4 DEF ReadState, InMutation
  <2>3. view'[h] = CurrentView
    BY <1>a, <1>4 DEF ReadState
  <2>4. InMutation(h)' => Running(h)
    BY <1>0, <1>4, <2>1 DEF ReadState, InMutation, TypeOK, ReadOps, MutationOps
  <2>5. RunningInv'
    BY <1>0, <2>1, <2>2, <2>4 DEF RunningInv, Running
  <2>6. FieldsAsRead(h)'
    BY <2>1, <2>3 DEF FieldsAsRead, CurrentView, fields,
         SanitizedActions, SanitizedKeys, SanitizedOverrides
  <2>7. \A g \in Handlers : InMutation(g)' => FieldsAsRead(g)'
    BY <1>0, <2>1, <2>2, <2>6 DEF NoLostUpdate, InMutation, FieldsAsRead, fields,
         SanitizedActions, SanitizedKeys, SanitizedOverrides
  <2> QED
    BY <2>5, <2>7 DEF NoLostUpdate, InMutation, FieldsAsRead
<1>5. ASSUME NEW h \in Handlers, MigrateSelection(h) PROVE RunningInv' /\ NoLostUpdate'
  <2>1. \A g \in Handlers : InMutation(g)' => InMutation(g) /\ view'[g] = view[g]
    BY <1>a, <1>5 DEF MigrateSelection, InMutation
  <2>2. UNCHANGED <<fields, stateMutationQueue, task>>
    BY <1>5 DEF MigrateSelection, fields
  <2> QED
    BY <1>0, <2>1, <2>2, LostInvElsewhere
<1>6. ASSUME NEW h \in Handlers, WriteField(h) PROVE RunningInv' /\ NoLostUpdate'
  <2>1. Running(h)
    BY <1>0, <1>6 DEF WriteField, RunningInv, InMutation, TypeOK
  <2>2. \A g \in Handlers : InMutation(g)' => InMutation(g) /\ g # h
    BY <1>a, <1>6 DEF WriteField, InMutation
  <2>3. UNCHANGED task
    BY <1>6 DEF WriteField
  <2> QED
    BY <1>0, <2>1, <2>2, <2>3, LostInvRelease
<1>7. ASSUME NEW h \in Handlers, WriteOrigin(h) PROVE RunningInv' /\ NoLostUpdate'
  <2>1. \A g \in Handlers : InMutation(g)' => InMutation(g) /\ view'[g] = view[g]
    BY <1>a, <1>7 DEF WriteOrigin, InMutation
  <2>2. UNCHANGED <<fields, stateMutationQueue, task>>
    BY <1>7 DEF WriteOrigin, fields
  <2> QED
    BY <1>0, <2>1, <2>2, LostInvElsewhere
<1>8. ASSUME NEW h \in Handlers, SetSelectedNetwork(h) PROVE RunningInv' /\ NoLostUpdate'
  <2>1. \A g \in Handlers : InMutation(g)' => InMutation(g) /\ view'[g] = view[g]
    BY <1>a, <1>8 DEF SetSelectedNetwork, InMutation
  <2>2. UNCHANGED <<fields, stateMutationQueue, task>>
    BY <1>8 DEF SetSelectedNetwork, fields
  <2> QED
    BY <1>0, <2>1, <2>2, LostInvElsewhere
<1>9. ASSUME NEW h \in Handlers, Fail(h) PROVE RunningInv' /\ NoLostUpdate'
  <2>1. \A g \in Handlers : InMutation(g)' => InMutation(g) /\ g # h /\ view'[g] = view[g]
    BY <1>a, <1>9 DEF Fail, InMutation
  <2>2. UNCHANGED <<fields, task>>
    BY <1>9 DEF Fail, stored, fields
  <2>3. CASE Running(h)
    BY <1>0, <2>1, <2>2, <2>3, LostInvRelease
  <2>4. CASE ~Running(h)
    <3>1. UNCHANGED stateMutationQueue
      BY <1>9, <2>4 DEF Fail, Release
    <3> QED
      BY <1>0, <2>1, <2>2, <3>1, LostInvElsewhere
  <2> QED
    BY <2>3, <2>4
<1>10. CASE UNCHANGED vars
  <2>1. /\ UNCHANGED <<fields, stateMutationQueue, task>>
        /\ \A g \in Handlers : InMutation(g)' => InMutation(g) /\ view'[g] = view[g]
    BY <1>10 DEF vars, stored, fields, InMutation
  <2> QED
    BY <1>0, <2>1, LostInvElsewhere
<1> QED
  BY <1>1, <1>2, <1>3, <1>4, <1>5, <1>6, <1>7, <1>8, <1>9, <1>10
     DEF Next, Begin, Step, Finished

\* updateStateField serializes: between the read of a mutation and its write
\* nothing changes a field that mutations write, for any number of calls.
THEOREM MutationsSerialized == Spec => []NoLostUpdate
<1>1. Init => LostInv
  BY LostInvInit
<1>2. LostInv /\ [Next]_vars => LostInv'
  BY LostInvStep
<1>3. LostInv => NoLostUpdate
  BY DEF LostInv
<1> QED
  BY <1>1, <1>2, <1>3, PTL DEF Spec

-----------------------------------------------------------------------------
(* The reported selection changes only with setSelectedNetwork, in any     *)
(* behaviour that starts with a stored selection this build allows, since  *)
(* then no getState migrates, and in any without a switch, since then a    *)
(* migration writes what is reported anyway.  The run SnapState_fresh      *)
(* shows what the two do to each other.                                    *)

SelectedInv ==
    /\ TInv
    /\ selectedNetwork \in AllowedDeployments
    /\ \A h \in Handlers : pc[h] # "migrate"

LEMMA AllowedIsEffective ==
    ASSUME NEW n \in AllowedDeployments, NEW l
    PROVE  EffectiveSelection(n, l) = n
  BY DeploymentsAssumption DEF EffectiveSelection, StoredSelection

LEMMA SelectedInvStep == SelectedInv /\ [Next]_vars => SelectedInv'
<1> SUFFICES ASSUME SelectedInv, [Next]_vars
             PROVE  /\ selectedNetwork' \in AllowedDeployments
                    /\ \A h \in Handlers : pc'[h] # "migrate"
  BY TInvStep DEF SelectedInv
<1>0. /\ TInv /\ pc \in [Handlers -> Stages] /\ task \in [Handlers -> Tasks]
      /\ selectedNetwork \in AllowedDeployments
      /\ \A h \in Handlers : pc[h] # "migrate"
  BY DEF SelectedInv, TInv, TypeOK
<1>1. ASSUME NEW h \in Handlers, ReadState(h)
      PROVE  selectedNetwork' \in AllowedDeployments /\ \A g \in Handlers : pc'[g] # "migrate"
  <2>1. ~NeedsMigration
    BY <1>0, AllowedIsEffective DEF NeedsMigration
  <2>2. AfterRead(h, CurrentView) # "migrate"
    BY DEF AfterRead
  <2> QED
    BY <1>0, <1>1, <2>1, <2>2 DEF ReadState, stored
<1>2. ASSUME NEW h \in Handlers, SetSelectedNetwork(h)
      PROVE  selectedNetwork' \in AllowedDeployments /\ \A g \in Handlers : pc'[g] # "migrate"
  BY <1>0, <1>2, TasksAssumption DEF SetSelectedNetwork
<1>3. ASSUME NEW h \in Handlers,
             \/ Enqueue(h) \/ CallGetState(h) \/ CallRememberSession(h)
             \/ WriteField(h) \/ WriteOrigin(h) \/ Fail(h)
      PROVE  selectedNetwork' \in AllowedDeployments /\ \A g \in Handlers : pc'[g] # "migrate"
  BY <1>0, <1>3 DEF Enqueue, CallGetState, CallRememberSession, WriteField,
                    WriteOrigin, Fail, stored
<1>4. ASSUME NEW h \in Handlers, MigrateSelection(h) PROVE FALSE
  BY <1>0, <1>4 DEF MigrateSelection
<1>5. CASE UNCHANGED vars
  BY <1>0, <1>5 DEF vars, stored
<1> QED
  BY <1>1, <1>2, <1>3, <1>4, <1>5 DEF Next, Begin, Step, Finished

LEMMA SelectionStep ==
    ASSUME SelectedInv, [Next]_vars,
           CurrentView.selectedNetwork' # CurrentView.selectedNetwork
    PROVE  \E h \in Handlers : SetSelectedNetwork(h)
<1>1. ~ UNCHANGED <<selectedNetwork, lastNetwork>>
  BY DEF CurrentView, EffectiveSelection, StoredSelection
<1>2. UNCHANGED lastNetwork
  BY DEF Next, Begin, Step, Enqueue, CallGetState, CallRememberSession, ReadState,
         MigrateSelection, WriteField, WriteOrigin, SetSelectedNetwork, Fail,
         Finished, vars, stored
<1>3. ASSUME NEW h \in Handlers, Begin(h) \/ Step(h), ~SetSelectedNetwork(h)
      PROVE  UNCHANGED selectedNetwork \/ MigrateSelection(h)
  BY <1>3 DEF Begin, Step, Enqueue, CallGetState, CallRememberSession, ReadState,
              WriteField, WriteOrigin, Fail, stored
<1>4. \A h \in Handlers : ~MigrateSelection(h)
  BY DEF SelectedInv, MigrateSelection
<1> QED
  BY <1>1, <1>2, <1>3, <1>4 DEF Next, Finished, vars, stored

NoSwitch == \A h \in Handlers : task[h].op # "switch"

\* Without switches, a migration about to be written is of the selection that
\* is reported already.
MigratingInv ==
    /\ TInv /\ NoSwitch
    /\ \A h \in Handlers :
        pc[h] = "migrate" => view[h].selectedNetwork = CurrentView.selectedNetwork

LEMMA MigratingStep ==
    ASSUME MigratingInv, [Next]_vars
    PROVE  MigratingInv' /\ CurrentView.selectedNetwork' = CurrentView.selectedNetwork
<1>0. /\ TInv /\ TInv' /\ NoSwitch
      /\ pc \in [Handlers -> Stages] /\ view \in [Handlers -> Views \cup {NoView}]
      /\ \A h \in Handlers :
            pc[h] = "migrate" => view[h].selectedNetwork = CurrentView.selectedNetwork
  BY TInvStep DEF MigratingInv, TInv, TypeOK
<1>1. UNCHANGED <<task, lastNetwork>>
  BY DEF Next, Begin, Step, Enqueue, CallGetState, CallRememberSession, ReadState,
         MigrateSelection, WriteField, WriteOrigin, SetSelectedNetwork, Fail,
         Finished, vars, stored
<1>2. NoSwitch'
  BY <1>0, <1>1 DEF NoSwitch
<1>3. CurrentView.selectedNetwork = EffectiveSelection(selectedNetwork, lastNetwork)
  BY DEF CurrentView
<1>4. CurrentView.selectedNetwork' = EffectiveSelection(selectedNetwork', lastNetwork')
  BY DEF CurrentView
<1>5. ASSUME UNCHANGED selectedNetwork
      PROVE  CurrentView.selectedNetwork' = CurrentView.selectedNetwork
  BY <1>1, <1>3, <1>4, <1>5
<1>6. ASSUME UNCHANGED <<selectedNetwork, view>>, \A h \in Handlers : pc'[h] = "migrate" => pc[h] = "migrate"
      PROVE  MigratingInv' /\ CurrentView.selectedNetwork' = CurrentView.selectedNetwork
  BY <1>0, <1>2, <1>5, <1>6 DEF MigratingInv
<1>7. ASSUME NEW h \in Handlers, ReadState(h)
      PROVE  MigratingInv' /\ CurrentView.selectedNetwork' = CurrentView.selectedNetwork
  <2>1. UNCHANGED selectedNetwork /\ view' = [view EXCEPT ![h] = CurrentView]
    BY <1>7 DEF ReadState, stored
  <2>2. \A g \in Handlers \ {h} : pc'[g] = pc[g] /\ view'[g] = view[g]
    BY <1>0, <1>7, <2>1 DEF ReadState
  <2>3. view'[h] = CurrentView
    BY <1>0, <2>1
  <2> QED
    BY <1>0, <1>2, <1>5, <2>1, <2>2, <2>3 DEF MigratingInv
<1>8. ASSUME NEW h \in Handlers, MigrateSelection(h)
      PROVE  MigratingInv' /\ CurrentView.selectedNetwork' = CurrentView.selectedNetwork
  <2>1. view[h] \in Views /\ view[h].selectedNetwork = CurrentView.selectedNetwork
    BY <1>0, <1>8 DEF MigrateSelection, TInv, TypeOK
  <2>2. selectedNetwork' = view[h].selectedNetwork /\ selectedNetwork' \in AllowedDeployments
    BY <1>8, <2>1 DEF MigrateSelection, Views
  <2>3. CurrentView.selectedNetwork' = CurrentView.selectedNetwork
    BY <1>4, <2>1, <2>2, AllowedIsEffective
  <2>4. UNCHANGED view /\ \A g \in Handlers : pc'[g] = "migrate" => pc[g] = "migrate"
    BY <1>0, <1>8 DEF MigrateSelection, AfterRead
  <2> QED
    BY <1>0, <1>2, <2>3, <2>4 DEF MigratingInv
<1>9. ASSUME NEW h \in Handlers, Begin(h) \/ WriteField(h) \/ WriteOrigin(h) \/ Fail(h)
      PROVE  MigratingInv' /\ CurrentView.selectedNetwork' = CurrentView.selectedNetwork
  <2>1. UNCHANGED <<selectedNetwork, view>> /\ \A g \in Handlers : pc'[g] = "migrate" => pc[g] = "migrate"
    BY <1>0, <1>9 DEF Begin, Enqueue, CallGetState, CallRememberSession, WriteField,
                      WriteOrigin, Fail, stored
  <2> QED
    BY <1>6, <2>1
<1>10. \A h \in Handlers : ~SetSelectedNetwork(h)
  BY <1>0 DEF NoSwitch, SetSelectedNetwork
<1>11. CASE UNCHANGED vars
  <2>1. UNCHANGED <<selectedNetwork, view, pc>>
    BY <1>11 DEF vars, stored
  <2> QED
    BY <1>6, <2>1
<1> QED
  BY <1>7, <1>8, <1>9, <1>10, <1>11 DEF Next, Step, Finished

\* Whatever calls overlap, the selected deployment changes only by a confirmed
\* switch, if an allowed selection was stored from the start; and never, if no
\* call is a switch, whatever was stored.
THEOREM SelectionStable ==
    Spec /\ (selectedNetwork \in AllowedDeployments \/ NoSwitch) => SelectionChangesOnlyBySelect
<1>1. Init /\ (selectedNetwork \in AllowedDeployments \/ NoSwitch) => SelectedInv \/ MigratingInv
  <2> SUFFICES ASSUME Init, selectedNetwork \in AllowedDeployments \/ NoSwitch
               PROVE  SelectedInv \/ MigratingInv
    OBVIOUS
  <2>1. TInv /\ \A h \in Handlers : pc[h] = "idle"
    BY TInvInit DEF Init
  <2> QED
    BY <2>1 DEF SelectedInv, MigratingInv
<1>2. (SelectedInv \/ MigratingInv) /\ [Next]_vars => (SelectedInv \/ MigratingInv)'
  BY SelectedInvStep, MigratingStep
<1>3. (SelectedInv \/ MigratingInv) /\ [Next]_vars =>
        [CurrentView.selectedNetwork' # CurrentView.selectedNetwork
            => \E h \in Handlers : SetSelectedNetwork(h)]_vars
  BY SelectionStep, MigratingStep
<1> QED
  BY <1>1, <1>2, <1>3, PTL DEF Spec, SelectionChangesOnlyBySelect

-----------------------------------------------------------------------------
(* SnapState implements AtomicStore.                                       *)

\* The store's operators are those of this module.
LEMMA SameArrays ==
    ASSUME NEW s
    PROVE  /\ \A I, LE : Store!Arranged(s, I, LE) = Arranged(s, I, LE)
           /\ Store!ValidIndexes(s) = ValidIndexes(s)
           /\ Store!NewestFirst(s) = NewestFirst(s)
           /\ Store!InOrder(s) = InOrder(s)
           /\ Store!Bounded(s) = Bounded(s)
<1>1. ASSUME NEW I, NEW LE
      PROVE  Store!Arranged(s, I, LE) = Arranged(s, I, LE)
  BY DEF Store!Cardinality, Cardinality, Store!Arranged, Arranged
<1>2. Store!ValidIndexes(s) = ValidIndexes(s)
  BY DEF Store!ValidIndexes, ValidIndexes
<1>3. Store!NewestFirst(s) = NewestFirst(s)
  BY DEF Store!NewestFirst, NewestFirst
<1>4. Store!InOrder(s) = InOrder(s)
  BY DEF Store!InOrder, InOrder
<1>5. Store!Bounded(s) = Bounded(s)
  BY DEF Store!Bounded, Store!MinOf, Bounded, MinOf
<1> QED
  BY <1>1, <1>2, <1>3, <1>4, <1>5

\* The fields the store is read through agree with those of this module.
LEMMA SameActions ==
    ASSUME NEW s, NEW e
    PROVE  Store!SanitizedActions(Store!WithAction(s, e)) = SanitizedActions(WithAction(s, e))
<1>1. Store!WithAction(s, e) = WithAction(s, e)
  BY SameArrays DEF Store!WithAction, WithAction
<1>2. \A t : Store!SanitizedActions(t) = SanitizedActions(t)
  BY SameArrays DEF Store!SanitizedActions, SanitizedActions
<1> QED
  BY <1>1, <1>2

LEMMA SameKeys ==
    ASSUME NEW s, NEW n, NEW key
    PROVE  /\ Store!KeysOf(s, n) = KeysOf(s, n)
           /\ Store!KeyOverridesWithoutNetwork(s, n) = KeyOverridesWithoutNetwork(s, n)
           /\ Store!ReplaceKeyOverride(s, key) = ReplaceKeyOverride(s, key)
<1>1. \A m : Store!KeysOf(s, m) = KeysOf(s, m)
  BY DEF Store!KeysOf, KeysOf
<1>2. \A m : Store!KeyOverridesWithoutNetwork(s, m) = KeyOverridesWithoutNetwork(s, m)
  BY <1>1, SameArrays DEF Store!KeyOverridesWithoutNetwork, KeyOverridesWithoutNetwork
<1> QED
  BY <1>1, <1>2 DEF Store!ReplaceKeyOverride, ReplaceKeyOverride

LEMMA SameOverrides ==
    ASSUME NEW o, NEW n, NEW kind, NEW url
    PROVE  /\ Store!OverridesWithField(o, n, kind, url) = OverridesWithField(o, n, kind, url)
           /\ Store!OverrideUsable(o) <=> OverrideUsable(o)
           /\ Store!NoOverride = NoOverride
  BY DEF Store!OverridesWithField, Store!EndpointOverrideWithField, Store!NoOverride,
         OverridesWithField, EndpointOverrideWithField, NoOverride, Store!OverrideUsable,
         OverrideUsable

-----------------------------------------------------------------------------
LEMMA StoreStartsAtomic ==
    ASSUME Init
    PROVE  Store!StoreInit
<1>1. TypeOK
  BY TInvInit DEF TInv
<1>2. EffectiveSelection(selectedNetwork, lastNetwork) \in AllowedDeployments
  BY EffectiveSelectionType
<1>3. Len(SanitizedActions(recentActions)) <= MaxRecentActions
  BY <1>1, EntriesHaveTimes, SanitizedActionsType DEF TypeOK
<1>4. \A i \in DOMAIN SanitizedKeys(keyOverrides) : SanitizedKeys(keyOverrides)[i].valid
  BY <1>1, SanitizedKeysValid DEF TypeOK
<1>5. \A n \in Deployments :
        LET o == SanitizedOverrides(networkEndpointOverrides)[n]
        IN  o = NoOverride \/ OverrideUsable(o)
  BY DEF SanitizedOverrides
<1> QED
  BY <1>2, <1>3, <1>4, <1>5, SameOverrides DEF Store!StoreInit

\* What a caller of the store does not see.
LEMMA Unseen ==
    ASSUME UNCHANGED <<selectedNetwork, lastNetwork, fields>>
    PROVE  UNCHANGED Store!storeVars
  BY DEF fields, Store!storeVars, EffectiveSelection, StoredSelection, SanitizedActions,
         SanitizedKeys, SanitizedOverrides

\* Both writes of a selection, the migration included, select an allowed
\* deployment.
LEMMA SelectsAtomically ==
    ASSUME NEW n \in AllowedDeployments, selectedNetwork' = n, UNCHANGED fields
    PROVE  Store!Select(n)
<1>1. EffectiveSelection(selectedNetwork', lastNetwork') = n
  BY AllowedIsEffective
<1>2. UNCHANGED <<SanitizedActions(recentActions), SanitizedKeys(keyOverrides),
                  SanitizedOverrides(networkEndpointOverrides)>>
  BY DEF fields, SanitizedActions, SanitizedKeys, SanitizedOverrides
<1> QED
  BY <1>1, <1>2 DEF Store!Select

LEMMA AppendsAtomically ==
    ASSUME NEW id, NEW now,
           WriteActions(id, WithAction(SanitizedActions(recentActions),
                                [id |-> id, at |-> now, valid |-> TRUE])),
           UNCHANGED <<selectedNetwork, lastNetwork>>
    PROVE  Store!AppendAction(id, now)
<1> DEFINE e == [id |-> id, at |-> now, valid |-> TRUE]
<1>1. SanitizedActions(recentActions)' =
        SanitizedActions(WithAction(SanitizedActions(recentActions), e))
  BY DEF WriteActions, SanitizedActions
<1>2. UNCHANGED <<EffectiveSelection(selectedNetwork, lastNetwork), SanitizedKeys(keyOverrides),
                  SanitizedOverrides(networkEndpointOverrides)>>
  BY DEF WriteActions, EffectiveSelection, StoredSelection, SanitizedKeys, SanitizedOverrides
<1> QED
  BY <1>1, <1>2, SameActions DEF Store!AppendAction

LEMMA ClearsAtomically ==
    ASSUME NEW h, WriteActions(h, <<>>), UNCHANGED <<selectedNetwork, lastNetwork>>
    PROVE  Store!ClearActions
<1>1. SanitizedActions(<<>>) = <<>>
  <2>1. ValidIndexes(<<>>) = {}
    BY DEF ValidIndexes
  <2>2. Cardinality({}) = 0
    BY FS_EmptySet
  <2>3. Arranged(<<>>, {}, NewestFirst(<<>>)) = <<>>
    BY <2>2 DEF Arranged
  <2>4. Bounded(<<>>) = <<>>
    <3>1. MinOf(0, MaxRecentActions) = 0
      BY MaxRecentAssumption DEF MinOf
    <3> QED
      BY <3>1 DEF Bounded
  <2> QED
    BY <2>1, <2>3, <2>4 DEF SanitizedActions
<1>2. SanitizedActions(recentActions)' = <<>>
  BY <1>1 DEF WriteActions, SanitizedActions
<1>3. UNCHANGED <<EffectiveSelection(selectedNetwork, lastNetwork), SanitizedKeys(keyOverrides),
                  SanitizedOverrides(networkEndpointOverrides)>>
  BY DEF WriteActions, EffectiveSelection, StoredSelection, SanitizedKeys, SanitizedOverrides
<1> QED
  BY <1>2, <1>3 DEF Store!ClearActions

LEMMA ImportsAtomically ==
    ASSUME TypeOK, NEW id \in KeyIds, NEW n \in Deployments, NEW now \in Times,
           WriteKeys(id, ReplaceKeyOverride(SanitizedKeys(keyOverrides),
                [id |-> id, network |-> n, created |-> now, valid |-> TRUE])),
           UNCHANGED <<selectedNetwork, lastNetwork>>
    PROVE  Store!ImportKey(id, n, now)
<1> DEFINE key == [id |-> id, network |-> n, created |-> now, valid |-> TRUE]
           kept == SanitizedKeys(keyOverrides)
           other == KeyOverridesWithoutNetwork(kept, n)
           new == ReplaceKeyOverride(kept, key)
<1>1. kept \in Seq(Keys) /\ \A i \in DOMAIN kept : kept[i].valid
  BY KeysFilterType, SanitizedKeysValid DEF TypeOK
<1>2. key \in Keys /\ key.network = n /\ key.valid
  BY DEF Keys
<1> HIDE DEF key, kept
<1>3. other \in Seq(Keys) /\ \A i \in DOMAIN other : other[i].valid
  BY <1>1, KeysFilterType, OthersStayValid
<1>4. new = Append(other, key)
  BY <1>2 DEF ReplaceKeyOverride
<1> HIDE DEF other, new
<1>5. new \in Seq(Keys) /\ \A i \in DOMAIN new : new[i].valid
  BY <1>2, <1>3, <1>4, AppendProperties, LenProperties
<1>6. SanitizedKeys(new) = new
  BY <1>5, ValidKeysStay
<1>7. SanitizedKeys(keyOverrides)' = new
  BY <1>6 DEF WriteKeys, SanitizedKeys, new, kept, key
<1>8. UNCHANGED <<EffectiveSelection(selectedNetwork, lastNetwork),
                  SanitizedActions(recentActions), SanitizedOverrides(networkEndpointOverrides)>>
  BY DEF WriteKeys, EffectiveSelection, StoredSelection, SanitizedActions, SanitizedOverrides
<1> QED
  BY <1>7, <1>8, SameKeys DEF Store!ImportKey, new, kept, key

LEMMA RemovesAtomically ==
    ASSUME TypeOK, NEW h, NEW n \in Deployments,
           KeysOf(SanitizedKeys(keyOverrides), n) # {},
           WriteKeys(h, KeyOverridesWithoutNetwork(SanitizedKeys(keyOverrides), n)),
           UNCHANGED <<selectedNetwork, lastNetwork>>
    PROVE  Store!RemoveKey(n)
<1> DEFINE kept == SanitizedKeys(keyOverrides)
           other == KeyOverridesWithoutNetwork(kept, n)
<1>1. kept \in Seq(Keys) /\ \A i \in DOMAIN kept : kept[i].valid
  BY KeysFilterType, SanitizedKeysValid DEF TypeOK
<1> HIDE DEF kept
<1>2. other \in Seq(Keys) /\ \A i \in DOMAIN other : other[i].valid
  BY <1>1, KeysFilterType, OthersStayValid
<1> HIDE DEF other
<1>3. SanitizedKeys(other) = other
  BY <1>2, ValidKeysStay
<1>4. SanitizedKeys(keyOverrides)' = other
  BY <1>3 DEF WriteKeys, SanitizedKeys, other, kept
<1>5. UNCHANGED <<EffectiveSelection(selectedNetwork, lastNetwork),
                  SanitizedActions(recentActions), SanitizedOverrides(networkEndpointOverrides)>>
  BY DEF WriteKeys, EffectiveSelection, StoredSelection, SanitizedActions, SanitizedOverrides
<1> QED
  BY <1>4, <1>5, SameKeys DEF Store!RemoveKey, other, kept

LEMMA SavesAtomically ==
    ASSUME TypeOK, NEW h, NEW n \in Deployments, NEW kind \in Kinds, NEW url \in Urls \cup {None},
           WriteOverrides(h, OverridesWithField(SanitizedOverrides(networkEndpointOverrides),
                                n, kind, url)),
           UNCHANGED <<selectedNetwork, lastNetwork>>
    PROVE  Store!SaveEndpoint(n, kind, url)
<1> DEFINE kept == SanitizedOverrides(networkEndpointOverrides)
           new == OverridesWithField(kept, n, kind, url)
<1>1. kept \in [Deployments -> Overrides]
  BY SanitizedOverridesType DEF TypeOK
<1>2. \A m \in Deployments : kept[m] = NoOverride \/ OverrideUsable(kept[m])
  BY DEF SanitizedOverrides
<1> HIDE DEF kept
<1>3. new = [kept EXCEPT ![n] = EndpointOverrideWithField(kept[n], kind, url)]
  BY DEF OverridesWithField
<1>4. LET w == EndpointOverrideWithField(kept[n], kind, url)
      IN  w = NoOverride \/ OverrideUsable(w)
  <2>1. kept[n] \in [validator : Options(Urls \cup {BadUrl}),
                     esplora : Options(Urls \cup {BadUrl}), verified : BOOLEAN]
    BY <1>1 DEF Overrides
  <2> QED
    BY <1>2, <2>1, FieldKeepsUsable
<1> HIDE DEF new
<1>5. /\ \A m \in Deployments : new[m] = NoOverride \/ OverrideUsable(new[m])
      /\ new = [m \in Deployments |-> new[m]]
  BY <1>1, <1>2, <1>3, <1>4
<1>6. SanitizedOverrides(new) = new
  BY <1>5 DEF SanitizedOverrides
<1>7. SanitizedOverrides(networkEndpointOverrides)' = new
  BY <1>6 DEF WriteOverrides, SanitizedOverrides, new, kept
<1>8. UNCHANGED <<EffectiveSelection(selectedNetwork, lastNetwork),
                  SanitizedActions(recentActions), SanitizedKeys(keyOverrides)>>
  BY DEF WriteOverrides, EffectiveSelection, StoredSelection, SanitizedActions, SanitizedKeys
<1> QED
  BY <1>7, <1>8, SameOverrides DEF Store!SaveEndpoint, new, kept

\* The write that ends a mutation is the atomic step of the store: what was
\* read is what is replaced.
LEMMA WritesAtomically ==
    ASSUME LostInv, NEW h \in Handlers, WriteField(h)
    PROVE  Store!StoreNext
<1> DEFINE t == task[h]
<1>1. TypeOK /\ t \in Tasks /\ h \in EntryIds /\ h \in KeyIds
  BY DEF LostInv, TInv, TypeOK, EntryIds, KeyIds
<1>2. /\ view[h].recentActions = SanitizedActions(recentActions)
      /\ view[h].keyOverrides = SanitizedKeys(keyOverrides)
      /\ view[h].networkEndpointOverrides = SanitizedOverrides(networkEndpointOverrides)
  BY DEF LostInv, TInv, TypeOK, NoLostUpdate, WriteField
<1>3. UNCHANGED <<selectedNetwork, lastNetwork>> /\ Update(h)
  BY DEF WriteField
<1>4. ASSUME NEW now \in Times,
             WriteActions(h, WithAction(view[h].recentActions,
                                [id |-> h, at |-> now, valid |-> TRUE]))
      PROVE  Store!StoreNext
  BY <1>1, <1>2, <1>3, <1>4, AppendsAtomically DEF Store!StoreNext
<1>5. ASSUME WriteActions(h, <<>>)
      PROVE  Store!StoreNext
  BY <1>3, <1>5, ClearsAtomically DEF Store!StoreNext
<1>6. ASSUME t.op = "import", NEW now \in Times,
             WriteKeys(h, ReplaceKeyOverride(view[h].keyOverrides,
                [id |-> h, network |-> t.network, created |-> now, valid |-> TRUE]))
      PROVE  Store!StoreNext
  <2>1. t.network \in Deployments
    BY <1>1, <1>6, TasksAssumption, DeploymentsAssumption
  <2>2. Store!ImportKey(h, t.network, now)
    BY <1>1, <1>2, <1>3, <1>6, <2>1, ImportsAtomically
  <2> QED
    BY <1>1, <2>1, <2>2 DEF Store!StoreNext
<1>7. ASSUME t.op = "remove", RemovalFinds(view[h].keyOverrides, t.network, t.key),
             WriteKeys(h, KeyOverridesWithoutNetwork(view[h].keyOverrides, t.network))
      PROVE  Store!StoreNext
  <2>1. t.network \in Deployments
    BY <1>1, <1>7, TasksAssumption, DeploymentsAssumption
  <2>2. KeysOf(SanitizedKeys(keyOverrides), t.network) # {}
    BY <1>2, <1>7 DEF RemovalFinds
  <2>3. Store!RemoveKey(t.network)
    BY <1>1, <1>2, <1>3, <1>7, <2>1, <2>2, RemovesAtomically
  <2> QED
    BY <2>1, <2>3 DEF Store!StoreNext
<1>8. ASSUME t.op = "saveEndpoint",
             WriteOverrides(h, OverridesWithField(view[h].networkEndpointOverrides,
                                t.network, t.kind, t.url))
      PROVE  Store!StoreNext
  <2>1. t.network \in Deployments /\ t.kind \in Kinds /\ t.url \in Urls \cup {None}
    BY <1>1, <1>8, TasksAssumption, DeploymentsAssumption DEF Options
  <2>2. Store!SaveEndpoint(t.network, t.kind, t.url)
    BY <1>1, <1>2, <1>3, <1>8, <2>1, SavesAtomically
  <2> QED
    BY <2>1, <2>2 DEF Store!StoreNext, Kinds, Store!Kinds
<1> QED
  BY <1>3, <1>4, <1>5, <1>6, <1>7, <1>8 DEF Update

LEMMA StoreStep ==
    ASSUME LostInv, [Next]_vars
    PROVE  [Store!StoreNext]_(Store!storeVars)
<1>1. ASSUME NEW h \in Handlers, MigrateSelection(h)
      PROVE  Store!StoreNext
  <2>1. view[h].selectedNetwork \in AllowedDeployments
    BY <1>1 DEF LostInv, TInv, TypeOK, MigrateSelection, Views
  <2>2. selectedNetwork' = view[h].selectedNetwork /\ UNCHANGED fields
    BY <1>1 DEF MigrateSelection, fields
  <2> QED
    BY <2>1, <2>2, SelectsAtomically DEF Store!StoreNext
<1>2. ASSUME NEW h \in Handlers, SetSelectedNetwork(h)
      PROVE  Store!StoreNext
  <2>1. task[h].network \in AllowedDeployments
    BY <1>2, TasksAssumption DEF LostInv, TInv, TypeOK, SetSelectedNetwork
  <2>2. selectedNetwork' = task[h].network /\ UNCHANGED fields
    BY <1>2 DEF SetSelectedNetwork, fields
  <2> QED
    BY <2>1, <2>2, SelectsAtomically DEF Store!StoreNext
<1>3. ASSUME NEW h \in Handlers, WriteField(h)
      PROVE  Store!StoreNext
  BY <1>3, WritesAtomically
<1>4. ASSUME NEW h \in Handlers,
             \/ Enqueue(h) \/ CallGetState(h) \/ CallRememberSession(h)
             \/ ReadState(h) \/ WriteOrigin(h) \/ Fail(h)
      PROVE  UNCHANGED Store!storeVars
  <2>1. UNCHANGED <<selectedNetwork, lastNetwork, fields>>
    BY <1>4 DEF Enqueue, CallGetState, CallRememberSession, ReadState, WriteOrigin, Fail, stored,
                fields
  <2> QED
    BY <2>1, Unseen
<1>5. CASE UNCHANGED vars
  <2>1. UNCHANGED <<selectedNetwork, lastNetwork, fields>>
    BY <1>5 DEF vars, stored, fields
  <2> QED
    BY <2>1, Unseen
<1> QED
  BY <1>1, <1>2, <1>3, <1>4, <1>5 DEF Next, Begin, Step, Finished

\* Read through the sanitizers of getState, the state is a store whose mutations
\* are atomic: for any number of overlapping calls, any stored state and any
\* failures.
THEOREM StateIsAtomicStore == Spec => ImplementsAtomicStore
<1>1. Init => LostInv /\ Store!StoreInit
  BY LostInvInit, StoreStartsAtomic
<1>2. LostInv /\ [Next]_vars => LostInv'
  BY LostInvStep
<1>3. LostInv /\ [Next]_vars => [Store!StoreNext]_(Store!storeVars)
  BY StoreStep
<1> QED
  BY <1>1, <1>2, <1>3, PTL DEF Spec, ImplementsAtomicStore, Store!StoreSpec

-----------------------------------------------------------------------------
\* Only the write of an append moves a call on to the origin.
LEMMA AppendStep ==
    ASSUME TInv, [Next]_vars, NEW h \in Handlers, pc[h] = "update", pc'[h] = "origin"
    PROVE  \E i \in DOMAIN SanitizedActions(recentActions') :
                SanitizedActions(recentActions')[i].id = h
<1>1. pc \in [Handlers -> Stages] /\ view[h] \in Views /\ h \in EntryIds
  BY DEF TInv, TypeOK, EntryIds
<1>2. WriteField(h)
  BY <1>1 DEF Next, Begin, Step, Enqueue, CallGetState, CallRememberSession, ReadState,
              MigrateSelection, WriteField, WriteOrigin, SetSelectedNetwork, Fail, Finished, vars,
              AfterRead
<1>3. task[h].op = "append"
  BY <1>1, <1>2 DEF WriteField
<1>4. PICK now \in Times :
        recentActions' = WithAction(view[h].recentActions, [id |-> h, at |-> now, valid |-> TRUE])
  BY <1>2, <1>3 DEF WriteField, Update, WriteActions
<1> DEFINE e == [id |-> h, at |-> now, valid |-> TRUE]
<1>5. e \in Entries /\ e.valid /\ e.id = h
  BY <1>1 DEF Entries
<1>6. view[h].recentActions \in Seq(Entries)
  BY <1>1 DEF Views
<1> HIDE DEF e
<1>7. \E k \in DOMAIN SanitizedActions(WithAction(view[h].recentActions, e)) :
        SanitizedActions(WithAction(view[h].recentActions, e))[k] = e
  BY <1>5, <1>6, EntriesHaveTimes, AddedIsRead
<1>8. recentActions' = WithAction(view[h].recentActions, e)
  BY <1>4 DEF e
<1> QED
  BY <1>5, <1>7, <1>8

\* What was just appended is part of the history that getState returns, also
\* when the history was full and the clock was set back, for any clock and any
\* bound.
THEOREM AppendedIsVisible == Spec => AppendedActionIsVisible
<1>1. Init => TInv
  BY TInvInit
<1>2. TInv /\ [Next]_vars => TInv'
  BY TInvStep
<1>3. TInv /\ [Next]_vars =>
        [\A h \in Handlers :
            (pc[h] = "update" /\ pc'[h] = "origin") =>
                \E i \in DOMAIN SanitizedActions(recentActions') :
                    SanitizedActions(recentActions')[i].id = h]_vars
  BY AppendStep
<1> QED
  BY <1>1, <1>2, <1>3, PTL DEF Spec, AppendedActionIsVisible

-----------------------------------------------------------------------------
\* Of an installation that has stored a state, whoever has read it knows that
\* the stored selection is one this build allows.
MigratedInv ==
    /\ TInv
    /\ present = TRUE
    /\ \A h \in Handlers :
        /\ pc[h] = "idle" => view[h] = NoView
        /\ pc[h] = "put" /\ task[h].op = "remember" => view[h] = NoView
        /\ view[h] # NoView /\ pc[h] \in {"update", "put", "origin", "done"} =>
            selectedNetwork \in AllowedDeployments

LEMMA AllowedNeedsNoMigration ==
    ASSUME selectedNetwork \in AllowedDeployments
    PROVE  ~NeedsMigration
  BY AllowedIsEffective DEF NeedsMigration

LEMMA MigratedStep == MigratedInv /\ [Next]_vars => MigratedInv'
<1> SUFFICES ASSUME MigratedInv, [Next]_vars
             PROVE  MigratedInv'
  OBVIOUS
<1>0. /\ TInv /\ TInv' /\ present = TRUE
      /\ pc \in [Handlers -> Stages] /\ task \in [Handlers -> Tasks]
      /\ view \in [Handlers -> Views \cup {NoView}]
  BY TInvStep DEF MigratedInv, TInv, TypeOK
<1>1. ASSUME NEW h \in Handlers, Begin(h)
      PROVE  MigratedInv'
  BY <1>0, <1>1 DEF MigratedInv, Begin, Enqueue, CallGetState, CallRememberSession, stored,
                    MutationOps, ReadOps
<1>2. ASSUME NEW h \in Handlers, ReadState(h)
      PROVE  MigratedInv'
  <2>1. task[h].op \in MutationOps \cup ReadOps
    BY <1>0, <1>2 DEF ReadState, TInv, TypeOK
  <2>2. NeedsMigration \/ selectedNetwork \in AllowedDeployments
    BY <1>0, EffectiveSelectionType DEF NeedsMigration
  <2>3. task[h].op # "remember"
    BY <2>1 DEF MutationOps, ReadOps
  <2>4. AfterRead(h, CurrentView) # "idle"
    BY DEF AfterRead
  <2> QED
    BY <1>0, <1>2, <2>2, <2>3, <2>4 DEF MigratedInv, ReadState, stored
<1>3. ASSUME NEW h \in Handlers, MigrateSelection(h)
      PROVE  MigratedInv'
  <2>1. view[h] \in Views /\ task[h].op \in MutationOps \cup ReadOps
    BY <1>0, <1>3 DEF MigrateSelection, TInv, TypeOK
  <2>2. selectedNetwork' \in AllowedDeployments /\ present' = TRUE
    BY <1>3, <2>1 DEF MigrateSelection, Views
  <2>3. task[h].op # "remember" /\ AfterRead(h, view[h]) # "idle"
    BY <2>1 DEF MutationOps, ReadOps, AfterRead
  <2> QED
    BY <1>0, <1>3, <2>2, <2>3 DEF MigratedInv, MigrateSelection
<1>4. ASSUME NEW h \in Handlers, WriteField(h) \/ WriteOrigin(h) \/ Fail(h)
      PROVE  MigratedInv'
  BY <1>0, <1>4 DEF MigratedInv, WriteField, WriteOrigin, Fail, stored
<1>5. ASSUME NEW h \in Handlers, SetSelectedNetwork(h)
      PROVE  MigratedInv'
  <2>1. selectedNetwork' \in AllowedDeployments
    BY <1>0, <1>5, TasksAssumption DEF SetSelectedNetwork
  <2> QED
    BY <1>0, <1>5, <2>1 DEF MigratedInv, SetSelectedNetwork
<1>6. CASE UNCHANGED vars
  BY <1>0, <1>6 DEF MigratedInv, vars, stored
<1> QED
  BY <1>1, <1>2, <1>3, <1>4, <1>5, <1>6 DEF Next, Step, Finished

\* An installation that has stored a state migrates it on its first read, for
\* good: whatever overlaps, who has read it and gone on finds nothing to migrate.
THEOREM MigratesOnce == Spec /\ present = TRUE => []MigratedOnceRead
<1>1. Init /\ present = TRUE => MigratedInv
  <2> SUFFICES ASSUME Init, present = TRUE PROVE MigratedInv
    OBVIOUS
  <2>1. pc = [h \in Handlers |-> "idle"] /\ view = [h \in Handlers |-> NoView]
    BY DEF Init
  <2> QED
    BY <2>1, TInvInit DEF MigratedInv
<1>2. MigratedInv /\ [Next]_vars => MigratedInv'
  BY MigratedStep
<1>3. MigratedInv => MigratedOnceRead
  BY AllowedNeedsNoMigration DEF MigratedInv, MigratedOnceRead
<1> QED
  BY <1>1, <1>2, <1>3, PTL DEF Spec

=============================================================================
