---------------------------- MODULE MCSnapState ----------------------------
(***************************************************************************)
(* Small instances of SnapState: three overlapping calls, a history of two *)
(* entries, two allowed deployments of three known ones.                   *)
(***************************************************************************)
EXTENDS SnapState, TLC, FiniteSetsExt

CONSTANTS main, mutiny, alpha, h1, h2, h3, url1, url2, site

HandlerSymmetry == Permutations(Handlers)

GetTasks == {[op |-> "get"]}
SessionTasks == {[op |-> "remember", origin |-> site]}
HistoryTasks == {[op |-> "append", origin |-> site], [op |-> "clear"]}
KeyTasks == {[op |-> "import", network |-> main],
             [op |-> "remove", network |-> main, key |-> None],
             [op |-> "remove", network |-> main, key |-> "k0"]}
EndpointTasks == {[op |-> "saveEndpoint", network |-> main, kind |-> "validator", url |-> url1],
                  [op |-> "saveEndpoint", network |-> main, kind |-> "esplora", url |-> url2],
                  [op |-> "saveEndpoint", network |-> main, kind |-> "validator", url |-> None]}
SwitchTasks == {[op |-> "switch", network |-> n] : n \in AllowedDeployments}

NoSwitchTasks == GetTasks \cup SessionTasks \cup HistoryTasks \cup KeyTasks \cup EndpointTasks
AllTasks == NoSwitchTasks \cup SwitchTasks
LegacyTasks ==
    {[op |-> "get"], [op |-> "append", origin |-> site],
     [op |-> "remove", network |-> main, key |-> "k0"],
     [op |-> "saveEndpoint", network |-> main, kind |-> "esplora", url |-> url2]}
MigrationTasks == GetTasks \cup SessionTasks \cup SwitchTasks

NoOverrides == [n \in Deployments |-> NoOverride]

FreshStore ==
    [present |-> FALSE, selectedNetwork |-> None, lastNetwork |-> None,
     recentActions |-> <<>>, keyOverrides |-> <<>>,
     networkEndpointOverrides |-> NoOverrides, lastOrigin |-> None]

\* Written by this version: a full history, two keys of one network, an
\* override that lost its proof and one with a rejected URL.
UsedStore ==
    [present |-> TRUE, selectedNetwork |-> mutiny, lastNetwork |-> None,
     recentActions |-> <<[id |-> "a1", at |-> 2, valid |-> TRUE],
                         [id |-> "a0", at |-> 1, valid |-> TRUE]>>,
     keyOverrides |-> <<[id |-> "k0", network |-> main, created |-> 1, valid |-> TRUE],
                        [id |-> "k1", network |-> main, created |-> 2, valid |-> TRUE],
                        [id |-> "k2", network |-> mutiny, created |-> 1, valid |-> TRUE]>>,
     networkEndpointOverrides |->
        [NoOverrides EXCEPT ![main] = [validator |-> url1, esplora |-> url2, verified |-> TRUE]],
     lastOrigin |-> site]

\* Written by older releases: the selection under its old name, or of a
\* deployment this build dropped or does not allow; entries out of order and
\* records the schema rejects.
LegacyStore(selected, last) ==
    [present |-> TRUE, selectedNetwork |-> selected, lastNetwork |-> last,
     recentActions |-> <<[id |-> "a0", at |-> 1, valid |-> TRUE],
                         [id |-> "a1", at |-> 2, valid |-> TRUE],
                         [id |-> "bad", at |-> 2, valid |-> FALSE]>>,
     keyOverrides |-> <<[id |-> "k0", network |-> main, created |-> 1, valid |-> FALSE]>>,
     networkEndpointOverrides |->
        [NoOverrides EXCEPT ![main] = [validator |-> url1, esplora |-> BadUrl, verified |-> TRUE],
                            ![mutiny] = [validator |-> url1, esplora |-> None, verified |-> FALSE]],
     lastOrigin |-> None]

LegacyStores == {LegacyStore(None, main), LegacyStore(alpha, mutiny),
                 LegacyStore(None, alpha), LegacyStore("regtest", main)}

RecordIds == {"a0", "a1", "bad", "k0", "k1", "k2"}
KnownStores == {UsedStore} \cup LegacyStores
FreshStores == {FreshStore}
DeploymentIds == {main, mutiny, "regtest"}

TaskOrder == FoldSet(LAMBDA t, order : Append(order, t), <<>>, Tasks)
TaskRank == [t \in Tasks |-> CHOOSE i \in DOMAIN TaskOrder : TaskOrder[i] = t]

\* Every task on the used store; the tasks that read what was migrated, and no
\* switch, on the legacy ones.  Handlers are interchangeable: they are given
\* their tasks in one order, which unlike a symmetry set is sound for liveness.
MCInit ==
    /\ Init
    /\ selectedNetwork = mutiny \/ \A h \in Handlers : task[h] \in LegacyTasks
    /\ TaskRank[task[h1]] <= TaskRank[task[h2]]
    /\ TaskRank[task[h2]] <= TaskRank[task[h3]]

MCSpec == MCInit /\ [][Next]_vars /\ Fairness
=============================================================================
