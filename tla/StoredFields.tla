---------------------------- MODULE StoredFields ----------------------------
(***************************************************************************)
(* The values the Ducat Snap persists and the pure functions it applies to *)
(* them: the sanitizers of getState and the field updates handed to        *)
(* updateStateField.  A persisted record that the schema checks would      *)
(* reject is a record whose `valid` field is FALSE: which characters make  *)
(* it invalid does not matter here, only that it is filtered on a read.    *)
(***************************************************************************)
EXTENDS Integers, Sequences, FiniteSets

CONSTANTS
    Deployments,        \* ALL_DEPLOYMENT_IDS: the ids storage validation accepts
    Removed,            \* ids of deployments older releases stored and this one dropped
    AllowedDeployments, \* ArtifactPolicy.allowed_deployments of this build
    DefaultDeployment,  \* ArtifactPolicy.default_deployment
    MaxRecentActions,   \* MAX_RECENT_ACTIONS
    Urls,               \* endpoint URLs that normalizeNetworkEndpointUrl accepts
    BadUrl,             \* stands for every endpoint URL it rejects
    None                \* an absent field

ASSUME DeploymentsAssumption ==
    /\ DefaultDeployment \in AllowedDeployments
    /\ AllowedDeployments \subseteq Deployments
    /\ Deployments \cap Removed = {}
    /\ None \notin Deployments \cup Removed

ASSUME MaxRecentAssumption == MaxRecentActions \in Nat \ {0}

ASSUME UrlsAssumption ==
    /\ BadUrl \notin Urls
    /\ None \notin Urls \cup {BadUrl}

Kinds == {"validator", "esplora"}

-----------------------------------------------------------------------------
(* Filtering and sorting arrays.                                           *)

\* The elements of s at the indexes I, in the order LE gives the indexes: the
\* k-th is the one with k indexes up to it.
Arranged(s, I, LE) ==
    [k \in 1 .. Cardinality(I) |->
        s[CHOOSE i \in I : Cardinality({j \in I : <<j, i>> \in LE}) = k]]

\* The order of the array itself: what Array.prototype.filter keeps.
InOrder(s) == {p \in (DOMAIN s) \X (DOMAIN s) : p[1] <= p[2]}

\* The order of a stable sort by descending timestamp.
NewestFirst(s) ==
    {p \in (DOMAIN s) \X (DOMAIN s) :
        \/ s[p[1]].at > s[p[2]].at
        \/ s[p[1]].at = s[p[2]].at /\ p[1] <= p[2]}

ValidIndexes(s) == {i \in DOMAIN s : s[i].valid}

-----------------------------------------------------------------------------
(* Recent actions: [id, at, valid], newest first once sanitized.           *)

MinOf(a, b) == IF a < b THEN a ELSE b

\* Array.prototype.slice(0, MAX_RECENT_ACTIONS).
Bounded(actions) == SubSeq(actions, 1, MinOf(Len(actions), MaxRecentActions))

SanitizedActions(actions) ==
    Bounded(Arranged(actions, ValidIndexes(actions), NewestFirst(actions)))

\* Mutant: the new entry goes to the end the bound cuts off.
WithActionAtEnd(actions, entry) == Bounded(Append(actions, entry))

\* The update appendRecentAction applies to the sanitized history.
WithAction(actions, entry) == Bounded(<<entry>> \o actions)

-----------------------------------------------------------------------------
(* Key overrides: [id, network, created, valid].                           *)

SanitizedKeys(keys) == Arranged(keys, ValidIndexes(keys), InOrder(keys))

KeysOf(keys, n) == {i \in DOMAIN keys : keys[i].network = n}

\* Newest override of a network; of equally new ones the later in the array.
EffectiveKeyOverride(keys, n) ==
    IF KeysOf(keys, n) = {}
    THEN None
    ELSE keys[CHOOSE i \in KeysOf(keys, n) :
                \A j \in KeysOf(keys, n) :
                    \/ keys[j].created < keys[i].created
                    \/ keys[j].created = keys[i].created /\ j <= i]

KeyOverridesWithoutNetwork(keys, n) ==
    Arranged(keys, (DOMAIN keys) \ KeysOf(keys, n), InOrder(keys))

ReplaceKeyOverride(keys, key) ==
    Append(KeyOverridesWithoutNetwork(keys, key.network), key)

-----------------------------------------------------------------------------
(* Endpoint overrides: one [validator, esplora, verified] per deployment,  *)
(* an absent URL being None and an absent override NoOverride.             *)

NoOverride == [validator |-> None, esplora |-> None, verified |-> FALSE]

OverrideUsable(o) ==
    /\ o.verified
    /\ o.validator # BadUrl /\ o.esplora # BadUrl
    /\ o.validator # None \/ o.esplora # None

SanitizedOverrides(overrides) ==
    [n \in Deployments |->
        IF OverrideUsable(overrides[n]) THEN overrides[n] ELSE NoOverride]

\* url = None deletes the field; the proof of identity is kept with the other.
EndpointOverrideWithField(override, kind, url) ==
    LET o == [override EXCEPT !.validator = IF kind = "validator" THEN url ELSE @,
                              !.esplora = IF kind = "esplora" THEN url ELSE @,
                              !.verified = @ \/ url # None]
    IN  IF o.validator = None /\ o.esplora = None THEN NoOverride ELSE o

OverridesWithField(overrides, n, kind, url) ==
    [overrides EXCEPT ![n] = EndpointOverrideWithField(@, kind, url)]

-----------------------------------------------------------------------------
(* The network selection.                                                  *)

StoredSelection(selected, last) ==
    IF selected \in Deployments THEN selected
    ELSE IF last \in Deployments THEN last ELSE None

\* Mutant: a selection this build does not allow is kept.
EffectiveSelectionUnchecked(selected, last) ==
    IF StoredSelection(selected, last) # None
    THEN StoredSelection(selected, last)
    ELSE DefaultDeployment

EffectiveSelection(selected, last) ==
    IF StoredSelection(selected, last) \in AllowedDeployments
    THEN StoredSelection(selected, last)
    ELSE DefaultDeployment

=============================================================================
