-------------------------- MODULE WalletInventory --------------------------
(***************************************************************************)
(* wallet-inventory.ts: the cache of wallet-owned BTC and UNIT outputs     *)
(* that Home shows and PSBT verification trusts, its single-flight         *)
(* refreshes, and the calls of the rest of the Snap that invalidate it.    *)
(* A reader is one call of WalletInventoryService.get.                     *)
(***************************************************************************)
EXTENDS Integers

CONSTANTS
    Readers,        \* calls of get
    Networks,       \* deployments
    Accounts,       \* what a key override, or its absence, makes the account
    Profiles,       \* what endpoint overrides make the effective profile
    CacheTtl,       \* CACHE_TTL_MS, in ticks of the clock
    MaxTime,        \* bound on the clock
    MaxSignatures,  \* bound on the signatures made
    None            \* nothing

ASSUME BoundsAssumption ==
    /\ CacheTtl \in Nat \ {0}
    /\ MaxTime \in Nat
    /\ MaxSignatures \in Nat

ASSUME NoneAssumption == None \notin Readers \cup Accounts \cup Profiles \cup Nat

VARIABLES
    now,            \* Date.now()
    account,        \* network -> account the stored state makes active
    profile,        \* network -> effective profile of the stored state
    owed,           \* networks whose override was written and not yet invalidated
    signatures,     \* network -> signatures made so far
    cache,          \* #cache: network -> snapshot
    inFlight,       \* #inFlight: identity -> the reader whose refresh it is
    pc,             \* where each reader is
    call,           \* what it asked for
    resolved,       \* the account and the profile it resolved
    refresh,        \* the refresh it started
    waitsFor,       \* the reader whose refresh it awaits
    answer,         \* the snapshot it returned
    calledAt,       \* time and signatures of its network when it was called
    overlapped      \* readers whose refresh was running during a signature

stored == <<account, profile, owed>>
service == <<cache, inFlight>>
reader == <<pc, call, resolved, waitsFor, answer, calledAt>>
vars == <<now, stored, signatures, service, reader, refresh, overlapped>>

Identities == [network : Networks, account : Accounts, profile : Profiles]

\* The rows of a snapshot are those of the moment they were fetched: `btc` and
\* `unit` count the signatures made by then.  `by` is the refresh it is from.
Counts == 0 .. MaxSignatures
Snapshots == [identity : Identities, expiresAt : Int, btc : Counts, unit : Counts, by : Readers]

NotStarted == [stage |-> "none", btc |-> None, unit |-> None, snapshot |-> None]
Stages == {"none", "verify", "fetch", "settled", "rejected"}
Refreshes == [stage : Stages, btc : Counts \cup {None}, unit : Counts \cup {None},
              snapshot : Snapshots \cup {None}]

IdentityOf(r) ==
    [network |-> call[r].network, account |-> resolved[r].account,
     profile |-> resolved[r].profile]

Resolved(r) == resolved[r].account # None /\ resolved[r].profile # None

Refreshing(o) == refresh[o].stage \in {"verify", "fetch"}
Over(o) == refresh[o].stage \in {"settled", "rejected"}

\* Everything but a continuation starts with an answer from outside, and the
\* continuations of a promise that has settled run before the next of those.
Quiet == \A r \in Readers : pc[r] = "wait" => ~Over(waitsFor[r])

-----------------------------------------------------------------------------
Init ==
    /\ now = 0
    /\ account \in [Networks -> Accounts]
    /\ profile \in [Networks -> Profiles]
    /\ owed = {}
    /\ signatures = [n \in Networks |-> 0]
    /\ cache = [n \in Networks |-> None]
    /\ inFlight = [i \in Identities |-> None]
    /\ pc = [r \in Readers |-> "idle"]
    /\ call \in [Readers -> [network : Networks, fresh : BOOLEAN]]
    /\ resolved = [r \in Readers |-> [account |-> None, profile |-> None]]
    /\ refresh = [r \in Readers |-> NotStarted]
    /\ waitsFor = [r \in Readers |-> None]
    /\ answer = [r \in Readers |-> None]
    /\ calledAt = [r \in Readers |-> [time |-> 0, signatures |-> 0]]
    /\ overlapped = {}

-----------------------------------------------------------------------------
(* get.                                                                    *)

Call(r) ==
    /\ Quiet
    /\ pc[r] = "idle"
    /\ pc' = [pc EXCEPT ![r] = "resolve"]
    /\ calledAt' = [calledAt EXCEPT ![r] =
                        [time |-> now, signatures |-> signatures[call[r].network]]]
    /\ UNCHANGED <<now, stored, signatures, service, call, resolved, waitsFor,
                   answer, refresh, overlapped>>

\* Account and profile come from two reads of the stored state.
ResolveAccount(r) ==
    /\ Quiet
    /\ pc[r] = "resolve"
    /\ resolved[r].account = None
    /\ resolved' = [resolved EXCEPT ![r].account = account[call[r].network]]
    /\ UNCHANGED <<now, stored, signatures, service, pc, call, waitsFor,
                   answer, calledAt, refresh, overlapped>>

ResolveProfile(r) ==
    /\ Quiet
    /\ pc[r] = "resolve"
    /\ resolved[r].profile = None
    /\ resolved' = [resolved EXCEPT ![r].profile = profile[call[r].network]]
    /\ UNCHANGED <<now, stored, signatures, service, pc, call, waitsFor,
                   answer, calledAt, refresh, overlapped>>

ResolveFails(r) ==
    /\ Quiet
    /\ pc[r] = "resolve"
    /\ ~Resolved(r)
    /\ pc' = [pc EXCEPT ![r] = "failed"]
    /\ UNCHANGED <<now, stored, signatures, service, call, resolved, waitsFor,
                   answer, calledAt, refresh, overlapped>>

\* Mutant: the snapshot of the network's former account still counts.
CanServeAnyIdentity(r) ==
    LET cached == cache[call[r].network] IN
    ~call[r].fresh /\ cached # None /\ cached.expiresAt > now

\* Mutant: the age of the snapshot does not matter.
CanServeExpired(r) ==
    LET cached == cache[call[r].network] IN
    ~call[r].fresh /\ cached # None /\ cached.identity = IdentityOf(r)

CanServeCached(r) ==
    LET cached == cache[call[r].network] IN
    /\ ~call[r].fresh
    /\ cached # None
    /\ cached.identity = IdentityOf(r)
    /\ cached.expiresAt > now

ServeCached(r) ==
    /\ pc[r] = "resolve" /\ Resolved(r)
    /\ CanServeCached(r)
    /\ answer' = [answer EXCEPT ![r] = cache[call[r].network]]
    /\ pc' = [pc EXCEPT ![r] = "done"]
    /\ UNCHANGED <<now, stored, signatures, service, call, resolved, waitsFor,
                   calledAt, refresh, overlapped>>

JoinRefresh(r) ==
    /\ pc[r] = "resolve" /\ Resolved(r)
    /\ ~CanServeCached(r)
    /\ inFlight[IdentityOf(r)] # None
    /\ waitsFor' = [waitsFor EXCEPT ![r] = inFlight[IdentityOf(r)]]
    /\ pc' = [pc EXCEPT ![r] = "wait"]
    /\ UNCHANGED <<now, stored, signatures, service, call, resolved, answer,
                   calledAt, refresh, overlapped>>

\* Mutant: a fresh read starts a refresh of its own.
StartRefreshIfFresh(r) ==
    /\ pc[r] = "resolve" /\ Resolved(r)
    /\ ~CanServeCached(r)
    /\ call[r].fresh \/ inFlight[IdentityOf(r)] = None
    /\ inFlight' = [inFlight EXCEPT ![IdentityOf(r)] = r]
    /\ refresh' = [refresh EXCEPT ![r].stage = "verify"]
    /\ waitsFor' = [waitsFor EXCEPT ![r] = r]
    /\ pc' = [pc EXCEPT ![r] = "wait"]
    /\ UNCHANGED <<now, stored, signatures, cache, call, resolved, answer,
                   calledAt, overlapped>>

StartRefresh(r) ==
    /\ pc[r] = "resolve" /\ Resolved(r)
    /\ ~CanServeCached(r)
    /\ inFlight[IdentityOf(r)] = None
    /\ inFlight' = [inFlight EXCEPT ![IdentityOf(r)] = r]
    /\ refresh' = [refresh EXCEPT ![r].stage = "verify"]
    /\ waitsFor' = [waitsFor EXCEPT ![r] = r]
    /\ pc' = [pc EXCEPT ![r] = "wait"]
    /\ UNCHANGED <<now, stored, signatures, cache, call, resolved, answer,
                   calledAt, overlapped>>

\* Mutant: without `finally`, a rejected refresh stays in #inFlight.
ReturnWithoutFinally(r) ==
    /\ pc[r] = "wait"
    /\ Over(waitsFor[r])
    /\ answer' = [answer EXCEPT ![r] = refresh[waitsFor[r]].snapshot]
    /\ pc' = [pc EXCEPT ![r] =
                IF refresh[waitsFor[r]].stage = "settled" THEN "done" ELSE "failed"]
    /\ inFlight' = IF waitsFor[r] = r /\ refresh[r].stage = "settled"
                   THEN [inFlight EXCEPT ![IdentityOf(r)] = None] ELSE inFlight
    /\ UNCHANGED <<now, stored, signatures, cache, call, resolved, waitsFor,
                   calledAt, refresh, overlapped>>

\* The awaited refresh is over; the reader that started it, and only that one,
\* takes it out of #inFlight, whether it succeeded or not.
Return(r) ==
    /\ pc[r] = "wait"
    /\ Over(waitsFor[r])
    /\ answer' = [answer EXCEPT ![r] = refresh[waitsFor[r]].snapshot]
    /\ pc' = [pc EXCEPT ![r] =
                IF refresh[waitsFor[r]].stage = "settled" THEN "done" ELSE "failed"]
    /\ inFlight' = IF waitsFor[r] = r
                   THEN [inFlight EXCEPT ![IdentityOf(r)] = None] ELSE inFlight
    /\ UNCHANGED <<now, stored, signatures, cache, call, resolved, waitsFor,
                   calledAt, refresh, overlapped>>

-----------------------------------------------------------------------------
(* #refresh.                                                               *)

EndpointsVerified(o) ==
    /\ Quiet
    /\ refresh[o].stage = "verify"
    /\ refresh' = [refresh EXCEPT ![o].stage = "fetch"]
    /\ UNCHANGED <<now, stored, signatures, service, reader, overlapped>>

FetchBtc(o) ==
    /\ Quiet
    /\ refresh[o].stage = "fetch"
    /\ refresh[o].btc = None
    /\ refresh' = [refresh EXCEPT ![o].btc = signatures[call[o].network]]
    /\ UNCHANGED <<now, stored, signatures, service, reader, overlapped>>

FetchUnit(o) ==
    /\ Quiet
    /\ refresh[o].stage = "fetch"
    /\ refresh[o].unit = None
    /\ refresh' = [refresh EXCEPT ![o].unit = signatures[call[o].network]]
    /\ UNCHANGED <<now, stored, signatures, service, reader, overlapped>>

SnapshotOf(o) ==
    [identity |-> IdentityOf(o), expiresAt |-> now + CacheTtl,
     btc |-> refresh[o].btc, unit |-> refresh[o].unit, by |-> o]

\* Mutant: the first response settles the refresh.
SettleEarly(o) ==
    /\ Quiet
    /\ refresh[o].stage = "fetch"
    /\ refresh[o].btc # None \/ refresh[o].unit # None
    /\ refresh' = [refresh EXCEPT ![o].stage = "settled", ![o].snapshot = SnapshotOf(o)]
    /\ cache' = [cache EXCEPT ![call[o].network] = SnapshotOf(o)]
    /\ UNCHANGED <<now, stored, signatures, inFlight, reader, overlapped>>

\* The rows belong to the account: the snapshot is cached, whatever has been
\* invalidated meanwhile.
Settle(o) ==
    /\ Quiet
    /\ refresh[o].stage = "fetch"
    /\ refresh[o].btc # None /\ refresh[o].unit # None
    /\ refresh' = [refresh EXCEPT ![o].stage = "settled", ![o].snapshot = SnapshotOf(o)]
    /\ cache' = [cache EXCEPT ![call[o].network] = SnapshotOf(o)]
    /\ UNCHANGED <<now, stored, signatures, inFlight, reader, overlapped>>

\* Mutant: only the identity probes have a timeout.
RefreshFailsInVerify(o) ==
    /\ Quiet
    /\ refresh[o].stage = "verify"
    /\ refresh' = [refresh EXCEPT ![o].stage = "rejected"]
    /\ UNCHANGED <<now, stored, signatures, service, reader, overlapped>>

\* An endpoint on another network, a failed or malformed response, rows of
\* another account, or a timeout.
RefreshFails(o) ==
    /\ Quiet
    /\ Refreshing(o)
    /\ refresh' = [refresh EXCEPT ![o].stage = "rejected"]
    /\ UNCHANGED <<now, stored, signatures, service, reader, overlapped>>

-----------------------------------------------------------------------------
(* The rest of the Snap.                                                   *)

Invalidated(n) == [cache EXCEPT ![n] = None]

\* A Home form writes its override and invalidates when the write returns.
ImportOrRemoveKey(n, a) ==
    /\ Quiet
    /\ account' = [account EXCEPT ![n] = a]
    /\ owed' = owed \cup {n}
    /\ UNCHANGED <<now, profile, signatures, service, reader, refresh, overlapped>>

SaveEndpoint(n, p) ==
    /\ Quiet
    /\ profile' = [profile EXCEPT ![n] = p]
    /\ owed' = owed \cup {n}
    /\ UNCHANGED <<now, account, signatures, service, reader, refresh, overlapped>>

InvalidateWalletInventory(n) ==
    /\ Quiet
    /\ n \in owed
    /\ cache' = Invalidated(n)
    /\ owed' = owed \ {n}
    /\ UNCHANGED <<now, account, profile, signatures, inFlight, reader, refresh, overlapped>>

\* Mutant: signing does not invalidate.
SignOnly(n) ==
    /\ Quiet
    /\ signatures[n] < MaxSignatures
    /\ signatures' = [signatures EXCEPT ![n] = @ + 1]
    /\ overlapped' = overlapped \cup {o \in Readers : Refreshing(o) /\ call[o].network = n}
    /\ UNCHANGED <<now, stored, service, reader, refresh>>

\* signPsbt and signBatch: signing and the invalidation are one run to the
\* next await.
SignAndInvalidate(n) ==
    /\ Quiet
    /\ signatures[n] < MaxSignatures
    /\ signatures' = [signatures EXCEPT ![n] = @ + 1]
    /\ cache' = Invalidated(n)
    /\ overlapped' = overlapped \cup {o \in Readers : Refreshing(o) /\ call[o].network = n}
    /\ UNCHANGED <<now, stored, inFlight, reader, refresh>>

\* requestNetworkSwitch.
InvalidateAll ==
    /\ Quiet
    /\ cache # [n \in Networks |-> None]
    /\ cache' = [n \in Networks |-> None]
    /\ UNCHANGED <<now, stored, signatures, inFlight, reader, refresh, overlapped>>

Tick ==
    /\ Quiet
    /\ now < MaxTime
    /\ now' = now + 1
    /\ UNCHANGED <<stored, signatures, service, reader, refresh, overlapped>>

Decide(r) == ServeCached(r) \/ JoinRefresh(r) \/ StartRefresh(r)
Resolve(r) == ResolveAccount(r) \/ ResolveProfile(r) \/ ResolveFails(r)

Next ==
    \/ \E r \in Readers :
        \/ Call(r) \/ Resolve(r) \/ Decide(r) \/ Return(r)
        \/ EndpointsVerified(r) \/ FetchBtc(r) \/ FetchUnit(r) \/ Settle(r) \/ RefreshFails(r)
    \/ \E n \in Networks :
        \/ \E a \in Accounts : ImportOrRemoveKey(n, a)
        \/ \E p \in Profiles : SaveEndpoint(n, p)
        \/ InvalidateWalletInventory(n)
        \/ SignAndInvalidate(n)
    \/ InvalidateAll
    \/ Tick

\* MetaMask answers state requests, continuations run, and the AbortSignal of
\* every fetch fires; nothing obliges an endpoint to answer.
Fairness ==
    \A r \in Readers :
        /\ WF_vars(Resolve(r))
        /\ WF_vars(Decide(r))
        /\ WF_vars(Return(r))
        /\ WF_vars(Settle(r))
        /\ WF_vars(RefreshFails(r))

Spec == Init /\ [][Next]_vars
FairSpec == Spec /\ Fairness

-----------------------------------------------------------------------------
(* Properties.                                                             *)

TypeOK ==
    /\ now \in 0 .. MaxTime
    /\ account \in [Networks -> Accounts]
    /\ profile \in [Networks -> Profiles]
    /\ owed \subseteq Networks
    /\ signatures \in [Networks -> Counts]
    /\ cache \in [Networks -> Snapshots \cup {None}]
    /\ inFlight \in [Identities -> Readers \cup {None}]
    /\ pc \in [Readers -> {"idle", "resolve", "wait", "done", "failed"}]
    /\ call \in [Readers -> [network : Networks, fresh : BOOLEAN]]
    /\ resolved \in [Readers -> [account : Accounts \cup {None}, profile : Profiles \cup {None}]]
    /\ refresh \in [Readers -> Refreshes]
    /\ waitsFor \in [Readers -> Readers \cup {None}]
    /\ answer \in [Readers -> Snapshots \cup {None}]
    /\ calledAt \in [Readers -> [time : 0 .. MaxTime, signatures : Counts]]
    /\ overlapped \subseteq Readers

\* Concurrent reads of one account share one refresh: the endpoints never see
\* two for the same identity at once, whatever is invalidated in between.
SingleFlight ==
    \A o, p \in Readers :
        (Refreshing(o) /\ Refreshing(p) /\ IdentityOf(o) = IdentityOf(p)) => o = p

\* A refresh in #inFlight is one its initiator still awaits, so that a failure
\* is never what a later read gets.
InFlightIsAwaited ==
    \A i \in Identities :
        inFlight[i] # None =>
            /\ pc[inFlight[i]] = "wait"
            /\ waitsFor[inFlight[i]] = inFlight[i]
            /\ IdentityOf(inFlight[i]) = i

\* A read returns rows of the account and the endpoints it resolved, though
\* keys and endpoints change while refreshes run and the cache is per network.
AnswersOwnIdentity ==
    \A r \in Readers : answer[r] # None => answer[r].identity = IdentityOf(r)

\* "never serves expired data": no snapshot that had expired when the read was
\* made.
NeverServesExpired ==
    \A r \in Readers : answer[r] # None => answer[r].expiresAt > calledAt[r].time

\* A read made after a signature returns rows fetched before it only from a
\* refresh that was running while the signature was made.
StaleOnlyFromOverlap ==
    \A r \in Readers :
        (answer[r] # None /\ (\/ answer[r].btc < calledAt[r].signatures
                              \/ answer[r].unit < calledAt[r].signatures))
            => answer[r].by \in overlapped

\* What the comment in signPsbt says of the invalidation: the next read
\* observes the wallet after the signature instead of its pre-sign snapshot.
ReadAfterSignIsNew ==
    \A r \in Readers : answer[r] # None => answer[r].btc >= calledAt[r].signatures

\* Every read returns or fails, though an endpoint may never answer.
ReadsReturn ==
    \A r \in Readers : pc[r] = "resolve" ~> pc[r] \in {"done", "failed"}

=============================================================================
