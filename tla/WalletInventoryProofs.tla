------------------------ MODULE WalletInventoryProofs ------------------------
(***************************************************************************)
(* Theorems about WalletInventory for any readers, networks, accounts,     *)
(* endpoints and bounds.                                                   *)
(***************************************************************************)
EXTENDS WalletInventory, TLAPS

-----------------------------------------------------------------------------
(* Type correctness.  A reader in "wait" has resolved both halves of its   *)
(* identity, which is what makes #inFlight a function on Identities.       *)

TInv ==
    /\ TypeOK
    /\ \A r \in Readers : pc[r] = "wait" => Resolved(r) /\ waitsFor[r] \in Readers
    /\ \A o \in Readers : refresh[o].stage # "none" => Resolved(o)

LEMMA IdentityType ==
    ASSUME TypeOK, NEW r \in Readers, Resolved(r)
    PROVE  IdentityOf(r) \in Identities
  BY NoneAssumption DEF TypeOK, Resolved, IdentityOf, Identities

LEMMA NotStartedType == NotStarted \in Refreshes
  BY DEF NotStarted, Refreshes, Stages

LEMMA SnapshotType ==
    ASSUME TInv, NEW o \in Readers, refresh[o].stage = "fetch",
           refresh[o].btc # None, refresh[o].unit # None
    PROVE  SnapshotOf(o) \in Snapshots
<1>1. IdentityOf(o) \in Identities
  BY IdentityType DEF TInv
<1>2. now + CacheTtl \in Int
  BY BoundsAssumption DEF TInv, TypeOK
<1>3. refresh[o] \in Refreshes
  BY DEF TInv, TypeOK
<1>4. refresh[o].btc \in Counts /\ refresh[o].unit \in Counts
  BY <1>3 DEF Refreshes
<1> QED
  BY <1>1, <1>2, <1>4 DEF SnapshotOf, Snapshots

LEMMA TInvInit == Init => TInv
<1> SUFFICES ASSUME Init PROVE TInv
  OBVIOUS
<1>1. refresh \in [Readers -> Refreshes]
  BY NotStartedType DEF Init
<1>2. 0 \in 0 .. MaxTime /\ 0 \in Counts
  BY BoundsAssumption DEF Counts
<1> QED
  BY <1>1, <1>2 DEF Init, TInv, TypeOK, NotStarted

\* The steps of a reader in get.
LEMMA TInvReader ==
    ASSUME TInv, NEW r \in Readers,
           Call(r) \/ Resolve(r) \/ Decide(r) \/ Return(r)
    PROVE  TInv'
<1>0. TypeOK
  BY DEF TInv
<1>1. CASE Call(r)
  <2>1. [time |-> now, signatures |-> signatures[call[r].network]]
            \in [time : 0 .. MaxTime, signatures : Counts]
    BY <1>0 DEF TypeOK
  <2> QED
    BY <1>1, <2>1 DEF Call, TInv, TypeOK, stored, service, Resolved
<1>2. CASE ResolveAccount(r)
  <2>1. account[call[r].network] \in Accounts
    BY <1>0 DEF TypeOK
  <2>2. /\ resolved' = [resolved EXCEPT ![r].account = account[call[r].network]]
        /\ UNCHANGED <<now, stored, signatures, service, pc, call, waitsFor,
                       answer, calledAt, refresh, overlapped>>
    BY <1>2 DEF ResolveAccount
  <2>3. resolved' \in [Readers -> [account : Accounts \cup {None}, profile : Profiles \cup {None}]]
    BY <1>0, <2>1, <2>2 DEF TypeOK
  <2>4. \A g \in Readers : Resolved(g) => Resolved(g)'
    BY <1>0, <2>1, <2>2, NoneAssumption DEF TypeOK, Resolved
  <2> QED
    BY <2>2, <2>3, <2>4 DEF TInv, TypeOK, stored, service
<1>3. CASE ResolveProfile(r)
  <2>1. profile[call[r].network] \in Profiles
    BY <1>0 DEF TypeOK
  <2>2. /\ resolved' = [resolved EXCEPT ![r].profile = profile[call[r].network]]
        /\ UNCHANGED <<now, stored, signatures, service, pc, call, waitsFor,
                       answer, calledAt, refresh, overlapped>>
    BY <1>3 DEF ResolveProfile
  <2>3. resolved' \in [Readers -> [account : Accounts \cup {None}, profile : Profiles \cup {None}]]
    BY <1>0, <2>1, <2>2 DEF TypeOK
  <2>4. \A g \in Readers : Resolved(g) => Resolved(g)'
    BY <1>0, <2>1, <2>2, NoneAssumption DEF TypeOK, Resolved
  <2> QED
    BY <2>2, <2>3, <2>4 DEF TInv, TypeOK, stored, service
<1>4. CASE ResolveFails(r)
  BY <1>4 DEF ResolveFails, TInv, TypeOK, stored, service, Resolved
<1>5. CASE ServeCached(r)
  <2>1. cache[call[r].network] \in Snapshots \cup {None}
    BY <1>0 DEF TypeOK
  <2> QED
    BY <1>5, <2>1 DEF ServeCached, TInv, TypeOK, stored, service, Resolved
<1>6. CASE JoinRefresh(r)
  <2>1. inFlight[IdentityOf(r)] \in Readers
    BY <1>0, <1>6, IdentityType DEF JoinRefresh, TypeOK
  <2> QED
    BY <1>6, <2>1 DEF JoinRefresh, TInv, TypeOK, stored, service, Resolved
<1>7. CASE StartRefresh(r)
  <2>0. refresh[r] \in Refreshes
    BY <1>0 DEF TypeOK
  <2>1. [refresh[r] EXCEPT !.stage = "verify"] \in Refreshes
    BY <2>0 DEF Refreshes, Stages
  <2> QED
    BY <1>7, <2>1 DEF StartRefresh, TInv, TypeOK, stored, Resolved
<1>8. CASE Return(r)
  <2>1. refresh[waitsFor[r]].snapshot \in Snapshots \cup {None}
    BY <1>8 DEF Return, TInv, TypeOK, Refreshes
  <2>2. inFlight' \in [Identities -> Readers \cup {None}]
    BY <1>0, <1>8 DEF Return, TypeOK
  <2> QED
    BY <1>8, <2>1, <2>2 DEF Return, TInv, TypeOK, stored, Resolved
<1> QED
  BY <1>1, <1>2, <1>3, <1>4, <1>5, <1>6, <1>7, <1>8 DEF Resolve, Decide

\* The steps of a refresh.
LEMMA TInvRefresh ==
    ASSUME TInv, NEW o \in Readers,
           \/ EndpointsVerified(o) \/ FetchBtc(o) \/ FetchUnit(o)
           \/ Settle(o) \/ RefreshFails(o)
    PROVE  TInv'
<1>0. TypeOK /\ refresh[o] \in Refreshes /\ signatures[call[o].network] \in Counts
  BY DEF TInv, TypeOK
<1>1. CASE EndpointsVerified(o) \/ RefreshFails(o)
  <2>1. PICK stage \in Stages \ {"none"} : refresh' = [refresh EXCEPT ![o].stage = stage]
    BY <1>1 DEF EndpointsVerified, RefreshFails, Stages
  <2>2. [refresh[o] EXCEPT !.stage = stage] \in Refreshes
    BY <1>0 DEF Refreshes
  <2>3. refresh[o].stage # "none" /\ UNCHANGED <<now, stored, signatures, service, reader, overlapped>>
    BY <1>1 DEF EndpointsVerified, RefreshFails, Refreshing
  <2> QED
    BY <1>0, <2>1, <2>2, <2>3 DEF TInv, TypeOK, stored, service, reader, Resolved
<1>2. CASE FetchBtc(o)
  <2>1. [refresh[o] EXCEPT !.btc = signatures[call[o].network]] \in Refreshes
    BY <1>0 DEF Refreshes
  <2> QED
    BY <1>2, <2>1 DEF FetchBtc, TInv, TypeOK, stored, service, reader, Resolved
<1>3. CASE FetchUnit(o)
  <2>1. [refresh[o] EXCEPT !.unit = signatures[call[o].network]] \in Refreshes
    BY <1>0 DEF Refreshes
  <2> QED
    BY <1>3, <2>1 DEF FetchUnit, TInv, TypeOK, stored, service, reader, Resolved
<1>4. CASE Settle(o)
  <2>1. SnapshotOf(o) \in Snapshots
    BY <1>4, SnapshotType DEF Settle
  <2>2. [refresh[o] EXCEPT !.stage = "settled", !.snapshot = SnapshotOf(o)] \in Refreshes
    BY <1>0, <2>1 DEF Refreshes, Stages
  <2> QED
    BY <1>4, <2>1, <2>2 DEF Settle, TInv, TypeOK, stored, reader, Resolved
<1> QED
  BY <1>1, <1>2, <1>3, <1>4

\* The steps of the rest of the Snap.
Environment ==
    \/ \E n \in Networks :
        \/ \E a \in Accounts : ImportOrRemoveKey(n, a)
        \/ \E p \in Profiles : SaveEndpoint(n, p)
        \/ InvalidateWalletInventory(n)
        \/ SignAndInvalidate(n)
    \/ InvalidateAll
    \/ Tick

LEMMA TInvEnvironment == TInv /\ Environment => TInv'
<1> SUFFICES ASSUME TInv, Environment PROVE TInv'
  OBVIOUS
<1>1. UNCHANGED <<reader, inFlight, refresh>>
  BY DEF Environment, ImportOrRemoveKey, SaveEndpoint, InvalidateWalletInventory,
         SignAndInvalidate, InvalidateAll, Tick, service
<1>2. account' \in [Networks -> Accounts]
  BY DEF TInv, TypeOK, Environment, ImportOrRemoveKey, SaveEndpoint,
         InvalidateWalletInventory, SignAndInvalidate, InvalidateAll, Tick, stored
<1>7. profile' \in [Networks -> Profiles]
  BY DEF TInv, TypeOK, Environment, ImportOrRemoveKey, SaveEndpoint,
         InvalidateWalletInventory, SignAndInvalidate, InvalidateAll, Tick, stored
<1>8. owed' \subseteq Networks
  BY DEF TInv, TypeOK, Environment, ImportOrRemoveKey, SaveEndpoint,
         InvalidateWalletInventory, SignAndInvalidate, InvalidateAll, Tick, stored
<1>6. overlapped' \subseteq Readers
  BY DEF TInv, TypeOK, Environment, ImportOrRemoveKey, SaveEndpoint,
         InvalidateWalletInventory, SignAndInvalidate, InvalidateAll, Tick
<1>3. cache' \in [Networks -> Snapshots \cup {None}]
  BY DEF TInv, TypeOK, Environment, ImportOrRemoveKey, SaveEndpoint,
         InvalidateWalletInventory, SignAndInvalidate, InvalidateAll, Tick,
         service, Invalidated
<1>4. now' \in 0 .. MaxTime
  BY BoundsAssumption DEF TInv, TypeOK, Environment, ImportOrRemoveKey, SaveEndpoint,
         InvalidateWalletInventory, SignAndInvalidate, InvalidateAll, Tick
<1>5. signatures' \in [Networks -> Counts]
  BY BoundsAssumption DEF TInv, TypeOK, Counts, Environment, ImportOrRemoveKey,
         SaveEndpoint, InvalidateWalletInventory, SignAndInvalidate, InvalidateAll, Tick
<1> QED
  BY <1>1, <1>2, <1>3, <1>4, <1>5, <1>6, <1>7, <1>8 DEF TInv, TypeOK, reader, Resolved

LEMMA NextCases ==
    ASSUME [Next]_vars
    PROVE  \/ \E r \in Readers : Call(r) \/ Resolve(r) \/ Decide(r) \/ Return(r)
           \/ \E o \in Readers : \/ EndpointsVerified(o) \/ FetchBtc(o) \/ FetchUnit(o)
                                 \/ Settle(o) \/ RefreshFails(o)
           \/ Environment
           \/ UNCHANGED vars
  BY DEF Next, Environment

LEMMA TInvStep == TInv /\ [Next]_vars => TInv'
<1> SUFFICES ASSUME TInv, [Next]_vars PROVE TInv'
  OBVIOUS
<1>1. CASE UNCHANGED vars
  BY <1>1 DEF vars, stored, service, reader, TInv, TypeOK, Resolved
<1> QED
  BY <1>1, NextCases, TInvReader, TInvRefresh, TInvEnvironment

\* The service never returns or caches anything but snapshots, and the keys
\* of #inFlight are complete identities.
THEOREM InventoryTypeCorrect == Spec => []TypeOK
<1>1. TInv => TypeOK
  BY DEF TInv
<1> QED
  BY <1>1, TInvInit, TInvStep, PTL DEF Spec

-----------------------------------------------------------------------------
(* Single flight.  #inFlight has the reader of every refresh that somebody *)
(* started and still awaits, and the reader that leaves takes only its own *)
(* entry out.                                                              *)

RunningIsInFlight ==
    \A o \in Readers :
        /\ Refreshing(o) => pc[o] = "wait" /\ waitsFor[o] = o
        /\ pc[o] = "wait" /\ waitsFor[o] = o => inFlight[IdentityOf(o)] = o

BeforeRefresh ==
    \A r \in Readers :
        /\ pc[r] \in {"idle", "resolve"} => refresh[r] = NotStarted /\ answer[r] = None
        /\ pc[r] \in {"wait", "done"} => Resolved(r)
        /\ pc[r] = "wait" => answer[r] = None

FlightInv == TInv /\ BeforeRefresh /\ RunningIsInFlight /\ InFlightIsAwaited

\* All that FlightInv and IdentityInv say of the state beyond its type.
flight == <<pc, call, resolved, waitsFor, answer, inFlight, refresh>>

FlightParts == BeforeRefresh /\ RunningIsInFlight /\ InFlightIsAwaited

LEMMA FlightInit == Init => FlightInv
<1> SUFFICES ASSUME Init PROVE FlightInv
  OBVIOUS
<1>1. /\ \A r \in Readers : pc[r] = "idle" /\ refresh[r] = NotStarted /\ answer[r] = None
      /\ \A i \in Identities : inFlight[i] = None
  BY DEF Init
<1>2. ASSUME NEW r \in Readers PROVE ~Refreshing(r)
  <2>1. refresh[r].stage = "none"
    BY <1>1 DEF NotStarted
  <2> QED
    BY <2>1 DEF Refreshing
<1> QED
  BY <1>1, <1>2, TInvInit DEF FlightInv, BeforeRefresh, RunningIsInFlight, InFlightIsAwaited

LEMMA FlightReader ==
    ASSUME FlightInv, NEW r \in Readers,
           Call(r) \/ Resolve(r) \/ Decide(r) \/ Return(r)
    PROVE  FlightParts'
<1>0. TInv /\ TypeOK /\ FlightParts
  BY DEF FlightInv, FlightParts, TInv
<1>a. /\ pc \in [Readers -> {"idle", "resolve", "wait", "done", "failed"}]
      /\ waitsFor \in [Readers -> Readers \cup {None}]
      /\ inFlight \in [Identities -> Readers \cup {None}]
      /\ refresh \in [Readers -> Refreshes]
      /\ answer \in [Readers -> Snapshots \cup {None}]
      /\ resolved \in [Readers -> [account : Accounts \cup {None}, profile : Profiles \cup {None}]]
  BY <1>0 DEF TypeOK
<1>b. None \notin Readers /\ \A g \in Readers : Resolved(g) => IdentityOf(g) \in Identities
  BY <1>0, NoneAssumption, IdentityType
<1>1. CASE Call(r)
  <2>1. /\ pc[r] = "idle" /\ pc' = [pc EXCEPT ![r] = "resolve"]
        /\ UNCHANGED <<call, resolved, waitsFor, answer, inFlight, refresh>>
    BY <1>1 DEF Call, service
  <2> QED
    BY <1>0, <1>a, <1>b, <2>1 DEF FlightParts, BeforeRefresh, RunningIsInFlight,
        InFlightIsAwaited, Refreshing, IdentityOf, Resolved
<1>2. CASE Resolve(r)
  <2>1. /\ pc[r] = "resolve" /\ pc' \in {pc, [pc EXCEPT ![r] = "failed"]}
        /\ \A g \in Readers : g # r => resolved'[g] = resolved[g]
        /\ UNCHANGED <<call, waitsFor, answer, inFlight, refresh>>
    BY <1>2, <1>a DEF Resolve, ResolveAccount, ResolveProfile, ResolveFails, service
  <2>2. \A g \in Readers : pc'[g] = "wait" => g # r /\ pc[g] = "wait"
    BY <1>a, <2>1
  <2>3. BeforeRefresh'
    <3>1. \A g \in Readers : Resolved(g) /\ g # r => Resolved(g)'
      BY <2>1 DEF Resolved
    <3>2. \A g \in Readers : g # r => pc'[g] = pc[g]
      BY <1>a, <2>1
    <3>3. pc'[r] \in {"resolve", "failed"}
      BY <1>a, <2>1
    <3> QED
      BY <1>0, <2>1, <3>1, <3>2, <3>3 DEF FlightParts, BeforeRefresh
  <2>4. ~Refreshing(r)
    BY <1>0, <2>1 DEF FlightParts, BeforeRefresh, Refreshing, NotStarted
  <2>5. RunningIsInFlight'
    BY <1>0, <1>a, <2>1, <2>2, <2>4 DEF FlightParts, RunningIsInFlight, Refreshing, IdentityOf
  <2>6. InFlightIsAwaited'
    BY <1>0, <1>a, <1>b, <2>1 DEF FlightParts, InFlightIsAwaited, IdentityOf
  <2> QED
    BY <2>3, <2>5, <2>6 DEF FlightParts
<1>3. CASE ServeCached(r)
  <2>1. /\ pc[r] = "resolve" /\ pc' = [pc EXCEPT ![r] = "done"] /\ Resolved(r)
        /\ \A g \in Readers : g # r => answer'[g] = answer[g]
        /\ UNCHANGED <<call, resolved, waitsFor, inFlight, refresh>>
    BY <1>3, <1>a DEF ServeCached, service
  <2>2. ~Refreshing(r)
    BY <1>0, <2>1 DEF FlightParts, BeforeRefresh, Refreshing, NotStarted
  <2>3. BeforeRefresh'
    BY <1>0, <1>a, <2>1 DEF FlightParts, BeforeRefresh, Resolved
  <2>4. RunningIsInFlight'
    BY <1>0, <1>a, <2>1, <2>2 DEF FlightParts, RunningIsInFlight, Refreshing, IdentityOf
  <2>5. InFlightIsAwaited'
    BY <1>0, <1>a, <1>b, <2>1 DEF FlightParts, InFlightIsAwaited, IdentityOf
  <2> QED
    BY <2>3, <2>4, <2>5 DEF FlightParts
<1>4. CASE JoinRefresh(r)
  <2>1. /\ pc[r] = "resolve" /\ pc' = [pc EXCEPT ![r] = "wait"] /\ Resolved(r)
        /\ inFlight[IdentityOf(r)] # None
        /\ waitsFor' = [waitsFor EXCEPT ![r] = inFlight[IdentityOf(r)]]
        /\ UNCHANGED <<call, resolved, answer, inFlight, refresh>>
    BY <1>4 DEF JoinRefresh, service
  <2>2. ~Refreshing(r) /\ answer[r] = None
    BY <1>0, <2>1 DEF FlightParts, BeforeRefresh, Refreshing, NotStarted
  <2>3. BeforeRefresh'
    BY <1>0, <1>a, <2>1, <2>2 DEF FlightParts, BeforeRefresh, Resolved
  <2>4. inFlight[IdentityOf(r)] # r
    BY <1>0, <1>b, <2>1 DEF FlightParts, InFlightIsAwaited
  <2>5. RunningIsInFlight'
    BY <1>0, <1>a, <2>1, <2>2, <2>4 DEF FlightParts, RunningIsInFlight, Refreshing, IdentityOf
  <2>6. InFlightIsAwaited'
    BY <1>0, <1>a, <1>b, <2>1 DEF FlightParts, InFlightIsAwaited, IdentityOf
  <2> QED
    BY <2>3, <2>5, <2>6 DEF FlightParts
<1>5. CASE StartRefresh(r)
  <2>1. /\ pc[r] = "resolve" /\ pc' = [pc EXCEPT ![r] = "wait"] /\ Resolved(r)
        /\ inFlight[IdentityOf(r)] = None
        /\ inFlight' = [inFlight EXCEPT ![IdentityOf(r)] = r]
        /\ waitsFor' = [waitsFor EXCEPT ![r] = r]
        /\ \A g \in Readers : g # r => refresh'[g] = refresh[g]
        /\ UNCHANGED <<call, resolved, answer>>
    BY <1>5, <1>a DEF StartRefresh
  <2>2. answer[r] = None
    BY <1>0, <2>1 DEF FlightParts, BeforeRefresh
  <2>3. BeforeRefresh'
    BY <1>0, <1>a, <2>1, <2>2 DEF FlightParts, BeforeRefresh, Resolved
  <2>4. \A g \in Readers : g # r /\ pc[g] = "wait" /\ waitsFor[g] = g
            => IdentityOf(g) # IdentityOf(r)
    BY <1>0, <1>b, <2>1 DEF FlightParts, RunningIsInFlight
  <2>5. RunningIsInFlight'
    <3>1. \A g \in Readers : IdentityOf(g)' = IdentityOf(g)
      BY <2>1 DEF IdentityOf
    <3>2. inFlight'[IdentityOf(r)] = r
      BY <1>a, <1>b, <2>1
    <3>3. \A g \in Readers : g # r /\ pc[g] = "wait" /\ waitsFor[g] = g
            => inFlight'[IdentityOf(g)] = g
      BY <1>0, <1>a, <1>b, <2>1, <2>4 DEF FlightParts, RunningIsInFlight, BeforeRefresh
    <3> QED
      BY <1>0, <1>a, <2>1, <3>1, <3>2, <3>3 DEF FlightParts, RunningIsInFlight, Refreshing
  <2>6. InFlightIsAwaited'
    BY <1>0, <1>a, <1>b, <2>1 DEF FlightParts, InFlightIsAwaited, IdentityOf
  <2> QED
    BY <2>3, <2>5, <2>6 DEF FlightParts
<1>6. CASE Return(r)
  <2>1. /\ pc[r] = "wait" /\ pc' \in {[pc EXCEPT ![r] = "done"], [pc EXCEPT ![r] = "failed"]}
        /\ Over(waitsFor[r])
        /\ inFlight' = IF waitsFor[r] = r
                       THEN [inFlight EXCEPT ![IdentityOf(r)] = None] ELSE inFlight
        /\ \A g \in Readers : g # r => answer'[g] = answer[g]
        /\ UNCHANGED <<call, resolved, waitsFor, refresh>>
    BY <1>6, <1>a DEF Return
  <2>2. Resolved(r) /\ ~Refreshing(r)
    BY <1>0, <2>1 DEF FlightParts, BeforeRefresh, RunningIsInFlight, Refreshing, Over
  <2>3. BeforeRefresh'
    BY <1>0, <1>a, <2>1, <2>2 DEF FlightParts, BeforeRefresh, Resolved
  <2>4. ASSUME NEW g \in Readers, g # r, pc[g] = "wait", waitsFor[g] = g
        PROVE  inFlight'[IdentityOf(g)] = g
    <3>1. inFlight[IdentityOf(g)] = g
      BY <1>0, <2>4 DEF FlightParts, RunningIsInFlight
    <3>2. CASE waitsFor[r] = r
      <4>1. IdentityOf(g) # IdentityOf(r)
        BY <1>0, <2>1, <2>4, <3>1, <3>2 DEF FlightParts, RunningIsInFlight
      <4>2. IdentityOf(g) \in Identities
        BY <1>0, <1>b, <2>4 DEF FlightParts, BeforeRefresh
      <4> QED
        BY <1>a, <2>1, <3>1, <4>1, <4>2
    <3> QED
      BY <2>1, <3>1, <3>2
  <2>5. RunningIsInFlight'
    BY <1>0, <1>a, <2>1, <2>2, <2>4 DEF FlightParts, RunningIsInFlight, Refreshing, IdentityOf
  <2>6. ASSUME NEW i \in Identities, inFlight'[i] # None
        PROVE  inFlight'[i] # r /\ inFlight[i] = inFlight'[i]
    <3>1. inFlight[i] = inFlight'[i]
      BY <1>a, <2>1, <2>6
    <3>2. inFlight[i] = r => waitsFor[r] = r /\ IdentityOf(r) = i
      BY <1>0, <1>b DEF FlightParts, InFlightIsAwaited
    <3> QED
      BY <1>a, <1>b, <2>1, <2>6, <3>1, <3>2
  <2>7. InFlightIsAwaited'
    BY <1>0, <1>a, <2>1, <2>6 DEF FlightParts, InFlightIsAwaited, IdentityOf
  <2> QED
    BY <2>3, <2>5, <2>7 DEF FlightParts
<1> QED
  BY <1>1, <1>2, <1>3, <1>4, <1>5, <1>6 DEF Decide

LEMMA FlightRefresh ==
    ASSUME FlightInv, NEW o \in Readers,
           \/ EndpointsVerified(o) \/ FetchBtc(o) \/ FetchUnit(o)
           \/ Settle(o) \/ RefreshFails(o)
    PROVE  FlightParts'
<1>1. /\ Refreshing(o)
      /\ \A g \in Readers : g # o => refresh'[g] = refresh[g]
      /\ UNCHANGED <<inFlight, pc, call, resolved, waitsFor, answer>>
  BY DEF FlightInv, TInv, TypeOK, EndpointsVerified, FetchBtc, FetchUnit, Settle,
         RefreshFails, Refreshing, service, reader
<1>2. \A g \in Readers : Refreshing(g)' => Refreshing(g)
  BY <1>1 DEF Refreshing
<1>3. pc[o] = "wait"
  BY <1>1 DEF FlightInv, RunningIsInFlight
<1>4. BeforeRefresh'
  BY <1>1, <1>3 DEF FlightInv, BeforeRefresh, Resolved
<1>5. RunningIsInFlight'
  BY <1>1, <1>2 DEF FlightInv, RunningIsInFlight, IdentityOf
<1>6. InFlightIsAwaited'
  BY <1>1 DEF FlightInv, InFlightIsAwaited, IdentityOf
<1> QED
  BY <1>4, <1>5, <1>6 DEF FlightParts

LEMMA FlightElsewhere ==
    ASSUME FlightParts, UNCHANGED flight
    PROVE  FlightParts'
  BY DEF flight, FlightParts, BeforeRefresh, RunningIsInFlight, InFlightIsAwaited,
         Refreshing, IdentityOf, Resolved

LEMMA FlightStep == FlightInv /\ [Next]_vars => FlightInv'
<1> SUFFICES ASSUME FlightInv, [Next]_vars PROVE FlightParts'
  BY TInvStep DEF FlightInv, FlightParts
<1>1. CASE Environment \/ UNCHANGED vars
  <2>1. UNCHANGED flight
    BY <1>1 DEF Environment, ImportOrRemoveKey, SaveEndpoint, InvalidateWalletInventory,
         SignAndInvalidate, InvalidateAll, Tick, service, reader, vars, flight
  <2> QED
    BY <2>1, FlightElsewhere DEF FlightInv, FlightParts
<1> QED
  BY <1>1, NextCases, FlightReader, FlightRefresh

LEMMA FlightIsSingle == FlightInv => SingleFlight
<1> SUFFICES ASSUME FlightInv, NEW o \in Readers, NEW p \in Readers,
                    Refreshing(o), Refreshing(p), IdentityOf(o) = IdentityOf(p)
             PROVE  o = p
  BY DEF SingleFlight
<1> QED
  BY DEF FlightInv, RunningIsInFlight

\* For any number of reads, accounts and invalidations: at most one refresh per
\* identity runs, and what #inFlight holds is awaited by the reader it names.
THEOREM RefreshesAreSingleFlight == Spec => [](SingleFlight /\ InFlightIsAwaited)
<1>1. FlightInv => SingleFlight /\ InFlightIsAwaited
  BY FlightIsSingle DEF FlightInv
<1> QED
  BY <1>1, FlightInit, FlightStep, PTL DEF Spec

-----------------------------------------------------------------------------
(* A read returns rows of the identity it resolved.  A reader waits only   *)
(* for a refresh of its own identity, and a refresh makes its snapshot     *)
(* with the identity of the reader that started it.                        *)

WaitsForOwn ==
    \A r \in Readers :
        pc[r] = "wait" => /\ IdentityOf(waitsFor[r]) = IdentityOf(r)
                          /\ refresh[waitsFor[r]].stage # "none"

SnapshotsOwn ==
    \A o \in Readers :
        refresh[o].snapshot # None => refresh[o].snapshot.identity = IdentityOf(o)

IdentityParts == WaitsForOwn /\ SnapshotsOwn /\ AnswersOwnIdentity
IdentityInv == FlightInv /\ IdentityParts

LEMMA IdentityInit == Init => IdentityInv
<1> SUFFICES ASSUME Init PROVE IdentityParts
  BY FlightInit DEF IdentityInv
<1>1. \A r \in Readers : pc[r] = "idle" /\ refresh[r] = NotStarted /\ answer[r] = None
  BY DEF Init
<1>2. ASSUME NEW r \in Readers PROVE refresh[r].snapshot = None
  <2>1. refresh[r] = NotStarted
    BY <1>1
  <2> QED
    BY <2>1 DEF NotStarted
<1> QED
  BY <1>1, <1>2 DEF IdentityParts, WaitsForOwn, SnapshotsOwn, AnswersOwnIdentity

LEMMA IdentityReader ==
    ASSUME IdentityInv, NEW r \in Readers,
           Call(r) \/ Resolve(r) \/ Decide(r) \/ Return(r)
    PROVE  IdentityParts'
<1>0. FlightInv /\ TInv /\ TypeOK /\ WaitsForOwn /\ SnapshotsOwn /\ AnswersOwnIdentity
  BY DEF IdentityInv, IdentityParts, FlightInv, TInv
<1>a. /\ pc \in [Readers -> {"idle", "resolve", "wait", "done", "failed"}]
      /\ waitsFor \in [Readers -> Readers \cup {None}]
      /\ answer \in [Readers -> Snapshots \cup {None}]
      /\ refresh \in [Readers -> Refreshes]
      /\ resolved \in [Readers -> [account : Accounts \cup {None}, profile : Profiles \cup {None}]]
      /\ \A g \in Readers : pc[g] = "wait" => waitsFor[g] \in Readers
  BY <1>0 DEF TInv, TypeOK
<1>1. CASE Call(r)
  <2>1. /\ pc[r] = "idle" /\ pc' = [pc EXCEPT ![r] = "resolve"]
        /\ UNCHANGED <<call, resolved, waitsFor, answer, refresh>>
    BY <1>1 DEF Call
  <2> QED
    BY <1>0, <1>a, <2>1 DEF IdentityParts, WaitsForOwn, SnapshotsOwn,
        AnswersOwnIdentity, IdentityOf
<1>2. CASE Resolve(r)
  <2>1. /\ pc[r] = "resolve" /\ pc' \in {pc, [pc EXCEPT ![r] = "failed"]}
        /\ \A g \in Readers : g # r => resolved'[g] = resolved[g]
        /\ UNCHANGED <<call, waitsFor, answer, refresh>>
    BY <1>2, <1>a DEF Resolve, ResolveAccount, ResolveProfile, ResolveFails
  <2>2. refresh[r] = NotStarted /\ answer[r] = None
    BY <1>0, <2>1 DEF FlightInv, BeforeRefresh
  <2>3. refresh[r].stage = "none" /\ refresh[r].snapshot = None
    BY <2>2 DEF NotStarted
  <2>4. \A g \in Readers : g # r => IdentityOf(g)' = IdentityOf(g)
    BY <2>1 DEF IdentityOf
  <2>5. \A g \in Readers : pc'[g] = "wait" => pc[g] = "wait" /\ g # r /\ waitsFor[g] # r
    BY <1>0, <1>a, <2>1, <2>3 DEF WaitsForOwn
  <2> QED
    BY <1>0, <1>a, <2>1, <2>2, <2>3, <2>4, <2>5
       DEF IdentityParts, WaitsForOwn, SnapshotsOwn, AnswersOwnIdentity
<1>3. CASE ServeCached(r)
  <2>1. /\ pc' = [pc EXCEPT ![r] = "done"]
        /\ answer' = [answer EXCEPT ![r] = cache[call[r].network]]
        /\ cache[call[r].network].identity = IdentityOf(r)
        /\ UNCHANGED <<call, resolved, waitsFor, refresh>>
    BY <1>3 DEF ServeCached, CanServeCached
  <2> QED
    BY <1>0, <1>a, <2>1 DEF IdentityParts, WaitsForOwn, SnapshotsOwn,
        AnswersOwnIdentity, IdentityOf
<1>4. CASE JoinRefresh(r)
  <2>1. /\ pc[r] = "resolve" /\ pc' = [pc EXCEPT ![r] = "wait"] /\ Resolved(r)
        /\ inFlight[IdentityOf(r)] # None
        /\ waitsFor' = [waitsFor EXCEPT ![r] = inFlight[IdentityOf(r)]]
        /\ UNCHANGED <<call, resolved, answer, refresh>>
    BY <1>4 DEF JoinRefresh
  <2> DEFINE o == inFlight[IdentityOf(r)]
  <2>2. IdentityOf(r) \in Identities
    BY <1>0, <2>1, IdentityType
  <2>3. o \in Readers /\ pc[o] = "wait" /\ waitsFor[o] = o /\ IdentityOf(o) = IdentityOf(r)
    BY <1>0, <2>1, <2>2 DEF FlightInv, InFlightIsAwaited, TypeOK
  <2>4. refresh[o].stage # "none"
    BY <1>0, <2>3 DEF WaitsForOwn
  <2> HIDE DEF o
  <2>5. waitsFor' = [waitsFor EXCEPT ![r] = o]
    BY <2>1 DEF o
  <2> QED
    BY <1>0, <1>a, <2>1, <2>3, <2>4, <2>5 DEF IdentityParts, WaitsForOwn, SnapshotsOwn,
        AnswersOwnIdentity, IdentityOf
<1>5. CASE StartRefresh(r)
  <2>1. /\ pc' = [pc EXCEPT ![r] = "wait"]
        /\ waitsFor' = [waitsFor EXCEPT ![r] = r]
        /\ refresh' = [refresh EXCEPT ![r].stage = "verify"]
        /\ UNCHANGED <<call, resolved, answer>>
    BY <1>5 DEF StartRefresh
  <2>2. /\ \A g \in Readers : refresh'[g].snapshot = refresh[g].snapshot
        /\ \A g \in Readers : refresh[g].stage # "none" => refresh'[g].stage # "none"
        /\ refresh'[r].stage # "none"
    BY <1>a, <2>1 DEF Refreshes
  <2> QED
    BY <1>0, <1>a, <2>1, <2>2 DEF IdentityParts, WaitsForOwn, SnapshotsOwn,
        AnswersOwnIdentity, IdentityOf
<1>6. CASE Return(r)
  <2>1. /\ pc[r] = "wait" /\ \A g \in Readers : pc'[g] = "wait" => pc[g] = "wait"
        /\ answer' = [answer EXCEPT ![r] = refresh[waitsFor[r]].snapshot]
        /\ UNCHANGED <<call, resolved, waitsFor, refresh>>
    BY <1>6, <1>a DEF Return
  <2> QED
    BY <1>0, <1>a, <2>1 DEF IdentityParts, WaitsForOwn, SnapshotsOwn,
        AnswersOwnIdentity, IdentityOf
<1> QED
  BY <1>1, <1>2, <1>3, <1>4, <1>5, <1>6 DEF Decide

LEMMA IdentityRefresh ==
    ASSUME IdentityInv, NEW o \in Readers,
           \/ EndpointsVerified(o) \/ FetchBtc(o) \/ FetchUnit(o)
           \/ Settle(o) \/ RefreshFails(o)
    PROVE  IdentityParts'
<1>0. TypeOK /\ WaitsForOwn /\ SnapshotsOwn /\ AnswersOwnIdentity
  BY DEF IdentityInv, IdentityParts, FlightInv, TInv
<1>1. UNCHANGED <<pc, call, resolved, waitsFor, answer>>
  BY DEF EndpointsVerified, FetchBtc, FetchUnit, Settle, RefreshFails, reader
<1>a. refresh \in [Readers -> Refreshes] /\ waitsFor \in [Readers -> Readers \cup {None}]
  BY <1>0 DEF TypeOK
<1>2. ASSUME NEW g \in Readers, refresh[g].stage # "none" PROVE refresh'[g].stage # "none"
  <2>1. CASE EndpointsVerified(o)
    BY <1>a, <1>2, <2>1 DEF Refreshes, EndpointsVerified
  <2>2. CASE FetchBtc(o)
    BY <1>a, <1>2, <2>2 DEF Refreshes, FetchBtc
  <2>3. CASE FetchUnit(o)
    BY <1>a, <1>2, <2>3 DEF Refreshes, FetchUnit
  <2>4. CASE Settle(o)
    BY <1>a, <1>2, <2>4 DEF Refreshes, Settle
  <2>5. CASE RefreshFails(o)
    BY <1>a, <1>2, <2>5 DEF Refreshes, RefreshFails
  <2> QED
    BY <2>1, <2>2, <2>3, <2>4, <2>5
<1>3. ASSUME NEW g \in Readers, refresh'[g].snapshot # None
      PROVE  refresh'[g].snapshot.identity = IdentityOf(g)
  <2>1. \/ refresh'[g].snapshot = refresh[g].snapshot
        \/ g = o /\ refresh'[g].snapshot = SnapshotOf(o)
    BY <1>0 DEF TypeOK, Refreshes, EndpointsVerified, FetchBtc, FetchUnit, Settle, RefreshFails
  <2> QED
    BY <1>0, <1>3, <2>1 DEF SnapshotsOwn, SnapshotOf
<1>4. \A g \in Readers : IdentityOf(g)' = IdentityOf(g)
  BY <1>1 DEF IdentityOf
<1>5. \A g \in Readers : pc[g] = "wait" => waitsFor[g] \in Readers
  BY DEF IdentityInv, FlightInv, TInv
<1>6. WaitsForOwn'
  BY <1>0, <1>1, <1>2, <1>4, <1>5 DEF WaitsForOwn
<1>7. SnapshotsOwn' /\ AnswersOwnIdentity'
  BY <1>0, <1>1, <1>3, <1>4 DEF SnapshotsOwn, AnswersOwnIdentity
<1> QED
  BY <1>6, <1>7 DEF IdentityParts

LEMMA IdentityStep == IdentityInv /\ [Next]_vars => IdentityInv'
<1> SUFFICES ASSUME IdentityInv, [Next]_vars PROVE IdentityParts'
  BY FlightStep DEF IdentityInv
<1>1. CASE Environment \/ UNCHANGED vars
  <2>1. UNCHANGED <<pc, call, resolved, waitsFor, answer, refresh>>
    BY <1>1 DEF Environment, ImportOrRemoveKey, SaveEndpoint, InvalidateWalletInventory,
         SignAndInvalidate, InvalidateAll, Tick, reader, vars
  <2> QED
    BY <2>1 DEF IdentityInv, IdentityParts, WaitsForOwn, SnapshotsOwn,
         AnswersOwnIdentity, IdentityOf
<1> QED
  BY <1>1, NextCases, IdentityReader, IdentityRefresh

\* Whatever keys and endpoints change while refreshes run, a read never gets
\* the rows of another account or of other endpoints than those it resolved.
THEOREM ReadsAnswerOwnIdentity == Spec => []AnswersOwnIdentity
<1>1. IdentityInv => AnswersOwnIdentity
  BY DEF IdentityInv, IdentityParts
<1> QED
  BY <1>1, IdentityInit, IdentityStep, PTL DEF Spec

\* A failed refresh is never what a later read joins: what #inFlight holds is
\* awaited by the reader that started it and will take it out.
THEOREM InFlightAwaited == Spec => []InFlightIsAwaited
<1>1. FlightInv => InFlightIsAwaited
  BY DEF FlightInv
<1> QED
  BY <1>1, FlightInit, FlightStep, PTL DEF Spec

-----------------------------------------------------------------------------
(* Expiry and signatures.  Nothing but continuations runs between the end  *)
(* of a refresh and the answers of those who await it, so what they get is *)
(* as new as when it was made: neither the clock nor a signature has come  *)
(* in between.  A snapshot older than the last signature of its network is *)
(* from a refresh that the signature overlapped.                           *)

Covered(s, n) == s.btc < signatures[n] \/ s.unit < signatures[n] => s.by \in overlapped

CalledBefore ==
    \A r \in Readers : /\ calledAt[r].time <= now
                       /\ calledAt[r].signatures <= signatures[call[r].network]

FetchesCovered ==
    \A o \in Readers :
        /\ refresh[o].snapshot # None => refresh[o].stage = "settled"
        /\ Refreshing(o) =>
            /\ refresh[o].btc # None /\ refresh[o].btc < signatures[call[o].network] => o \in overlapped
            /\ refresh[o].unit # None /\ refresh[o].unit < signatures[call[o].network] => o \in overlapped

WaitsCovered ==
    \A r \in Readers :
        (pc[r] = "wait" /\ refresh[waitsFor[r]].snapshot # None) =>
            /\ refresh[waitsFor[r]].snapshot.expiresAt > now
            /\ Covered(refresh[waitsFor[r]].snapshot, call[r].network)

CacheCovered == \A n \in Networks : cache[n] # None => Covered(cache[n], n)

NewParts ==
    /\ CalledBefore /\ FetchesCovered /\ WaitsCovered /\ CacheCovered
    /\ NeverServesExpired /\ StaleOnlyFromOverlap
NewInv == IdentityInv /\ NewParts

LEMMA NewInit == Init => NewInv
<1> SUFFICES ASSUME Init PROVE NewParts
  BY IdentityInit DEF NewInv
<1>1. \A r \in Readers : pc[r] = "idle" /\ refresh[r] = NotStarted /\ answer[r] = None
  BY DEF Init
<1>2. ASSUME NEW r \in Readers PROVE refresh[r].snapshot = None /\ ~Refreshing(r)
  <2>1. refresh[r].snapshot = None /\ refresh[r].stage = "none"
    BY <1>1 DEF NotStarted
  <2> QED
    BY <2>1 DEF Refreshing
<1>3. CalledBefore
  <2> SUFFICES ASSUME NEW r \in Readers
               PROVE  calledAt[r].time <= now /\ calledAt[r].signatures <= signatures[call[r].network]
    BY DEF CalledBefore
  <2>1. call[r].network \in Networks
    BY DEF Init
  <2>2. signatures[call[r].network] = 0 /\ now = 0
    BY <2>1 DEF Init
  <2>3. calledAt[r].time = 0 /\ calledAt[r].signatures = 0
    BY DEF Init
  <2> QED
    BY <2>2, <2>3
<1>4. CacheCovered
  BY DEF Init, CacheCovered
<1> QED
  BY <1>1, <1>2, <1>3, <1>4 DEF NewParts, FetchesCovered, WaitsCovered,
     NeverServesExpired, StaleOnlyFromOverlap

\* What the invariants so far say of the types a step works with.
LEMMA NewTypes ==
    ASSUME NewInv
    PROVE  /\ TInv /\ NewParts /\ IdentityInv /\ FlightInv
           /\ now \in Int /\ \A n \in Networks : signatures[n] \in Int
           /\ \A r \in Readers :
                /\ call[r].network \in Networks
                /\ calledAt[r].time \in Int /\ calledAt[r].signatures \in Int
                /\ pc[r] = "wait" => waitsFor[r] \in Readers
           /\ Counts \subseteq Int
           /\ \A s \in Snapshots : s.btc \in Int /\ s.unit \in Int /\ s.expiresAt \in Int
<1>1. TInv /\ NewParts /\ IdentityInv /\ FlightInv /\ TypeOK
  BY DEF NewInv, IdentityInv, FlightInv, TInv
<1>2. Counts \subseteq Int /\ 0 .. MaxTime \subseteq Int
  BY DEF Counts
<1>3. \A s \in Snapshots : s.btc \in Int /\ s.unit \in Int /\ s.expiresAt \in Int
  BY <1>2 DEF Snapshots
<1> QED
  BY <1>1, <1>2, <1>3 DEF TypeOK, TInv

LEMMA NewReader ==
    ASSUME NewInv, NEW r \in Readers,
           Call(r) \/ Resolve(r) \/ Decide(r) \/ Return(r)
    PROVE  NewParts'
<1>0. NewParts /\ TypeOK /\ FlightInv /\ IdentityInv
  BY NewTypes DEF TInv
<1>a. /\ pc \in [Readers -> {"idle", "resolve", "wait", "done", "failed"}]
      /\ waitsFor \in [Readers -> Readers \cup {None}]
      /\ answer \in [Readers -> Snapshots \cup {None}]
      /\ refresh \in [Readers -> Refreshes]
      /\ cache \in [Networks -> Snapshots \cup {None}]
      /\ calledAt \in [Readers -> [time : 0 .. MaxTime, signatures : Counts]]
  BY <1>0 DEF TypeOK
<1>1. CASE Call(r)
  <2>1. /\ pc[r] = "idle" /\ pc' = [pc EXCEPT ![r] = "resolve"]
        /\ calledAt' = [calledAt EXCEPT ![r] =
                            [time |-> now, signatures |-> signatures[call[r].network]]]
        /\ UNCHANGED <<now, signatures, cache, call, waitsFor, answer, refresh, overlapped>>
    BY <1>1 DEF Call, service
  <2>2. answer[r] = None
    BY <1>0, <2>1 DEF FlightInv, BeforeRefresh
  <2>3. CalledBefore'
    BY <1>0, <1>a, <2>1, NewTypes DEF NewParts, CalledBefore
  <2>4. FetchesCovered' /\ CacheCovered'
    BY <1>0, <2>1 DEF NewParts, FetchesCovered, CacheCovered, Covered, Refreshing
  <2>5. WaitsCovered'
    BY <1>0, <1>a, <2>1 DEF NewParts, WaitsCovered, Covered
  <2>6. NeverServesExpired' /\ StaleOnlyFromOverlap'
    BY <1>0, <1>a, <2>1, <2>2 DEF NewParts, NeverServesExpired, StaleOnlyFromOverlap
  <2> QED
    BY <2>3, <2>4, <2>5, <2>6 DEF NewParts
<1>2. CASE Resolve(r)
  <2>1. /\ pc[r] = "resolve" /\ pc' \in {pc, [pc EXCEPT ![r] = "failed"]}
        /\ UNCHANGED <<now, signatures, cache, call, waitsFor, answer, calledAt, refresh, overlapped>>
    BY <1>2 DEF Resolve, ResolveAccount, ResolveProfile, ResolveFails, service
  <2>2. \A g \in Readers : pc'[g] = "wait" => pc[g] = "wait"
    BY <1>a, <2>1
  <2> QED
    BY <1>0, <2>1, <2>2 DEF NewParts, CalledBefore, FetchesCovered, CacheCovered, WaitsCovered,
       NeverServesExpired, StaleOnlyFromOverlap, Covered, Refreshing
<1>3. CASE ServeCached(r)
  <2>1. /\ pc' = [pc EXCEPT ![r] = "done"]
        /\ answer' = [answer EXCEPT ![r] = cache[call[r].network]]
        /\ cache[call[r].network] # None /\ cache[call[r].network].expiresAt > now
        /\ UNCHANGED <<now, signatures, cache, call, waitsFor, calledAt, refresh, overlapped>>
    BY <1>3 DEF ServeCached, CanServeCached, service
  <2>2. cache[call[r].network] \in Snapshots /\ Covered(cache[call[r].network], call[r].network)
    BY <1>0, <1>a, <2>1, NewTypes DEF NewParts, CacheCovered
  <2>3. CalledBefore' /\ FetchesCovered' /\ CacheCovered'
    BY <1>0, <2>1 DEF NewParts, CalledBefore, FetchesCovered, CacheCovered, Covered, Refreshing
  <2>4. WaitsCovered'
    BY <1>0, <1>a, <2>1 DEF NewParts, WaitsCovered, Covered
  <2>5. NeverServesExpired'
    BY <1>0, <1>a, <2>1, <2>2, NewTypes DEF NewParts, CalledBefore, NeverServesExpired
  <2>6. StaleOnlyFromOverlap'
    BY <1>0, <1>a, <2>1, <2>2, NewTypes DEF NewParts, CalledBefore, StaleOnlyFromOverlap, Covered
  <2> QED
    BY <2>3, <2>4, <2>5, <2>6 DEF NewParts
<1>4. CASE JoinRefresh(r)
  <2>1. /\ pc' = [pc EXCEPT ![r] = "wait"] /\ Resolved(r)
        /\ inFlight[IdentityOf(r)] # None
        /\ waitsFor' = [waitsFor EXCEPT ![r] = inFlight[IdentityOf(r)]]
        /\ UNCHANGED <<now, signatures, cache, call, answer, calledAt, refresh, overlapped>>
    BY <1>4 DEF JoinRefresh, service
  <2> DEFINE o == inFlight[IdentityOf(r)]
  <2>2. IdentityOf(r) \in Identities
    BY <1>0, <2>1, IdentityType
  <2>3. o \in Readers /\ pc[o] = "wait" /\ waitsFor[o] = o /\ IdentityOf(o) = IdentityOf(r)
    BY <1>0, <2>1, <2>2 DEF FlightInv, InFlightIsAwaited, TypeOK
  <2>4. call[o].network = call[r].network
    BY <2>3 DEF IdentityOf
  <2> HIDE DEF o
  <2>5. waitsFor' = [waitsFor EXCEPT ![r] = o]
    BY <2>1 DEF o
  <2>6. CalledBefore' /\ FetchesCovered' /\ CacheCovered' /\ NeverServesExpired' /\ StaleOnlyFromOverlap'
    BY <1>0, <2>1 DEF NewParts, CalledBefore, FetchesCovered, CacheCovered, Covered, Refreshing,
       NeverServesExpired, StaleOnlyFromOverlap
  <2>7. WaitsCovered'
    BY <1>0, <1>a, <2>1, <2>3, <2>4, <2>5 DEF NewParts, WaitsCovered, Covered
  <2> QED
    BY <2>6, <2>7 DEF NewParts
<1>5. CASE StartRefresh(r)
  <2>1. /\ pc[r] = "resolve" /\ pc' = [pc EXCEPT ![r] = "wait"]
        /\ waitsFor' = [waitsFor EXCEPT ![r] = r]
        /\ refresh' = [refresh EXCEPT ![r].stage = "verify"]
        /\ UNCHANGED <<now, signatures, cache, call, answer, calledAt, overlapped>>
    BY <1>5 DEF StartRefresh
  <2>2. refresh[r].btc = None /\ refresh[r].unit = None /\ refresh[r].snapshot = None
        /\ refresh[r].stage = "none"
    BY <1>0, <2>1 DEF FlightInv, BeforeRefresh, NotStarted
  <2>3. /\ refresh'[r].btc = None /\ refresh'[r].unit = None /\ refresh'[r].snapshot = None
        /\ \A g \in Readers : g # r => refresh'[g] = refresh[g]
        /\ \A g \in Readers : refresh'[g].snapshot = refresh[g].snapshot
    BY <1>a, <2>1, <2>2 DEF Refreshes
  <2>4. CalledBefore' /\ CacheCovered' /\ NeverServesExpired' /\ StaleOnlyFromOverlap'
    BY <1>0, <2>1 DEF NewParts, CalledBefore, CacheCovered, Covered,
       NeverServesExpired, StaleOnlyFromOverlap
  <2>5. FetchesCovered'
    BY <1>0, <2>1, <2>3 DEF NewParts, FetchesCovered, Refreshing
  <2>6. WaitsCovered'
    BY <1>0, <1>a, <2>1, <2>3, NewTypes DEF NewParts, WaitsCovered, Covered
  <2> QED
    BY <2>4, <2>5, <2>6 DEF NewParts
<1>6. CASE Return(r)
  <2>1. /\ pc[r] = "wait" /\ \A g \in Readers : pc'[g] = "wait" => pc[g] = "wait"
        /\ answer' = [answer EXCEPT ![r] = refresh[waitsFor[r]].snapshot]
        /\ UNCHANGED <<now, signatures, cache, call, waitsFor, calledAt, refresh, overlapped>>
    BY <1>6, <1>a DEF Return
  <2> DEFINE s == refresh[waitsFor[r]].snapshot
  <2>2. s \in Snapshots \cup {None}
    BY <1>a, <2>1, NewTypes DEF Refreshes
  <2>3. s # None => s.expiresAt > now /\ Covered(s, call[r].network)
    BY <1>0, <2>1 DEF NewParts, WaitsCovered
  <2> HIDE DEF s
  <2>4. answer' = [answer EXCEPT ![r] = s]
    BY <2>1 DEF s
  <2>5. CalledBefore' /\ FetchesCovered' /\ CacheCovered' /\ WaitsCovered'
    BY <1>0, <2>1 DEF NewParts, CalledBefore, FetchesCovered, CacheCovered, WaitsCovered,
       Covered, Refreshing
  <2>6. NeverServesExpired'
    BY <1>0, <1>a, <2>1, <2>2, <2>3, <2>4, NewTypes DEF NewParts, CalledBefore, NeverServesExpired
  <2>7. StaleOnlyFromOverlap'
    BY <1>0, <1>a, <2>1, <2>2, <2>3, <2>4, NewTypes
       DEF NewParts, CalledBefore, StaleOnlyFromOverlap, Covered
  <2> QED
    BY <2>5, <2>6, <2>7 DEF NewParts
<1> QED
  BY <1>1, <1>2, <1>3, <1>4, <1>5, <1>6 DEF Decide

LEMMA NewRefresh ==
    ASSUME NewInv, NEW o \in Readers,
           \/ EndpointsVerified(o) \/ FetchBtc(o) \/ FetchUnit(o)
           \/ Settle(o) \/ RefreshFails(o)
    PROVE  NewParts'
<1>0. NewParts /\ TypeOK /\ FlightInv /\ IdentityInv
  BY NewTypes DEF TInv
<1>a. /\ refresh \in [Readers -> Refreshes] /\ refresh[o] \in Refreshes
      /\ cache \in [Networks -> Snapshots \cup {None}]
  BY <1>0 DEF TypeOK
<1>1. /\ Refreshing(o) /\ refresh[o].snapshot = None
      /\ UNCHANGED <<now, signatures, pc, call, waitsFor, answer, calledAt, overlapped>>
      /\ \A g \in Readers : g # o => refresh'[g] = refresh[g]
  BY <1>0, <1>a DEF NewParts, FetchesCovered, EndpointsVerified, FetchBtc, FetchUnit, Settle,
     RefreshFails, Refreshing, reader
<1>2. CalledBefore' /\ NeverServesExpired' /\ StaleOnlyFromOverlap'
  BY <1>0, <1>1 DEF NewParts, CalledBefore, NeverServesExpired, StaleOnlyFromOverlap
<1>3. CASE EndpointsVerified(o) \/ FetchBtc(o) \/ FetchUnit(o) \/ RefreshFails(o)
  <2>1. refresh'[o].snapshot = None /\ UNCHANGED cache
    BY <1>a, <1>1, <1>3 DEF EndpointsVerified, FetchBtc, FetchUnit, RefreshFails, service, Refreshes
  <2>2. /\ refresh'[o].btc \in {refresh[o].btc, signatures[call[o].network]}
        /\ refresh'[o].unit \in {refresh[o].unit, signatures[call[o].network]}
    BY <1>a, <1>3 DEF EndpointsVerified, FetchBtc, FetchUnit, RefreshFails, Refreshes
  <2>3. FetchesCovered'
    BY <1>0, <1>1, <2>1, <2>2, NewTypes DEF NewParts, FetchesCovered, Refreshing
  <2>4. WaitsCovered'
    BY <1>0, <1>1, <2>1, NewTypes DEF NewParts, WaitsCovered, Covered
  <2>5. CacheCovered'
    BY <1>0, <1>1, <2>1 DEF NewParts, CacheCovered, Covered
  <2> QED
    BY <1>2, <2>3, <2>4, <2>5 DEF NewParts
<1>4. CASE Settle(o)
  <2> DEFINE s == SnapshotOf(o)
  <2>1. /\ refresh[o].btc # None /\ refresh[o].unit # None
        /\ refresh' = [refresh EXCEPT ![o].stage = "settled", ![o].snapshot = s]
        /\ cache' = [cache EXCEPT ![call[o].network] = s]
    BY <1>4 DEF Settle
  <2>2. s.expiresAt > now /\ s.btc = refresh[o].btc /\ s.unit = refresh[o].unit /\ s.by = o
    BY BoundsAssumption, NewTypes DEF SnapshotOf
  <2>3. Covered(s, call[o].network)
    BY <1>0, <1>1, <2>1, <2>2 DEF NewParts, FetchesCovered, Covered
  <2> HIDE DEF s
  <2>4. refresh'[o].snapshot = s /\ refresh'[o].stage = "settled"
    BY <1>a, <2>1 DEF Refreshes
  <2>5. FetchesCovered'
    BY <1>0, <1>1, <2>4 DEF NewParts, FetchesCovered, Refreshing
  <2>6. \A r \in Readers : pc[r] = "wait" /\ waitsFor[r] = o => call[r].network = call[o].network
    BY <1>0 DEF IdentityInv, IdentityParts, WaitsForOwn, IdentityOf
  <2>7. WaitsCovered'
    BY <1>0, <1>1, <2>2, <2>3, <2>4, <2>6, NewTypes DEF NewParts, WaitsCovered, Covered
  <2>8. CacheCovered'
    BY <1>0, <1>a, <1>1, <2>1, <2>3, NewTypes DEF NewParts, CacheCovered, Covered
  <2> QED
    BY <1>2, <2>5, <2>7, <2>8 DEF NewParts
<1> QED
  BY <1>3, <1>4

LEMMA NewEnvironment == NewInv /\ Environment => NewParts'
<1> SUFFICES ASSUME NewInv, Environment PROVE NewParts'
  OBVIOUS
<1>0. NewParts /\ TypeOK /\ FlightInv /\ IdentityInv
  BY NewTypes DEF TInv
<1>a. /\ signatures \in [Networks -> Counts] /\ cache \in [Networks -> Snapshots \cup {None}]
      /\ overlapped \subseteq Readers /\ refresh \in [Readers -> Refreshes]
  BY <1>0 DEF TypeOK
<1>1. UNCHANGED <<pc, call, waitsFor, answer, calledAt, refresh>> /\ Quiet
  BY DEF Environment, ImportOrRemoveKey, SaveEndpoint, InvalidateWalletInventory,
         SignAndInvalidate, InvalidateAll, Tick, service, reader
\* Nobody waits for a refresh that is over.
<1>2. \A r \in Readers : pc[r] = "wait" => refresh[waitsFor[r]].snapshot = None
  BY <1>0, <1>1, NewTypes DEF NewParts, FetchesCovered, Quiet, Over
<1>3. WaitsCovered'
  BY <1>1, <1>2 DEF WaitsCovered
<1>4. CASE \E n \in Networks : SignAndInvalidate(n)
  <2>1. PICK n \in Networks : SignAndInvalidate(n)
    BY <1>4
  <2>2. /\ signatures' = [signatures EXCEPT ![n] = signatures[n] + 1]
        /\ cache' = [cache EXCEPT ![n] = None]
        /\ overlapped' = overlapped \cup {o \in Readers : Refreshing(o) /\ call[o].network = n}
        /\ UNCHANGED now
    BY <2>1 DEF SignAndInvalidate, Invalidated
  <2>3. \A m \in Networks : signatures[m] <= signatures'[m] /\ (m # n => signatures'[m] = signatures[m])
    BY <1>a, <2>2, NewTypes
  <2>4. CalledBefore'
    <3>1. \A r \in Readers : calledAt[r].signatures <= signatures'[call[r].network]
      <4>1. \A m \in Networks : signatures[m] \in Int /\ signatures'[m] \in Int
        BY <1>a, <2>2, NewTypes
      <4> QED
        BY <1>0, <2>3, <4>1, NewTypes DEF NewParts, CalledBefore
    <3> QED
      BY <1>0, <1>1, <2>2, <3>1 DEF NewParts, CalledBefore
  <2>5. FetchesCovered'
    <3> SUFFICES ASSUME NEW o \in Readers
                 PROVE  /\ refresh[o].snapshot # None => refresh[o].stage = "settled"
                        /\ Refreshing(o) =>
                           /\ refresh[o].btc # None /\ refresh[o].btc < signatures'[call[o].network]
                                => o \in overlapped'
                           /\ refresh[o].unit # None /\ refresh[o].unit < signatures'[call[o].network]
                                => o \in overlapped'
      BY <1>1 DEF FetchesCovered, Refreshing
    <3>1. CASE call[o].network = n
      BY <1>0, <2>2, <3>1 DEF NewParts, FetchesCovered
    <3>2. CASE call[o].network # n
      BY <1>0, <2>2, <2>3, <3>2, NewTypes DEF NewParts, FetchesCovered
    <3> QED
      BY <3>1, <3>2
  <2>6. CacheCovered'
    BY <1>0, <1>a, <2>2, <2>3 DEF NewParts, CacheCovered, Covered
  <2>7. NeverServesExpired'
    BY <1>0, <1>1 DEF NewParts, NeverServesExpired
  <2>8. StaleOnlyFromOverlap'
    BY <1>0, <1>1, <2>2 DEF NewParts, StaleOnlyFromOverlap
  <2> QED
    BY <1>3, <2>4, <2>5, <2>6, <2>7, <2>8 DEF NewParts
<1>5. CASE ~(\E n \in Networks : SignAndInvalidate(n))
  <2>1. /\ UNCHANGED <<signatures, overlapped>> /\ now' \in {now, now + 1}
        /\ \A n \in Networks : cache'[n] \in {cache[n], None}
    BY <1>a, <1>5 DEF Environment, ImportOrRemoveKey, SaveEndpoint, InvalidateWalletInventory,
       InvalidateAll, Tick, Invalidated, service
  <2>2. CalledBefore'
    BY <1>0, <1>1, <2>1, NewTypes DEF NewParts, CalledBefore
  <2>3. FetchesCovered' /\ CacheCovered' /\ NeverServesExpired' /\ StaleOnlyFromOverlap'
    BY <1>0, <1>1, <2>1 DEF NewParts, FetchesCovered, CacheCovered, Covered, Refreshing,
       NeverServesExpired, StaleOnlyFromOverlap
  <2> QED
    BY <1>3, <2>2, <2>3 DEF NewParts
<1> QED
  BY <1>4, <1>5

LEMMA NewStep == NewInv /\ [Next]_vars => NewInv'
<1> SUFFICES ASSUME NewInv, [Next]_vars PROVE NewParts'
  BY IdentityStep DEF NewInv
<1>1. CASE UNCHANGED vars
  BY <1>1 DEF vars, service, reader, NewInv, NewParts, CalledBefore, FetchesCovered, WaitsCovered,
     CacheCovered, Covered, Refreshing, NeverServesExpired, StaleOnlyFromOverlap
<1> QED
  BY <1>1, NextCases, NewReader, NewRefresh, NewEnvironment

\* No read returns a snapshot that had expired when the read was made, whether
\* it came from the cache or from a refresh the read waited for.
THEOREM ReadsNeverExpired == Spec => []NeverServesExpired
<1>1. NewInv => NeverServesExpired
  BY DEF NewInv, NewParts
<1> QED
  BY <1>1, NewInit, NewStep, PTL DEF Spec

\* What a read returns lacks a signature made before the read only if a refresh
\* of it was in progress when the signature was made, however many signatures,
\* invalidations and reads there are.
THEOREM ReadsStaleOnlyFromOverlap == Spec => []StaleOnlyFromOverlap
<1>1. NewInv => StaleOnlyFromOverlap
  BY DEF NewInv, NewParts
<1> QED
  BY <1>1, NewInit, NewStep, PTL DEF Spec

=============================================================================
