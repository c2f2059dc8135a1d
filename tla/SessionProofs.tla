---------------------------- MODULE SessionProofs ----------------------------
(***************************************************************************)
(* Theorems about SnapSession for any number of requests at once, any      *)
(* calls, deployments, keys and bound of the history, and about what the   *)
(* Home page draws meanwhile (HomeView), for any number of renders.  Each  *)
(* read of a render is true of the state until something the page displays *)
(* is changed.                                                             *)
(***************************************************************************)
EXTENDS HomeView, StoredFieldsProofs

-----------------------------------------------------------------------------
(* What holds of one request, whatever the others do.                      *)

\* The methods that reach a stage.
StageOf(r) ==
    /\ pc[r] \in {"gate", "remember"} => Method(r) \in SelectedMethods
    /\ pc[r] = "resolve" => Method(r) \in SignMethods \cup {"getAccounts"}
    /\ pc[r] \in {"verify", "pending", "append", "origin", "completed"} => Signs(r)
    /\ pc[r] = "inventory" => Method(r) = "getWalletInventory"
    /\ pc[r] = "unprompted" => Method(r) = "signPsbtUnprompted"
    /\ pc[r] = "dialog" => Method(r) \in PromptedMethods \cup {"switchNetwork"}
    /\ pc[r] \in {"readSwitch", "select"} => Method(r) = "switchNetwork"
    /\ pc[r] \in {"screen", "probe", "write"} => Method(r) \in FormMethods

\* Whatever goes on has passed the synchronous checks.
AuthorizedOnly(r) ==
    pc[r] \notin {"idle", "failed"} /\ Method(r) \notin FormMethods => Authorized(call[r])

\* A signature is made after the answer of the user.
SignedLate(r) ==
    SignatureOf(r) # {} =>
        /\ Signs(r) /\ Authorized(call[r])
        /\ pc[r] \in {"append", "origin", "completed"} \cup Ended

\* Before the gate nothing has been resolved, shown or announced.
Untouched(r) ==
    pc[r] \in {"idle", "gate", "screen", "readSwitch"} =>
        chosen[r] = None /\ shown[r] = None /\ notices[r] = {}

Gated == {"resolve", "verify", "remember", "inventory", "pending", "dialog", "unprompted",
          "append", "origin", "completed", "probe", "write"}

GatePassed(r) ==
    Method(r) # "switchNetwork" /\ (pc[r] \in Gated \/ Effects(r)) => gateSelection[r] = Network(r)

\* The account that was resolved is the one shown, and the one that signs.
Shows(r) ==
    /\ pc[r] \in {"verify", "pending", "unprompted"} => chosen[r] \in Accounts
    /\ pc[r] \in {"remember", "dialog"} /\ Signs(r) => chosen[r] \in Accounts
    /\ pc[r] = "dialog" /\ Signs(r) => shown[r] = [network |-> Network(r), account |-> chosen[r]]
    /\ pc[r] \in {"dialog", "select"} /\ Method(r) = "switchNetwork" => shown[r].to = Network(r)
    /\ pc[r] = "select" => r \in approved

\* What was signed is what was shown and approved.
Honest(r) ==
    \A s \in SignatureOf(r) :
        /\ s.network = Network(r)
        /\ Method(r) \in PromptedMethods =>
            r \in approved /\ shown[r] = [network |-> s.network, account |-> s.account]

Unanswered == {"idle", "gate", "resolve", "verify", "remember", "inventory", "pending",
               "dialog", "readSwitch"}

\* Until the user answers, and after a rejection, there is at most one notice.
Silent(r) ==
    /\ pc[r] \in Unanswered => r \notin approved /\ notices[r] \subseteq {"pending"}
    /\ r \in rejected =>
        /\ pc[r] = "failed" /\ r \notin approved
        /\ SignatureOf(r) = {} /\ notices[r] \subseteq {"pending"}

Signed(r) ==
    pc[r] \in {"append", "origin", "completed"} \/ (pc[r] = "returned" /\ Signs(r))
        => SignatureOf(r) # {}

RequestInv(r) ==
    /\ StageOf(r) /\ AuthorizedOnly(r) /\ SignedLate(r) /\ Untouched(r) /\ GatePassed(r)
    /\ Shows(r) /\ Honest(r) /\ Silent(r) /\ Signed(r)

-----------------------------------------------------------------------------
(* What holds of the store: keys and history are sequences of valid        *)
(* records, and every entry of the history is of a signature.              *)

Entries == [id : EntryIds, at : Int, valid : {TRUE}]
TrueEntries == {e \in Entries : \E s \in signatures : s.request = e.id}

StoreInv ==
    /\ keys \in Seq(KeyRecords)
    /\ actions \in Seq(TrueEntries) /\ Len(actions) <= MaxRecentActions

Kept(r) ==
    pc[r] \in {"origin", "completed"} \/ (pc[r] = "returned" /\ Signs(r))
        => Recorded(r) \/ Len(actions) = MaxRecentActions

SessionInv ==
    /\ TypeOK /\ StoreInv
    /\ \A r \in Requests : RequestInv(r) /\ Kept(r)

-----------------------------------------------------------------------------
(* A step is of one request and leaves the others as they are.             *)

RequestStep(r) ==
    Receive(r) \/ RpcStep(r) \/ SwitchStep(r) \/ FormStep(r) \/ RejectDialog(r) \/ Fail(r)

\* The request itself, but for its stage.
Alike(r) ==
    /\ call' = call
    /\ chosen'[r] = chosen[r] /\ shown'[r] = shown[r] /\ notices'[r] = notices[r]
    /\ gateSelection'[r] = gateSelection[r]
    /\ (r \in approved') = (r \in approved) /\ (r \in rejected') = (r \in rejected)
    /\ SignatureOf(r)' = SignatureOf(r)

LEMMA NextCases ==
    ASSUME [Next]_vars
    PROVE  (\E r \in Requests : RequestStep(r)) \/ UNCHANGED vars
  BY DEF Next, Finished, RequestStep

LEMMA OthersAlike ==
    ASSUME TypeOK, NEW r \in Requests, RequestStep(r), NEW q \in Requests, q # r
    PROVE  Alike(q) /\ pc'[q] = pc[q]
<1>1. /\ pc \in [Requests -> Stages] /\ chosen \in [Requests -> Accounts \cup {None}]
      /\ notices \in [Requests -> SUBSET {"pending", "completed", "failed"}]
      /\ gateSelection \in [Requests -> AllowedDeployments \cup {None}]
      /\ shown \in [Requests -> SigningDialogs \cup SwitchDialogs \cup {None}]
  BY DEF TypeOK
<1>2. /\ call' = call /\ pc'[q] = pc[q] /\ chosen'[q] = chosen[q]
      /\ gateSelection'[q] = gateSelection[q]
  BY <1>1 DEF RequestStep, Receive, RpcStep, SwitchStep, FormStep, RejectDialog, Fail, Goto,
     CheckSelection, ResolveAccount, VerifyPrevouts, RememberSession, ReturnInventory,
     NotifyPending, ApproveSigning, SignUnprompted, Sign, AppendRecentAction, AppendOrigin,
     NotifyCompleted, ReadForSwitch, ApproveSwitch, SetSelectedNetwork, CheckScreen,
     ProbeEndpoint, WriteForm
<1>3. /\ notices'[q] = notices[q]
      /\ (q \in approved') = (q \in approved) /\ (q \in rejected') = (q \in rejected)
  BY <1>1 DEF RequestStep, Receive, RpcStep, SwitchStep, FormStep, RejectDialog, Fail, Notify,
     CheckSelection, ResolveAccount, VerifyPrevouts, RememberSession, ReturnInventory,
     NotifyPending, ApproveSigning, SignUnprompted, Sign, AppendRecentAction, AppendOrigin,
     NotifyCompleted, ReadForSwitch, ApproveSwitch, SetSelectedNetwork, CheckScreen,
     ProbeEndpoint, WriteForm, user
<1>4. shown'[q] = shown[q]
  BY <1>1 DEF RequestStep, Receive, RpcStep, SwitchStep, FormStep, RejectDialog, Fail,
     CheckSelection, ResolveAccount, VerifyPrevouts, RememberSession, ReturnInventory,
     NotifyPending, ApproveSigning, SignUnprompted, Sign, AppendRecentAction, AppendOrigin,
     NotifyCompleted, ReadForSwitch, ApproveSwitch, SetSelectedNetwork, CheckScreen,
     ProbeEndpoint, WriteForm
<1>5. SignatureOf(q)' = SignatureOf(q)
  BY DEF RequestStep, Receive, RpcStep, SwitchStep, FormStep, RejectDialog, Fail, SignatureOf,
     CheckSelection, ResolveAccount, VerifyPrevouts, RememberSession, ReturnInventory,
     NotifyPending, ApproveSigning, SignUnprompted, Sign, AppendRecentAction, AppendOrigin,
     NotifyCompleted, ReadForSwitch, ApproveSwitch, SetSelectedNetwork, CheckScreen,
     ProbeEndpoint, WriteForm
<1> QED
  BY <1>2, <1>3, <1>4, <1>5 DEF Alike

LEMMA AlikeKeeps ==
    ASSUME NEW q \in Requests, RequestInv(q), Alike(q), pc'[q] = pc[q]
    PROVE  RequestInv(q)'
<1>1. StageOf(q)' /\ AuthorizedOnly(q)' /\ SignedLate(q)'
  BY DEF RequestInv, Alike, StageOf, AuthorizedOnly, SignedLate, Method, Signs
<1>2. Untouched(q)' /\ GatePassed(q)' /\ Shows(q)'
  BY DEF RequestInv, Alike, Untouched, GatePassed, Shows, Effects, Method, Network, Signs
<1>3. Honest(q)' /\ Silent(q)' /\ Signed(q)'
  BY DEF RequestInv, Alike, Honest, Silent, Signed, Method, Network, Signs
<1> QED
  BY <1>1, <1>2, <1>3 DEF RequestInv

-----------------------------------------------------------------------------
(* The account of a network.                                               *)

OldestFirst(s) ==
    {p \in (DOMAIN s) \X (DOMAIN s) :
        \/ s[p[1]].created < s[p[2]].created
        \/ s[p[1]].created = s[p[2]].created /\ p[1] <= p[2]}

\* A network with key overrides has a newest one: the choice of
\* EffectiveKeyOverride is defined.
LEMMA NewestKey ==
    ASSUME NEW s \in Seq(KeyRecords), NEW n, KeysOf(s, n) # {}
    PROVE  EffectiveKeyOverride(s, n) \in KeyRecords
<1> DEFINE I == KeysOf(s, n)
           Newest(i) == \A j \in I : \/ s[j].created < s[i].created
                                     \/ s[j].created = s[i].created /\ j <= i
<1>1. /\ I \in SUBSET (DOMAIN s) /\ Len(s) \in Nat /\ DOMAIN s = 1 .. Len(s)
      /\ \A i \in I : i \in Int /\ s[i] \in KeyRecords
  BY LenProperties DEF KeysOf
<1>2. IsFiniteSet(I) /\ Cardinality(I) \in 1 .. Cardinality(I)
  <2>1. IsFiniteSet(I)
    <3>1. IsFiniteSet(1 .. Len(s))
      BY <1>1, FS_Interval
    <3> HIDE DEF I
    <3> QED
      BY <1>1, <3>1, FS_Subset
  <2>2. Cardinality(I) \in Nat /\ Cardinality(I) # 0
    BY <2>1, FS_CardinalityType, FS_EmptySet
  <2> QED
    BY <2>1, <2>2
<1>3. TotalOrder(OldestFirst(s), I)
  <2> DEFINE age(i) == s[i].created
  <2>1. \A i, j \in I : <<i, j>> \in OldestFirst(s) <=>
            age(i) < age(j) \/ (age(i) = age(j) /\ i <= j)
    BY <1>1 DEF OldestFirst
  <2>2. \A i \in I : i \in Int /\ age(i) \in Int
    BY <1>1 DEF KeyRecords
  <2> HIDE DEF I, age
  <2>3. \A i, j, k \in I : <<i, j>> \in OldestFirst(s) /\ <<j, k>> \in OldestFirst(s)
            => <<i, k>> \in OldestFirst(s)
    BY <2>1, <2>2
  <2>4. /\ \A i \in I : <<i, i>> \in OldestFirst(s)
        /\ \A i, j \in I : <<i, j>> \in OldestFirst(s) \/ <<j, i>> \in OldestFirst(s)
        /\ \A i, j \in I : <<i, j>> \in OldestFirst(s) /\ <<j, i>> \in OldestFirst(s) => i = j
    BY <2>1, <2>2
  <2> QED
    BY <2>3, <2>4 DEF TotalOrder
<1>4. PICK i \in I : Cardinality(UpTo(I, OldestFirst(s), i)) = Cardinality(I)
  BY <1>2, <1>3, EveryRankTaken
<1>5. UpTo(I, OldestFirst(s), i) = I
  <2>1. UpTo(I, OldestFirst(s), i) \in SUBSET I
    BY DEF UpTo
  <2> QED
    BY <1>2, <1>4, <2>1, FS_Subset
<1>6. Newest(i)
  BY <1>5 DEF UpTo, OldestFirst
<1>7. (CHOOSE j \in I : Newest(j)) \in I
  BY <1>6
<1>8. EffectiveKeyOverride(s, n) = s[CHOOSE j \in I : Newest(j)]
  BY DEF EffectiveKeyOverride
<1> QED
  BY <1>1, <1>7, <1>8

LEMMA ActiveAccountType ==
    ASSUME StoreInv, NEW n
    PROVE  ActiveAccount(n) \in Accounts
<1>1. CASE KeysOf(keys, n) = {}
  BY <1>1 DEF ActiveAccount, EffectiveKeyOverride, Accounts
<1>2. CASE KeysOf(keys, n) # {}
  BY <1>2, NewestKey DEF ActiveAccount, StoreInv, KeyRecords, Accounts
<1> QED
  BY <1>1, <1>2

-----------------------------------------------------------------------------
(* What a step does to its own request.                                    *)

\* The part of a request no step changes.
LEMMA CallFixed ==
    ASSUME NEW r \in Requests, RequestStep(r)
    PROVE  call' = call
  BY DEF RequestStep, Receive, RpcStep, SwitchStep, FormStep, RejectDialog, Fail,
     CheckSelection, ResolveAccount, VerifyPrevouts, RememberSession, ReturnInventory,
     NotifyPending, ApproveSigning, SignUnprompted, Sign, AppendRecentAction, AppendOrigin,
     NotifyCompleted, ReadForSwitch, ApproveSwitch, SetSelectedNetwork, CheckScreen,
     ProbeEndpoint, WriteForm

\* Steps that only move the request.
LEMMA QuietKeeps ==
    ASSUME TypeOK, NEW r \in Requests, RequestInv(r), Alike(r),
           \/ Receive(r) \/ VerifyPrevouts(r) \/ RememberSession(r) \/ ReturnInventory(r)
           \/ AppendRecentAction(r) \/ AppendOrigin(r) \/ SetSelectedNetwork(r)
           \/ ProbeEndpoint(r) \/ WriteForm(r)
    PROVE  RequestInv(r)'
<1> USE DEF RequestInv, Alike, Method, Network, Signs, Goto, Ended
<1>1. pc \in [Requests -> Stages] /\ call[r] \in Calls
  BY DEF TypeOK
<1>2. CASE Receive(r)
  <2>1. \/ pc'[r] = "failed"
        \/ pc'[r] = FirstStage(call[r]) /\ (Method(r) \in FormMethods \/ Authorized(call[r]))
    BY <1>1, <1>2 DEF Receive
  <2>2. \/ pc'[r] = "failed"
        \/ pc'[r] = "gate" /\ Method(r) \in SelectedMethods
        \/ pc'[r] = "readSwitch" /\ Method(r) = "switchNetwork"
        \/ pc'[r] = "screen" /\ Method(r) \in FormMethods
    BY <1>1, <2>1, CallsAssumption DEF FirstStage, SelectedMethods, SignMethods, PromptedMethods, FormMethods
  <2>3. pc[r] = "idle" /\ call' = call
    BY <1>2 DEF Receive
  <2>4. StageOf(r)' /\ AuthorizedOnly(r)' /\ SignedLate(r)' /\ Untouched(r)'
    BY <2>1, <2>2, <2>3 DEF StageOf, AuthorizedOnly, SignedLate, Untouched
  <2>5. GatePassed(r)' /\ Shows(r)' /\ Honest(r)'
    BY <2>2, <2>3 DEF GatePassed, Shows, Honest, Effects, Gated, Untouched, SignedLate
  <2>6. Silent(r)' /\ Signed(r)'
    BY <2>2, <2>3 DEF Silent, Signed, Unanswered
  <2> QED
    BY <2>4, <2>5, <2>6
<1>3. CASE ~Receive(r)
  <2> DEFINE Moves(a, b) == pc[r] = a /\ pc'[r] = b
  <2>1. \/ Moves("verify", "remember")
        \/ Moves("remember", "pending") /\ Signs(r)
        \/ Moves("remember", "returned") /\ Method(r) = "getAccounts"
        \/ Moves("remember", "inventory") /\ Method(r) = "getWalletInventory"
        \/ Moves("inventory", "returned") \/ Moves("append", "origin")
        \/ Moves("origin", "completed") \/ Moves("select", "returned")
        \/ Moves("probe", "write") \/ Moves("write", "returned")
    <3>1. RememberSession(r) => Method(r) \in SelectedMethods
      BY DEF RememberSession, StageOf
    <3> QED
      BY <1>1, <1>3, <3>1 DEF VerifyPrevouts, RememberSession, ReturnInventory,
         AppendRecentAction, AppendOrigin, SetSelectedNetwork, ProbeEndpoint, WriteForm,
         SelectedMethods, SignMethods, PromptedMethods
  <2>2. StageOf(r)'
    BY <2>1 DEF StageOf, SelectedMethods
  <2>3. AuthorizedOnly(r)' /\ SignedLate(r)' /\ Untouched(r)'
    BY <2>1 DEF AuthorizedOnly, SignedLate, Untouched
  <2>4. GatePassed(r)' /\ Honest(r)'
    BY <2>1 DEF GatePassed, Honest, Effects, Gated
  <2>5. Shows(r)'
    BY <2>1 DEF Shows
  <2>6. Silent(r)'
    BY <2>1 DEF Silent, Unanswered
  <2>7. Signed(r)'
    BY <2>1 DEF Signed, StageOf, SignMethods, PromptedMethods, FormMethods
  <2> QED
    BY <2>2, <2>3, <2>4, <2>5, <2>6, <2>7
<1> QED
  BY <1>2, <1>3

\* The gates and the account.
LEMMA ResolutionKeeps ==
    ASSUME TypeOK, StoreInv, NEW r \in Requests, RequestInv(r),
           CheckSelection(r) \/ CheckScreen(r) \/ ResolveAccount(r)
    PROVE  RequestInv(r)'
<1> USE DEF RequestInv, Method, Network, Signs, Goto, Ended
<1>1. /\ pc \in [Requests -> Stages] /\ call[r] \in Calls
      /\ chosen \in [Requests -> Accounts \cup {None}]
      /\ notices \in [Requests -> SUBSET {"pending", "completed", "failed"}]
      /\ gateSelection \in [Requests -> AllowedDeployments \cup {None}]
  BY DEF TypeOK
<1>2. CASE CheckSelection(r) \/ CheckScreen(r)
  <2> DEFINE Moves(a, b) == pc[r] = a /\ pc'[r] = b
  <2>1. /\ call' = call /\ chosen' = chosen /\ shown' = shown /\ notices' = notices
        /\ approved' = approved /\ rejected' = rejected /\ SignatureOf(r)' = SignatureOf(r)
    BY <1>2 DEF CheckSelection, CheckScreen, user, SignatureOf
  <2>2. /\ gateSelection'[r] = selection
        /\ \/ /\ pc[r] = "gate"
              /\ \/ pc'[r] = "failed"
                 \/ pc'[r] = "remember" /\ Method(r) = "getWalletInventory" /\ Network(r) = selection
                 \/ pc'[r] = "resolve" /\ Method(r) # "getWalletInventory" /\ Network(r) = selection
           \/ /\ pc[r] = "screen"
              /\ pc'[r] \in {"returned"} \/ (pc'[r] \in {"probe", "write"} /\ Network(r) = selection)
    BY <1>1, <1>2 DEF CheckSelection, CheckScreen
  <2>3. chosen[r] = None /\ shown[r] = None /\ notices[r] = {} /\ SignatureOf(r) = {}
    BY <2>2 DEF Untouched, SignedLate
  <2>4. StageOf(r)' /\ AuthorizedOnly(r)'
    BY <2>1, <2>2 DEF StageOf, AuthorizedOnly, SelectedMethods
  <2>5. SignedLate(r)' /\ Untouched(r)' /\ Honest(r)'
    BY <2>1, <2>2, <2>3 DEF SignedLate, Untouched, Honest
  <2>6. GatePassed(r)'
    BY <2>1, <2>2, <2>3 DEF GatePassed, Effects, Gated
  <2>7. Shows(r)'
    BY <2>1, <2>2 DEF Shows, SignMethods, PromptedMethods
  <2>8. Silent(r)' /\ Signed(r)'
    BY <2>1, <2>2, <2>3 DEF Silent, Signed, Unanswered, StageOf, SignMethods, PromptedMethods, FormMethods
  <2> QED
    BY <2>4, <2>5, <2>6, <2>7, <2>8
<1>3. CASE ResolveAccount(r)
  <2>1. /\ call' = call /\ shown' = shown /\ gateSelection' = gateSelection
        /\ approved' = approved /\ rejected' = rejected /\ SignatureOf(r)' = SignatureOf(r)
    BY <1>3 DEF ResolveAccount, user, SignatureOf
  <2>2. /\ pc[r] = "resolve" /\ chosen'[r] \in Accounts
        /\ \/ pc'[r] = "failed"
           \/ /\ pc'[r] \in {"remember", "verify"} /\ notices'[r] = notices[r]
              /\ pc'[r] = "verify" => Method(r) \notin {"signMessage", "getAccounts"}
    BY <1>1, <1>3, ActiveAccountType DEF ResolveAccount, Notify
  <2>3. SignatureOf(r) = {} /\ r \notin approved /\ r \notin rejected /\ notices[r] \subseteq {"pending"}
    BY <2>2 DEF Silent, Unanswered, SignedLate
  <2>4. StageOf(r)' /\ AuthorizedOnly(r)'
    BY <2>1, <2>2 DEF StageOf, AuthorizedOnly, SelectedMethods, SignMethods, PromptedMethods, FormMethods
  <2>5. SignedLate(r)' /\ Untouched(r)' /\ Honest(r)'
    BY <2>1, <2>2, <2>3 DEF SignedLate, Untouched, Honest
  <2>6. GatePassed(r)'
    BY <2>1, <2>2 DEF GatePassed, Effects, Gated
  <2>7. Shows(r)'
    BY <2>1, <2>2 DEF Shows
  <2>8. Silent(r)' /\ Signed(r)'
    BY <2>1, <2>2, <2>3 DEF Silent, Signed, Unanswered
  <2> QED
    BY <2>4, <2>5, <2>6, <2>7, <2>8
<1> QED
  BY <1>2, <1>3

\* The dialogs and their answers.
LEMMA DialogKeeps ==
    ASSUME TypeOK, NEW r \in Requests, RequestInv(r),
           NotifyPending(r) \/ ReadForSwitch(r) \/ ApproveSwitch(r) \/ RejectDialog(r)
    PROVE  RequestInv(r)'
<1> USE DEF RequestInv, Method, Network, Signs, Goto, Ended
<1>1. /\ pc \in [Requests -> Stages] /\ call[r] \in Calls
      /\ chosen \in [Requests -> Accounts \cup {None}]
      /\ shown \in [Requests -> SigningDialogs \cup SwitchDialogs \cup {None}]
      /\ notices \in [Requests -> SUBSET {"pending", "completed", "failed"}]
  BY DEF TypeOK
<1>2. call' = call /\ chosen' = chosen /\ gateSelection' = gateSelection
      /\ SignatureOf(r)' = SignatureOf(r) /\ SignatureOf(r) = {}
  <2>1. SignatureOf(r) = {}
    BY DEF NotifyPending, ReadForSwitch, ApproveSwitch, RejectDialog, SignedLate
  <2> QED
    BY <2>1 DEF NotifyPending, ReadForSwitch, ApproveSwitch, RejectDialog, SignatureOf
<1>3. CASE NotifyPending(r)
  <2>1. /\ pc[r] = "pending" /\ Method(r) \in SignMethods
        /\ notices'[r] \in {notices[r], notices[r] \cup {"pending"}}
        /\ approved' = approved /\ rejected' = rejected
        /\ \/ /\ pc'[r] = "dialog" /\ Method(r) \in PromptedMethods
              /\ shown'[r] = [network |-> Network(r), account |-> chosen[r]]
           \/ /\ pc'[r] = "unprompted" /\ Method(r) \notin PromptedMethods /\ shown'[r] = shown[r]
    BY <1>1, <1>3 DEF NotifyPending, Notify, user, StageOf
  <2>2. StageOf(r)' /\ AuthorizedOnly(r)'
    BY <1>2, <2>1 DEF StageOf, AuthorizedOnly, SignMethods
  <2>3. SignedLate(r)' /\ Untouched(r)' /\ Honest(r)'
    BY <1>2, <2>1 DEF SignedLate, Untouched, Honest
  <2>4. GatePassed(r)'
    BY <1>2, <2>1 DEF GatePassed, Effects, Gated
  <2>5. Shows(r)'
    BY <1>2, <2>1 DEF Shows, SignMethods, PromptedMethods
  <2>6. Silent(r)' /\ Signed(r)'
    BY <1>2, <2>1 DEF Silent, Signed, Unanswered
  <2> QED
    BY <2>2, <2>3, <2>4, <2>5, <2>6
<1>4. CASE ReadForSwitch(r)
  <2>1. /\ pc[r] = "readSwitch" /\ Method(r) = "switchNetwork" /\ notices' = notices
        /\ approved' = approved /\ rejected' = rejected
        /\ \/ pc'[r] = "returned" /\ shown'[r] = shown[r]
           \/ pc'[r] = "dialog" /\ shown'[r].to = Network(r)
    BY <1>1, <1>4 DEF ReadForSwitch, user, StageOf
  <2>2. StageOf(r)' /\ AuthorizedOnly(r)' /\ SignedLate(r)' /\ Untouched(r)'
    BY <1>2, <2>1 DEF StageOf, AuthorizedOnly, SignedLate, Untouched
  <2>3. GatePassed(r)' /\ Honest(r)'
    BY <1>2, <2>1 DEF GatePassed, Honest
  <2>4. Shows(r)'
    BY <1>2, <2>1 DEF Shows, SignMethods, PromptedMethods
  <2>5. Silent(r)' /\ Signed(r)'
    BY <1>2, <2>1 DEF Silent, Signed, Unanswered, SignMethods, PromptedMethods
  <2> QED
    BY <2>2, <2>3, <2>4, <2>5
<1>5. CASE ApproveSwitch(r)
  <2>1. /\ pc[r] = "dialog" /\ Method(r) = "switchNetwork" /\ pc'[r] = "select"
        /\ notices' = notices /\ shown' = shown
        /\ approved' = approved \cup {r} /\ rejected' = rejected
    BY <1>1, <1>5 DEF ApproveSwitch
  <2>2. StageOf(r)' /\ AuthorizedOnly(r)' /\ SignedLate(r)' /\ Untouched(r)'
    BY <1>2, <2>1 DEF StageOf, AuthorizedOnly, SignedLate, Untouched
  <2>3. GatePassed(r)' /\ Honest(r)' /\ Shows(r)'
    BY <1>2, <2>1 DEF GatePassed, Honest, Shows
  <2>4. Silent(r)' /\ Signed(r)'
    BY <1>2, <2>1 DEF Silent, Signed, Unanswered, SignMethods, PromptedMethods
  <2> QED
    BY <2>2, <2>3, <2>4
<1>6. CASE RejectDialog(r)
  <2>1. /\ pc[r] = "dialog" /\ pc'[r] = "failed"
        /\ notices' = notices /\ shown' = shown
        /\ approved' = approved /\ rejected' = rejected \cup {r}
    BY <1>1, <1>6 DEF RejectDialog
  <2>2. StageOf(r)' /\ AuthorizedOnly(r)' /\ SignedLate(r)' /\ Untouched(r)'
    BY <1>2, <2>1 DEF StageOf, AuthorizedOnly, SignedLate, Untouched
  <2>3. GatePassed(r)' /\ Honest(r)' /\ Shows(r)'
    BY <1>2, <2>1 DEF GatePassed, Honest, Shows, Effects, Gated
  <2>4. Silent(r)' /\ Signed(r)'
    BY <1>2, <2>1 DEF Silent, Signed, Unanswered
  <2> QED
    BY <2>2, <2>3, <2>4
<1> QED
  BY <1>3, <1>4, <1>5, <1>6

\* Signing, what follows it, and failures.
LEMMA SigningKeeps ==
    ASSUME TypeOK, NEW r \in Requests, RequestInv(r),
           ApproveSigning(r) \/ SignUnprompted(r) \/ NotifyCompleted(r) \/ Fail(r)
    PROVE  RequestInv(r)'
<1> USE DEF RequestInv, Method, Network, Signs, Goto, Ended
<1>1. /\ pc \in [Requests -> Stages] /\ call[r] \in Calls
      /\ notices \in [Requests -> SUBSET {"pending", "completed", "failed"}]
  BY DEF TypeOK
<1>2. call' = call /\ chosen' = chosen /\ gateSelection' = gateSelection
      /\ shown' = shown /\ rejected' = rejected
  BY DEF ApproveSigning, SignUnprompted, Sign, NotifyCompleted, Fail, user
<1>3. CASE ApproveSigning(r) \/ SignUnprompted(r)
  <2> DEFINE new == [request |-> r, network |-> Network(r), account |-> chosen[r]]
  <2>1. /\ signatures' = signatures \cup {new} /\ pc'[r] = "append" /\ notices' = notices
        /\ \/ pc[r] = "dialog" /\ Signs(r) /\ approved' = approved \cup {r}
           \/ pc[r] = "unprompted" /\ approved' = approved
    BY <1>1, <1>3 DEF ApproveSigning, SignUnprompted, Sign
  <2>2. SignatureOf(r) = {} /\ SignatureOf(r)' = {new} /\ r \notin rejected
    <3>1. SignatureOf(r) = {} /\ r \notin rejected
      BY <2>1 DEF SignedLate, Silent
    <3> QED
      BY <2>1, <3>1 DEF SignatureOf
  <2>3. StageOf(r)' /\ AuthorizedOnly(r)' /\ Untouched(r)'
    BY <1>2, <2>1 DEF StageOf, AuthorizedOnly, Untouched, SignMethods
  <2>4. SignedLate(r)'
    BY <1>2, <2>1, <2>2 DEF StageOf, AuthorizedOnly, SignedLate, SignMethods, PromptedMethods, FormMethods
  <2>5. GatePassed(r)' /\ Shows(r)'
    BY <1>2, <2>1 DEF GatePassed, Gated, Shows
  <2>6. Honest(r)'
    BY <1>2, <2>1, <2>2 DEF Honest, Shows, StageOf, PromptedMethods
  <2>7. Silent(r)' /\ Signed(r)'
    BY <1>2, <2>1, <2>2 DEF Silent, Signed, Unanswered
  <2> QED
    BY <2>3, <2>4, <2>5, <2>6, <2>7
<1>4. CASE NotifyCompleted(r)
  <2>1. /\ pc[r] = "completed" /\ pc'[r] = "returned" /\ approved' = approved
        /\ SignatureOf(r)' = SignatureOf(r) /\ SignatureOf(r) # {}
    BY <1>1, <1>4 DEF NotifyCompleted, SignatureOf, user, Signed
  <2>2. StageOf(r)' /\ AuthorizedOnly(r)' /\ SignedLate(r)' /\ Untouched(r)'
    BY <1>2, <2>1 DEF StageOf, AuthorizedOnly, SignedLate, Untouched
  <2>3. GatePassed(r)' /\ Honest(r)' /\ Shows(r)'
    BY <1>2, <2>1 DEF GatePassed, Gated, Honest, Shows
  <2>4. Silent(r)' /\ Signed(r)'
    BY <1>2, <2>1 DEF Silent, Signed, Unanswered
  <2> QED
    BY <2>2, <2>3, <2>4
<1>5. CASE Fail(r)
  <2>1. /\ pc[r] \notin {"idle", "pending", "completed", "returned", "failed"}
        /\ pc'[r] = "failed" /\ approved' = approved
        /\ SignatureOf(r)' = SignatureOf(r)
        /\ notices'[r] = notices[r] \/ (Signs(r) /\ pc[r] # "gate")
    BY <1>1, <1>5 DEF Fail, Notify, SignatureOf, user
  <2>2. StageOf(r)' /\ AuthorizedOnly(r)' /\ SignedLate(r)' /\ Untouched(r)'
    BY <1>2, <2>1 DEF StageOf, AuthorizedOnly, SignedLate, Untouched
  <2>3. GatePassed(r)'
    <3>1. CASE notices'[r] = notices[r]
      BY <1>2, <2>1, <3>1 DEF GatePassed, Gated, Effects
    <3>2. CASE Signs(r) /\ pc[r] # "gate"
      <4>1. pc[r] \in Gated
        BY <1>1, <2>1, <3>2 DEF StageOf, Gated, Stages, SignMethods, PromptedMethods, FormMethods
      <4> QED
        BY <1>2, <4>1 DEF GatePassed
    <3> QED
      BY <2>1, <3>1, <3>2
  <2>4. Honest(r)' /\ Shows(r)'
    BY <1>2, <2>1 DEF Honest, Shows
  <2>5. Silent(r)' /\ Signed(r)'
    BY <1>2, <2>1 DEF Silent, Signed, Unanswered
  <2> QED
    BY <2>2, <2>3, <2>4, <2>5
<1> QED
  BY <1>3, <1>4, <1>5

LEMMA StepKeepsRequests ==
    ASSUME SessionInv, NEW r \in Requests, RequestStep(r)
    PROVE  \A q \in Requests : RequestInv(q)'
<1>1. TypeOK /\ StoreInv /\ \A q \in Requests : RequestInv(q)
  BY DEF SessionInv
<1>2. \A q \in Requests : q # r => RequestInv(q)'
  BY <1>1, OthersAlike, AlikeKeeps
<1>3. RequestInv(r)'
  <2>1. CASE \/ Receive(r) \/ VerifyPrevouts(r) \/ RememberSession(r) \/ ReturnInventory(r)
             \/ AppendRecentAction(r) \/ AppendOrigin(r) \/ SetSelectedNetwork(r)
             \/ ProbeEndpoint(r) \/ WriteForm(r)
    <3>1. Alike(r)
      BY <2>1 DEF Alike, SignatureOf, Receive, VerifyPrevouts, RememberSession, ReturnInventory,
         AppendRecentAction, AppendOrigin, SetSelectedNetwork, ProbeEndpoint, WriteForm, user
    <3> QED
      BY <1>1, <2>1, <3>1, QuietKeeps
  <2>2. CASE CheckSelection(r) \/ CheckScreen(r) \/ ResolveAccount(r)
    BY <1>1, <2>2, ResolutionKeeps
  <2>3. CASE NotifyPending(r) \/ ReadForSwitch(r) \/ ApproveSwitch(r) \/ RejectDialog(r)
    BY <1>1, <2>3, DialogKeeps
  <2>4. CASE ApproveSigning(r) \/ SignUnprompted(r) \/ NotifyCompleted(r) \/ Fail(r)
    BY <1>1, <2>4, SigningKeeps
  <2> QED
    BY <2>1, <2>2, <2>3, <2>4 DEF RequestStep, RpcStep, SwitchStep, FormStep
<1> QED
  BY <1>2, <1>3

-----------------------------------------------------------------------------
(* The store.                                                              *)

LEMMA TypeKept ==
    ASSUME SessionInv, NEW r \in Requests, RequestStep(r)
    PROVE  TypeOK'
<1> USE DEF Method, Network, Signs, Goto, Notify, Ended
<1>1. TypeOK /\ RequestInv(r) /\ StoreInv
  BY DEF SessionInv
<1>2. /\ pc \in [Requests -> Stages] /\ call \in [Requests -> Calls] /\ call[r] \in Calls
      /\ chosen \in [Requests -> Accounts \cup {None}]
      /\ shown \in [Requests -> SigningDialogs \cup SwitchDialogs \cup {None}]
      /\ notices \in [Requests -> SUBSET {"pending", "completed", "failed"}]
      /\ gateSelection \in [Requests -> AllowedDeployments \cup {None}]
      /\ approved \subseteq Requests /\ rejected \subseteq Requests
      /\ signatures \subseteq [request : Requests, network : Deployments, account : Accounts]
      /\ selection \in AllowedDeployments /\ selection \in Deployments
      /\ lastOrigin \in AllowedOrigins \cup {None}
  BY <1>1, DeploymentsAssumption DEF TypeOK
<1>3. Network(r) \in Deployments
  BY <1>2, CallsAssumption
<1>4. call' = call
  BY CallFixed
<1>5. pc' \in [Requests -> Stages]
  <2>1. Receive(r) => FirstStage(call[r]) \in Stages
    BY <1>2, CallsAssumption DEF FirstStage, Stages, SelectedMethods, SignMethods, PromptedMethods, FormMethods
  <2>2. RememberSession(r) => pc' \in [Requests -> Stages]
    <3>1. RememberSession(r) => Method(r) \in SelectedMethods
      BY <1>1 DEF RememberSession, RequestInv, StageOf
    <3> QED
      BY <1>2, <3>1 DEF RememberSession, Stages, SelectedMethods
  <2>3. RequestStep(r) /\ ~Receive(r) /\ ~RememberSession(r) => pc' \in [Requests -> Stages]
    BY <1>2 DEF RequestStep, RpcStep, SwitchStep, FormStep, RejectDialog, Fail,
       CheckSelection, ResolveAccount, VerifyPrevouts, ReturnInventory,
       NotifyPending, ApproveSigning, SignUnprompted, Sign, AppendRecentAction, AppendOrigin,
       NotifyCompleted, ReadForSwitch, ApproveSwitch, SetSelectedNetwork, CheckScreen,
       ProbeEndpoint, WriteForm, Stages
  <2> QED
    BY <1>2, <2>1, <2>2, <2>3 DEF Receive, Stages
<1>6. chosen' \in [Requests -> Accounts \cup {None}]
  <2>1. ActiveAccount(Network(r)) \in Accounts
    BY <1>1, ActiveAccountType
  <2> QED
    BY <1>2, <2>1 DEF RequestStep, Receive, RpcStep, SwitchStep, FormStep, RejectDialog, Fail,
       CheckSelection, ResolveAccount, VerifyPrevouts, RememberSession, ReturnInventory,
       NotifyPending, ApproveSigning, SignUnprompted, Sign, AppendRecentAction, AppendOrigin,
       NotifyCompleted, ReadForSwitch, ApproveSwitch, SetSelectedNetwork, CheckScreen,
       ProbeEndpoint, WriteForm
<1>7. /\ shown' \in [Requests -> SigningDialogs \cup SwitchDialogs \cup {None}]
      /\ \A q \in Requests :
            shown'[q] \in {None} \cup (IF Signs(q) THEN SigningDialogs ELSE SwitchDialogs)
  <2>1. CASE NotifyPending(r)
    <3>1. Signs(r) /\ chosen[r] \in Accounts
      BY <1>1, <2>1 DEF RequestInv, StageOf, Shows, NotifyPending
    <3>2. [network |-> Network(r), account |-> chosen[r]] \in SigningDialogs
      BY <1>3, <3>1 DEF SigningDialogs
    <3>3. shown' = shown \/ shown' = [shown EXCEPT ![r] = [network |-> Network(r), account |-> chosen[r]]]
      BY <2>1 DEF NotifyPending
    <3> QED
      BY <1>1, <1>2, <3>1, <3>2, <3>3 DEF TypeOK
  <2>2. CASE ReadForSwitch(r)
    <3>1. ~Signs(r)
      BY <1>1, <2>2 DEF RequestInv, StageOf, ReadForSwitch, SignMethods, PromptedMethods
    <3>2. [from |-> selection, to |-> Network(r)] \in SwitchDialogs
      BY <1>2, <1>3 DEF SwitchDialogs
    <3>3. shown' = shown \/ shown' = [shown EXCEPT ![r] = [from |-> selection, to |-> Network(r)]]
      BY <2>2 DEF ReadForSwitch
    <3> QED
      BY <1>1, <1>2, <3>1, <3>2, <3>3 DEF TypeOK
  <2>3. CASE ~NotifyPending(r) /\ ~ReadForSwitch(r)
    <3>1. shown' = shown
      BY <2>3 DEF RequestStep, Receive, RpcStep, SwitchStep, FormStep, RejectDialog, Fail,
         CheckSelection, ResolveAccount, VerifyPrevouts, RememberSession, ReturnInventory,
         ApproveSigning, SignUnprompted, Sign, AppendRecentAction, AppendOrigin,
         NotifyCompleted, ApproveSwitch, SetSelectedNetwork, CheckScreen, ProbeEndpoint, WriteForm
    <3> QED
      BY <1>1, <3>1 DEF TypeOK
  <2> QED
    BY <2>1, <2>2, <2>3
<1>8. /\ approved' \subseteq Requests /\ rejected' \subseteq Requests
      /\ notices' \in [Requests -> SUBSET {"pending", "completed", "failed"}]
      /\ gateSelection' \in [Requests -> AllowedDeployments \cup {None}]
  BY <1>2 DEF RequestStep, Receive, RpcStep, SwitchStep, FormStep, RejectDialog, Fail,
     CheckSelection, ResolveAccount, VerifyPrevouts, RememberSession, ReturnInventory,
     NotifyPending, ApproveSigning, SignUnprompted, Sign, AppendRecentAction, AppendOrigin,
     NotifyCompleted, ReadForSwitch, ApproveSwitch, SetSelectedNetwork, CheckScreen,
     ProbeEndpoint, WriteForm, user
<1>9. signatures' \subseteq [request : Requests, network : Deployments, account : Accounts]
  <2>1. CASE ApproveSigning(r) \/ SignUnprompted(r)
    <3>1. chosen[r] \in Accounts
      BY <1>1, <2>1 DEF RequestInv, Shows, ApproveSigning, SignUnprompted
    <3> QED
      BY <1>2, <1>3, <2>1, <3>1 DEF ApproveSigning, SignUnprompted, Sign
  <2>2. CASE ~ApproveSigning(r) /\ ~SignUnprompted(r)
    BY <1>2, <2>2 DEF RequestStep, Receive, RpcStep, SwitchStep, FormStep, RejectDialog, Fail,
       CheckSelection, ResolveAccount, VerifyPrevouts, RememberSession, ReturnInventory,
       NotifyPending, AppendRecentAction, AppendOrigin,
       NotifyCompleted, ReadForSwitch, ApproveSwitch, SetSelectedNetwork, CheckScreen,
       ProbeEndpoint, WriteForm
  <2> QED
    BY <2>1, <2>2
<1>10. selection' \in AllowedDeployments
  <2>1. CASE SetSelectedNetwork(r)
    <3>1. Authorized(call[r])
      BY <1>1, <2>1 DEF RequestInv, AuthorizedOnly, StageOf, SetSelectedNetwork, FormMethods
    <3> QED
      BY <2>1, <3>1 DEF SetSelectedNetwork, Select, Authorized
  <2>2. CASE ~SetSelectedNetwork(r)
    BY <1>2, <2>2 DEF RequestStep, Receive, RpcStep, SwitchStep, FormStep, RejectDialog, Fail,
       CheckSelection, ResolveAccount, VerifyPrevouts, RememberSession, ReturnInventory,
       NotifyPending, ApproveSigning, SignUnprompted, Sign, AppendRecentAction, AppendOrigin,
       NotifyCompleted, ReadForSwitch, ApproveSwitch, CheckScreen,
       ProbeEndpoint, WriteForm, storeVars, AppendAction, ImportKey, RemoveKey, SaveEndpoint
  <2> QED
    BY <2>1, <2>2
<1>11. lastOrigin' \in AllowedOrigins \cup {None}
  <2>1. CASE RememberSession(r) \/ AppendOrigin(r)
    <3>1. Authorized(call[r]) /\ Method(r) \in SelectedMethods
      BY <1>1, <2>1 DEF RequestInv, AuthorizedOnly, StageOf, RememberSession, AppendOrigin,
         FormMethods, SelectedMethods, SignMethods, PromptedMethods
    <3>2. call[r].origin \in AllowedOrigins
      BY <1>2, <3>1, CallsAssumption DEF Authorized
    <3> QED
      BY <1>2, <2>1, <3>2 DEF RememberSession, AppendOrigin
  <2>2. CASE ~RememberSession(r) /\ ~AppendOrigin(r)
    BY <1>2, <2>2 DEF RequestStep, Receive, RpcStep, SwitchStep, FormStep, RejectDialog, Fail,
       CheckSelection, ResolveAccount, VerifyPrevouts, ReturnInventory,
       NotifyPending, ApproveSigning, SignUnprompted, Sign, AppendRecentAction,
       NotifyCompleted, ReadForSwitch, ApproveSwitch, SetSelectedNetwork, CheckScreen,
       ProbeEndpoint, WriteForm
  <2> QED
    BY <2>1, <2>2
<1> HIDE DEF Method, Network, Signs, Goto, Notify, Ended
<1>12. \A q \in Requests :
            shown'[q] \in {None} \cup (IF Signs(q)' THEN SigningDialogs ELSE SwitchDialogs)
  BY <1>4, <1>7 DEF Signs, Method
<1> QED
  BY <1>2, <1>4, <1>5, <1>6, <1>7, <1>8, <1>9, <1>10, <1>11, <1>12 DEF TypeOK

LEMMA StoreKept ==
    ASSUME SessionInv, NEW r \in Requests, RequestStep(r)
    PROVE  StoreInv'
<1> USE DEF Method, Network
<1>1. /\ keys \in Seq(KeyRecords) /\ actions \in Seq(TrueEntries)
      /\ Len(actions) <= MaxRecentActions
      /\ RequestInv(r) /\ TypeOK /\ call[r] \in Calls
  BY DEF SessionInv, StoreInv, TypeOK
<1>2. keys' \in Seq(KeyRecords)
  <2>1. CASE WriteForm(r)
    <3>1. \A n : KeyOverridesWithoutNetwork(keys, n) \in Seq(KeyRecords)
      BY <1>1, KeysFilterType
    <3>2. ASSUME NEW now \in Times
          PROVE  ReplaceKeyOverride(keys,
                    [id |-> r, network |-> Network(r), created |-> now, valid |-> TRUE])
                    \in Seq(KeyRecords)
      <4>1. [id |-> r, network |-> Network(r), created |-> now, valid |-> TRUE] \in KeyRecords
        BY <1>1, SessionAssumption, CallsAssumption DEF KeyRecords
      <4> QED
        BY <1>1, <4>1, ReplaceKeyType
    <3> QED
      BY <1>1, <2>1, <3>1, <3>2 DEF WriteForm, ImportKey, RemoveKey, SaveEndpoint
  <2>2. CASE ~WriteForm(r)
    BY <1>1, <2>2 DEF RequestStep, Receive, RpcStep, SwitchStep, FormStep, RejectDialog, Fail,
       CheckSelection, ResolveAccount, VerifyPrevouts, RememberSession, ReturnInventory,
       NotifyPending, ApproveSigning, SignUnprompted, Sign, AppendRecentAction, AppendOrigin,
       NotifyCompleted, ReadForSwitch, ApproveSwitch, SetSelectedNetwork, CheckScreen,
       ProbeEndpoint, storeVars, AppendAction, Select
  <2> QED
    BY <2>1, <2>2
<1>3. actions' \in Seq(TrueEntries') /\ Len(actions') <= MaxRecentActions
  <2>1. CASE AppendRecentAction(r)
    <3>1. signatures' = signatures /\ SignatureOf(r) # {}
      BY <1>1, <2>1 DEF AppendRecentAction, RequestInv, Signed
    <3>2. PICK now \in Times : actions' = SanitizedActions(
                    WithAction(actions, [id |-> r, at |-> now, valid |-> TRUE]))
      BY <2>1 DEF AppendRecentAction, AppendAction
    <3>3. [id |-> r, at |-> now, valid |-> TRUE] \in TrueEntries
      BY <3>1, SessionAssumption DEF TrueEntries, Entries, SignatureOf
    <3>4. WithAction(actions, [id |-> r, at |-> now, valid |-> TRUE]) \in Seq(TrueEntries)
      BY <1>1, <3>3, WithActionType
    <3>5. \A e \in TrueEntries : e.at \in Int
      BY DEF TrueEntries, Entries
    <3>6. actions' \in Seq(TrueEntries) /\ Len(actions') <= MaxRecentActions
      BY <3>2, <3>4, <3>5, SanitizedActionsType
    <3> QED
      BY <3>1, <3>6 DEF TrueEntries
  <2>2. CASE ~AppendRecentAction(r)
    <3>1. actions' = actions
      BY <2>2 DEF RequestStep, Receive, RpcStep, SwitchStep, FormStep, RejectDialog, Fail,
         CheckSelection, ResolveAccount, VerifyPrevouts, RememberSession, ReturnInventory,
         NotifyPending, ApproveSigning, SignUnprompted, Sign, AppendOrigin,
         NotifyCompleted, ReadForSwitch, ApproveSwitch, SetSelectedNetwork, CheckScreen,
         ProbeEndpoint, WriteForm, storeVars, ImportKey, RemoveKey, SaveEndpoint, Select
    <3>2. signatures \subseteq signatures'
      BY DEF RequestStep, Receive, RpcStep, SwitchStep, FormStep, RejectDialog, Fail,
         CheckSelection, ResolveAccount, VerifyPrevouts, RememberSession, ReturnInventory,
         NotifyPending, ApproveSigning, SignUnprompted, Sign, AppendRecentAction, AppendOrigin,
         NotifyCompleted, ReadForSwitch, ApproveSwitch, SetSelectedNetwork, CheckScreen,
         ProbeEndpoint, WriteForm
    <3>3. TrueEntries \subseteq TrueEntries'
      BY <3>2 DEF TrueEntries
    <3>4. actions \in Seq(TrueEntries')
      BY <1>1, <3>3, LenProperties
    <3> QED
      BY <1>1, <3>1, <3>4
  <2> QED
    BY <2>1, <2>2
<1> QED
  BY <1>2, <1>3 DEF StoreInv

\* Whoever has returned a signature keeps its place in the history, or the
\* history is full and stays so.
LEMMA HistoryKept ==
    ASSUME SessionInv, NEW r \in Requests, RequestStep(r)
    PROVE  \A q \in Requests : Kept(q)'
<1> SUFFICES ASSUME NEW q \in Requests
             PROVE  Kept(q)'
  OBVIOUS
<1>1. /\ actions \in Seq(TrueEntries) /\ Len(actions) <= MaxRecentActions
      /\ RequestInv(r) /\ TypeOK /\ Kept(q) /\ RequestInv(q) /\ pc \in [Requests -> Stages]
  BY DEF SessionInv, StoreInv, TypeOK
<1>2. call' = call /\ (q # r => pc'[q] = pc[q])
  BY <1>1, CallFixed, OthersAlike
<1>3. CASE AppendRecentAction(r)
  <2>1. PICK now \in Times : actions' = SanitizedActions(
                    WithAction(actions, [id |-> r, at |-> now, valid |-> TRUE]))
    BY <1>3 DEF AppendRecentAction, AppendAction
  <2> DEFINE e == [id |-> r, at |-> now, valid |-> TRUE]
  <2>2. e \in TrueEntries
    <3>1. SignatureOf(r) # {}
      BY <1>1, <1>3 DEF AppendRecentAction, RequestInv, Signed
    <3> QED
      BY <3>1, SessionAssumption DEF TrueEntries, Entries, SignatureOf
  <2>3. \A f \in TrueEntries : f.at \in Int /\ f.valid = TRUE
    BY DEF TrueEntries, Entries
  <2>4. e.id = r
    OBVIOUS
  <2> HIDE DEF e
  <2>5. \/ Len(actions') = MaxRecentActions
        \/ /\ Len(actions) # MaxRecentActions
           /\ \A i \in DOMAIN actions : \E k \in DOMAIN actions' : actions'[k] = actions[i]
           /\ \E k \in DOMAIN actions' : actions'[k] = e
    <3> DEFINE t == actions'
    <3>1. t = SanitizedActions(WithAction(actions, e))
      BY <2>1 DEF e
    <3> HIDE DEF t
    <3>2. \/ Len(t) = MaxRecentActions
          \/ /\ Len(actions) # MaxRecentActions
             /\ \A i \in DOMAIN actions : \E k \in DOMAIN t : t[k] = actions[i]
             /\ \E k \in DOMAIN t : t[k] = e
      <4>1. actions \in Seq(TrueEntries) /\ Len(actions) <= MaxRecentActions
        BY <1>1
      <4> QED
        BY ONLY <4>1, <2>2, <2>3, <3>1, HistoryGrows, SMT
    <3> QED
      BY <3>2 DEF t
  <2>6. CASE Len(actions') = MaxRecentActions
    BY <2>6 DEF Kept
  <2>7. CASE /\ \A i \in DOMAIN actions : \E k \in DOMAIN actions' : actions'[k] = actions[i]
             /\ \E k \in DOMAIN actions' : actions'[k] = e
             /\ Len(actions) # MaxRecentActions
    <3>1. Recorded(r)'
      BY <2>4, <2>7 DEF Recorded
    <3>2. Recorded(q) => Recorded(q)'
      BY <2>7 DEF Recorded
    <3> QED
      BY <1>1, <1>2, <2>7, <3>1, <3>2 DEF Kept, Signs, Method
  <2> QED
    BY <2>5, <2>6, <2>7
<1>4. CASE ~AppendRecentAction(r)
  <2>1. actions' = actions
    BY <1>4 DEF RequestStep, Receive, RpcStep, SwitchStep, FormStep, RejectDialog, Fail,
       CheckSelection, ResolveAccount, VerifyPrevouts, RememberSession, ReturnInventory,
       NotifyPending, ApproveSigning, SignUnprompted, Sign, AppendOrigin,
       NotifyCompleted, ReadForSwitch, ApproveSwitch, SetSelectedNetwork, CheckScreen,
       ProbeEndpoint, WriteForm, storeVars, ImportKey, RemoveKey, SaveEndpoint, Select
  <2>2. pc'[r] \in {"origin", "completed"} \/ (pc'[r] = "returned" /\ Signs(r))
            => pc[r] \in {"origin", "completed"}
    <3>1. ~Signs(r) => pc[r] \notin {"append", "origin", "completed", "pending", "unprompted"}
      BY <1>1 DEF RequestInv, StageOf, Signs, SignMethods, PromptedMethods
    <3>2. CASE Receive(r)
      <4>1. pc'[r] \in {"gate", "readSwitch", "screen", "failed"}
        BY <1>1, <3>2, CallsAssumption DEF Receive, Goto, FirstStage, TypeOK, SelectedMethods,
           SignMethods, PromptedMethods, FormMethods, Method
      <4> QED
        BY <4>1
    <3>3. CASE ~Receive(r)
      <4>1. StageOf(r)
        BY <1>1 DEF RequestInv
      <4>2. CASE \/ ReturnInventory(r) \/ ReadForSwitch(r) \/ SetSelectedNetwork(r)
                 \/ CheckScreen(r) \/ WriteForm(r)
        <5>1. ~Signs(r) /\ pc'[r] \notin {"origin", "completed"}
          BY <1>1, <4>1, <4>2 DEF StageOf, ReturnInventory, ReadForSwitch, SetSelectedNetwork,
             CheckScreen, WriteForm, Goto, Signs, Method, SignMethods, PromptedMethods, FormMethods
        <5> QED
          BY <5>1
      <4>3. CASE RememberSession(r)
        BY <1>1, <4>1, <4>3 DEF StageOf, RememberSession, Goto, Signs, Method,
           SelectedMethods, SignMethods, PromptedMethods
      <4>4. CASE AppendOrigin(r) \/ NotifyCompleted(r)
        BY <4>4 DEF AppendOrigin, NotifyCompleted
      <4>5. CASE \/ CheckSelection(r) \/ ResolveAccount(r) \/ VerifyPrevouts(r) \/ NotifyPending(r)
                 \/ ApproveSigning(r) \/ SignUnprompted(r) \/ ApproveSwitch(r)
                 \/ ProbeEndpoint(r) \/ RejectDialog(r) \/ Fail(r)
        BY <1>1, <4>5 DEF CheckSelection, ResolveAccount, VerifyPrevouts, NotifyPending,
           ApproveSigning, SignUnprompted, Sign, ApproveSwitch, ProbeEndpoint, RejectDialog,
           Fail, Goto
      <4> QED
        BY <1>4, <3>3, <4>2, <4>3, <4>4, <4>5 DEF RequestStep, RpcStep, SwitchStep, FormStep
    <3> QED
      BY <3>2, <3>3
  <2> QED
    BY <1>1, <1>2, <2>1, <2>2 DEF Kept, Recorded, Signs, Method
<1> QED
  BY <1>3, <1>4

-----------------------------------------------------------------------------
(* The invariant and what follows from it.                                 *)

LEMMA InitHolds == Init => SessionInv
<1> SUFFICES ASSUME Init
             PROVE  SessionInv
  OBVIOUS
<1>1. TypeOK
  BY DEF Init, TypeOK, Stages, Ended
<1>2. StoreInv
  <2>1. actions = <<>> /\ keys \in Seq(KeyRecords)
    BY InitialKeysAssumption DEF Init
  <2>2. <<>> \in Seq(TrueEntries) /\ Len(<<>>) = 0
    OBVIOUS
  <2> QED
    BY <2>1, <2>2, MaxRecentAssumption DEF StoreInv
<1>3. ASSUME NEW r \in Requests
      PROVE  RequestInv(r) /\ Kept(r)
  <2>1. /\ pc[r] = "idle" /\ chosen[r] = None /\ shown[r] = None /\ notices[r] = {}
        /\ SignatureOf(r) = {} /\ approved = {} /\ rejected = {}
    BY DEF Init, SignatureOf
  <2>2. StageOf(r) /\ AuthorizedOnly(r) /\ SignedLate(r) /\ Untouched(r)
    BY <2>1 DEF StageOf, AuthorizedOnly, SignedLate, Untouched
  <2>3. GatePassed(r) /\ Shows(r) /\ Honest(r)
    BY <2>1 DEF GatePassed, Effects, Gated, Shows, Honest
  <2>4. Silent(r) /\ Signed(r) /\ Kept(r)
    BY <2>1 DEF Silent, Signed, Kept
  <2> QED
    BY <2>2, <2>3, <2>4 DEF RequestInv
<1> QED
  BY <1>1, <1>2, <1>3 DEF SessionInv

LEMMA StutterHolds ==
    ASSUME SessionInv, UNCHANGED vars
    PROVE  SessionInv'
<1> USE DEF vars, storeVars, request, user
<1>1. TypeOK' /\ StoreInv'
  BY DEF SessionInv, TypeOK, StoreInv, TrueEntries, Signs, Method
<1>2. ASSUME NEW r \in Requests
      PROVE  RequestInv(r)' /\ Kept(r)'
  <2>1. RequestInv(r) /\ Kept(r)
    BY DEF SessionInv
  <2>2. Alike(r) /\ pc'[r] = pc[r]
    BY DEF Alike, SignatureOf
  <2>3. RequestInv(r)'
    BY <2>1, <2>2, AlikeKeeps
  <2> QED
    BY <2>1, <2>3 DEF Kept, Recorded, Signs, Method
<1> QED
  BY <1>1, <1>2 DEF SessionInv

LEMMA NextHolds == SessionInv /\ [Next]_vars => SessionInv'
<1> SUFFICES ASSUME SessionInv, [Next]_vars
             PROVE  SessionInv'
  OBVIOUS
<1>1. CASE UNCHANGED vars
  BY <1>1, StutterHolds
<1>2. ASSUME NEW r \in Requests, RequestStep(r)
      PROVE  SessionInv'
  BY <1>2, StepKeepsRequests, TypeKept, StoreKept, HistoryKept DEF SessionInv
<1> QED
  BY <1>1, <1>2, NextCases

LEMMA InvariantHolds == Spec => []SessionInv
  BY InitHolds, NextHolds, PTL DEF Spec

\* Every variable keeps its type, however many requests there are.
THEOREM SessionTyped == Spec => []TypeOK
<1>1. SessionInv => TypeOK
  BY DEF SessionInv
<1> QED
  BY <1>1, InvariantHolds, PTL

\* What is signed is what the user approved, or what a development build signs
\* without a dialog, and then not on mainnet: though the keys and the selection
\* change while the dialog is open.
THEOREM SessionSignsAsShown == Spec => []SignedAsShown
<1>1. SessionInv => SignedAsShown
  <2> SUFFICES ASSUME SessionInv, NEW s \in signatures
               PROVE  /\ call[s.request].origin \in AllowedOrigins
                      /\ s.network \in AllowedDeployments
                      /\ IF Method(s.request) \in PromptedMethods
                         THEN /\ s.request \in approved
                              /\ shown[s.request] = [network |-> s.network, account |-> s.account]
                         ELSE DevUnpromptedEnabled /\ s.network \notin MainnetBacked
    BY DEF SignedAsShown
  <2> DEFINE r == s.request
  <2>1. r \in Requests /\ call[r] \in Calls /\ s \in SignatureOf(r)
    BY DEF SessionInv, TypeOK, SignatureOf
  <2> HIDE DEF r
  <2>2. Signs(r) /\ Authorized(call[r]) /\ s.network = Network(r)
        /\ (Method(r) \in PromptedMethods =>
              r \in approved /\ shown[r] = [network |-> s.network, account |-> s.account])
    BY <2>1 DEF SessionInv, RequestInv, SignedLate, Honest
  <2>3. call[r].origin \in AllowedOrigins
    BY <2>1, <2>2, CallsAssumption DEF Signs, Method, Authorized, SelectedMethods
  <2>4. Method(r) \notin PromptedMethods => DevUnpromptedEnabled /\ s.network \notin MainnetBacked
    BY <2>2 DEF Signs, Method, Network, Authorized, SignMethods
  <2> QED
    BY <2>2, <2>3, <2>4 DEF Authorized, Network, r
<1> QED
  BY <1>1, InvariantHolds, PTL

\* No request or form resolves an account, asks, notifies, signs or writes
\* before it found its deployment selected.
THEOREM SessionGated == Spec => []GateBeforeEffects
<1>1. SessionInv => GateBeforeEffects
  BY DEF SessionInv, RequestInv, GatePassed, GateBeforeEffects
<1> QED
  BY <1>1, InvariantHolds, PTL

\* A request the user rejected has signed and recorded nothing and announced
\* nothing but itself.
THEOREM SessionRejects == Spec => []RejectionLeavesNothing
<1>1. SessionInv => RejectionLeavesNothing
  <2> SUFFICES ASSUME SessionInv, NEW r \in rejected
               PROVE  /\ r \notin approved
                      /\ SignatureOf(r) = {} /\ ~Recorded(r)
                      /\ notices[r] \subseteq {"pending"}
    BY DEF RejectionLeavesNothing
  <2>1. r \in Requests
    BY DEF SessionInv, TypeOK
  <2>2. r \notin approved /\ SignatureOf(r) = {} /\ notices[r] \subseteq {"pending"}
    BY <2>1 DEF SessionInv, RequestInv, Silent
  <2>3. \A i \in DOMAIN actions : actions[i] \in TrueEntries
    BY LenProperties DEF SessionInv, StoreInv
  <2> QED
    BY <2>2, <2>3 DEF Recorded, TrueEntries, SignatureOf
<1> QED
  BY <1>1, InvariantHolds, PTL

\* The history holds signatures that were made, and every signature that was
\* returned unless it is full.
THEOREM SessionHistory == Spec => []HistoryIsTrue
<1>1. SessionInv => HistoryIsTrue
  <2> SUFFICES ASSUME SessionInv, NEW r \in Requests
               PROVE  /\ Recorded(r) => SignatureOf(r) # {}
                      /\ (Signs(r) /\ pc[r] = "returned")
                            => SignatureOf(r) # {} /\ (Recorded(r) \/ Len(actions) = MaxRecentActions)
    BY DEF HistoryIsTrue
  <2>1. \A i \in DOMAIN actions : actions[i] \in TrueEntries
    BY LenProperties DEF SessionInv, StoreInv
  <2>2. Recorded(r) => SignatureOf(r) # {}
    BY <2>1 DEF Recorded, TrueEntries, SignatureOf
  <2>3. Signed(r) /\ Kept(r)
    BY DEF SessionInv, RequestInv
  <2> QED
    BY <2>2, <2>3 DEF Signed, Kept
<1> QED
  BY <1>1, InvariantHolds, PTL

\* The selection changes only to what the dialog of an approved switch showed.
THEOREM SessionSwitches == Spec => SwitchedOnlyAsConfirmed
<1> DEFINE Confirmed == selection' # selection =>
                \E r \in approved :
                    pc[r] = "select" /\ pc'[r] = "returned" /\ shown[r].to = selection'
<1>1. SessionInv /\ [Next]_vars => [Confirmed]_vars
  <2> SUFFICES ASSUME SessionInv, NEW r \in Requests, RequestStep(r), selection' # selection
               PROVE  \E q \in approved :
                        pc[q] = "select" /\ pc'[q] = "returned" /\ shown[q].to = selection'
    BY NextCases
  <2>1. SetSelectedNetwork(r)
    BY DEF RequestStep, Receive, RpcStep, SwitchStep, FormStep, RejectDialog, Fail,
       CheckSelection, ResolveAccount, VerifyPrevouts, RememberSession, ReturnInventory,
       NotifyPending, ApproveSigning, SignUnprompted, Sign, AppendRecentAction, AppendOrigin,
       NotifyCompleted, ReadForSwitch, ApproveSwitch, CheckScreen,
       ProbeEndpoint, WriteForm, storeVars, AppendAction, ImportKey, RemoveKey, SaveEndpoint
  <2>2. pc \in [Requests -> Stages] /\ RequestInv(r)
    BY DEF SessionInv, TypeOK
  <2>3. pc[r] = "select" /\ pc'[r] = "returned" /\ selection' = Network(r)
    BY <2>1, <2>2 DEF SetSelectedNetwork, Select, Goto
  <2>4. r \in approved /\ shown[r].to = Network(r)
    BY <2>2, <2>3 DEF RequestInv, Shows, StageOf
  <2> QED
    BY <2>3, <2>4
<1>2. [][Confirmed]_vars <=> SwitchedOnlyAsConfirmed
  BY DEF SwitchedOnlyAsConfirmed
<1> QED
  BY <1>1, <1>2, InvariantHolds, PTL DEF Spec

-----------------------------------------------------------------------------
(* The Home page.                                                          *)

Overrides == [validator : Urls \cup {BadUrl, None}, esplora : Urls \cup {BadUrl, None},
              verified : BOOLEAN]

RenderStages == {"idle", "follow", "read", "account", "balances", "again", "draw"}

Pages == [network : Deployments \cup {None}, account : Accounts \cup {None},
          balances : Accounts \cup {None}, override : KeyIds \cup {None},
          endpoints : Overrides]

RenderRecords ==
    [stage : RenderStages, asked : Deployments \cup {None}, follows : Requests \cup {None},
     previous : Deployments \cup {None}, torn : BOOLEAN, read : Pages]

ViewTypes ==
    /\ overrides \in [Deployments -> Overrides]
    /\ render \in [Renders -> RenderRecords]

\* What a render has read so far is what the state says.
ReadsCurrent(h) ==
    LET read == render[h].read IN
    (~render[h].torn /\ read.network # None) =>
        /\ Stage(h) \in {"account", "balances", "again", "draw"} => read.network = selection
        /\ Stage(h) \in {"balances", "again", "draw"} => read.account = ActiveAccount(selection)
        /\ Stage(h) \in {"again", "draw"} => read.balances \in {read.account, None}
        /\ Stage(h) = "draw" =>
            read.override = KeyShown(selection) /\ read.endpoints = overrides[selection]

\* Between its first and its last read a render has a network, and one that
\* waits for a form has a form.
Known(h) ==
    /\ Stage(h) \in {"account", "balances", "again"} => render[h].read.network # None
    /\ Stage(h) = "follow" => render[h].follows \in Requests

ViewInv ==
    /\ SessionInv /\ ViewTypes
    /\ \A h \in Renders : ReadsCurrent(h) /\ Known(h)

-----------------------------------------------------------------------------
(* The session under the page.                                             *)

LEMMA KeyShownType ==
    ASSUME StoreInv, NEW n
    PROVE  /\ KeyShown(n) \in KeyIds \cup {None}
           /\ ActiveAccount(n) = IF KeyShown(n) = None THEN Derived ELSE KeyShown(n)
<1>1. CASE KeysOf(keys, n) = {}
  BY <1>1 DEF KeyShown, ActiveAccount, EffectiveKeyOverride
<1>2. CASE KeysOf(keys, n) # {}
  <2>1. EffectiveKeyOverride(keys, n) \in KeyRecords
    BY <1>2, NewestKey DEF StoreInv
  <2>2. EffectiveKeyOverride(keys, n).id \in KeyIds
    BY <2>1 DEF KeyRecords
  <2> QED
    BY <2>2, SessionAssumption DEF KeyShown, ActiveAccount
<1> QED
  BY <1>1, <1>2

LEMMA OverridesKept ==
    ASSUME SessionInv, overrides \in [Deployments -> Overrides], [Next]_vars
    PROVE  overrides' \in [Deployments -> Overrides]
<1>1. CASE overrides' = overrides
  BY <1>1
<1>2. ASSUME NEW r \in Requests, WriteForm(r), overrides' # overrides
      PROVE  overrides' \in [Deployments -> Overrides]
  <2>1. call[r] \in Calls
    BY DEF SessionInv, TypeOK
  <2>2. PICK kind \in Kinds, url \in Urls \cup {None} :
            overrides' = OverridesWithField(overrides, Network(r), kind, url)
    BY <1>2, <2>1, CallsAssumption DEF WriteForm, ImportKey, RemoveKey, SaveEndpoint, Method
  <2>3. \A o \in Overrides : EndpointOverrideWithField(o, kind, url) \in Overrides
    <3> TAKE o \in Overrides
    <3> DEFINE p == [o EXCEPT !.validator = IF kind = "validator" THEN url ELSE @,
                              !.esplora = IF kind = "esplora" THEN url ELSE @,
                              !.verified = @ \/ url # None]
    <3>1. p \in Overrides
      BY <2>2 DEF Overrides
    <3>2. NoOverride \in Overrides
      BY DEF NoOverride, Overrides
    <3>3. EndpointOverrideWithField(o, kind, url) \in {p, NoOverride}
      BY DEF EndpointOverrideWithField
    <3> QED
      BY <3>1, <3>2, <3>3
  <2> QED
    BY <2>2, <2>3 DEF OverridesWithField
<1> QED
  BY <1>1, <1>2, NextCases DEF vars, storeVars, RequestStep, Receive, RpcStep, SwitchStep,
     FormStep, RejectDialog, Fail, CheckSelection, ResolveAccount, VerifyPrevouts, RememberSession,
     ReturnInventory, NotifyPending, ApproveSigning, SignUnprompted, Sign, AppendRecentAction,
     AppendOrigin, NotifyCompleted, ReadForSwitch, ApproveSwitch, SetSelectedNetwork,
     CheckScreen, ProbeEndpoint, AppendAction, Select

-----------------------------------------------------------------------------
(* The renders.                                                            *)

LEMMA SessionStepKeeps ==
    ASSUME ViewInv, SessionStep
    PROVE  ViewInv'
<1>1. SessionInv' /\ overrides' \in [Deployments -> Overrides]
  BY NextHolds, OverridesKept DEF ViewInv, ViewTypes, SessionStep
<1>2. render' \in [Renders -> RenderRecords]
  <2>1. \A h \in Renders :
            [render[h] EXCEPT !.torn = @ \/ Displayed' # Displayed] \in RenderRecords
    BY DEF ViewInv, ViewTypes, RenderRecords
  <2> QED
    BY <2>1 DEF SessionStep
<1>3. ASSUME NEW h \in Renders
      PROVE  ReadsCurrent(h)' /\ Known(h)'
  <2>1. render[h] \in RenderRecords /\ ReadsCurrent(h) /\ Known(h)
    BY DEF ViewInv, ViewTypes
  <2>2. /\ render'[h].stage = render[h].stage /\ render'[h].read = render[h].read
        /\ ~render'[h].torn => ~render[h].torn /\ Displayed' = Displayed
    BY <2>1 DEF SessionStep, RenderRecords
  <2>3. CASE Displayed' = Displayed
    <3>1. /\ selection' = selection /\ keys' = keys /\ overrides' = overrides
          /\ render'[h].follows = render[h].follows
      BY <2>1, <2>3 DEF Displayed, SessionStep, RenderRecords
    <3> QED
      BY <2>1, <2>2, <3>1 DEF ReadsCurrent, Known, Stage, KeyShown, ActiveAccount
  <2>4. CASE Displayed' # Displayed
    <3>1. render'[h].follows = render[h].follows
      BY <2>1 DEF SessionStep, RenderRecords
    <3> QED
      BY <2>1, <2>2, <2>4, <3>1 DEF ReadsCurrent, Known, Stage
  <2> QED
    BY <2>3, <2>4
<1> QED
  BY <1>1, <1>2, <1>3 DEF ViewInv, ViewTypes

\* The other renders keep what they have read.
LEMMA OtherRendersKeep ==
    ASSUME ViewInv, UNCHANGED vars, NEW h \in Renders, NEW new \in RenderRecords,
           render' = [render EXCEPT ![h] = new],
           ReadsCurrent(h)' /\ Known(h)'
    PROVE  ViewInv'
<1>1. SessionInv' /\ overrides' \in [Deployments -> Overrides]
  <2>1. [Next]_vars
    OBVIOUS
  <2> QED
    BY <2>1, NextHolds, OverridesKept DEF ViewInv, ViewTypes
<1>2. render \in [Renders -> RenderRecords] /\ render' \in [Renders -> RenderRecords]
  BY DEF ViewInv, ViewTypes
<1>3. ASSUME NEW g \in Renders, g # h
      PROVE  ReadsCurrent(g)' /\ Known(g)'
  <2>1. /\ render'[g] = render[g] /\ selection' = selection /\ keys' = keys
        /\ overrides' = overrides
    BY <1>2, <1>3 DEF vars, storeVars
  <2>2. ReadsCurrent(g) /\ Known(g)
    BY DEF ViewInv
  <2> QED
    BY <2>1, <2>2 DEF ReadsCurrent, Known, Stage, KeyShown, ActiveAccount
<1> QED
  BY <1>1, <1>2, <1>3 DEF ViewInv, ViewTypes

LEMMA RenderStepKeeps ==
    ASSUME ViewInv, UNCHANGED vars, NEW h \in Renders, RenderStep(h)
    PROVE  ViewInv'
<1> DEFINE old == render[h]
           read == render[h].read
<1>1. /\ render \in [Renders -> RenderRecords] /\ render[h] \in RenderRecords
      /\ ReadsCurrent(h) /\ Known(h) /\ StoreInv
      /\ selection \in Deployments /\ selection # None
      /\ overrides \in [Deployments -> Overrides]
  BY DeploymentsAssumption DEF ViewInv, ViewTypes, SessionInv, TypeOK
<1>2. selection' = selection /\ keys' = keys /\ overrides' = overrides
  BY DEF vars, storeVars
<1>3. \A n : KeyShown(n)' = KeyShown(n) /\ ActiveAccount(n)' = ActiveAccount(n)
  BY <1>2 DEF KeyShown, ActiveAccount
<1>4. CASE ReadSelection(h)
  <2> DEFINE network == SelectedOrError(render[h].asked)
             new == [old EXCEPT !.stage = IF network = None THEN "draw" ELSE "account",
                                !.read = [@ EXCEPT !.network = network], !.torn = FALSE]
  <2>1. network \in {selection, None}
    BY DEF SelectedOrError
  <2>2. new \in RenderRecords /\ render' = [render EXCEPT ![h] = new]
    <3> HIDE DEF network
    <3>1. new \in RenderRecords
      <4>1. network \in Deployments \cup {None}
        BY <1>1, <2>1
      <4>2. read \in Pages /\ [read EXCEPT !.network = network] \in Pages
        BY <1>1, <4>1 DEF RenderRecords, Pages
      <4>3. (IF network = None THEN "draw" ELSE "account") \in RenderStages
        BY DEF RenderStages
      <4> QED
        BY <1>1, <4>2, <4>3 DEF RenderRecords
    <3>2. render' = [render EXCEPT ![h].stage = IF network = None THEN "draw" ELSE "account",
                                   ![h].read.network = network, ![h].torn = FALSE]
      BY <1>4 DEF ReadSelection, network
    <3> QED
      BY <1>1, <3>1, <3>2 DEF RenderRecords
  <2>3. ReadsCurrent(h)' /\ Known(h)'
    BY <1>1, <1>2, <2>1, <2>2 DEF ReadsCurrent, Known, Stage, RenderRecords, Pages
  <2> QED
    BY <2>2, <2>3, OtherRendersKeep
<1>5. CASE ReadAccount(h)
  <2> DEFINE account == ActiveAccount(read.network)
             new == [old EXCEPT !.stage = "balances", !.read = [@ EXCEPT !.account = account]]
  <2>1. account \in Accounts
    BY <1>1, ActiveAccountType
  <2>2. new \in RenderRecords /\ render' = [render EXCEPT ![h] = new]
    <3> HIDE DEF account
    <3>1. new \in RenderRecords
      BY <1>1, <2>1 DEF RenderRecords, Pages, RenderStages
    <3> QED
      BY <1>1, <1>5, <3>1 DEF ReadAccount, Read, Stage, account
  <2>3. Stage(h) = "account"
    BY <1>5 DEF ReadAccount
  <2>4. ReadsCurrent(h)' /\ Known(h)'
    BY <1>1, <1>2, <1>3, <2>2, <2>3 DEF ReadsCurrent, Known, Stage, RenderRecords, Pages
  <2> QED
    BY <2>2, <2>4, OtherRendersKeep
<1>6. CASE ReadBalances(h)
  <2>1. PICK owner \in {ActiveAccount(read.network), None} :
            render' = [render EXCEPT ![h].stage = "again", ![h].read.balances = owner]
    BY <1>6 DEF ReadBalances, Read
  <2> DEFINE new == [old EXCEPT !.stage = "again", !.read = [@ EXCEPT !.balances = owner]]
  <2>2. owner \in Accounts \cup {None}
    BY <1>1, <2>1, ActiveAccountType
  <2>3. new \in RenderRecords /\ render' = [render EXCEPT ![h] = new]
    <3>1. new \in RenderRecords
      BY <1>1, <2>2 DEF RenderRecords, Pages, RenderStages
    <3> QED
      BY <1>1, <2>1, <3>1
  <2>4. Stage(h) = "balances"
    BY <1>6 DEF ReadBalances
  <2>5. ReadsCurrent(h)' /\ Known(h)'
    BY <1>1, <1>2, <1>3, <2>1, <2>3, <2>4 DEF ReadsCurrent, Known, Stage, RenderRecords, Pages
  <2> QED
    BY <2>3, <2>5, OtherRendersKeep
<1>7. CASE ReadAgain(h)
  <2> DEFINE key == KeyShown(read.network)
             endpoints == overrides[read.network]
             new == [old EXCEPT !.stage = "draw",
                                !.read = [@ EXCEPT !.override = key, !.endpoints = endpoints]]
  <2>1. Stage(h) = "again"
    BY <1>7 DEF ReadAgain
  <2>2. key \in KeyIds \cup {None} /\ endpoints \in Overrides
    BY <1>1, <2>1, KeyShownType DEF Known, RenderRecords, Pages
  <2>3. new \in RenderRecords /\ render' = [render EXCEPT ![h] = new]
    <3> HIDE DEF key, endpoints
    <3>1. new \in RenderRecords
      BY <1>1, <2>2 DEF RenderRecords, Pages, RenderStages
    <3> QED
      BY <1>1, <1>7, <3>1 DEF ReadAgain, Read, Stage, key, endpoints
  <2>4. ReadsCurrent(h)' /\ Known(h)'
    BY <1>1, <1>2, <1>3, <2>1, <2>3 DEF ReadsCurrent, Known, Stage, RenderRecords, Pages
  <2> QED
    BY <2>3, <2>4, OtherRendersKeep
<1>8. CASE RenderFails(h)
  <2> DEFINE new == [old EXCEPT !.stage = "draw", !.read = NoPage]
  <2>1. NoPage \in Pages /\ NoPage.network = None
    BY DEF NoPage, Pages, NoOverride, Overrides
  <2>2. new \in RenderRecords /\ render' = [render EXCEPT ![h] = new]
    BY <1>1, <1>8, <2>1 DEF RenderFails, RenderRecords, RenderStages
  <2>3. ReadsCurrent(h)' /\ Known(h)'
    BY <1>1, <2>1, <2>2 DEF ReadsCurrent, Known, Stage, RenderRecords
  <2> QED
    BY <2>2, <2>3, OtherRendersKeep
<1>9. CASE Draw(h)
  <2>1. Idle \in RenderRecords /\ Idle.stage = "idle"
    BY DEF Idle, NoPage, Pages, NoOverride, Overrides, RenderRecords, RenderStages
  <2>2. render' = [render EXCEPT ![h] = Idle]
    BY <1>9 DEF Draw
  <2>3. ReadsCurrent(h)' /\ Known(h)'
    BY <1>1, <2>1, <2>2 DEF ReadsCurrent, Known, Stage
  <2> QED
    BY <2>1, <2>2, <2>3, OtherRendersKeep
<1> QED
  BY <1>4, <1>5, <1>6, <1>7, <1>8, <1>9 DEF RenderStep

LEMMA EventStepKeeps ==
    ASSUME ViewInv, UNCHANGED vars, NEW h \in Renders, EventStep(h)
    PROVE  ViewInv'
<1>1. /\ render \in [Renders -> RenderRecords] /\ render[h] \in RenderRecords /\ Known(h)
      /\ selection \in Deployments
      /\ gateSelection \in [Requests -> Deployments \cup {None}]
      /\ \A r \in Requests : Network(r) \in Deployments
  BY DeploymentsAssumption, CallsAssumption DEF ViewInv, ViewTypes, SessionInv, TypeOK, Network
<1>2. Idle \in RenderRecords /\ Idle.stage = "idle"
  BY DEF Idle, NoPage, Pages, NoOverride, Overrides, RenderRecords, RenderStages
<1>3. ASSUME NEW asked \in Deployments \cup {None}, Start(h, asked)
      PROVE  ViewInv'
  <2> DEFINE new == [Idle EXCEPT !.stage = "read", !.asked = asked]
  <2>1. new \in RenderRecords /\ render' = [render EXCEPT ![h] = new] /\ new.stage = "read"
    BY <1>2, <1>3 DEF Start, RenderRecords, RenderStages
  <2> HIDE DEF new
  <2>2. ReadsCurrent(h)' /\ Known(h)'
    BY <1>1, <2>1 DEF ReadsCurrent, Known, Stage
  <2> QED
    BY <2>1, <2>2, OtherRendersKeep
<1>4. CASE OpenHome(h) \/ Navigate(h)
  BY <1>1, <1>3, <1>4 DEF OpenHome, Navigate
<1>5. ASSUME NEW r \in Requests, Follow(h, r)
      PROVE  ViewInv'
  <2> DEFINE previous == IF Method(r) = "switchNetwork" THEN selection ELSE None
             new == [Idle EXCEPT !.stage = "follow", !.follows = r, !.previous = previous]
  <2>1. /\ new \in RenderRecords /\ render' = [render EXCEPT ![h] = new]
        /\ new.stage = "follow" /\ new.follows = r
    BY <1>1, <1>2, <1>5 DEF Follow, RenderRecords, RenderStages
  <2> HIDE DEF new
  <2>2. ReadsCurrent(h)' /\ Known(h)'
    BY <1>1, <2>1 DEF ReadsCurrent, Known, Stage
  <2> QED
    BY <2>1, <2>2, OtherRendersKeep
<1>6. CASE AfterSwitch(h)
  <2> DEFINE r == render[h].follows
  <2>1. r \in Requests
    BY <1>1, <1>6 DEF AfterSwitch, Known
  <2>2. PICK asked \in Deployments \cup {None} : Start(h, asked)
    BY <1>1, <1>6, <2>1 DEF AfterSwitch, RenderRecords
  <2> QED
    BY <1>3, <2>2
<1>7. CASE AfterForm(h)
  <2> DEFINE r == render[h].follows
  <2>1. r \in Requests
    BY <1>1, <1>7 DEF AfterForm, Known
  <2>2. CASE render' = [render EXCEPT ![h] = Idle]
    <3>1. ReadsCurrent(h)' /\ Known(h)'
      BY <1>1, <1>2, <2>2 DEF ReadsCurrent, Known, Stage
    <3> QED
      BY <1>2, <2>2, <3>1, OtherRendersKeep
  <2>3. CASE Start(h, gateSelection[r])
    BY <1>1, <1>3, <2>1, <2>3
  <2> QED
    BY <1>7, <2>2, <2>3 DEF AfterForm
<1> QED
  BY <1>4, <1>5, <1>6, <1>7 DEF EventStep

-----------------------------------------------------------------------------
LEMMA ViewInit == HomeInit => ViewInv
<1> SUFFICES ASSUME HomeInit
             PROVE  ViewInv
  OBVIOUS
<1>1. SessionInv
  BY InitHolds DEF HomeInit
<1>2. Idle \in RenderRecords /\ Idle.stage = "idle" /\ NoOverride \in Overrides
  BY DEF Idle, NoPage, Pages, NoOverride, Overrides, RenderRecords, RenderStages
<1>3. ViewTypes
  BY <1>2 DEF HomeInit, Init, ViewTypes
<1>4. ASSUME NEW h \in Renders
      PROVE  ReadsCurrent(h) /\ Known(h)
  BY <1>2 DEF HomeInit, ReadsCurrent, Known, Stage
<1> QED
  BY <1>1, <1>3, <1>4 DEF ViewInv

LEMMA ViewNext == ViewInv /\ [HomeNext]_homeVars => ViewInv'
<1> SUFFICES ASSUME ViewInv, [HomeNext]_homeVars
             PROVE  ViewInv'
  OBVIOUS
<1>1. CASE UNCHANGED homeVars
  <2>1. UNCHANGED vars /\ render' = render
    BY <1>1 DEF homeVars
  <2>2. SessionInv'
    BY <2>1, NextHolds DEF ViewInv
  <2>3. selection' = selection /\ keys' = keys /\ overrides' = overrides
    BY <2>1 DEF vars, storeVars
  <2>4. ViewTypes'
    BY <2>1, <2>3 DEF ViewInv, ViewTypes
  <2>5. \A h \in Renders : ReadsCurrent(h)' /\ Known(h)'
    BY <2>1, <2>3 DEF ViewInv, ReadsCurrent, Known, Stage, KeyShown, ActiveAccount
  <2> QED
    BY <2>2, <2>4, <2>5 DEF ViewInv
<1> QED
  BY <1>1, SessionStepKeeps, RenderStepKeeps, EventStepKeeps DEF HomeNext

\* A page drawn while nothing it displays changes is the view of one state,
\* whatever was changed before and whichever network the handler asked for.
THEOREM PagesAreOneState == HomeSpec => []HomeDrawsOneState
<1>1. ViewInv => HomeDrawsOneState
  <2> SUFFICES ASSUME ViewInv, NEW h \in Renders, Stage(h) = "draw",
                      Read(h).network # None, ~render[h].torn
               PROVE  /\ Read(h).network = selection
                      /\ Read(h).account = ActiveAccount(selection)
                      /\ Read(h).balances \in {Read(h).account, None}
                      /\ Read(h).account = IF Read(h).override = None THEN Derived
                                           ELSE Read(h).override
                      /\ Read(h).endpoints = overrides[selection]
    BY DEF HomeDrawsOneState
  <2>1. ReadsCurrent(h) /\ StoreInv
    BY DEF ViewInv, SessionInv
  <2> QED
    BY <2>1, KeyShownType DEF ReadsCurrent, Read
<1> QED
  BY <1>1, ViewInit, ViewNext, PTL DEF HomeSpec

\* Home only looks: with any number of renders the requests do what they do
\* without, and whatever is proved of the session holds while Home is open.
THEOREM HomeOnlyLooks == HomeSpec => Spec
<1>1. HomeInit => Init
  BY DEF HomeInit
<1>2. [HomeNext]_homeVars => [Next]_vars
  BY DEF HomeNext, homeVars, SessionStep
<1> QED
  BY <1>1, <1>2, PTL DEF HomeSpec, Spec
=============================================================================
