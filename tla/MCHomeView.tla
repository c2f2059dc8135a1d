---------------------------- MODULE MCHomeView ----------------------------
(***************************************************************************)
(* Small instances of HomeView: two requests and a render in progress, a   *)
(* mainnet and a test deployment, a history of one entry.                  *)
(***************************************************************************)
EXTENDS HomeView, TLC

CONSTANTS main, mutiny, regtest, q1, q2, q3, app, evil, url1, k0

RequestSymmetry == Permutations(Requests)

StoredKey == [id |-> k0, network |-> main, created |-> 1, valid |-> TRUE]
KeysOrNone == {<<>>, <<StoredKey>>}

Rpc(method, n) == [method |-> method, origin |-> app, network |-> n]
SignCall(method, n, a) ==
    [method |-> method, origin |-> app, network |-> n, account |-> a]
Switch(origin, n) == [method |-> "switchNetwork", origin |-> origin, network |-> n]
Form(method, n) == [method |-> method, origin |-> Home, network |-> n]
EndpointForm(method, n) ==
    [method |-> method, origin |-> Home, network |-> n, kind |-> "esplora", url |-> url1]

SignCalls == {SignCall("signPsbt", main, Derived), SignCall("signMessage", main, k0),
              SignCall("signBatch", mutiny, Derived),
              SignCall("signPsbtUnprompted", main, Derived),
              SignCall("signPsbtUnprompted", mutiny, Derived)}
RefusedCalls == {[SignCall("signPsbt", main, Derived) EXCEPT !.origin = evil],
                 SignCall("signMessage", regtest, Derived), Switch(app, regtest)}
ReadCalls == {Rpc("getAccounts", main), Rpc("getWalletInventory", main)}
SwitchCalls == {Switch(app, main), Switch(Home, mutiny)}
FormCalls == {Form("importKey", main), Form("removeKey", main),
              EndpointForm("saveEndpoint", main), EndpointForm("clearEndpoint", main)}

AllCalls == SignCalls \cup RefusedCalls \cup ReadCalls \cup SwitchCalls \cup FormCalls
SwitchAndSign == SwitchCalls \cup {SignCall("signPsbt", main, Derived)}
SwitchAndForms == SwitchCalls \cup FormCalls
=============================================================================
