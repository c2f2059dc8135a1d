------------------------------ MODULE HomeView ------------------------------
(***************************************************************************)
(* The Home page (home.ts, and the handlers of home-network.ts,            *)
(* home-key-override.ts and home-network-endpoints.ts that redraw it)      *)
(* while requests and forms of SnapSession are in progress.  One render    *)
(* reads the persisted state four times and waits for MetaMask and for     *)
(* endpoints in between.                                                   *)
(*                                                                         *)
(* A page has the contents of both screens: the account and the balances   *)
(* of the overview, the override and the endpoints of the settings.  The   *)
(* network None stands for the page that reports an error.                 *)
(***************************************************************************)
EXTENDS SnapSession

CONSTANT Renders    \* calls of renderHomeInterface in progress at once

ASSUME RendersAssumption == Renders \cap Requests = {}

VARIABLES
    render,     \* what each render has read so far
    page        \* what Home displays

homeVars == <<vars, render, page>>

NoPage == [network |-> None, account |-> None, balances |-> None,
           override |-> None, endpoints |-> NoOverride]

\* `asked` is the network the handler asks for, `follows` the Home request whose
\* end it waits for, and `previous` the selection that request found.  `torn`:
\* what Home shows was changed since the first read.
Idle == [stage |-> "idle", asked |-> None, follows |-> None, previous |-> None,
         torn |-> FALSE, read |-> NoPage]

HomeInit ==
    /\ Init
    /\ render = [h \in Renders |-> Idle]
    /\ page = NoPage

Stage(h) == render[h].stage
Read(h) == render[h].read

Start(h, asked) ==
    render' = [render EXCEPT ![h] = [Idle EXCEPT !.stage = "read", !.asked = asked]]

-----------------------------------------------------------------------------
(* Events that redraw.                                                     *)

\* onHomePage, renderHomePage.
OpenHome(h) ==
    /\ Stage(h) = "idle"
    /\ Start(h, None)
    /\ UNCHANGED page

\* handleHomeNavigationInput, and the toggle of the network menu.
Navigate(h) ==
    /\ Stage(h) = "idle"
    /\ Start(h, selection)
    /\ UNCHANGED page

\* A switch or a form of Home is submitted; the switch first reads the
\* selection it would return to.
Follow(h, r) ==
    /\ Stage(h) = "idle"
    /\ pc[r] = "idle" /\ call[r].origin = Home
    /\ \A g \in Renders : render[g].follows # r
    /\ render' = [render EXCEPT ![h] =
                    [Idle EXCEPT !.stage = "follow", !.follows = r,
                                 !.previous = IF Method(r) = "switchNetwork" THEN selection ELSE None]]
    /\ UNCHANGED page

\* handleHomeNetworkInput: what is selected now, or was before.
AfterSwitch(h) ==
    LET r == render[h].follows IN
    /\ Stage(h) = "follow" /\ Method(r) = "switchNetwork" /\ pc[r] \in Ended
    /\ Start(h, IF pc[r] = "returned" THEN Network(r) ELSE render[h].previous)
    /\ UNCHANGED page

\* handleHomeUserInput, handleEndpointOverrideInput: the network of the screen,
\* which is the one they found selected, or that one when they differ.
AfterForm(h) ==
    LET r == render[h].follows IN
    /\ Stage(h) = "follow" /\ Method(r) \in FormMethods /\ pc[r] \in Ended
    /\ IF gateSelection[r] = None
       THEN render' = [render EXCEPT ![h] = Idle]
       ELSE Start(h, gateSelection[r])
    /\ UNCHANGED page

-----------------------------------------------------------------------------
(* renderHomeInterface.                                                    *)

\* Mutant of SelectedOrError: the handler's network is taken as it is.
SelectedOrErrorUnchecked(asked) == IF asked = None THEN selection ELSE asked

\* assertSelectedNetwork refuses a network that is not selected.
SelectedOrError(asked) == IF asked \in {None, selection} THEN selection ELSE None

ReadSelection(h) ==
    LET network == SelectedOrError(render[h].asked) IN
    /\ Stage(h) = "read"
    /\ render' = [render EXCEPT ![h].stage = IF network = None THEN "draw" ELSE "account",
                                ![h].read.network = network, ![h].torn = FALSE]
    /\ UNCHANGED page

ReadAccount(h) ==
    /\ Stage(h) = "account"
    /\ render' = [render EXCEPT ![h].stage = "balances",
                                ![h].read.account = ActiveAccount(Read(h).network)]
    /\ UNCHANGED page

\* getWalletInventory resolves the account anew; its failure shows no balance.
ReadBalances(h) ==
    /\ Stage(h) = "balances"
    /\ \E owner \in {ActiveAccount(Read(h).network), None} :
        render' = [render EXCEPT ![h].stage = "again", ![h].read.balances = owner]
    /\ UNCHANGED page

KeyShown(n) ==
    IF EffectiveKeyOverride(keys, n) = None THEN None ELSE EffectiveKeyOverride(keys, n).id

\* The second getState.
ReadAgain(h) ==
    LET n == Read(h).network IN
    /\ Stage(h) = "again"
    /\ render' = [render EXCEPT ![h].stage = "draw", ![h].read.override = KeyShown(n),
                                ![h].read.endpoints = overrides[n]]
    /\ UNCHANGED page

RenderFails(h) ==
    /\ Stage(h) \in {"read", "account", "balances", "again"}
    /\ render' = [render EXCEPT ![h].stage = "draw", ![h].read = NoPage]
    /\ UNCHANGED page

\* snap_createInterface or snap_updateInterface, which may fail.
Draw(h) ==
    /\ Stage(h) = "draw"
    /\ page' = Read(h) \/ UNCHANGED page
    /\ render' = [render EXCEPT ![h] = Idle]

-----------------------------------------------------------------------------
RenderStep(h) ==
    \/ ReadSelection(h) \/ ReadAccount(h) \/ ReadBalances(h) \/ ReadAgain(h)
    \/ RenderFails(h) \/ Draw(h)

EventStep(h) ==
    OpenHome(h) \/ Navigate(h) \/ (\E r \in Requests : Follow(h, r)) \/ AfterSwitch(h) \/ AfterForm(h)

Displayed == <<selection, keys, overrides>>

\* Other requests run while a page is rendered.
SessionStep ==
    /\ Next
    /\ render' = [h \in Renders |->
                    [render[h] EXCEPT !.torn = @ \/ Displayed' # Displayed]]
    /\ UNCHANGED page

HomeNext ==
    \/ SessionStep
    \/ \E h \in Renders : (RenderStep(h) \/ EventStep(h)) /\ UNCHANGED vars

HomeSpec == HomeInit /\ [][HomeNext]_homeVars

-----------------------------------------------------------------------------
(* Properties.                                                             *)

\* A page that was not overtaken by a change is the view of one state: the
\* selected network, its active account and the balances of that one, its
\* imported key and its endpoints, though they come from four reads and the
\* network often from an older one.
HomeDrawsOneState ==
    \A h \in Renders :
        LET read == Read(h) IN
        (Stage(h) = "draw" /\ read.network # None /\ ~render[h].torn) =>
            /\ read.network = selection
            /\ read.account = ActiveAccount(selection)
            /\ read.balances \in {read.account, None}
            /\ read.account = IF read.override = None THEN Derived ELSE read.override
            /\ read.endpoints = overrides[selection]

=============================================================================
