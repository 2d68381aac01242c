----------------------------- MODULE ChargePage -----------------------------
(***************************************************************************)
(* The payment tab of the dApp, one page for each user, together with the  *)
(* controller it waits for.  A page reads the account's nonce, has the     *)
(* wallet sign it, publishes the request, and then shows the charge status *)
(* it makes out from the events about the machine, whoever they are for.   *)
(***************************************************************************)
EXTENDS Controller

CONSTANTS
    MaxPresses,     \* bound: presses of Pay on all pages
    MaxResets       \* bound: resets of all pages

ASSUME ChargePageAssumption == {MaxPresses, MaxResets} \subseteq Nat

VARIABLES
    page,           \* chargeStatus and isChargeDisabled of each page
    listening,      \* its relay connection and subscription
    delivered,      \* events of the log that are past for the subscription
    charges,        \* its runs of handleCharge, in the order of the presses
    resets          \* how often it has been reset

pageVars == <<page, listening, delivered, charges, resets>>
pvars == <<cvars, pageVars>>

ChargeStatuses == {"idle", "requested", "working", "available", "error"}
Listening == {"connecting", "failed", "subscribed", "closed"}
Steps == {"fetch", "sign", "publish"}
Outcomes == {"threw", "rejected", "dropped", "failed", "published"}

PageInit ==
    /\ Init
    /\ page = [u \in Users |-> [chargeStatus |-> "idle", isChargeDisabled |-> FALSE]]
    /\ listening = [u \in Users |-> "connecting"]
    /\ delivered = [u \in Users |-> 0]
    /\ charges = [u \in Users |-> <<>>]
    /\ resets = [u \in Users |-> 0]

\* One user's runs of handleCharge that are at a step.
ChargesAt(u, step) == {k \in DOMAIN charges[u] : charges[u][k].step = step}
Goes(u, k, step) == charges' = [charges EXCEPT ![u][k].step = step]

Enables(u) == page' = [page EXCEPT ![u].isChargeDisabled = FALSE]
Shows(u, status) == page' = [page EXCEPT ![u].chargeStatus = status]

\* isTabDisabled: the tabs are locked while a payment shows progress.
IsTabDisabled(u) == page[u].chargeStatus \notin {"idle", "available"}

\* handleReset closes the subscription; nothing opens it again.
HandleReset(u) ==
    /\ SumOver(resets, Users) < MaxResets
    /\ resets' = [resets EXCEPT ![u] = @ + 1]
    /\ page' = [page EXCEPT ![u] = [chargeStatus |-> "idle", isChargeDisabled |-> FALSE]]
    /\ listening' = [listening EXCEPT ![u] = IF @ = "subscribed" THEN "closed" ELSE @]
    /\ UNCHANGED <<cvars, delivered, charges>>

\* The request a page publishes, for the one machine it knows.
Asks(u, k) ==
    \E m \in Machines :
        PublishRequest(Request(FALSE, m, "Working", "UserRequest", NoRequest, u, charges[u][k].nonce))
-----------------------------------------------------------------------------
(***************************************************************************)
(* Faulty variants of the page's steps, each with one plausible mistake.   *)
(* No specification uses them; each stands in for the step of the same     *)
(* shape to show that a property would notice the mistake.                 *)
(***************************************************************************)

\* The button looks at isChargeDisabled alone.
PressPayAnyStatus(u) ==
    /\ ~page[u].isChargeDisabled
    /\ SumOver([v \in Users |-> Len(charges[v])], Users) < MaxPresses
    /\ page' = [page EXCEPT ![u].isChargeDisabled = TRUE]
    /\ charges' = [charges EXCEPT ![u] = Append(@, [step |-> "fetch", nonce |-> 0])]
    /\ UNCHANGED <<cvars, listening, delivered, resets>>

\* A failed publication starts handleCharge again.
PublishFailsRetries(u, k) ==
    /\ k \in ChargesAt(u, "publish")
    /\ listening[u] \in {"subscribed", "closed"}
    /\ Fault
    /\ Asks(u, k)
    /\ Goes(u, k, "fetch")
    /\ UNCHANGED <<now, controllerVars, late, merged, escrowVars, page, listening, delivered, resets>>

\* The tabs are never disabled.
SelectTabAlways(u) == HandleReset(u)

\* The status of the event is shown as it comes.
OnEventCopies(u) ==
    /\ listening[u] = "subscribed"
    /\ delivered[u] < Len(log)
    /\ delivered' = [delivered EXCEPT ![u] = @ + 1]
    /\ LET event == log[delivered[u] + 1]
       IN  IF event.kind = "Status" THEN Shows(u, event.status) ELSE UNCHANGED page
    /\ UNCHANGED <<cvars, listening, charges, resets>>
-----------------------------------------------------------------------------
\* The relay.

\* Relay.connect answers and the effect that waits for it subscribes to the
\* events since this second.
Connect(u) ==
    /\ listening[u] = "connecting"
    /\ listening' = [listening EXCEPT ![u] = "subscribed"]
    /\ delivered' = [delivered EXCEPT ![u] = Cardinality({i \in Ids : log[i].created_at < now})]
    /\ UNCHANGED <<cvars, page, charges, resets>>

ConnectFails(u) ==
    /\ listening[u] = "connecting"
    /\ Fault
    /\ listening' = [listening EXCEPT ![u] = "failed"]
    /\ UNCHANGED <<log, now, controllerVars, late, merged, escrowVars, page, delivered, charges, resets>>

\* Every event of the machine moves the status, another user's too.
OnEvent(u) ==
    /\ listening[u] = "subscribed"
    /\ delivered[u] < Len(log)
    /\ delivered' = [delivered EXCEPT ![u] = @ + 1]
    /\ LET event == log[delivered[u] + 1]
       IN  \/ event.kind = "Request" /\ Shows(u, "requested")
           \/ event.kind = "Status" /\ event.status = "Working" /\ Shows(u, "working")
           \/ /\ event.kind = "Status" /\ event.status = "Available"
              /\ page' = [page EXCEPT ![u] =
                     [chargeStatus |-> "available", isChargeDisabled |-> FALSE]]
           \/ event.kind = "Transaction" /\ UNCHANGED page
    /\ UNCHANGED <<cvars, listening, charges, resets>>
-----------------------------------------------------------------------------
\* handleCharge, one action from one await to the next.

PressPay(u) ==
    /\ ~page[u].isChargeDisabled
    /\ page[u].chargeStatus = "idle"
    /\ SumOver([v \in Users |-> Len(charges[v])], Users) < MaxPresses
    /\ page' = [page EXCEPT ![u].isChargeDisabled = TRUE]
    /\ charges' = [charges EXCEPT ![u] = Append(@, [step |-> "fetch", nonce |-> 0])]
    /\ UNCHANGED <<cvars, listening, delivered, resets>>

FetchNonce(u, k) ==
    /\ k \in ChargesAt(u, "fetch")
    /\ charges' = [charges EXCEPT ![u][k] = [step |-> "sign", nonce |-> next[u]]]
    /\ UNCHANGED <<cvars, page, listening, delivered, resets>>

\* Reading the account is outside of the try: the button stays disabled.
FetchThrows(u, k) ==
    /\ k \in ChargesAt(u, "fetch")
    /\ Fault
    /\ Goes(u, k, "threw")
    /\ UNCHANGED <<log, now, controllerVars, late, merged, escrowVars, page, listening, delivered, resets>>

\* A signature over a nonce the account has left behind grants nothing.
SignMessage(u, k) ==
    /\ k \in ChargesAt(u, "sign")
    /\ IF charges[u][k].nonce = next[u] THEN Grant(u) ELSE UNCHANGED escrowVars
    /\ Goes(u, k, "publish")
    /\ UNCHANGED <<log, now, controllerVars, late, faults, merged, page, listening, delivered, resets>>

SignRejected(u, k) ==
    /\ k \in ChargesAt(u, "sign")
    /\ Goes(u, k, "rejected")
    /\ Enables(u)
    /\ UNCHANGED <<cvars, listening, delivered, resets>>

PublishToRelay(u, k) ==
    /\ k \in ChargesAt(u, "publish")
    /\ listening[u] \in {"subscribed", "closed"}
    /\ Asks(u, k)
    /\ Goes(u, k, "published")
    /\ UNCHANGED <<now, controllerVars, late, faults, merged, escrowVars, page, listening, delivered, resets>>

\* Without a relay publishToRelay returns as if it had published.
PublishDropped(u, k) ==
    /\ k \in ChargesAt(u, "publish")
    /\ listening[u] \in {"connecting", "failed"}
    /\ Goes(u, k, "dropped")
    /\ UNCHANGED <<cvars, page, listening, delivered, resets>>

\* publish rejects: the relay may have stored the event all the same.
PublishFails(u, k) ==
    /\ k \in ChargesAt(u, "publish")
    /\ listening[u] \in {"subscribed", "closed"}
    /\ Fault
    /\ Asks(u, k) \/ UNCHANGED log
    /\ Goes(u, k, "failed")
    /\ Enables(u)
    /\ UNCHANGED <<now, controllerVars, late, merged, escrowVars, listening, delivered, resets>>
-----------------------------------------------------------------------------
\* The Reset button, there once the status is available.
Reset(u) == page[u].chargeStatus = "available" /\ HandleReset(u)

\* Selecting a tab, the one that is shown too, resets the payment.
SelectTab(u) == ~IsTabDisabled(u) /\ HandleReset(u)
-----------------------------------------------------------------------------
HandleCharge(u) ==
    \E k \in DOMAIN charges[u] :
        \/ FetchNonce(u, k) \/ SignMessage(u, k)
        \/ SignRejected(u, k) \/ PublishToRelay(u, k) \/ PublishDropped(u, k)

PageFault(u) ==
    \/ ConnectFails(u)
    \/ \E k \in DOMAIN charges[u] : FetchThrows(u, k) \/ PublishFails(u, k)

PageStep(u) ==
    \/ Connect(u) \/ OnEvent(u) \/ PressPay(u) \/ HandleCharge(u) \/ PageFault(u)
    \/ Reset(u) \/ SelectTab(u)

PageNext ==
    \/ \E u \in Users : PageStep(u)
    \/ (ControllerStep \/ Tick) /\ UNCHANGED pageVars

PageSpec == PageInit /\ [][PageNext]_pvars

\* The browser runs what is ready, the relay delivers what it stores, and the
\* user answers the wallet's question; the controller's runtime polls every
\* task that can make progress, its message loop, which is at one await at a
\* time, and the timers, of which there are finitely many; time passes.  Nobody
\* has to press a button.
PageFairness ==
    /\ \A u \in Users :
           /\ WF_pvars(Connect(u))
           /\ WF_pvars(OnEvent(u))
           /\ WF_pvars(HandleCharge(u))
    /\ WF_pvars((Receive \/ Pay \/ Send) /\ UNCHANGED pageVars)
    /\ WF_pvars((\E t \in timers : TimerFires(t)) /\ UNCHANGED pageVars)
    /\ WF_pvars(Tick /\ UNCHANGED pageVars)

PageFairSpec == PageSpec /\ PageFairness
-----------------------------------------------------------------------------
PageTypeOK ==
    /\ page \in [Users -> [chargeStatus : ChargeStatuses, isChargeDisabled : BOOLEAN]]
    /\ listening \in [Users -> Listening]
    /\ \A u \in Users :
           /\ delivered[u] \in 0..Len(log)
           /\ resets[u] \in 0..MaxResets
           /\ \A k \in DOMAIN charges[u] :
                  charges[u][k] \in [step : Steps \cup Outcomes, nonce : Nonces]

RequestsOf(u) == {i \in Events("Request") : log[i].user = u}

\* Nobody is asked to pay again unasked: however the events of other users
\* move the status and enable the button, a page publishes one request, and
\* one more for every reset and every publication it was told had failed.
RequestsFollowResets ==
    \A u \in Users :
        Cardinality(RequestsOf(u)) <= 1 + resets[u] + Cardinality(ChargesAt(u, "failed"))

\* Pay is charged for at most once a press, over requests published twice,
\* handled again after a restart, and payments that land late.
ChargesFollowPresses == \A u \in Users : Payments(u) <= Len(charges[u])

\* Without faults a page that shows a payment in progress comes to show that
\* the machine is available: its subscription stays open until then.
ProgressEnds ==
    \A u \in Users : page[u].chargeStatus = "working" ~> page[u].chargeStatus = "available"

\* "Idle - Ready to pay": a page that shows it after it has published a request
\* does not keep Pay disabled for ever.
Unready(u) ==
    /\ page[u].chargeStatus = "idle"
    /\ page[u].isChargeDisabled
    /\ ChargesAt(u, "published") # {}
ReadyToPay == \A u \in Users : Unready(u) ~> ~Unready(u)
=============================================================================
