----------------------------- MODULE Controller -----------------------------
(***************************************************************************)
(* The controller: one process that takes events from the relay one at a   *)
(* time, charges the user of a request on chain, publishes the machine's   *)
(* new status and the tokens bought, and frees the machine ten seconds     *)
(* later from a spawned task.  Its memory is lost in a crash; docker       *)
(* starts it again.                                                        *)
(***************************************************************************)
EXTENDS ControllerState

Init ==
    /\ available = [u \in Users |-> InitialFunds]
    /\ held = [u \in Users |-> [n \in Nonces |-> NoLock]]
    /\ next = [u \in Users |-> 0]
    /\ granted = [u \in Users |-> {}]
    /\ log = <<>>
    /\ now = 1
    /\ up = TRUE
    /\ keyed = 0
    /\ machine = [m \in Machines |-> Fresh]
    /\ cursor = 0
    /\ handling = Idle
    /\ timers = {}
    /\ late = {}
    /\ faults = 0
    /\ merged = [u \in Users |-> 0]
-----------------------------------------------------------------------------
(***************************************************************************)
(* Faulty variants of the controller's steps, each with one plausible      *)
(* mistake.  No specification uses them; each stands in for the step of    *)
(* the same shape to show that a property would notice the mistake.        *)
(***************************************************************************)

\* The error of pay is logged and the handler goes on.
PayFailsGoesOn ==
    /\ At("pay")
    /\ handling' = [handling EXCEPT !.step = "status"]
    /\ UNCHANGED <<log, now, up, keyed, machine, cursor, timers, late, faults, merged, escrowVars>>

\* The payment is made with the account's nonce, not the one that was signed.
PaySucceedsAnyNonce ==
    /\ At("pay")
    /\ Charge(Handled.user, PayAmount)
    /\ handling' = [handling EXCEPT !.step = "status"]
    /\ UNCHANGED <<log, now, up, keyed, machine, cursor, timers, late, faults, merged>>

SendStatusWith(initial, after) ==
    /\ At("status")
    /\ Publish(Status(Handled.machine, Handled.to_status, Handled.reason, initial))
    /\ handling' = after
    /\ UNCHANGED <<now, up, keyed, machine, cursor, timers, late, faults, merged, escrowVars>>

\* The request's own initial_request is passed on instead of its id.
SendStatusForwardsInitial ==
    SendStatusWith(Handled.initial_request, [handling EXCEPT !.step = "transaction"])

\* The handler returns after the status.
SendStatusReturns == SendStatusWith(handling.request, Idle)

\* No task is spawned to end the session.
SendTransactionNoTimer ==
    /\ At("transaction")
    /\ SendTokens(Handled)
    /\ handling' = Idle
    /\ UNCHANGED <<now, up, keyed, machine, cursor, timers, late, faults, escrowVars>>

\* Recovery reads some event of the machine, not the newest one.
RestartFromAnyEvent ==
    /\ ~up
    /\ up' = TRUE
    /\ \E i \in Events("Status") :
           machine' = [m \in Machines |-> IF log[i].machine = m THEN RecoveredFrom(i) ELSE Fresh]
    /\ cursor' = Len(log)
    /\ UNCHANGED <<log, now, keyed, handling, timers, late, faults, merged, escrowVars>>
-----------------------------------------------------------------------------
\* Requests.

\* The dApp reads the account's nonce, has the wallet sign it and publishes
\* the request.
Ask(u, m, reason) ==
    /\ Cardinality(Events("Request")) < MaxRequests
    /\ Grant(u)
    /\ PublishRequest(Request(FALSE, m, "Working", reason, NoRequest, u, next[u]))
    /\ UNCHANGED <<now, controllerVars, late, faults, merged>>

\* The admin asks for the end of a session, with a signature of some user.
AdminStop(u, m, initial) ==
    /\ Cardinality(Events("Request")) < MaxRequests
    /\ Cardinality({i \in Events("Request") : log[i].admin}) < MaxAdmin
    /\ Grant(u)
    /\ PublishRequest(Request(TRUE, m, "Available", "AdminRequest", initial, u, next[u]))
    /\ UNCHANGED <<now, controllerVars, late, faults, merged>>
-----------------------------------------------------------------------------
\* The message loop, one action from one await to the next.

SkipRequest ==
    /\ Receives("Request")
    /\ ~Accepts(Incoming)
    /\ cursor' = cursor + 1
    /\ UNCHANGED <<log, now, up, keyed, machine, handling, timers, late, faults, merged, escrowVars>>

AcceptRequest ==
    /\ Receives("Request")
    /\ Accepts(Incoming)
    /\ cursor' = cursor + 1
    /\ handling' = [request |-> cursor + 1, step |-> "pay"]
    /\ UNCHANGED <<log, now, up, keyed, machine, timers, late, faults, merged, escrowVars>>

\* The payment went through and the answer says so.
PaySucceeds ==
    /\ At("pay")
    /\ Pays(Handled)
    /\ handling' = [handling EXCEPT !.step = "status"]
    /\ UNCHANGED <<log, now, up, keyed, machine, cursor, timers, late, faults, merged>>

\* The program or the RPC node refused it: the request is dropped and nothing
\* is published.
PayFails ==
    /\ At("pay")
    /\ handling' = Idle
    /\ UNCHANGED <<log, now, up, keyed, machine, cursor, timers, late, faults, merged, escrowVars>>

\* The confirmation timed out: dropped as well, but the transaction is out.
PayTimesOut ==
    /\ At("pay")
    /\ Fault
    /\ handling' = Idle
    /\ late' = late \cup {handling.request}
    /\ UNCHANGED <<log, now, up, keyed, machine, cursor, timers, merged, escrowVars>>

SendStatus ==
    /\ At("status")
    /\ Publish(Status(Handled.machine, Handled.to_status, Handled.reason, handling.request))
    /\ handling' = [handling EXCEPT !.step = "transaction"]
    /\ UNCHANGED <<now, up, keyed, machine, cursor, timers, late, faults, merged, escrowVars>>

\* The task that will free the machine is spawned.
SendTransaction ==
    /\ At("transaction")
    /\ SendTokens(Handled)
    /\ timers' = timers \cup {t \in {Timer(handling.request)} : Handled.to_status = "Working"}
    /\ handling' = Idle
    /\ UNCHANGED <<now, up, keyed, machine, cursor, late, faults, escrowVars>>

\* The controller learns a machine's status from the events about it, its own
\* among them.
HandleStatus ==
    /\ Receives("Status")
    /\ machine' = [machine EXCEPT ![Incoming.machine] =
           [status |-> Incoming.status, initial_request |-> Incoming.initial_request]]
    /\ cursor' = cursor + 1
    /\ UNCHANGED <<log, now, up, keyed, handling, timers, late, faults, merged, escrowVars>>

HandleTransaction ==
    /\ Receives("Transaction")
    /\ cursor' = cursor + 1
    /\ UNCHANGED <<log, now, up, keyed, machine, handling, timers, late, faults, merged, escrowVars>>

\* The ten seconds of a session are over.
TimerFires(t) ==
    /\ up
    /\ t \in timers
    /\ t.since < now
    /\ Publish(Status(log[t.request].machine, "Available", "UserBehaviour", t.request))
    /\ timers' = timers \ {t}
    /\ UNCHANGED <<now, up, keyed, machine, cursor, handling, late, faults, merged, escrowVars>>
-----------------------------------------------------------------------------
\* Faults.

\* Sending from the spawned task fails: only that task panics.
TimerFails(t) ==
    /\ up
    /\ t \in timers
    /\ t.since < now
    /\ Fault
    /\ timers' = timers \ {t}
    /\ UNCHANGED <<log, now, up, keyed, machine, cursor, handling, late, merged, escrowVars>>

\* The process stops at any await, a payment in flight may still land.
Crash ==
    /\ up
    /\ Fault
    /\ up' = FALSE
    /\ late' = late \cup {r \in {handling.request} : handling.step = "pay"}
    /\ machine' = [m \in Machines |-> Fresh]
    /\ handling' = Idle
    /\ timers' = {}
    /\ cursor' = 0
    /\ UNCHANGED <<log, now, keyed, merged, escrowVars>>

\* The subscription to the events since this second, in which it starts.
Subscribes == cursor' = Cardinality({i \in DOMAIN log : log[i].created_at < now})

\* The new process reads its key, then the newest event of each machine under
\* that key, and subscribes.
Restart ==
    /\ ~up
    /\ up' = TRUE
    /\ machine' \in {f \in [Machines -> UNION {Recovered(m) : m \in Machines}] :
                        \A m \in Machines : f[m] \in Recovered(m)}
    /\ Subscribes
    /\ UNCHANGED <<log, now, keyed, handling, timers, late, faults, merged, escrowVars>>

\* The key file went with the container, only the Solana keypair is mounted:
\* the new process generates a key, under which the relay has no events.
RestartRekeyed ==
    /\ ~up
    /\ Fault
    /\ up' = TRUE
    /\ keyed' = Len(log)
    /\ Subscribes
    /\ UNCHANGED <<log, now, machine, handling, timers, late, merged, escrowVars>>

\* A payment the controller gave up on lands.
LateLanding(r) ==
    /\ r \in late
    /\ Pays(log[r])
    /\ late' = late \ {r}
    /\ UNCHANGED <<log, now, controllerVars, faults, merged>>
-----------------------------------------------------------------------------
Pay == PaySucceeds \/ PayFails
Send == SendStatus \/ SendTransaction
Receive == SkipRequest \/ AcceptRequest \/ HandleStatus \/ HandleTransaction

Requests ==
    \E u \in Users, m \in Machines :
        \/ \E reason \in UserReasons : Ask(u, m, reason)
        \/ \E initial \in Events("Request") : AdminStop(u, m, initial)

ControllerStep ==
    \/ Receive \/ Pay \/ PayTimesOut \/ Send
    \/ \E t \in timers : TimerFires(t) \/ TimerFails(t)
    \/ Crash \/ Restart \/ RestartRekeyed
    \/ \E r \in late : LateLanding(r)

Ids == 1..Len(log)

\* Time passes, as far as seconds tell events apart: the next one stands for all
\* until something is published again, those of a session among them.
Tick ==
    /\ \E i \in Ids : log[i].created_at = now
    /\ now < MaxSeconds \/ ~up \/ \E t \in timers : t.since = now
    /\ now' = now + 1
    /\ UNCHANGED <<log, controllerVars, late, faults, merged, escrowVars>>

Next == Requests \/ ControllerStep \/ Tick

Spec == Init /\ [][Next]_cvars
-----------------------------------------------------------------------------
ControllerTypeOK ==
    /\ \A i \in Events("Request") :
           /\ log[i].to_status \in Statuses
           /\ log[i].reason \in Reasons
           /\ log[i].nonce \in Nonces
    /\ \A i \in Events("Status") :
           log[i].status \in Statuses /\ log[i].initial_request \in Events("Request")
    /\ machine \in [Machines -> [status : Statuses, initial_request : Ids \cup {NoRequest}]]
    /\ cursor \in 0..Len(log)
    /\ keyed \in 0..Len(log)
    /\ handling \in [request : Events("Request"), step : {"pay", "status", "transaction"}]
                    \cup {Idle}
    /\ \A t \in timers : t.request \in Events("Request") /\ t.since \in 1..now
    /\ late \subseteq Events("Request")
    /\ faults \in 0..MaxFaults
    /\ merged \in [Users -> Nat]
    /\ \A i \in Ids : log[i].created_at \in 1..now

Credits(u) == Cardinality({i \in Events("Transaction") : log[i].user = u})
Payments(u) == next[u]

\* Tokens are announced only for payments the chain has taken: over crashes,
\* restarts and requests seen twice, never more credits than payments.
CreditsArePaid == \A u \in Users : Credits(u) <= Payments(u)

\* A payment that is not credited is being handled, shares its Transaction with
\* an equal payment of one second, or was lost to a crash or to a payment whose
\* answer came too late: each fault loses one at most.
LossesAreFaults ==
    SumOver(next, Users) - SumOver([u \in Users |-> Credits(u)], Users)
      <= faults + SumOver(merged, Users)
         + Cardinality({s \in {handling.step} : s \in {"status", "transaction"}})

\* One signature buys one session: whatever is published twice, delivered
\* twice or handled again after a restart, no two requests that answer to the
\* same user and nonce both change a machine's status.
Signature(r) == <<log[r].user, log[r].nonce>>
Changes == {i \in Events("Status") : log[i].reason # "UserBehaviour"}
OneSessionPerSignature ==
    \A i, j \in Changes :
        i # j => Signature(log[i].initial_request) # Signature(log[j].initial_request)

\* A stop is not undone: a controller that has caught up with the relay takes a
\* machine for working only when a status of the newest second there is one
\* about it says so.  Within one second a restart may read what came first.
NeverWorkingAfterStop ==
    \A m \in Machines :
        (up /\ cursor = Len(log) /\ machine[m].status = "Working") =>
            \E i \in StatusEvents(m) :
                /\ log[i].status = "Working"
                /\ \A j \in StatusEvents(m) : log[j].created_at <= log[i].created_at

\* Without faults every payment is credited in the end, but for those whose
\* Transaction is that of an equal payment in the same second.
PaidIsCredited ==
    (\E u \in Users : Payments(u) > Credits(u) + merged[u])
        ~> (\A u \in Users : Payments(u) = Credits(u) + merged[u])

\* Without faults a working machine is available again in the end.
WorkingEnds ==
    \A m \in Machines : machine[m].status = "Working" ~> machine[m].status = "Available"

\* "Machine already in requested status, skip event": no payment is taken to
\* start a machine whose last published status is that it works.
LastStatusIs(m, status) ==
    \E i \in StatusEvents(m) : log[i].status = status /\ \A j \in StatusEvents(m) : j <= i
NoChargeWhileWorking ==
    [][(handling.step = "pay" /\ handling'.step = "status" /\ Handled.to_status = "Working")
         => ~LastStatusIs(Handled.machine, "Working")]_cvars
=============================================================================
