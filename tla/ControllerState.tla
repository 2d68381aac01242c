-------------------------- MODULE ControllerState --------------------------
(***************************************************************************)
(* What the controller, the relay and the chain hold while a user charges  *)
(* an account.  The chain is the abstract escrow that BalancePayment       *)
(* implements; the relay is the log of the events published to it.         *)
(*                                                                         *)
(* Neither the controller nor the page asks who published an event.  The   *)
(* controller takes the Status of any author for a machine's status; here, *)
(* as in the repository, none but the controller publishes one, under the  *)
(* key it has or one it had.                                               *)
(*                                                                         *)
(* The controller's own steps are in Controller.                           *)
(***************************************************************************)
EXTENDS Escrow, Sequences, FiniteSets, Sums

CONSTANTS
    Machines,       \* machines the controller serves
    PayAmount,      \* PAY_AMOUNT, what one request costs
    InitialFunds,   \* available balance of every user at the start
    UserReasons,    \* reasons users put into their requests
    MaxRequests,    \* bound: requests published in a behaviour
    MaxAdmin,       \* bound: those of them the admin may publish
    MaxFaults,      \* bound: crashes, lost keys, timers and answers
    MaxSeconds      \* bound: seconds told apart, not counting those that a
                    \* timer or a process that is down has to wait for

ASSUME ControllerAssumption ==
    /\ {PayAmount, InitialFunds, MaxRequests, MaxAdmin, MaxFaults, MaxSeconds} \subseteq Nat
    /\ PayAmount > 0 /\ PayAmount \in Lamports

\* There are finitely many users: a user is a key of 32 bytes.
ASSUME UsersAssumption == IsFiniteSet(Users)

VARIABLES
    log,            \* events published to the relay, in order; requests are
                    \* named by their place in it
    now,            \* the second, in which events are made and filtered
    up,             \* the controller process runs
    keyed,          \* events older than the key it signs with
    machine,        \* its machines: status and initial_request
    cursor,         \* events of the log its subscription has delivered
    handling,       \* the request it is handling and the await it is at
    timers,         \* spawned tasks that still sleep, since a second
    late,           \* payments given up on whose transaction may still land
    faults,         \* faults so far
    merged          \* payments of each user whose Transaction was the event
                    \* of an earlier payment once more

controllerVars == <<up, keyed, machine, cursor, handling, timers>>
cvars == <<log, now, controllerVars, late, faults, merged, escrowVars>>

Statuses == {"Available", "Working"}
Reasons == {"UserRequest", "AdminRequest", "UserBehaviour", "Reset", "LockFailed"}
NoRequest == 0

ASSUME ReasonAssumption == UserReasons \subseteq Reasons

Idle == [request |-> NoRequest, step |-> "idle"]
Fresh == [status |-> "Available", initial_request |-> NoRequest]
-----------------------------------------------------------------------------
\* The three messages, made in this second.  A request carries the user's
\* signature over a nonce.

Request(admin, m, to, reason, initial, u, n) ==
    [kind |-> "Request", admin |-> admin, machine |-> m, to_status |-> to,
     reason |-> reason, initial_request |-> initial, user |-> u, nonce |-> n,
     created_at |-> now]

Status(m, status, reason, initial) ==
    [kind |-> "Status", machine |-> m, status |-> status,
     reason |-> reason, initial_request |-> initial, created_at |-> now]

Transaction(m, u, tokens) ==
    [kind |-> "Transaction", machine |-> m, user |-> u, tokens |-> tokens,
     created_at |-> now]

\* An event's id comes from its key, second, tags and content.  send_event
\* reports no error for an event that is there already, and the relay has
\* nothing new then.
Sent(event) == \E i \in DOMAIN log : i > keyed /\ log[i] = event
Publish(event) == log' = IF Sent(event) THEN log ELSE Append(log, event)

\* Others publish under keys of their own: what looks like an earlier event of
\* this second may be that event or, by its key or deadline, another one.
PublishRequest(event) ==
    \/ log' = Append(log, event)
    \/ (\E i \in DOMAIN log : log[i] = event) /\ UNCHANGED log

Events(kind) == {i \in DOMAIN log : log[i].kind = kind}
StatusEvents(m) == {i \in Events("Status") : log[i].machine = m}
-----------------------------------------------------------------------------
\* handle_message accepts a request unless the machine is already in the
\* status asked for, or a stop comes from a user or names another session.
\* A wrong reason is logged and accepted.
Accepts(event) ==
    LET target == machine[event.machine]
    IN  /\ target.status # event.to_status
        /\ event.to_status = "Available" =>
               /\ event.reason # "UserRequest"
               /\ target.initial_request \in {NoRequest, event.initial_request}

\* The event the subscription delivers next, which the loop takes only when
\* it is not awaiting inside handle_message.
Receives(kind) ==
    /\ up
    /\ handling = Idle
    /\ cursor < Len(log)
    /\ log[cursor + 1].kind = kind
Incoming == log[cursor + 1]

Timer(r) == [request |-> r, since |-> now]

At(step) == up /\ handling.step = step
Handled == log[handling.request]

\* The on-chain payment for a request: pay verifies the signature against the
\* nonce the account has by now.
Pays(event) == event.nonce = next[event.user] /\ Charge(event.user, PayAmount)

\* The tokens of a request that has been paid.
SendTokens(event) ==
    LET tokens == Transaction(event.machine, event.user, PayAmount)
    IN  /\ Publish(tokens)
        /\ merged' = IF Sent(tokens) THEN [merged EXCEPT ![event.user] = @ + 1] ELSE merged

Fault == faults < MaxFaults /\ faults' = faults + 1
-----------------------------------------------------------------------------
\* Recovery.  subscribe_last_event asks for one event of the newest second in
\* which there is an event of the controller's own about the machine: a status
\* as well as a transaction, and a status that another one has overtaken.
Own(m) == {i \in Events("Status") \cup Events("Transaction") : i > keyed /\ log[i].machine = m}
Newest(m) == {i \in Own(m) : \A j \in Own(m) : log[j].created_at <= log[i].created_at}

RecoveredFrom(i) ==
    IF log[i].kind = "Status"
    THEN [status |-> log[i].status, initial_request |-> log[i].initial_request]
    ELSE Fresh

Recovered(m) == IF Newest(m) = {} THEN {Fresh} ELSE {RecoveredFrom(i) : i \in Newest(m)}
=============================================================================
