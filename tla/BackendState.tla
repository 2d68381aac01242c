---------------------------- MODULE BackendState ----------------------------
(***************************************************************************)
(* What the backend keeps: its tables in Postgres, which survive a stop,   *)
(* and the requests and the subscription of the running process, which do  *)
(* not.  Tokens reach a user's row only through Transaction events on the  *)
(* relay: the controller publishes purchases, the backend its own charges. *)
(*                                                                         *)
(* Nobody else publishes: a trust assumption.  The listener's filter names *)
(* kind, session and machine but no author, so it relies on the relay to   *)
(* hold Transactions of these two only, with the amounts they put there.   *)
(*                                                                         *)
(* The steps are in Backend.                                               *)
(***************************************************************************)
EXTENDS Integers, FiniteSets, Sums

CONSTANTS
    Users,
    Conversations,
    Owner,          \* [Conversations -> Users], user_pubkey
    MaxContext,     \* max_context_tokens
    Price,          \* tokens of one purchase
    Prompts,        \* tokens the chat service may count for a prompt
    Slots,          \* requests to add a message that may run at once
    NoRow,          \* "this user has no row"
    MaxTime,        \* bound: seconds of a behaviour
    MaxDelay,       \* bound: age of an event when it reaches the relay
    MaxAnswers,     \* bound: messages a conversation holds
    MaxStops,       \* bound: stops of the process or of its listener
    MaxErrors,      \* bound: failed writes and failed publications
    MaxLogins       \* bound: logins

ASSUME BackendAssumption ==
    /\ Owner \in [Conversations -> Users]
    /\ {MaxContext, Price, MaxTime, MaxDelay, MaxAnswers, MaxStops, MaxErrors, MaxLogins} \subseteq Nat
    /\ Price > 0
    /\ Prompts \subseteq Nat

\* The service counts no prompt beyond some number, and serves some requests at
\* a time.
ASSUME LimitsAssumption ==
    /\ \E longest \in Prompts : \A p \in Prompts : p <= longest
    /\ IsFiniteSet(Slots)

\* Users are keys of 32 bytes, and a database holds finitely many rows.
ASSUME RowsAssumption == IsFiniteSet(Users) /\ IsFiniteSet(Conversations)

VARIABLES
    now,            \* seconds
    relay,          \* Transaction events; an event's id is its content, so
                    \* equal events of one second are one event
    row,            \* users: tokens and tokens_consumed
    stored,         \* tx_events
    total,          \* conversations.total_tokens
    messages,       \* messages: rows of each role in a conversation
    up,             \* the process runs
    listener,       \* "off" before it subscribes, "on", "ended"
    since,          \* its subscription's filter: no older event comes through
    inbox,          \* events the subscription has yet to hand over
    inHand,         \* the event it has saved and is about to credit
    asks,           \* the requests under way
    login,          \* the row a login has read and is about to write
    stops, errors, logins,          \* how many there have been
    used            \* tokens the stored answers of a conversation took

subscription == <<listener, since, inbox, inHand>>
backendVars == <<now, relay, row, stored, total, messages, up, subscription,
                 asks, login, stops, errors, logins, used>>
tables == <<row, stored, total, messages>>
budget == <<stops, errors, logins>>

NewRow == [tokens |-> 0, consumed |-> 0]
Idle == [step |-> "idle"]
Event(u, tokens, at) == [user |-> u, tokens |-> tokens, at |-> at]

\* Publishing: the event carries the second it was made in and reaches the
\* relay a little later; the relay passes it on to a subscription it matches.
Publish(u, tokens) ==
    \E at \in (now - MaxDelay)..now :
        LET new == {Event(u, tokens, at)} \ relay
        IN  /\ at > 0
            /\ relay' = relay \cup new
            /\ inbox' = inbox \cup {e \in new : listener = "on" /\ e.at >= since}
            /\ UNCHANGED <<listener, since, inHand>>

\* GetLatestCreatedAt: the newest second among the stored events, or 0.
LatestCreatedAt == Max({e.at : e \in stored} \cup {0})

\* UpdateUserTokens: one UPDATE, which touches no row if there is none and
\* reports no error then.
UpdateUserTokens(u, tokensDelta, consumedDelta) ==
    row' = IF row[u] = NoRow THEN row
           ELSE [row EXCEPT ![u].tokens = @ + tokensDelta,
                            ![u].consumed = @ + consumedDelta]

\* GetUserByPublicKey: a balance below zero does not fit the unsigned field of
\* models.User, so the read is an error.
ReadsRow(u) == row[u] # NoRow /\ row[u].tokens >= 0

Stop == stops < MaxStops /\ stops' = stops + 1 /\ UNCHANGED <<errors, logins>>
Error == errors < MaxErrors /\ errors' = errors + 1 /\ UNCHANGED <<stops, logins>>
WorksOrFails(works, fails) == (works /\ UNCHANGED budget) \/ (fails /\ Error)

\* What is left of the context, as AddMessageAndCallChat computes it.
Remaining(seen) == MaxContext - seen
Smaller(a, b) == Min({a, b})
=============================================================================
