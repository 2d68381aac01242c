------------------------------ MODULE Backend ------------------------------
(***************************************************************************)
(* The backend: a listener that turns Transaction events into balances,    *)
(* one goroutine per request that spends them on the chat service, and     *)
(* logins.  All of them read and write the same rows without transactions, *)
(* and one action goes from one call of the database, the relay or the     *)
(* chat service to the next.                                               *)
(***************************************************************************)
EXTENDS BackendState

Init ==
    /\ now = 1
    /\ relay = {}
    /\ row \in [Users -> {NoRow, NewRow}]
    /\ stored = {}
    /\ total = [c \in Conversations |-> 0]
    /\ messages = [c \in Conversations |-> [user |-> 0, assistant |-> 0]]
    /\ up = TRUE
    /\ listener = "off"
    /\ since = 0
    /\ inbox = {}
    /\ inHand = {}
    /\ asks = [s \in Slots |-> Idle]
    /\ login = [u \in Users |-> NoRow]
    /\ stops = 0 /\ errors = 0 /\ logins = 0
    /\ used = [c \in Conversations |-> 0]
-----------------------------------------------------------------------------
(***************************************************************************)
(* Faulty variants of the backend's steps, each with one plausible         *)
(* mistake.  No specification uses them; each stands in for the step of    *)
(* the same shape to show that a property would notice the mistake.        *)
(***************************************************************************)

\* The subscription starts in the second of the newest stored event.
SubscribeAtLatest ==
    /\ up
    /\ listener = "off"
    /\ listener' = "on"
    /\ since' = LatestCreatedAt
    /\ inbox' = {e \in relay : e.at >= since'}
    /\ UNCHANGED <<now, relay, tables, up, inHand, asks, login, budget, used>>

\* A charge is saved and then skipped.
SaveEventSkipsCharges ==
    /\ up
    /\ inHand = {}
    /\ \E e \in inbox :
           /\ inHand' = {f \in {e} : f.tokens >= 0}
           /\ inbox' = inbox \ {e}
           /\ WorksOrFails(stored' = stored \cup {e}, UNCHANGED stored)
    /\ UNCHANGED <<now, relay, row, total, messages, up, listener, since, asks, login, used>>

\* The listener gives up after a charge.
SaveEventReturns ==
    /\ up
    /\ inHand = {}
    /\ \E e \in inbox :
           /\ inHand' = {e}
           /\ inbox' = IF e.tokens >= 0 THEN inbox \ {e} ELSE {}
           /\ WorksOrFails(stored' = stored \cup {e}, UNCHANGED stored)
    /\ UNCHANGED <<now, relay, row, total, messages, up, listener, since, asks, login, used>>

\* What a charge consumes is counted with the sign of the event.
CreditEventWithSign ==
    /\ up
    /\ \E e \in inHand :
           WorksOrFails(
               UpdateUserTokens(e.user, e.tokens, IF e.tokens >= 0 THEN 0 ELSE e.tokens),
               UNCHANGED row)
    /\ inHand' = {}
    /\ UNCHANGED <<now, relay, stored, total, messages, up, listener, since, inbox,
                   asks, login, used>>

\* The event stays in hand after it has been credited.
CreditEventStays ==
    /\ up
    /\ \E e \in inHand :
           WorksOrFails(
               UpdateUserTokens(e.user, e.tokens, IF e.tokens >= 0 THEN 0 ELSE -e.tokens),
               UNCHANGED row)
    /\ UNCHANGED <<now, relay, stored, total, messages, up, listener, since, inbox, inHand,
                   asks, login, used>>

\* The answer is limited by the balance alone.
CheckBalanceOnly(s) ==
    LET c == asks[s].conversation
    IN  /\ up
        /\ asks[s].step = "check"
        /\ asks' = [asks EXCEPT ![s] =
               IF ReadsRow(Owner[c]) /\ row[Owner[c]].tokens >= 1
               THEN [step |-> "stream", conversation |-> c, total |-> asks[s].total,
                     max_tokens |-> row[Owner[c]].tokens]
               ELSE Idle]
        /\ UNCHANGED <<now, relay, tables, up, subscription, login, budget, used>>

\* A failed write of the ask is logged and the handler goes on.
SaveAskGoesOn(s) ==
    /\ up
    /\ asks[s].step = "ask"
    /\ WorksOrFails(
           messages' = [messages EXCEPT ![asks[s].conversation].user = @ + 1],
           UNCHANGED messages)
    /\ asks' = [asks EXCEPT ![s].step = "answer"]
    /\ UNCHANGED <<now, relay, row, stored, total, up, subscription, login, used>>

\* A failed write of the answer is logged and the handler goes on.
SaveAnswerGoesOn(s) ==
    /\ up
    /\ asks[s].step = "answer"
    /\ WorksOrFails(
           /\ messages' = [messages EXCEPT ![asks[s].conversation].assistant = @ + 1]
           /\ used' = [used EXCEPT ![asks[s].conversation] = @ + asks[s].usage],
           UNCHANGED <<messages, used>>)
    /\ asks' = [asks EXCEPT ![s].step = "charge"]
    /\ UNCHANGED <<now, relay, row, stored, total, up, subscription, login>>
-----------------------------------------------------------------------------
\* The listener.

\* StartNostrListener: everything since the second after the newest stored one.
Subscribe ==
    /\ up
    /\ listener = "off"
    /\ listener' = "on"
    /\ since' = LatestCreatedAt + 1
    /\ inbox' = {e \in relay : e.at >= since'}
    /\ UNCHANGED <<now, relay, tables, up, inHand, asks, login, budget, used>>

\* An event arrives, in any order, and is saved; when that fails, the listener
\* goes on all the same.  One subscription hands each event over once, and a new
\* one starts after every stored event, so none comes that is stored already.
SaveEvent ==
    /\ up
    /\ inHand = {}
    /\ \E e \in inbox :
           /\ inHand' = {e}
           /\ inbox' = inbox \ {e}
           /\ WorksOrFails(stored' = stored \cup {e}, UNCHANGED stored)
    /\ UNCHANGED <<now, relay, row, total, messages, up, listener, since, asks, login, used>>

\* Its tokens go to the user's row; a charge also counts as consumed.
CreditEvent ==
    /\ up
    /\ \E e \in inHand :
           WorksOrFails(
               UpdateUserTokens(e.user, e.tokens, IF e.tokens >= 0 THEN 0 ELSE -e.tokens),
               UNCHANGED row)
    /\ inHand' = {}
    /\ UNCHANGED <<now, relay, stored, total, messages, up, listener, since, inbox,
                   asks, login, used>>

\* The context's day is over or the relay closed the channel: the listener
\* returns and the process goes on without one.
ListenerEnds ==
    /\ up
    /\ listener = "on" /\ inHand = {}
    /\ Stop
    /\ listener' = "ended"
    /\ inbox' = {}
    /\ UNCHANGED <<now, relay, tables, up, since, inHand, asks, login, used>>
-----------------------------------------------------------------------------
\* AddMessageAndCallChat.

Asks(s, step) == up /\ asks[s].step = step
AsksFor(s) == asks[s].conversation
Goes(s, step) == asks' = [asks EXCEPT ![s].step = step]
Ends(s) == asks' = [asks EXCEPT ![s] = Idle]

\* The conversation is read, ...
ReadConversation(s, c) ==
    /\ Asks(s, "idle")
    /\ messages[c].user < MaxAnswers
    /\ asks' = [asks EXCEPT ![s] = [step |-> "check", conversation |-> c, total |-> total[c]]]
    /\ UNCHANGED <<now, relay, tables, up, subscription, login, budget, used>>

\* ... then its owner's row: context and balance left, and the smaller of the
\* two limits the answer.
CheckBalance(s) ==
    LET u == Owner[AsksFor(s)]
        remaining == Remaining(asks[s].total)
    IN  /\ Asks(s, "check")
        /\ IF ReadsRow(u) /\ remaining >= 1 /\ row[u].tokens >= 1
           THEN asks' = [asks EXCEPT ![s] =
                    [step |-> "stream", conversation |-> AsksFor(s), total |-> asks[s].total,
                     max_tokens |-> Smaller(remaining, row[u].tokens)]]
           ELSE Ends(s)
        /\ UNCHANGED <<now, relay, tables, up, subscription, login, budget, used>>

\* The stream ends and reports its usage: the prompt and an answer of at most
\* max_tokens.
StreamEnds(s) ==
    /\ Asks(s, "stream")
    /\ \E prompt \in Prompts, answer \in 0..asks[s].max_tokens :
           IF prompt + answer = 0
           THEN Ends(s)
           ELSE asks' = [asks EXCEPT ![s] =
                    [step |-> "ask", conversation |-> AsksFor(s), total |-> asks[s].total,
                     usage |-> prompt + answer]]
    /\ UNCHANGED <<now, relay, tables, up, subscription, login, budget, used>>

\* The chat service fails, or its stream has no usage and the handler panics.
StreamFails(s) ==
    /\ Asks(s, "stream")
    /\ Ends(s)
    /\ UNCHANGED <<now, relay, tables, up, subscription, login, budget, used>>

SaveAsk(s) ==
    /\ Asks(s, "ask")
    /\ WorksOrFails(messages' = [messages EXCEPT ![AsksFor(s)].user = @ + 1] /\ Goes(s, "answer"),
                    UNCHANGED messages /\ Ends(s))
    /\ UNCHANGED <<now, relay, row, stored, total, up, subscription, login, used>>

SaveAnswer(s) ==
    /\ Asks(s, "answer")
    /\ WorksOrFails(
           /\ messages' = [messages EXCEPT ![AsksFor(s)].assistant = @ + 1]
           /\ used' = [used EXCEPT ![AsksFor(s)] = @ + asks[s].usage]
           /\ Goes(s, "charge"),
           UNCHANGED <<messages, used>> /\ Ends(s))
    /\ UNCHANGED <<now, relay, row, stored, total, up, subscription, login>>

\* The charge is published for the listener; its error is dropped.
PublishCharge(s) ==
    /\ Asks(s, "charge")
    /\ WorksOrFails(Publish(Owner[AsksFor(s)], -asks[s].usage), UNCHANGED <<relay, subscription>>)
    /\ Goes(s, "total")
    /\ UNCHANGED <<now, tables, up, login, used>>

\* The new total is the one read at the start and this usage.
WriteTotal(s) ==
    /\ Asks(s, "total")
    /\ WorksOrFails(total' = [total EXCEPT ![AsksFor(s)] = asks[s].total + asks[s].usage],
                    UNCHANGED total)
    /\ Ends(s)
    /\ UNCHANGED <<now, relay, row, stored, messages, up, subscription, login, used>>
-----------------------------------------------------------------------------
\* Login: the row is read, or created, ...
LoginReads(u) ==
    /\ up
    /\ login[u] = NoRow
    /\ row[u] = NoRow \/ ReadsRow(u)
    /\ logins < MaxLogins
    /\ logins' = logins + 1
    /\ row' = IF row[u] = NoRow THEN [row EXCEPT ![u] = NewRow] ELSE row
    /\ login' = [login EXCEPT ![u] = row'[u]]
    /\ UNCHANGED <<now, relay, stored, total, messages, up, subscription, asks,
                   stops, errors, used>>

\* ... and all of it is written back with a new updated_at.
LoginSaves(u) ==
    /\ up
    /\ login[u] # NoRow
    /\ WorksOrFails(row' = [row EXCEPT ![u] = login[u]], UNCHANGED row)
    /\ login' = [login EXCEPT ![u] = NoRow]
    /\ UNCHANGED <<now, relay, stored, total, messages, up, subscription, asks, used>>
-----------------------------------------------------------------------------
\* The controller announces a purchase.  No other author publishes here, though
\* the listener would take a Transaction of any: see BackendState.
Buy(u) ==
    /\ Publish(u, Price)
    /\ UNCHANGED <<now, tables, up, asks, login, budget, used>>

Tick ==
    /\ now < MaxTime
    /\ now' = now + 1
    /\ UNCHANGED <<relay, tables, up, subscription, asks, login, budget, used>>

\* The process stops between any two calls; docker starts it again.
Crash ==
    /\ up
    /\ Stop
    /\ up' = FALSE
    /\ listener' = "off"
    /\ inbox' = {}
    /\ inHand' = {}
    /\ since' = 0
    /\ asks' = [s \in Slots |-> Idle]
    /\ login' = [u \in Users |-> NoRow]
    /\ UNCHANGED <<now, relay, tables, used>>

Restart ==
    /\ ~up
    /\ up' = TRUE
    /\ UNCHANGED <<now, relay, tables, subscription, asks, login, budget, used>>
-----------------------------------------------------------------------------
Listen == Subscribe \/ SaveEvent \/ CreditEvent \/ ListenerEnds
Ask(s) ==
    \/ \E c \in Conversations : ReadConversation(s, c)
    \/ CheckBalance(s)
    \/ StreamEnds(s) \/ StreamFails(s)
    \/ SaveAsk(s) \/ SaveAnswer(s)
    \/ PublishCharge(s) \/ WriteTotal(s)

Next ==
    \/ Listen
    \/ \E s \in Slots : Ask(s)
    \/ \E u \in Users : LoginReads(u) \/ LoginSaves(u) \/ Buy(u)
    \/ Tick \/ Crash \/ Restart

Spec == Init /\ [][Next]_backendVars
FairSpec ==
    /\ Spec
    /\ WF_backendVars(Subscribe)
    /\ WF_backendVars(SaveEvent)
    /\ WF_backendVars(CreditEvent)
    /\ WF_backendVars(Restart)
-----------------------------------------------------------------------------
Rows == [tokens : Int, consumed : Nat]
Largest == Max({Price} \cup {MaxContext + p : p \in Prompts})
TokensOf(events) == SumOver([e \in events |-> e.tokens], events)

BackendTypeOK ==
    /\ \A u \in Users : row[u] \in Rows \cup {NoRow} /\ login[u] \in Rows \cup {NoRow}
    /\ \A e \in relay : e.user \in Users /\ e.tokens # 0 /\ e.at \in 1..now
    /\ stored \subseteq relay
    /\ inbox \subseteq relay
    /\ listener \in {"off", "on", "ended"}
    /\ inHand \subseteq relay /\ Cardinality(inHand) <= 1
    /\ total \in [Conversations -> Nat]
    /\ \A s \in Slots : asks[s].step \in
           {"idle", "check", "stream", "ask", "answer", "charge", "total"}
    /\ ~up => listener = "off" /\ inHand = {} /\ \A s \in Slots : asks[s] = Idle

\* The balance and the table of events it came from agree, up to the event in
\* the listener's hands: each stop and each failed write parts them by one
\* event at most, whatever comes late or in another order.  A login writes an
\* old balance back and drops any number of events: once there has been one,
\* nothing is said.
LedgersAgree ==
    \A u \in Users : (row[u] # NoRow /\ logins = 0) =>
        LET apart == row[u].tokens - TokensOf({e \in stored : e.user = u})
            slack == Largest * (stops + errors + Cardinality(inHand))
        IN  -slack <= apart /\ apart <= slack

\* No purchase is credited twice: over stops, new subscriptions, stale logins
\* and charges, a row never shows more purchases than the relay holds, but
\* for events that could not be saved.
Bought(u) == TokensOf({e \in relay : e.user = u /\ e.tokens > 0})
NeverOverCredited ==
    \A u \in Users : row[u] # NoRow =>
        row[u].tokens + row[u].consumed <= Bought(u) + Price * errors

\* Nobody pays for an answer that is not in the conversation: the charges on
\* the relay are covered by the usage of stored answers.  All charges there are
\* the backend's own; and an answer nobody pays for is not excluded.
ChargesHaveAnswers ==
    \A u \in Users :
        -TokensOf({e \in relay : e.user = u /\ e.tokens < 0})
            <= SumOver(used, {c \in Conversations : Owner[c] = u})

\* An ask is stored without its answer only between the two writes or after a
\* fault there, however many requests share the conversation.
AsksHaveAnswers ==
    \A c \in Conversations :
        LET alone == messages[c].user - messages[c].assistant
            between == {s \in Slots : asks[s].step = "answer" /\ AsksFor(s) = c}
        IN  Cardinality(between) <= alone /\ alone <= Cardinality(between) + Cardinality(Slots) * stops + errors

\* A conversation's total passes the limit by one prompt at most, also when
\* requests overwrite each other's totals.
ContextBounded == \A c \in Conversations : total[c] <= MaxContext + Max(Prompts)

\* Without stops and errors, every event is stored and leaves the listener's
\* hands in the end; and a user who had a row from the start, and whom no login
\* has given an old balance back, sees every event of the relay in the balance,
\* time and again.  (An event for a user without a row credits nobody: it is
\* stored, and UpdateUserTokens updates no row.)
ShowsAllOf(u, events) == row[u] # NoRow /\ row[u].tokens = TokensOf({e \in events : e.user = u})
EventsAreHandled ==
    \A u \in Users :
        /\ \A tokens \in {Price} \cup {-n : n \in 1..Largest}, at \in 1..MaxTime :
               Event(u, tokens, at) \in relay
                   ~> Event(u, tokens, at) \in stored \ inHand
        /\ row[u] # NoRow ~> ShowsAllOf(u, relay) \/ logins > 0

\* "Tokens uint64 // Current token balance": a balance is never negative.
BalanceIsUnsigned == \A u \in Users : row[u] # NoRow => row[u].tokens >= 0
=============================================================================
