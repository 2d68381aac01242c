--------------------------- MODULE Backend_proofs ---------------------------
(***************************************************************************)
(* Theorems about Backend for any number of users, conversations, requests *)
(* at once, stops and failed writes.                                       *)
(***************************************************************************)
EXTENDS Backend, Sums_proofs, TLAPS

\* The two choices of numbers that the code makes.
LEMMA SmallerIs ==
    ASSUME NEW a \in Int, NEW b \in Int
    PROVE  Smaller(a, b) \in {a, b} /\ Smaller(a, b) <= a /\ Smaller(a, b) <= b
<1> DEFINE S == {a, b}
<1>1. \E x \in S : \A y \in S : x =< y
  OBVIOUS
<1>2. Min(S) \in S /\ \A y \in S : Min(S) =< y
  BY <1>1 DEF Min
<1>3. QED
  BY <1>2 DEF Smaller

LEMMA LongestPrompt == Max(Prompts) \in Nat /\ \A p \in Prompts : p <= Max(Prompts)
<1>1. Max(Prompts) \in Prompts /\ \A p \in Prompts : Max(Prompts) >= p
  BY LimitsAssumption, BackendAssumption DEF Max
<1>2. QED
  BY <1>1, BackendAssumption
-----------------------------------------------------------------------------
(***************************************************************************)
(* Types.  A request under way is a record that grows from step to step.   *)
(***************************************************************************)

Checking == [step : {"check"}, conversation : Conversations, total : Nat]
Streaming == [step : {"stream"}, conversation : Conversations, total : Nat, max_tokens : Nat]
Writes == {"ask", "answer", "charge", "total"}
Writing == [step : Writes, conversation : Conversations, total : Nat, usage : Nat \ {0}]
AskStates == {Idle} \cup Checking \cup Streaming \cup Writing

RowsInv ==
    /\ row \in [Users -> Rows \cup {NoRow}]
    /\ login \in [Users -> Rows \cup {NoRow}]

RelayInv ==
    /\ now \in Nat
    /\ \A e \in relay : e.user \in Users /\ e.tokens \in Int \ {0} /\ e.at \in 1..now
    /\ stored \subseteq relay
    /\ inbox \subseteq relay
    /\ listener \in {"off", "on", "ended"}
    /\ inHand = {} \/ \E e \in relay : inHand = {e}

AsksInv ==
    /\ total \in [Conversations -> Nat]
    /\ messages \in [Conversations -> [user : Nat, assistant : Nat]]
    /\ asks \in [Slots -> AskStates]
    /\ stops \in Nat /\ errors \in Nat

DownInv == ~up => listener = "off" /\ inHand = {} /\ asks = [s \in Slots |-> Idle]

TypeInv == RowsInv /\ RelayInv /\ AsksInv /\ DownInv

\* What a request has read is known from the step it is at.
LEMMA AskTypes ==
    ASSUME AsksInv, NEW s \in Slots
    PROVE  /\ asks[s].step = "check" => asks[s] \in Checking
           /\ asks[s].step = "stream" => asks[s] \in Streaming
           /\ asks[s].step \in Writes => asks[s] \in Writing
           /\ asks[s] \in Checking => asks[s].step = "check"
           /\ asks[s] \in Streaming => asks[s].step = "stream"
           /\ asks[s] \in Writing => asks[s].step \in Writes
BY DEF AsksInv, AskStates, Idle, Checking, Streaming, Writing, Writes

\* Whatever takes its place, stops and errors are counted up by one at most.
LEMMA BudgetStep ==
    ASSUME AsksInv, [Next]_backendVars
    PROVE  /\ stops' \in {stops, stops + 1}
           /\ errors' \in {errors, errors + 1}
BY DEF Next, Listen, Ask, backendVars, budget, Stop, Error, WorksOrFails,
   Subscribe, SaveEvent, CreditEvent, ListenerEnds, ReadConversation, CheckBalance,
   StreamEnds, StreamFails, SaveAsk, SaveAnswer, PublishCharge, WriteTotal,
   LoginReads, LoginSaves, Buy, Tick, Crash, Restart

\* What a step makes of the request in a slot.
Advance(s) ==
    \/ asks[s].step = "idle" /\ asks'[s] \in Checking
    \/ /\ asks[s].step = "check"
       /\ asks'[s] \in Streaming
       /\ asks'[s].max_tokens <= MaxContext - asks'[s].total
    \/ /\ asks[s].step = "stream"
       /\ asks'[s] \in Writing /\ asks'[s].step = "ask"
       /\ asks'[s].total = asks[s].total
       /\ asks'[s].usage <= Max(Prompts) + asks[s].max_tokens
    \/ \E steps \in {<<"ask", "answer">>, <<"answer", "charge">>, <<"charge", "total">>} :
           /\ asks[s].step = steps[1]
           /\ asks'[s] = [asks[s] EXCEPT !.step = steps[2]]
    \/ asks'[s] = Idle

LEMMA AskAdvances ==
    ASSUME TypeInv, NEW s \in Slots, Ask(s)
    PROVE  Advance(s) /\ asks' = [asks EXCEPT ![s] = asks'[s]]
<1> USE DEF TypeInv
<1>1. asks \in [Slots -> AskStates] /\ total \in [Conversations -> Nat]
  BY DEF AsksInv
<1>2. ASSUME NEW c \in Conversations, ReadConversation(s, c)
      PROVE  Advance(s) /\ asks' = [asks EXCEPT ![s] = asks'[s]]
  BY <1>1, <1>2 DEF ReadConversation, Asks, Advance, Checking, AsksFor
<1>3. ASSUME NEW new, asks' = [asks EXCEPT ![s] = new]
      PROVE  asks'[s] = new /\ asks' = [asks EXCEPT ![s] = asks'[s]]
  BY <1>1, <1>3
<1>4. Ends(s) => Advance(s) /\ asks' = [asks EXCEPT ![s] = asks'[s]]
  BY <1>3 DEF Ends, Advance
<1>5. CASE CheckBalance(s)
  <2> DEFINE c == AsksFor(s)
             u == Owner[c]
             remaining == Remaining(asks[s].total)
             most == Smaller(remaining, row[u].tokens)
             new == [step |-> "stream", conversation |-> c, total |-> asks[s].total,
                     max_tokens |-> most]
  <2>1. asks[s].step = "check" /\ asks[s] \in Checking
    BY <1>5, AskTypes DEF CheckBalance, Asks
  <2>2. c \in Conversations /\ asks[s].total \in Nat /\ u \in Users
    BY <2>1, BackendAssumption DEF Checking, AsksFor
  <2>3. CASE Ends(s)
    BY <1>4, <2>3
  <2>4. CASE /\ ReadsRow(u) /\ remaining >= 1 /\ row[u].tokens >= 1
             /\ asks' = [asks EXCEPT ![s] = new]
    <3>1. row[u].tokens \in Int
      BY <2>2, <2>4 DEF ReadsRow, RowsInv, Rows
    <3>2. remaining \in Int /\ remaining = MaxContext - asks[s].total
      BY <2>2, BackendAssumption DEF Remaining
    <3>3. most \in Nat /\ most <= remaining
      BY <2>4, <3>1, <3>2, SmallerIs
    <3>4. new \in Streaming
      BY <2>2, <3>3 DEF Streaming
    <3>5. asks'[s] = new /\ asks' = [asks EXCEPT ![s] = asks'[s]]
      BY <1>3, <2>4
    <3>6. QED
      BY <2>1, <3>2, <3>3, <3>4, <3>5 DEF Advance
  <2>5. QED
    BY <1>5, <2>3, <2>4 DEF CheckBalance
<1>6. CASE StreamEnds(s)
  <2>1. asks[s].step = "stream" /\ asks[s] \in Streaming
    BY <1>6, AskTypes DEF StreamEnds, Asks
  <2>2. PICK prompt \in Prompts, answer \in 0..asks[s].max_tokens :
           IF prompt + answer = 0
           THEN Ends(s)
           ELSE asks' = [asks EXCEPT ![s] =
                    [step |-> "ask", conversation |-> AsksFor(s), total |-> asks[s].total,
                     usage |-> prompt + answer]]
    BY <1>6 DEF StreamEnds
  <2>3. prompt \in Nat /\ answer \in Nat /\ prompt + answer <= Max(Prompts) + asks[s].max_tokens
    BY <2>1, <2>2, LongestPrompt, BackendAssumption DEF Streaming
  <2>4. CASE Ends(s)
    BY <1>4, <2>4
  <2>5. CASE prompt + answer # 0
    <3> DEFINE new == [step |-> "ask", conversation |-> AsksFor(s), total |-> asks[s].total,
                       usage |-> prompt + answer]
    <3>1. asks'[s] = new /\ asks' = [asks EXCEPT ![s] = asks'[s]]
      BY <1>3, <2>2, <2>5
    <3>2. new \in Writing
      BY <2>1, <2>3, <2>5 DEF Streaming, Writing, Writes, AsksFor
    <3>3. QED
      BY <2>1, <2>3, <3>1, <3>2 DEF Advance
  <2>6. QED
    BY <2>2, <2>4, <2>5
<1>7. ASSUME NEW from, NEW to, asks[s].step = from, Goes(s, to),
             <<from, to>> \in {<<"ask", "answer">>, <<"answer", "charge">>, <<"charge", "total">>}
      PROVE  Advance(s) /\ asks' = [asks EXCEPT ![s] = asks'[s]]
  <2>1. asks' = [asks EXCEPT ![s] = [asks[s] EXCEPT !.step = to]]
    BY <1>7 DEF Goes
  <2>2. asks'[s] = [asks[s] EXCEPT !.step = to] /\ asks' = [asks EXCEPT ![s] = asks'[s]]
    BY <1>3, <2>1
  <2>3. QED
    BY <1>7, <2>2 DEF Advance
<1>8. CASE SaveAsk(s)
  <2>1. asks[s].step = "ask" /\ (Goes(s, "answer") \/ Ends(s))
    BY <1>8 DEF SaveAsk, Asks, WorksOrFails
  <2>2. QED
    BY <1>4, <1>7, <2>1
<1>9. CASE SaveAnswer(s)
  <2>1. asks[s].step = "answer" /\ (Goes(s, "charge") \/ Ends(s))
    BY <1>9 DEF SaveAnswer, Asks, WorksOrFails
  <2>2. QED
    BY <1>4, <1>7, <2>1
<1>10. CASE PublishCharge(s)
  <2>1. asks[s].step = "charge" /\ Goes(s, "total")
    BY <1>10 DEF PublishCharge, Asks
  <2>2. QED
    BY <1>7, <2>1
<1>11. QED
  BY <1>2, <1>4, <1>5, <1>6, <1>8, <1>9, <1>10 DEF Ask, StreamFails, WriteTotal

\* Who writes what.
LEMMA Writers ==
    ASSUME [Next]_backendVars
    PROVE  /\ UNCHANGED asks \/ Crash \/ \E s \in Slots : Ask(s)
           /\ UNCHANGED total \/ \E s \in Slots : WriteTotal(s)
           /\ UNCHANGED messages \/ \E s \in Slots : SaveAsk(s) \/ SaveAnswer(s)
           /\ UNCHANGED relay \/ (\E s \in Slots : PublishCharge(s)) \/ \E u \in Users : Buy(u)
           /\ UNCHANGED now \/ Tick
           /\ UNCHANGED stored \/ SaveEvent
           /\ UNCHANGED inHand \/ SaveEvent \/ inHand' = {}
           /\ UNCHANGED row \/ CreditEvent \/ \E u \in Users : LoginReads(u) \/ LoginSaves(u)
           /\ UNCHANGED login \/ Crash \/ \E u \in Users : LoginReads(u) \/ LoginSaves(u)
           /\ UNCHANGED up \/ Crash \/ Restart
<1>1. UNCHANGED asks \/ Crash \/ \E s \in Slots : Ask(s)
  BY DEF Next, Listen, backendVars, Subscribe, SaveEvent, CreditEvent, ListenerEnds,
         LoginReads, LoginSaves, Buy, Tick, Restart
<1>2. UNCHANGED total \/ \E s \in Slots : WriteTotal(s)
  BY DEF Next, Listen, Ask, backendVars, tables, Subscribe, SaveEvent, CreditEvent,
         ListenerEnds, ReadConversation, CheckBalance, StreamEnds, StreamFails, SaveAsk,
         SaveAnswer, PublishCharge, LoginReads, LoginSaves, Buy, Tick, Crash, Restart
<1>3. UNCHANGED messages \/ \E s \in Slots : SaveAsk(s) \/ SaveAnswer(s)
  BY DEF Next, Listen, Ask, backendVars, tables, Subscribe, SaveEvent, CreditEvent,
         ListenerEnds, ReadConversation, CheckBalance, StreamEnds, StreamFails,
         PublishCharge, WriteTotal, LoginReads, LoginSaves, Buy, Tick, Crash, Restart
<1>4. UNCHANGED relay \/ (\E s \in Slots : PublishCharge(s)) \/ \E u \in Users : Buy(u)
  BY DEF Next, Listen, Ask, backendVars, Subscribe, SaveEvent, CreditEvent, ListenerEnds,
         ReadConversation, CheckBalance, StreamEnds, StreamFails, SaveAsk, SaveAnswer,
         WriteTotal, LoginReads, LoginSaves, Tick, Crash, Restart
<1>5. UNCHANGED now \/ Tick
  BY DEF Next, Listen, Ask, backendVars, Subscribe, SaveEvent, CreditEvent, ListenerEnds,
         ReadConversation, CheckBalance, StreamEnds, StreamFails, SaveAsk, SaveAnswer,
         PublishCharge, WriteTotal, LoginReads, LoginSaves, Buy, Crash, Restart
<1>6. UNCHANGED stored \/ SaveEvent
  BY DEF Next, Listen, Ask, backendVars, tables, Subscribe, CreditEvent, ListenerEnds,
         ReadConversation, CheckBalance, StreamEnds, StreamFails, SaveAsk, SaveAnswer,
         PublishCharge, WriteTotal, LoginReads, LoginSaves, Buy, Tick, Crash, Restart
<1>7. UNCHANGED inHand \/ SaveEvent \/ inHand' = {}
  BY DEF Next, Listen, Ask, backendVars, subscription, Publish, WorksOrFails, Subscribe,
         CreditEvent, ListenerEnds, ReadConversation, CheckBalance, StreamEnds, StreamFails,
         SaveAsk, SaveAnswer, PublishCharge, WriteTotal, LoginReads, LoginSaves, Buy, Tick,
         Crash, Restart
<1>8. UNCHANGED row \/ CreditEvent \/ \E u \in Users : LoginReads(u) \/ LoginSaves(u)
  BY DEF Next, Listen, Ask, backendVars, tables, Subscribe, SaveEvent, ListenerEnds,
         ReadConversation, CheckBalance, StreamEnds, StreamFails, SaveAsk, SaveAnswer,
         PublishCharge, WriteTotal, Buy, Tick, Crash, Restart
<1>9. UNCHANGED login \/ Crash \/ \E u \in Users : LoginReads(u) \/ LoginSaves(u)
  BY DEF Next, Listen, Ask, backendVars, Subscribe, SaveEvent, CreditEvent, ListenerEnds,
         ReadConversation, CheckBalance, StreamEnds, StreamFails, SaveAsk, SaveAnswer,
         PublishCharge, WriteTotal, Buy, Tick, Restart
<1>10. UNCHANGED up \/ Crash \/ Restart
  BY DEF Next, Listen, Ask, backendVars, Subscribe, SaveEvent, CreditEvent, ListenerEnds,
         ReadConversation, CheckBalance, StreamEnds, StreamFails, SaveAsk, SaveAnswer,
         PublishCharge, WriteTotal, LoginReads, LoginSaves, Buy, Tick
<1>11. QED
  BY <1>1, <1>2, <1>3, <1>4, <1>5, <1>6, <1>7, <1>8, <1>9, <1>10

LEMMA AsksStep == TypeInv /\ [Next]_backendVars => AsksInv'
<1> SUFFICES ASSUME TypeInv, [Next]_backendVars PROVE AsksInv'
  OBVIOUS
<1>1. AsksInv
  BY DEF TypeInv
<1>2. asks' \in [Slots -> AskStates]
  <2>1. CASE UNCHANGED asks \/ Crash
    BY <1>1, <2>1 DEF AsksInv, Crash, AskStates
  <2>2. ASSUME NEW s \in Slots, Ask(s)
        PROVE  asks' \in [Slots -> AskStates]
    <3>1. Advance(s) /\ asks' = [asks EXCEPT ![s] = asks'[s]]
      BY <2>2, AskAdvances
    <3>2. asks[s].step \in Writes => asks[s] \in Writing
      BY <1>1, AskTypes
    <3>3. asks'[s] \in AskStates
      BY <3>1, <3>2 DEF Advance, AskStates, Writing, Writes
    <3>4. QED
      BY <1>1, <3>1, <3>3 DEF AsksInv
  <2>3. QED
    BY <2>1, <2>2, Writers
<1>3. total' \in [Conversations -> Nat]
  <2>1. ASSUME NEW s \in Slots, WriteTotal(s)
        PROVE  total' \in [Conversations -> Nat]
    <3>1. asks[s] \in Writing
      BY <1>1, <2>1, AskTypes DEF WriteTotal, Asks, Writes
    <3>2. QED
      BY <1>1, <2>1, <3>1 DEF WriteTotal, WorksOrFails, AsksInv, Writing, AsksFor
  <2>2. QED
    BY <1>1, <2>1, Writers DEF AsksInv
<1>4. messages' \in [Conversations -> [user : Nat, assistant : Nat]]
  <2>1. ASSUME NEW s \in Slots, SaveAsk(s) \/ SaveAnswer(s)
        PROVE  messages' \in [Conversations -> [user : Nat, assistant : Nat]]
    <3>1. asks[s] \in Writing
      BY <1>1, <2>1, AskTypes DEF SaveAsk, SaveAnswer, Asks, Writes
    <3>2. AsksFor(s) \in Conversations
      BY <3>1 DEF Writing, AsksFor
    <3>3. \/ UNCHANGED messages
          \/ messages' = [messages EXCEPT ![AsksFor(s)].user = @ + 1]
          \/ messages' = [messages EXCEPT ![AsksFor(s)].assistant = @ + 1]
      BY <2>1 DEF SaveAsk, SaveAnswer, WorksOrFails
    <3>4. QED
      BY <1>1, <3>2, <3>3 DEF AsksInv
  <2>2. QED
    BY <1>1, <2>1, Writers DEF AsksInv
<1>5. stops' \in Nat /\ errors' \in Nat
  BY <1>1, BudgetStep DEF AsksInv
<1>6. QED
  BY <1>2, <1>3, <1>4, <1>5 DEF AsksInv

\* An event that is published becomes one of the relay's.
LEMMA Published ==
    ASSUME RelayInv, NEW u \in Users, NEW tokens \in Int \ {0}, Publish(u, tokens), UNCHANGED now
    PROVE  /\ relay \subseteq relay'
           /\ \A e \in relay' : e.user \in Users /\ e.tokens \in Int \ {0} /\ e.at \in 1..now'
           /\ inbox' \subseteq relay'
<1>1. PICK at \in (now - MaxDelay)..now :
          LET new == {Event(u, tokens, at)} \ relay
          IN  /\ at > 0
              /\ relay' = relay \cup new
              /\ inbox' = inbox \cup {e \in new : listener = "on" /\ e.at >= since}
  BY DEF Publish
<1>2. now \in Nat /\ now - MaxDelay \in Int
  BY BackendAssumption DEF RelayInv
<1>3. at \in 1..now
  BY <1>1, <1>2
<1>4. \A e \in {Event(u, tokens, at)} :
          e.user \in Users /\ e.tokens \in Int \ {0} /\ e.at \in 1..now
  BY <1>3 DEF Event
<1>5. QED
  BY <1>1, <1>4 DEF RelayInv

LEMMA RelayStep == TypeInv /\ [Next]_backendVars => RelayInv'
<1> SUFFICES ASSUME TypeInv, [Next]_backendVars PROVE RelayInv'
  OBVIOUS
<1>1. RelayInv /\ AsksInv
  BY DEF TypeInv
<1>2. /\ relay \subseteq relay'
      /\ now' \in Nat
      /\ \A e \in relay' : e.user \in Users /\ e.tokens \in Int \ {0} /\ e.at \in 1..now'
      /\ relay' # relay => inbox' \subseteq relay'
  <2>1. CASE UNCHANGED relay
    <3>1. now' \in {now, now + 1}
      BY Writers DEF Tick
    <3>2. now' \in Nat /\ \A n \in 1..now : n \in 1..now'
      BY <1>1, <3>1 DEF RelayInv
    <3>3. QED
      BY <1>1, <2>1, <3>2 DEF RelayInv
  <2>2. ASSUME NEW s \in Slots, PublishCharge(s)
        PROVE  /\ UNCHANGED now
               /\ \/ UNCHANGED relay
                  \/ \E u \in Users, tokens \in Int \ {0} : Publish(u, tokens)
    <3>1. asks[s] \in Writing
      BY <1>1, <2>2, AskTypes DEF PublishCharge, Asks, Writes
    <3>2. Owner[AsksFor(s)] \in Users /\ -asks[s].usage \in Int \ {0}
      BY <3>1, BackendAssumption DEF Writing, AsksFor
    <3>3. QED
      BY <2>2, <3>2 DEF PublishCharge, WorksOrFails
  <2>3. ASSUME NEW u \in Users, Buy(u)
        PROVE  UNCHANGED now /\ Publish(u, Price) /\ Price \in Int \ {0}
    BY <2>3, BackendAssumption DEF Buy
  <2>4. CASE relay' # relay
    <3>1. UNCHANGED now /\ \E u \in Users, tokens \in Int \ {0} : Publish(u, tokens)
      BY <2>2, <2>3, <2>4, Writers
    <3>2. QED
      BY <1>1, <3>1, Published DEF RelayInv
  <2>5. QED
    BY <2>1, <2>4
<1>3. CASE SaveEvent
  <2>1. /\ \E e \in relay : inHand' = {e}
        /\ inbox' \subseteq relay /\ stored' \subseteq relay /\ UNCHANGED <<relay, listener>>
    BY <1>1, <1>3 DEF SaveEvent, WorksOrFails, RelayInv
  <2>2. QED
    BY <1>1, <1>2, <2>1 DEF RelayInv
<1>4. CASE ~SaveEvent
  <2>1. UNCHANGED stored /\ inHand' \in {inHand, {}}
    BY <1>4, Writers
  <2>2. listener' \in {listener, "off", "on", "ended"}
    BY <1>4 DEF Next, Listen, Ask, backendVars, subscription, Publish, Subscribe, CreditEvent,
       ListenerEnds, ReadConversation, CheckBalance, StreamEnds, StreamFails, SaveAsk, SaveAnswer,
       PublishCharge, WriteTotal, LoginReads, LoginSaves, Buy, Tick, Crash, Restart, WorksOrFails
  <2>3. inbox' \subseteq relay \/ relay' # relay
    BY <1>1, <1>4 DEF RelayInv, Next, Listen, Ask, backendVars, subscription, Publish, Subscribe,
       CreditEvent, ListenerEnds, ReadConversation, CheckBalance, StreamEnds, StreamFails, SaveAsk,
       SaveAnswer, PublishCharge, WriteTotal, LoginReads, LoginSaves, Buy, Tick, Crash, Restart,
       WorksOrFails
  <2>4. QED
    BY <1>1, <1>2, <2>1, <2>2, <2>3 DEF RelayInv
<1>5. QED
  BY <1>3, <1>4

LEMMA RowsStep == TypeInv /\ [Next]_backendVars => RowsInv'
<1> SUFFICES ASSUME TypeInv, [Next]_backendVars PROVE RowsInv'
  OBVIOUS
<1>1. RowsInv /\ RelayInv
  BY DEF TypeInv
<1>2. CASE CreditEvent
  <2>1. login' = login
    BY <1>2 DEF CreditEvent
  <2>2. PICK e \in inHand :
            \/ UNCHANGED row
            \/ UpdateUserTokens(e.user, e.tokens, IF e.tokens >= 0 THEN 0 ELSE -e.tokens)
    BY <1>2 DEF CreditEvent, WorksOrFails
  <2>3. e.user \in Users /\ e.tokens \in Int
    BY <1>1, <2>2 DEF RelayInv
  <2>4. (IF e.tokens >= 0 THEN 0 ELSE -e.tokens) \in Nat
    BY <2>3
  <2>5. ASSUME NEW consumed \in Nat, UpdateUserTokens(e.user, e.tokens, consumed)
        PROVE  row' \in [Users -> Rows \cup {NoRow}]
    <3>1. CASE row[e.user] = NoRow
      BY <1>1, <2>5, <3>1 DEF UpdateUserTokens, RowsInv
    <3>2. CASE row[e.user] # NoRow
      <4>1. row[e.user] \in Rows
        BY <1>1, <2>3, <3>2 DEF RowsInv
      <4>2. [tokens |-> row[e.user].tokens + e.tokens,
             consumed |-> row[e.user].consumed + consumed] \in Rows
        BY <2>3, <2>5, <4>1 DEF Rows
      <4>3. row' = [row EXCEPT ![e.user].tokens = row[e.user].tokens + e.tokens,
                               ![e.user].consumed = row[e.user].consumed + consumed]
        BY <2>5, <3>2 DEF UpdateUserTokens
      <4>4. /\ row' \in [Users -> {row'[v] : v \in Users}]
            /\ \A v \in Users \ {e.user} : row'[v] = row[v]
        BY <1>1, <4>3 DEF RowsInv
      <4>5. row'[e.user] = [tokens |-> row[e.user].tokens + e.tokens,
                            consumed |-> row[e.user].consumed + consumed]
        BY <1>1, <2>3, <4>1, <4>3 DEF RowsInv, Rows
      <4>6. \A v \in Users : row'[v] \in Rows \cup {NoRow}
        BY <1>1, <4>2, <4>4, <4>5 DEF RowsInv
      <4>7. QED
        BY <4>4, <4>6
    <3>3. QED
      BY <3>1, <3>2
  <2>6. QED
    BY <1>1, <2>1, <2>2, <2>4, <2>5 DEF RowsInv
<1>3. ASSUME NEW u \in Users, LoginReads(u)
      PROVE  RowsInv'
  <2>1. NewRow \in Rows
    BY DEF NewRow, Rows
  <2>2. row' \in [Users -> Rows \cup {NoRow}]
    BY <1>1, <1>3, <2>1 DEF LoginReads, RowsInv
  <2>3. login' = [login EXCEPT ![u] = row'[u]]
    BY <1>3 DEF LoginReads
  <2>4. QED
    BY <1>1, <2>2, <2>3 DEF RowsInv
<1>4. ASSUME NEW u \in Users, LoginSaves(u)
      PROVE  RowsInv'
  BY <1>1, <1>4 DEF LoginSaves, WorksOrFails, RowsInv
<1>5. CASE Crash
  BY <1>1, <1>5 DEF Crash, tables, RowsInv
<1>6. QED
  BY <1>1, <1>2, <1>3, <1>4, <1>5, Writers DEF RowsInv

LEMMA DownStep == TypeInv /\ [Next]_backendVars => DownInv'
<1> SUFFICES ASSUME TypeInv, [Next]_backendVars, ~up'
             PROVE  listener' = "off" /\ inHand' = {} /\ asks' = [s \in Slots |-> Idle]
  BY DEF DownInv
<1>1. CASE Crash
  BY <1>1 DEF Crash
<1>2. CASE ~up
  <2>1. UNCHANGED <<listener, inHand, asks>>
    BY <1>2 DEF Next, Listen, Ask, Asks, backendVars, subscription, Publish, Subscribe, SaveEvent,
       CreditEvent, ListenerEnds, ReadConversation, CheckBalance, StreamEnds, StreamFails, SaveAsk,
       SaveAnswer, PublishCharge, WriteTotal, LoginReads, LoginSaves, Buy, Tick, Crash, Restart
  <2>2. QED
    BY <1>2, <2>1 DEF TypeInv, DownInv
<1>3. QED
  BY <1>1, <1>2, Writers DEF Restart

LEMMA TypeInit == Init => TypeInv
<1> SUFFICES ASSUME Init PROVE TypeInv
  OBVIOUS
<1>1. NewRow \in Rows
  BY DEF NewRow, Rows
<1>2. RowsInv
  BY <1>1 DEF Init, RowsInv
<1>3. RelayInv
  BY DEF Init, RelayInv
<1>4. AsksInv
  BY DEF Init, AsksInv, AskStates
<1>5. QED
  BY <1>2, <1>3, <1>4 DEF TypeInv, DownInv, Init

LEMMA TypeStep == TypeInv /\ [Next]_backendVars => TypeInv'
BY RowsStep, RelayStep, AsksStep, DownStep DEF TypeInv

LEMMA TypesHold == Spec => []TypeInv
BY TypeInit, TypeStep, PTL DEF Spec

\* Balances are numbers, events name users and times that have been, the
\* listener holds one event at most, and a stop leaves no request under way.
THEOREM BackendTypes == Spec => []BackendTypeOK
<1>1. TypeInv => BackendTypeOK
  <2> SUFFICES ASSUME TypeInv PROVE BackendTypeOK
    OBVIOUS
  <2>1. \A u \in Users : row[u] \in Rows \cup {NoRow} /\ login[u] \in Rows \cup {NoRow}
    BY DEF TypeInv, RowsInv
  <2>2. /\ \A e \in relay : e.user \in Users /\ e.tokens # 0 /\ e.at \in 1..now
        /\ stored \subseteq relay /\ inbox \subseteq relay
        /\ listener \in {"off", "on", "ended"}
    BY DEF TypeInv, RelayInv
  <2>3. inHand \subseteq relay /\ Cardinality(inHand) <= 1
    <3>1. CASE inHand = {}
      BY <3>1, FS_EmptySet
    <3>2. ASSUME NEW e \in relay, inHand = {e}
          PROVE  inHand \subseteq relay /\ Cardinality(inHand) <= 1
      BY <3>2, FS_Singleton
    <3>3. QED
      BY <3>1, <3>2 DEF TypeInv, RelayInv
  <2>4. \A s \in Slots : asks[s].step \in
            {"idle", "check", "stream", "ask", "answer", "charge", "total"}
    BY DEF TypeInv, AsksInv, AskStates, Idle, Checking, Streaming, Writing, Writes
  <2>5. QED
    BY <2>1, <2>2, <2>3, <2>4 DEF BackendTypeOK, TypeInv, AsksInv, DownInv
<1>2. QED
  BY <1>1, TypesHold, PTL
-----------------------------------------------------------------------------
(***************************************************************************)
(* A conversation's context.  Each request keeps to what the total it has  *)
(* read leaves, so whatever it writes in the end is within the limit and   *)
(* one prompt, also when another request has written since.                *)
(***************************************************************************)

ContextLimit == MaxContext + Max(Prompts)

Keeps(s) ==
    /\ asks[s].step = "stream" => asks[s].max_tokens <= MaxContext - asks[s].total
    /\ asks[s].step \in Writes => asks[s].total + asks[s].usage <= ContextLimit

ContextInv ==
    /\ \A c \in Conversations : total[c] <= ContextLimit
    /\ \A s \in Slots : Keeps(s)

LEMMA ContextInit == Init => ContextInv
<1> SUFFICES ASSUME Init PROVE ContextInv
  OBVIOUS
<1>1. ContextLimit \in Nat
  BY LongestPrompt, BackendAssumption DEF ContextLimit
<1>2. QED
  BY <1>1 DEF Init, ContextInv, Keeps, Idle, Writes

LEMMA ContextStep == TypeInv /\ ContextInv /\ [Next]_backendVars => ContextInv'
<1> SUFFICES ASSUME TypeInv, ContextInv, [Next]_backendVars PROVE ContextInv'
  OBVIOUS
<1>1. AsksInv /\ ContextLimit \in Nat /\ Max(Prompts) \in Nat /\ MaxContext \in Nat
  BY LongestPrompt, BackendAssumption DEF TypeInv, ContextLimit
<1>2. ASSUME NEW c \in Conversations
      PROVE  total'[c] <= ContextLimit
  <2>1. ASSUME NEW s \in Slots, WriteTotal(s)
        PROVE  total'[c] <= ContextLimit
    <3>1. asks[s] \in Writing /\ asks[s].total + asks[s].usage <= ContextLimit
      BY <1>1, <2>1, AskTypes DEF WriteTotal, Asks, Writes, ContextInv, Keeps
    <3>2. QED
      BY <1>1, <2>1, <3>1 DEF WriteTotal, WorksOrFails, AsksInv, ContextInv
  <2>2. QED
    BY <2>1, Writers DEF ContextInv
<1>3. ASSUME NEW s \in Slots
      PROVE  Keeps(s)'
  <2>1. CASE asks'[s] = asks[s]
    BY <2>1 DEF ContextInv, Keeps, ContextLimit
  <2>2. CASE asks'[s] = Idle
    BY <2>2 DEF Keeps, Idle, Writes
  <2>3. CASE Advance(s) /\ asks'[s] # Idle
    <3>1. /\ asks[s].step = "stream" =>
                 asks[s] \in Streaming /\ asks[s].max_tokens <= MaxContext - asks[s].total
          /\ asks[s].step \in Writes =>
                 asks[s] \in Writing /\ asks[s].total + asks[s].usage <= ContextLimit
      BY <1>1, AskTypes DEF ContextInv, Keeps
    <3>2. CASE asks'[s] \in Checking
      BY <3>2 DEF Keeps, Checking, Writes
    <3>3. CASE asks'[s] \in Streaming /\ asks'[s].max_tokens <= MaxContext - asks'[s].total
      BY <3>3 DEF Keeps, Streaming, Writes
    <3>4. CASE /\ asks[s].step = "stream" /\ asks'[s] \in Writing
               /\ asks'[s].total = asks[s].total
               /\ asks'[s].usage <= Max(Prompts) + asks[s].max_tokens
      <4>1. /\ asks[s].max_tokens \in Nat /\ asks[s].total \in Nat
            /\ asks'[s].usage \in Nat /\ asks'[s].step \in Writes
        BY <3>1, <3>4 DEF Streaming, Writing
      <4>2. asks'[s].total + asks'[s].usage <= ContextLimit
        BY <1>1, <3>1, <3>4, <4>1 DEF ContextLimit
      <4>3. QED
        BY <4>1, <4>2 DEF Keeps, Writes, ContextLimit
    <3>5. CASE \E steps \in {<<"ask", "answer">>, <<"answer", "charge">>, <<"charge", "total">>} :
                   /\ asks[s].step = steps[1]
                   /\ asks'[s] = [asks[s] EXCEPT !.step = steps[2]]
      <4>1. asks[s].step \in Writes /\ asks'[s].step \in Writes
            /\ asks'[s].total = asks[s].total /\ asks'[s].usage = asks[s].usage
        BY <3>1, <3>5 DEF Writes, Writing
      <4>2. QED
        BY <3>1, <4>1 DEF Keeps, Writes, ContextLimit
    <3>6. QED
      BY <2>3, <3>2, <3>3, <3>4, <3>5 DEF Advance
  <2>4. ASSUME NEW t \in Slots, Ask(t)
        PROVE  asks'[s] = asks[s] \/ Advance(s)
    BY <1>1, <2>4, AskAdvances DEF AsksInv
  <2>5. CASE Crash
    BY <2>2, <2>5 DEF Crash
  <2>6. QED
    BY <2>1, <2>2, <2>3, <2>4, <2>5, Writers
<1>4. QED
  BY <1>2, <1>3 DEF ContextInv, ContextLimit

\* However many requests share a conversation and overwrite each other's
\* totals, the total passes the limit by one prompt at most.
THEOREM ContextStaysBounded == Spec => []ContextBounded
<1>1. ContextInv => ContextBounded
  BY DEF ContextInv, ContextLimit, ContextBounded
<1>2. QED
  BY <1>1, ContextInit, ContextStep, TypesHold, PTL DEF Spec
-----------------------------------------------------------------------------
(***************************************************************************)
(* Asks without an answer.  A request that has stored its ask is counted   *)
(* until it stores the answer, fails there, or is lost in a stop.          *)
(***************************************************************************)

Alone(c) == messages[c].user - messages[c].assistant
Between(c) == {s \in Slots : asks[s].step = "answer" /\ AsksFor(s) = c}

\* What a step makes of one conversation's asks without an answer.
Kept(c) == Between(c)' = Between(c) /\ Alone(c)' = Alone(c)
Asked(c) ==
    \E s \in Slots \ Between(c) : Between(c)' = Between(c) \cup {s} /\ Alone(c)' = Alone(c) + 1
Answered(c) ==
    \E s \in Between(c) :
        /\ Between(c)' = Between(c) \ {s}
        /\ Alone(c)' = Alone(c) - 1 \/ (Alone(c)' = Alone(c) /\ errors' = errors + 1)
Lost(c) == Between(c)' = {} /\ Alone(c)' = Alone(c) /\ stops' = stops + 1

LEMMA AsksMove ==
    ASSUME TypeInv, [Next]_backendVars, NEW c \in Conversations
    PROVE  Kept(c) \/ Asked(c) \/ Answered(c) \/ Lost(c)
<1>1. /\ asks \in [Slots -> AskStates]
      /\ messages \in [Conversations -> [user : Nat, assistant : Nat]]
  BY DEF TypeInv, AsksInv
<1>2. CASE UNCHANGED <<asks, messages>>
  BY <1>2 DEF Kept, Between, Alone, AsksFor
<1>3. CASE Crash
  BY <1>3 DEF Crash, tables, Stop, Lost, Between, Alone, Idle
<1>4. ASSUME NEW s \in Slots, asks' = [asks EXCEPT ![s] = asks'[s]],
             asks[s].step # "answer", asks'[s].step # "answer", UNCHANGED messages
      PROVE  Kept(c)
  <2>1. \A t \in Slots : t # s => asks'[t] = asks[t]
    BY <1>1, <1>4
  <2>2. Between(c)' = Between(c)
    BY <1>4, <2>1 DEF Between, AsksFor
  <2>3. QED
    BY <1>4, <2>2 DEF Kept, Alone
<1>5. ASSUME NEW s \in Slots, SaveAsk(s)
      PROVE  Kept(c) \/ Asked(c)
  <2>1. /\ asks[s].step = "ask" /\ asks[s] \in Writing
        /\ asks' = [asks EXCEPT ![s] = asks'[s]]
    BY <1>5, AskTypes, AskAdvances DEF SaveAsk, Asks, Writes, TypeInv, Ask
  <2>2. CASE Ends(s) /\ UNCHANGED messages
    BY <1>1, <1>4, <2>1, <2>2 DEF Ends, Idle
  <2>3. CASE Goes(s, "answer") /\ messages' = [messages EXCEPT ![AsksFor(s)].user = @ + 1]
    <3>1. /\ asks'[s].step = "answer" /\ asks'[s].conversation = asks[s].conversation
          /\ \A t \in Slots : t # s => asks'[t] = asks[t]
      BY <1>1, <2>1, <2>3 DEF Goes, Writing
    <3>2. asks[s].conversation \in Conversations
      BY <2>1 DEF Writing
    <3>3. CASE asks[s].conversation = c
      <4>1. Between(c)' = Between(c) \cup {s} /\ s \notin Between(c)
        BY <2>1, <3>1, <3>3 DEF Between, AsksFor
      <4>2. Alone(c)' = Alone(c) + 1
        BY <1>1, <2>3, <3>3 DEF Alone, AsksFor
      <4>3. QED
        BY <4>1, <4>2 DEF Asked
    <3>4. CASE asks[s].conversation # c
      <4>1. Between(c)' = Between(c)
        BY <2>1, <3>1, <3>4 DEF Between, AsksFor
      <4>2. Alone(c)' = Alone(c)
        BY <1>1, <2>3, <3>2, <3>4 DEF Alone, AsksFor
      <4>3. QED
        BY <4>1, <4>2 DEF Kept
    <3>5. QED
      BY <3>3, <3>4
  <2>4. QED
    BY <1>5, <2>2, <2>3 DEF SaveAsk, WorksOrFails
<1>6. ASSUME NEW s \in Slots, SaveAnswer(s)
      PROVE  Kept(c) \/ Answered(c)
  <2>1. /\ asks[s].step = "answer" /\ asks[s] \in Writing
        /\ asks[s].conversation \in Conversations
    BY <1>6, AskTypes DEF SaveAnswer, Asks, Writes, Writing, TypeInv
  <2>2. /\ \A t \in Slots : t # s => asks'[t] = asks[t]
        /\ asks'[s].step # "answer"
        /\ \/ messages' = [messages EXCEPT ![AsksFor(s)].assistant = @ + 1]
           \/ UNCHANGED messages /\ errors' = errors + 1
    <3>1. \/ /\ Goes(s, "charge")
             /\ messages' = [messages EXCEPT ![AsksFor(s)].assistant = @ + 1]
          \/ Ends(s) /\ UNCHANGED messages /\ errors' = errors + 1
      BY <1>6 DEF SaveAnswer, WorksOrFails, Error
    <3>2. Goes(s, "charge") \/ Ends(s) =>
              /\ \A t \in Slots : t # s => asks'[t] = asks[t]
              /\ asks'[s].step # "answer"
      BY <1>1, <2>1 DEF Goes, Ends, Idle, Writing
    <3>3. QED
      BY <3>1, <3>2
  <2>3. CASE asks[s].conversation = c
    <3>1. Between(c)' = Between(c) \ {s} /\ s \in Between(c)
      BY <2>1, <2>2, <2>3 DEF Between, AsksFor
    <3>2. \/ Alone(c)' = Alone(c) - 1
          \/ Alone(c)' = Alone(c) /\ errors' = errors + 1
      BY <1>1, <2>2, <2>3 DEF Alone, AsksFor
    <3>3. QED
      BY <3>1, <3>2 DEF Answered
  <2>4. CASE asks[s].conversation # c
    <3>1. Between(c)' = Between(c)
      BY <2>1, <2>2, <2>4 DEF Between, AsksFor
    <3>2. Alone(c)' = Alone(c)
      BY <1>1, <2>1, <2>2, <2>4 DEF Alone, AsksFor
    <3>3. QED
      BY <3>1, <3>2 DEF Kept
  <2>5. QED
    BY <2>3, <2>4
<1>7. ASSUME NEW s \in Slots, Ask(s), ~SaveAsk(s), ~SaveAnswer(s)
      PROVE  Kept(c)
  <2>1. asks' = [asks EXCEPT ![s] = asks'[s]] /\ Advance(s)
    BY <1>7, AskAdvances
  <2>2. asks[s].step \notin {"ask", "answer"} /\ UNCHANGED messages
    BY <1>7 DEF Ask, Asks, tables, ReadConversation, CheckBalance, StreamEnds, StreamFails,
       PublishCharge, WriteTotal
  <2>3. asks[s].step \in Writes => asks[s] \in Writing
    BY AskTypes DEF TypeInv
  <2>4. asks'[s].step # "answer"
    BY <2>1, <2>2, <2>3 DEF Advance, Checking, Streaming, Writing, Writes, Idle
  <2>5. QED
    BY <1>4, <2>1, <2>2, <2>4
<1>8. QED
  <2>1. CASE UNCHANGED asks
    <3>1. UNCHANGED messages \/ \E s \in Slots : SaveAsk(s) \/ SaveAnswer(s)
      BY Writers
    <3>2. QED
      BY <1>2, <1>5, <1>6, <2>1, <3>1
  <2>2. CASE \E s \in Slots : Ask(s)
    BY <1>5, <1>6, <1>7, <2>2
  <2>3. QED
    BY <1>3, <2>1, <2>2, Writers

\* An ask stands without its answer only while the answer is being stored, or
\* after a fault there: one for a failed write, one for each request that a
\* stop has ended.
THEOREM AsksAreAnswered == Spec => []AsksHaveAnswers
<1> DEFINE N == Cardinality(Slots)
           Bounds(c) == /\ Cardinality(Between(c)) <= Alone(c)
                        /\ Alone(c) <= Cardinality(Between(c)) + N * stops + errors
           AnswersInv == \A c \in Conversations : Bounds(c)
<1>1. AnswersInv <=> AsksHaveAnswers
  BY DEF AsksHaveAnswers, Between, Alone
<1>2. N \in Nat
  BY LimitsAssumption, FS_CardinalityType
<1>3. \A n \in Nat : N * n \in Nat /\ N * (n + 1) = N * n + N
  BY <1>2
<1>4. Init => AnswersInv
  <2> SUFFICES ASSUME Init, NEW c \in Conversations PROVE Bounds(c)
    OBVIOUS
  <2>1. Between(c) = {} /\ Alone(c) = 0 /\ stops = 0 /\ errors = 0
    BY DEF Init, Between, Alone, Idle
  <2>2. Cardinality(Between(c)) = 0
    BY <2>1, FS_EmptySet
  <2>3. QED
    BY <1>2, <2>1, <2>2
<1>5. TypeInv /\ AnswersInv /\ [Next]_backendVars => AnswersInv'
  <2> SUFFICES ASSUME TypeInv, AnswersInv, [Next]_backendVars, NEW c \in Conversations
               PROVE  Bounds(c)'
    OBVIOUS
  <2>1. /\ IsFiniteSet(Between(c)) /\ Cardinality(Between(c)) \in Nat
        /\ Cardinality(Between(c)) <= N
    <3>1. Between(c) \subseteq Slots
      BY DEF Between
    <3>2. QED
      BY <3>1, LimitsAssumption, FS_Subset, FS_CardinalityType
  <2>2. Alone(c) \in Int /\ stops \in Nat /\ errors \in Nat
    BY DEF TypeInv, AsksInv, Alone
  <2>3. /\ stops' \in {stops, stops + 1} /\ errors' \in {errors, errors + 1}
        /\ N * stops \in Nat /\ N * (stops + 1) = N * stops + N
    BY <1>3, <2>2, BudgetStep DEF TypeInv
  <2>4. N * stops <= N * stops' /\ N * stops' \in Nat /\ errors <= errors' /\ errors' \in Nat
    BY <1>2, <2>2, <2>3
  <2>5. CASE Kept(c)
    BY <2>1, <2>2, <2>3, <2>4, <2>5 DEF Kept
  <2>6. CASE Asked(c)
    <3>1. Cardinality(Between(c)') = Cardinality(Between(c)) + 1
      BY <2>1, <2>6, FS_AddElement DEF Asked
    <3>2. Alone(c)' = Alone(c) + 1
      BY <2>6 DEF Asked
    <3>3. QED
      BY <2>1, <2>2, <2>3, <2>4, <3>1, <3>2
  <2>7. CASE Answered(c)
    <3>1. Cardinality(Between(c)') = Cardinality(Between(c)) - 1
      BY <2>1, <2>7, FS_RemoveElement DEF Answered
    <3>2. Alone(c)' = Alone(c) - 1 \/ (Alone(c)' = Alone(c) /\ errors' = errors + 1)
      BY <2>7 DEF Answered
    <3>3. QED
      BY <2>1, <2>2, <2>3, <2>4, <3>1, <3>2
  <2>8. CASE Lost(c)
    <3>1. /\ Cardinality(Between(c)') = 0 /\ Alone(c)' = Alone(c)
          /\ N * stops' = N * stops + N
      BY <2>3, <2>8, FS_EmptySet DEF Lost
    <3>2. QED
      BY <1>2, <2>1, <2>2, <2>3, <2>4, <3>1
  <2>9. QED
    BY <2>5, <2>6, <2>7, <2>8, AsksMove
<1>6. QED
  BY <1>1, <1>4, <1>5, TypesHold, PTL DEF Spec
-----------------------------------------------------------------------------
(***************************************************************************)
(* Tokens of sets of events.                                               *)
(***************************************************************************)

LEMMA NoTokens == TokensOf({}) = 0
BY SumEmpty DEF TokensOf

LEMMA TokensAre ==
    ASSUME NEW E, IsFiniteSet(E)
    PROVE  /\ (\A e \in E : e.tokens \in Int) => TokensOf(E) \in Int
           /\ (\A e \in E : e.tokens \in Nat) => TokensOf(E) \in Nat
<1> DEFINE f == [e \in E |-> e.tokens]
<1>1. \A e \in E : f[e] = e.tokens
  OBVIOUS
<1>2. TokensOf(E) = SumOver(f, E)
  BY DEF TokensOf
<1> HIDE DEF f
<1>3. ASSUME \A e \in E : e.tokens \in Int
      PROVE  TokensOf(E) \in Int
  <2>1. \A e \in E : f[e] \in Int
    BY <1>1, <1>3
  <2>2. SumOver(f, E) \in Int
    BY <2>1, SumType
  <2>3. QED
    BY <1>2, <2>2
<1>4. ASSUME \A e \in E : e.tokens \in Nat
      PROVE  TokensOf(E) \in Nat
  <2>1. \A e \in E : f[e] \in Nat
    BY <1>1, <1>4
  <2>2. SumOver(f, E) \in Nat
    BY <2>1, SumNat
  <2>3. QED
    BY <1>2, <2>2
<1>5. QED
  BY <1>3, <1>4

\* One event more.
LEMMA TokensAdded ==
    ASSUME NEW E, IsFiniteSet(E), NEW e, e \notin E,
           \A x \in E \cup {e} : x.tokens \in Int
    PROVE  TokensOf(E \cup {e}) = TokensOf(E) + e.tokens
<1> DEFINE f == [x \in E |-> x.tokens]
           g == [x \in E \cup {e} |-> x.tokens]
<1>1. /\ \A x \in E : f[x] = g[x]
      /\ \A x \in E \cup {e} : g[x] \in Int
      /\ g[e] = e.tokens
  OBVIOUS
<1>2. TokensOf(E) = SumOver(f, E) /\ TokensOf(E \cup {e}) = SumOver(g, E \cup {e})
  BY DEF TokensOf
<1> HIDE DEF f, g
<1>3. SumOver(f, E) = SumOver(g, E)
  BY <1>1, SumSame
<1>4. SumOver(g, E \cup {e}) = g[e] + SumOver(g, E)
  BY <1>1, SumAdds
<1>5. SumOver(g, E) \in Int
  <2>1. \A x \in E : g[x] \in Int
    BY <1>1
  <2>2. QED
    BY <2>1, SumType
<1>6. e.tokens \in Int
  OBVIOUS
<1>7. QED
  BY <1>1, <1>2, <1>3, <1>4, <1>5, <1>6

\* More purchases are more tokens.
LEMMA TokensGrow ==
    ASSUME NEW E, IsFiniteSet(E), \A e \in E : e.tokens \in Nat, NEW D \in SUBSET E
    PROVE  TokensOf(D) <= TokensOf(E)
<1> DEFINE f == [x \in E |-> x.tokens]
           g == [x \in D |-> x.tokens]
<1>1. (\A x \in D : f[x] = g[x]) /\ (\A x \in E : f[x] \in Nat)
  OBVIOUS
<1>2. TokensOf(E) = SumOver(f, E) /\ TokensOf(D) = SumOver(g, D)
  BY DEF TokensOf
<1>3. IsFiniteSet(D)
  BY FS_Subset
<1> HIDE DEF f, g
<1>4. SumOver(f, D) = SumOver(g, D)
  BY <1>1, <1>3, SumSame
<1>5. SumOver(f, D) <= SumOver(f, E)
  BY <1>1, SumSubset
<1>6. QED
  BY <1>2, <1>4, <1>5

(***************************************************************************)
(* A user's part of a set of events: all of it, the purchases in it, and   *)
(* the charges in it.                                                      *)
(***************************************************************************)

Theirs(u, E) == {e \in E : e.user = u}
Purchases(u, E) == {e \in E : e.user = u /\ e.tokens > 0}
Charges(u, E) == {e \in E : e.user = u /\ e.tokens < 0}

Balance(u, E) == TokensOf(Theirs(u, E))
Gained(u, E) == TokensOf(Purchases(u, E))
Spent(u, E) == -TokensOf(Charges(u, E))

\* What one event adds to each.
Share(u, e) == IF e.user = u THEN e.tokens ELSE 0
Gain(u, e) == IF e.user = u /\ e.tokens > 0 THEN e.tokens ELSE 0
Charge(u, e) == IF e.user = u /\ e.tokens < 0 THEN -e.tokens ELSE 0

Events(E) == IsFiniteSet(E) /\ \A e \in E : e.tokens \in Int

LEMMA PartsEmpty ==
    ASSUME NEW u
    PROVE  Balance(u, {}) = 0 /\ Gained(u, {}) = 0 /\ Spent(u, {}) = 0
<1>1. Theirs(u, {}) = {} /\ Purchases(u, {}) = {} /\ Charges(u, {}) = {}
  BY DEF Theirs, Purchases, Charges
<1>2. QED
  BY <1>1, NoTokens DEF Balance, Gained, Spent

LEMMA PartsTypes ==
    ASSUME NEW u, NEW E, Events(E)
    PROVE  /\ IsFiniteSet(Theirs(u, E)) /\ IsFiniteSet(Purchases(u, E))
           /\ IsFiniteSet(Charges(u, E))
           /\ Balance(u, E) \in Int /\ Gained(u, E) \in Nat /\ Spent(u, E) \in Int
<1>1. Theirs(u, E) \subseteq E /\ Purchases(u, E) \subseteq E /\ Charges(u, E) \subseteq E
  BY DEF Theirs, Purchases, Charges
<1>2. IsFiniteSet(Theirs(u, E)) /\ IsFiniteSet(Purchases(u, E)) /\ IsFiniteSet(Charges(u, E))
  BY <1>1, FS_Subset DEF Events
<1>3. Balance(u, E) \in Int
  <2>1. \A e \in Theirs(u, E) : e.tokens \in Int
    BY DEF Theirs, Events
  <2>2. QED
    BY <1>2, <2>1, TokensAre DEF Balance
<1>4. Gained(u, E) \in Nat
  <2>1. \A e \in Purchases(u, E) : e.tokens \in Nat
    BY DEF Purchases, Events
  <2>2. QED
    BY <1>2, <2>1, TokensAre DEF Gained
<1>5. Spent(u, E) \in Int
  <2>1. \A e \in Charges(u, E) : e.tokens \in Int
    BY DEF Charges, Events
  <2>2. TokensOf(Charges(u, E)) \in Int
    BY <1>2, <2>1, TokensAre
  <2>3. QED
    BY <2>2 DEF Spent
<1>6. QED
  BY <1>2, <1>3, <1>4, <1>5

LEMMA PartsAdded ==
    ASSUME NEW u, NEW E, Events(E), NEW e, e \notin E, e.tokens \in Int
    PROVE  /\ Events(E \cup {e})
           /\ Balance(u, E \cup {e}) = Balance(u, E) + Share(u, e)
           /\ Gained(u, E \cup {e}) = Gained(u, E) + Gain(u, e)
           /\ Spent(u, E \cup {e}) = Spent(u, E) + Charge(u, e)
<1>1. Events(E \cup {e})
  BY FS_AddElement DEF Events
<1>2. ASSUME NEW A \in SUBSET E, NEW B, B = A \/ B = A \cup {e}
      PROVE  /\ IsFiniteSet(A) /\ TokensOf(A) \in Int
             /\ B = A => TokensOf(B) = TokensOf(A)
             /\ B = A \cup {e} => TokensOf(B) = TokensOf(A) + e.tokens
  <2>1. IsFiniteSet(A) /\ e \notin A /\ \A x \in A \cup {e} : x.tokens \in Int
    BY FS_Subset DEF Events
  <2>2. TokensOf(A) \in Int
    BY <2>1, TokensAre
  <2>3. TokensOf(A \cup {e}) = TokensOf(A) + e.tokens
    BY <2>1, TokensAdded
  <2>4. QED
    BY <2>1, <2>2, <2>3
<1>3. Balance(u, E \cup {e}) = Balance(u, E) + Share(u, e)
  <2>1. Theirs(u, E) \in SUBSET E
    BY DEF Theirs
  <2>2. CASE e.user = u
    <3>1. Theirs(u, E \cup {e}) = Theirs(u, E) \cup {e}
      BY <2>2 DEF Theirs
    <3>2. QED
      BY <1>2, <2>1, <2>2, <3>1 DEF Balance, Share
  <2>3. CASE e.user # u
    <3>1. Theirs(u, E \cup {e}) = Theirs(u, E)
      BY <2>3 DEF Theirs
    <3>2. QED
      BY <1>2, <2>1, <2>3, <3>1 DEF Balance, Share
  <2>4. QED
    BY <2>2, <2>3
<1>4. Gained(u, E \cup {e}) = Gained(u, E) + Gain(u, e)
  <2>1. Purchases(u, E) \in SUBSET E
    BY DEF Purchases
  <2>2. CASE e.user = u /\ e.tokens > 0
    <3>1. Purchases(u, E \cup {e}) = Purchases(u, E) \cup {e}
      BY <2>2 DEF Purchases
    <3>2. QED
      BY <1>2, <2>1, <2>2, <3>1 DEF Gained, Gain
  <2>3. CASE ~(e.user = u /\ e.tokens > 0)
    <3>1. Purchases(u, E \cup {e}) = Purchases(u, E)
      BY <2>3 DEF Purchases
    <3>2. QED
      BY <1>2, <2>1, <2>3, <3>1 DEF Gained, Gain
  <2>4. QED
    BY <2>2, <2>3
<1>5. Spent(u, E \cup {e}) = Spent(u, E) + Charge(u, e)
  <2>1. Charges(u, E) \in SUBSET E
    BY DEF Charges
  <2>2. CASE e.user = u /\ e.tokens < 0
    <3>1. Charges(u, E \cup {e}) = Charges(u, E) \cup {e}
      BY <2>2 DEF Charges
    <3>2. TokensOf(Charges(u, E)) \in Int
      BY <1>2, <2>1
    <3>3. TokensOf(Charges(u, E \cup {e})) = TokensOf(Charges(u, E)) + e.tokens
      BY <1>2, <2>1, <3>1
    <3>4. QED
      BY <2>2, <3>2, <3>3 DEF Spent, Charge
  <2>3. CASE ~(e.user = u /\ e.tokens < 0)
    <3>1. Charges(u, E \cup {e}) = Charges(u, E)
      BY <2>3 DEF Charges
    <3>2. TokensOf(Charges(u, E)) \in Int
      BY <1>2, <2>1
    <3>3. QED
      BY <2>3, <3>1, <3>2 DEF Spent, Charge
  <2>4. QED
    BY <2>2, <2>3
<1>6. QED
  BY <1>1, <1>3, <1>4, <1>5

\* A single event, as the listener holds it.
LEMMA PartsOfOne ==
    ASSUME NEW u, NEW e, e.tokens \in Int
    PROVE  /\ Events({e})
           /\ Balance(u, {e}) = Share(u, e)
           /\ Gained(u, {e}) = Gain(u, e)
<1>1. Events({}) /\ e \notin {} /\ {} \cup {e} = {e}
  BY FS_EmptySet DEF Events
<1>2. /\ Events({} \cup {e})
      /\ Balance(u, {} \cup {e}) = Balance(u, {}) + Share(u, e)
      /\ Gained(u, {} \cup {e}) = Gained(u, {}) + Gain(u, e)
  BY <1>1, PartsAdded
<1>3. Share(u, e) \in Int /\ Gain(u, e) \in Int
  BY DEF Share, Gain
<1>4. QED
  BY <1>1, <1>2, <1>3, PartsEmpty
-----------------------------------------------------------------------------
(***************************************************************************)
(* Events.  A purchase has its price, a charge no more than one request    *)
(* may use; the relay has finitely many, and none that is stored is still  *)
(* to come: a subscription starts after the newest stored one.             *)
(***************************************************************************)

Sized(e) == e.tokens = Price \/ (e.tokens < 0 /\ -e.tokens <= ContextLimit)

EventsInv ==
    /\ IsFiniteSet(relay)
    /\ \A e \in relay : Sized(e)
    /\ inbox \cap stored = {}

LEMMA Limits ==
    /\ ContextLimit \in Nat /\ Price \in Nat /\ Price > 0
    /\ Largest \in Nat /\ Price <= Largest /\ ContextLimit <= Largest
<1> DEFINE S == {Price} \cup {MaxContext + p : p \in Prompts}
<1>1. /\ MaxContext \in Nat /\ Price \in Nat /\ Price > 0 /\ Prompts \subseteq Nat
      /\ Max(Prompts) \in Nat /\ \A p \in Prompts : p <= Max(Prompts)
  BY LongestPrompt, BackendAssumption
<1>2. Max(Prompts) \in Prompts
  BY LimitsAssumption, BackendAssumption DEF Max
<1>3. ContextLimit \in S /\ Price \in S /\ S \subseteq Nat
  BY <1>1, <1>2 DEF ContextLimit
<1>4. \E x \in S : \A y \in S : x >= y
  <2>1. \A y \in S : y = Price \/ y <= ContextLimit
    BY <1>1 DEF ContextLimit
  <2>2. CASE Price >= ContextLimit
    <3>1. \A y \in S : Price >= y
      BY <1>1, <1>3, <2>1, <2>2
    <3>2. QED
      BY <1>3, <3>1
  <2>3. CASE ~(Price >= ContextLimit)
    <3>1. \A y \in S : ContextLimit >= y
      BY <1>1, <1>3, <2>1, <2>3
    <3>2. QED
      BY <1>3, <3>1
  <2>4. QED
    BY <2>2, <2>3
<1> HIDE DEF S
<1>5. Max(S) \in S /\ \A y \in S : Max(S) >= y
  BY <1>4 DEF Max
<1>6. Largest = Max(S)
  BY DEF Largest, S
<1>7. QED
  BY <1>1, <1>3, <1>5, <1>6

\* An event's second is at most that of the newest stored one.
LEMMA LatestIsLatest ==
    ASSUME RelayInv, IsFiniteSet(relay), NEW e \in stored
    PROVE  e.at \in Int /\ LatestCreatedAt \in Int /\ e.at <= LatestCreatedAt
<1> DEFINE S == {x.at : x \in stored} \cup {0}
<1>1. now \in Nat /\ \A x \in stored : x.at \in 1..now
  BY DEF RelayInv
<1>2. e.at \in S /\ S # {} /\ S \subseteq 0..now
  BY <1>1
<1>3. LatestCreatedAt = Max(S)
  BY DEF LatestCreatedAt
<1> HIDE DEF S
<1>4. \A x \in S : x \in Int
  BY <1>1, <1>2
<1>5. IsFiniteSet(S)
  <2> DEFINE N == 0..now
  <2>1. IsFiniteSet(N) /\ S \subseteq N
    BY <1>1, <1>2, FS_Interval
  <2> HIDE DEF N
  <2>2. QED
    BY <2>1, FS_Subset
<1>6. Max(S) \in S /\ \A x \in S : x <= Max(S)
  BY <1>2, <1>4, <1>5, LargestOfSet
<1>7. QED
  BY <1>2, <1>3, <1>4, <1>6

\* What publishing an event does.
LEMMA PublishedEvent ==
    ASSUME NEW u, NEW tokens, Publish(u, tokens)
    PROVE  \E e : /\ e.user = u /\ e.tokens = tokens
                  /\ relay' = relay \cup {e}
                  /\ inbox' \subseteq inbox \cup ({e} \ relay)
                  /\ UNCHANGED inHand
<1>1. PICK at : LET new == {Event(u, tokens, at)} \ relay
                IN  /\ relay' = relay \cup new
                    /\ inbox' = inbox \cup {e \in new : listener = "on" /\ e.at >= since}
                    /\ UNCHANGED inHand
  BY DEF Publish
<1>2. Event(u, tokens, at).user = u /\ Event(u, tokens, at).tokens = tokens
  BY DEF Event
<1>3. QED
  BY <1>1, <1>2

\* What a step of a request publishes is what it used.
LEMMA ChargedEvent ==
    ASSUME TypeInv, ContextInv, NEW s \in Slots, PublishCharge(s)
    PROVE  /\ asks[s] \in Writing /\ Owner[AsksFor(s)] \in Users
           /\ -asks[s].usage \in Int /\ -asks[s].usage < 0 /\ asks[s].usage <= ContextLimit
           /\ UNCHANGED <<relay, subscription>> \/ Publish(Owner[AsksFor(s)], -asks[s].usage)
<1>1. asks[s] \in Writing /\ asks[s].step \in Writes
  BY AskTypes DEF PublishCharge, Asks, Writes, TypeInv
<1>2. Owner[AsksFor(s)] \in Users /\ asks[s].usage \in Nat \ {0} /\ asks[s].total \in Nat
  BY <1>1, BackendAssumption DEF Writing, AsksFor
<1>3. asks[s].total + asks[s].usage <= ContextLimit /\ ContextLimit \in Nat
  BY <1>1, Limits DEF ContextInv, Keeps
<1>4. UNCHANGED <<relay, subscription>> \/ Publish(Owner[AsksFor(s)], -asks[s].usage)
  BY DEF PublishCharge, WorksOrFails
<1>5. QED
  BY <1>1, <1>2, <1>3, <1>4

LEMMA EventsStep == TypeInv /\ ContextInv /\ EventsInv /\ [Next]_backendVars => EventsInv'
<1> SUFFICES ASSUME TypeInv, ContextInv, EventsInv, [Next]_backendVars PROVE EventsInv'
  OBVIOUS
<1>1. RelayInv /\ IsFiniteSet(relay) /\ inbox \cap stored = {} /\ stored \subseteq relay
  BY DEF TypeInv, RelayInv, EventsInv
<1>2. ASSUME NEW u, NEW tokens, Publish(u, tokens), UNCHANGED stored,
             tokens = Price \/ (tokens < 0 /\ -tokens <= ContextLimit)
      PROVE  EventsInv'
  <2>1. PICK e : /\ e.tokens = tokens /\ relay' = relay \cup {e}
                 /\ inbox' \subseteq inbox \cup ({e} \ relay)
    BY <1>2, PublishedEvent
  <2>2. IsFiniteSet(relay')
    BY <1>1, <2>1, FS_AddElement
  <2>3. \A x \in relay' : Sized(x)
    BY <1>2, <2>1 DEF EventsInv, Sized
  <2>4. inbox' \cap stored' = {}
    BY <1>1, <1>2, <2>1
  <2>5. QED
    BY <2>2, <2>3, <2>4 DEF EventsInv, Sized, ContextLimit
<1>3. ASSUME UNCHANGED relay, inbox' \cap stored' = {}
      PROVE  EventsInv'
  BY <1>1, <1>3 DEF EventsInv, Sized, ContextLimit
<1>4. ASSUME NEW s \in Slots, PublishCharge(s)
      PROVE  EventsInv'
  <2>1. UNCHANGED stored
    BY <1>4 DEF PublishCharge, tables
  <2>2. CASE UNCHANGED <<relay, subscription>>
    BY <1>1, <1>3, <2>1, <2>2 DEF subscription
  <2>3. CASE Publish(Owner[AsksFor(s)], -asks[s].usage)
    <3>1. /\ -asks[s].usage < 0 /\ asks[s].usage \in Nat /\ asks[s].usage <= ContextLimit
      BY <1>4, ChargedEvent DEF Writing
    <3>2. -(-asks[s].usage) <= ContextLimit
      BY <3>1
    <3>3. QED
      BY <1>2, <2>1, <2>3, <3>1, <3>2
  <2>4. QED
    BY <1>4, <2>2, <2>3, ChargedEvent
<1>5. ASSUME NEW u \in Users, Buy(u)
      PROVE  EventsInv'
  BY <1>2, <1>5 DEF Buy, tables
<1>6. CASE SaveEvent
  BY <1>1, <1>3, <1>6 DEF SaveEvent, WorksOrFails
<1>7. CASE Subscribe
  <2>1. /\ inbox' = {e \in relay : e.at >= LatestCreatedAt + 1}
        /\ UNCHANGED <<relay, stored>>
    BY <1>7 DEF Subscribe, tables
  <2>2. \A e \in stored : e.at \in Int /\ LatestCreatedAt \in Int /\ e.at <= LatestCreatedAt
    BY <1>1, LatestIsLatest
  <2>3. \A e \in stored : e \notin inbox'
    BY <2>1, <2>2
  <2>4. QED
    BY <1>3, <2>1, <2>3
<1>8. CASE ListenerEnds \/ Crash
  BY <1>3, <1>8 DEF ListenerEnds, Crash, tables
<1>9. CASE UNCHANGED <<relay, inbox, stored>>
  BY <1>1, <1>3, <1>9
<1>10. QED
  BY <1>4, <1>5, <1>6, <1>7, <1>8, <1>9
  DEF Next, Listen, Ask, backendVars, tables, subscription, CreditEvent, ReadConversation,
      CheckBalance, StreamEnds, StreamFails, SaveAsk, SaveAnswer, WriteTotal, LoginReads,
      LoginSaves, Tick, Restart

LEMMA EventsInit == Init => EventsInv
BY FS_EmptySet DEF Init, EventsInv

LEMMA EventsHold == Spec => []EventsInv
<1>1. Spec => []ContextInv
  BY ContextInit, ContextStep, TypesHold, PTL DEF Spec
<1>2. QED
  BY <1>1, EventsInit, EventsStep, TypesHold, PTL DEF Spec

\* What is said of events holds of those that are stored or in hand.
LEMMA EventSets ==
    ASSUME TypeInv, EventsInv
    PROVE  /\ Events(relay) /\ Events(stored) /\ Events(inHand)
           /\ \A e \in relay : /\ Sized(e) /\ e.user \in Users
                              /\ e.tokens \in Int /\ e.tokens # 0
           /\ stored \subseteq relay /\ inHand \subseteq relay
<1>1. /\ IsFiniteSet(relay) /\ stored \subseteq relay /\ inHand \subseteq relay
      /\ \A e \in relay : Sized(e) /\ e.user \in Users /\ e.tokens \in Int /\ e.tokens # 0
  BY DEF TypeInv, RelayInv, EventsInv
<1>2. IsFiniteSet(stored) /\ IsFiniteSet(inHand)
  BY <1>1, FS_Subset
<1>3. QED
  BY <1>1, <1>2 DEF Events

\* What saving an event and crediting it do.
LEMMA Saves ==
    ASSUME TypeInv, EventsInv, SaveEvent
    PROVE  \E e \in relay :
               /\ e \notin stored
               /\ inHand = {} /\ inHand' = {e}
               /\ \/ stored' = stored \cup {e} /\ UNCHANGED <<errors, stops>>
                  \/ UNCHANGED stored /\ errors' = errors + 1 /\ UNCHANGED stops
               /\ UNCHANGED <<row, login, logins>>
BY DEF SaveEvent, WorksOrFails, Error, budget, EventsInv, TypeInv, RelayInv

LEMMA RowWritten ==
    ASSUME RowsInv, NEW u \in Users, NEW t \in Int, NEW c \in Nat, UpdateUserTokens(u, t, c),
           NEW v \in Users
    PROVE  \/ row'[v] = row[v] /\ (v # u \/ row[v] = NoRow)
           \/ /\ v = u /\ row[v] # NoRow
              /\ row'[v] = [tokens |-> row[v].tokens + t, consumed |-> row[v].consumed + c]
<1>1. row \in [Users -> Rows \cup {NoRow}]
  BY DEF RowsInv
<1>2. CASE row[u] = NoRow
  BY <1>2 DEF UpdateUserTokens
<1>3. CASE row[u] # NoRow
  <2>1. row[u] \in Rows
    BY <1>1, <1>3
  <2>2. row' = [row EXCEPT ![u].tokens = row[u].tokens + t,
                           ![u].consumed = row[u].consumed + c]
    BY <1>3 DEF UpdateUserTokens
  <2>3. row'[u] = [tokens |-> row[u].tokens + t, consumed |-> row[u].consumed + c]
    BY <1>1, <2>1, <2>2 DEF Rows
  <2>4. v # u => row'[v] = row[v]
    BY <1>1, <2>2
  <2>5. QED
    BY <1>3, <2>3, <2>4
<1>4. QED
  BY <1>2, <1>3

LEMMA Credits ==
    ASSUME TypeInv, EventsInv, CreditEvent
    PROVE  \E e \in relay :
               /\ inHand = {e} /\ inHand' = {}
               /\ UNCHANGED <<stored, login, logins, stops>>
               /\ \/ UNCHANGED row /\ errors' = errors + 1
                  \/ /\ UNCHANGED errors
                     /\ UpdateUserTokens(e.user, e.tokens,
                                         IF e.tokens >= 0 THEN 0 ELSE -e.tokens)
BY DEF CreditEvent, WorksOrFails, Error, budget, TypeInv, RelayInv

\* Only these steps write a row, the table of events or the event in hand.
LEMMA LedgerWriters ==
    ASSUME [Next]_backendVars
    PROVE  \/ UNCHANGED <<row, stored, inHand, login, logins>>
           \/ SaveEvent \/ CreditEvent \/ Crash
           \/ \E u \in Users : LoginReads(u) \/ LoginSaves(u)
BY DEF Next, Listen, Ask, backendVars, tables, subscription, budget, Publish, WorksOrFails,
       Stop, Error, Subscribe, ListenerEnds, ReadConversation, CheckBalance, StreamEnds,
       StreamFails, SaveAsk, SaveAnswer, PublishCharge, WriteTotal, Buy, Tick, Restart

-----------------------------------------------------------------------------
(***************************************************************************)
(* Balances and the table of events.  An event in hand is on its way to    *)
(* the balance, so it counts as credited; a write that fails or a stop     *)
(* then parts the two by that one event.                                   *)
(***************************************************************************)

Slack == Largest * (stops + errors)
Apart(u) == row[u].tokens + Balance(u, inHand) - Balance(u, stored)

BalanceInv ==
    /\ logins \in Nat
    /\ logins = 0 => \A u \in Users : login[u] = NoRow
    /\ \A u \in Users : row[u] # NoRow /\ logins = 0 => -Slack <= Apart(u) /\ Apart(u) <= Slack

\* A failed write or a stop makes room for one event.
LEMMA SlackGrows ==
    ASSUME TypeInv, [Next]_backendVars
    PROVE  /\ Slack \in Nat /\ Slack' \in Nat /\ Slack <= Slack'
           /\ errors' = errors + 1 \/ stops' = stops + 1 => Slack + Largest <= Slack'
<1>1. /\ stops \in Nat /\ errors \in Nat /\ Largest \in Nat
      /\ stops' = stops \/ stops' = stops + 1
      /\ errors' = errors \/ errors' = errors + 1
  BY BudgetStep, Limits DEF TypeInv, AsksInv
<1>2. PICK l \in Nat, a \in Nat, b \in Nat, c \in Nat, d \in Nat :
          l = Largest /\ a = stops /\ b = errors /\ c = stops' /\ d = errors'
  BY <1>1
<1>3. (c = a \/ c = a + 1) /\ (d = b \/ d = b + 1)
  BY <1>1, <1>2
<1>4. /\ l * (a + b) \in Nat
      /\ l * (a + b + 1) = l * (a + b) + l
      /\ l * (a + b + 2) = l * (a + b) + l + l
  OBVIOUS
<1>5. c + d = a + b \/ c + d = a + b + 1 \/ c + d = a + b + 2
  BY <1>3
<1>6. c = a + 1 \/ d = b + 1 => c + d # a + b
  BY <1>3
<1>7. /\ l * (c + d) \in Nat /\ l * (a + b) <= l * (c + d)
      /\ c = a + 1 \/ d = b + 1 => l * (a + b) + l <= l * (c + d)
  BY <1>4, <1>5, <1>6
<1>8. Slack = l * (a + b) /\ Slack' = l * (c + d)
  BY <1>2 DEF Slack, Largest
<1>9. errors' = errors + 1 \/ stops' = stops + 1 => c = a + 1 \/ d = b + 1
  BY <1>2
<1>10. QED
  BY <1>2, <1>4, <1>7, <1>8, <1>9

\* One event is at most as large as what a fault may cost.
LEMMA ShareBounded ==
    ASSUME TypeInv, EventsInv, NEW e \in relay, NEW u
    PROVE  /\ Share(u, e) \in Int /\ -Largest <= Share(u, e) /\ Share(u, e) <= Largest
           /\ Gain(u, e) \in {0, Price}
<1>1. e.tokens \in Int /\ Sized(e)
  BY EventSets
<1>2. QED
  BY <1>1, Limits DEF Sized, Share, Gain

Worth(r) == r.tokens + r.consumed

\* What crediting an event does to a row: a charge moves its tokens from the
\* balance to what is consumed.
LEMMA CreditRow ==
    ASSUME RowsInv, NEW e, e.user \in Users, e.tokens \in Int,
           UpdateUserTokens(e.user, e.tokens, IF e.tokens >= 0 THEN 0 ELSE -e.tokens),
           NEW u \in Users, row'[u] # NoRow
    PROVE  /\ row[u] # NoRow
           /\ row'[u].tokens = row[u].tokens + Share(u, e)
           /\ Worth(row'[u]) = Worth(row[u]) + Gain(u, e)
<1>1. PICK v \in Users, t \in Int, c \in Nat :
          v = e.user /\ t = e.tokens /\ c = IF t >= 0 THEN 0 ELSE -t
  <2>1. (IF e.tokens >= 0 THEN 0 ELSE -e.tokens) \in Nat
    OBVIOUS
  <2>2. QED
    BY <2>1
<1>2. UpdateUserTokens(v, t, c)
  BY <1>1
<1>3. \/ row'[u] = row[u] /\ (u # v \/ row[u] = NoRow)
      \/ /\ u = v /\ row[u] # NoRow
         /\ row'[u] = [tokens |-> row[u].tokens + t, consumed |-> row[u].consumed + c]
  BY <1>2, RowWritten
<1>4. row[u] # NoRow /\ row[u].tokens \in Int /\ row[u].consumed \in Nat
  BY <1>3 DEF RowsInv, Rows
<1>5. CASE u # v
  BY <1>1, <1>3, <1>4, <1>5 DEF Share, Gain, Worth
<1>6. CASE u = v
  <2>1. row'[u] = [tokens |-> row[u].tokens + t, consumed |-> row[u].consumed + c]
    BY <1>3, <1>4, <1>6
  <2>2. row'[u].tokens = row[u].tokens + t /\ row'[u].consumed = row[u].consumed + c
    BY <2>1
  <2>3. Share(u, e) = t /\ Gain(u, e) = t + c
    BY <1>1, <1>6 DEF Share, Gain
  <2>4. QED
    BY <1>4, <2>2, <2>3 DEF Worth
<1>7. QED
  BY <1>5, <1>6

LEMMA BalanceStep ==
    TypeInv /\ EventsInv /\ BalanceInv /\ [Next]_backendVars => BalanceInv'
<1> SUFFICES ASSUME TypeInv, EventsInv, BalanceInv, [Next]_backendVars PROVE BalanceInv'
  OBVIOUS
<1>1. logins' \in Nat /\ (logins' = logins \/ logins' = logins + 1)
  <2>1. logins' = logins \/ logins' = logins + 1
    BY DEF Next, Listen, Ask, backendVars, budget, Stop, Error, WorksOrFails,
       Subscribe, SaveEvent, CreditEvent, ListenerEnds, ReadConversation, CheckBalance,
       StreamEnds, StreamFails, SaveAsk, SaveAnswer, PublishCharge, WriteTotal,
       LoginReads, LoginSaves, Buy, Tick, Crash, Restart
  <2>2. QED
    BY <2>1 DEF BalanceInv
<1>2. ASSUME logins' = 0
      PROVE  /\ logins = 0
             /\ \A u \in Users : login'[u] = NoRow
             /\ ~ \E u \in Users : LoginReads(u) \/ LoginSaves(u)
  <2>1. logins = 0
    BY <1>1, <1>2 DEF BalanceInv
  <2>2. ~ \E u \in Users : LoginReads(u) \/ LoginSaves(u)
    BY <1>2, <2>1 DEF BalanceInv, LoginReads, LoginSaves
  <2>3. \A u \in Users : login'[u] = NoRow
    BY <2>1, <2>2, Writers DEF BalanceInv, Crash
  <2>4. QED
    BY <2>1, <2>2, <2>3
<1>3. ASSUME NEW u \in Users, row'[u] # NoRow, logins' = 0
      PROVE  (-Slack <= Apart(u) /\ Apart(u) <= Slack)'
  <2>1. /\ Events(stored) /\ Events(inHand)
        /\ Slack \in Nat /\ Slack' \in Nat /\ Slack <= Slack' /\ Largest \in Nat
        /\ row \in [Users -> Rows \cup {NoRow}]
        /\ row[u] # NoRow => -Slack <= Apart(u) /\ Apart(u) <= Slack
    BY <1>2, <1>3, EventSets, SlackGrows, Limits DEF TypeInv, RowsInv, BalanceInv
  <2>2. Balance(u, stored) \in Int /\ Balance(u, inHand) \in Int
    BY <2>1, PartsTypes
  <2>3. row[u] # NoRow => row[u].tokens \in Int
    BY <2>1 DEF Rows
  <2>4. CASE UNCHANGED <<row, stored, inHand>>
    <3>1. Apart(u)' = Apart(u)
      BY <2>4 DEF Apart
    <3>2. Apart(u) \in Int
      BY <1>3, <2>2, <2>3, <2>4 DEF Apart
    <3>3. QED
      BY <1>3, <2>1, <2>4, <3>1, <3>2
  <2>5. CASE SaveEvent
    <3>1. PICK e \in relay :
              /\ e \notin stored
              /\ inHand = {} /\ inHand' = {e}
              /\ \/ stored' = stored \cup {e} /\ UNCHANGED <<errors, stops>>
                 \/ UNCHANGED stored /\ errors' = errors + 1 /\ UNCHANGED stops
              /\ UNCHANGED row
      BY <2>5, Saves
    <3>2. e.tokens \in Int
      BY EventSets
    <3>3. Balance(u, inHand) = 0 /\ Balance(u, inHand') = Share(u, e)
      BY <3>1, <3>2, PartsEmpty, PartsOfOne
    <3>4. Share(u, e) \in Int /\ -Largest <= Share(u, e) /\ Share(u, e) <= Largest
      BY ShareBounded
    <3>5. \/ Balance(u, stored') = Balance(u, stored) + Share(u, e)
          \/ Balance(u, stored') = Balance(u, stored) /\ Slack + Largest <= Slack'
      BY <2>1, <3>1, <3>2, PartsAdded, SlackGrows
    <3>6. Apart(u)' = row[u].tokens + Balance(u, inHand') - Balance(u, stored')
      BY <3>1 DEF Apart
    <3>7. QED
      BY <1>3, <2>1, <2>2, <2>3, <3>1, <3>3, <3>4, <3>5, <3>6 DEF Apart
  <2>6. CASE CreditEvent
    <3>1. PICK e \in relay :
              /\ inHand = {e} /\ inHand' = {}
              /\ UNCHANGED <<stored, stops>>
              /\ \/ UNCHANGED row /\ errors' = errors + 1
                 \/ UpdateUserTokens(e.user, e.tokens, IF e.tokens >= 0 THEN 0 ELSE -e.tokens)
      BY <2>6, Credits
    <3>2. e.tokens \in Int /\ e.user \in Users
      BY EventSets
    <3>3. Balance(u, inHand) = Share(u, e) /\ Balance(u, inHand') = 0
      BY <3>1, <3>2, PartsEmpty, PartsOfOne
    <3>4. Share(u, e) \in Int /\ -Largest <= Share(u, e) /\ Share(u, e) <= Largest
      BY ShareBounded
    <3>5. Apart(u)' = row'[u].tokens + 0 - Balance(u, stored)
      BY <3>1, <3>3 DEF Apart
    <3>6. CASE UNCHANGED row /\ errors' = errors + 1
      <4>1. Slack + Largest <= Slack'
        BY <3>6, SlackGrows
      <4>2. QED
        BY <1>3, <2>1, <2>2, <2>3, <3>3, <3>4, <3>5, <3>6, <4>1 DEF Apart
    <3>7. CASE UpdateUserTokens(e.user, e.tokens, IF e.tokens >= 0 THEN 0 ELSE -e.tokens)
      <4>1. row[u] # NoRow /\ row'[u].tokens = row[u].tokens + Share(u, e)
        BY <1>3, <3>2, <3>7, CreditRow DEF TypeInv
      <4>2. QED
        BY <2>1, <2>2, <2>3, <3>3, <3>4, <3>5, <4>1 DEF Apart
    <3>8. QED
      BY <3>1, <3>6, <3>7
  <2>7. CASE Crash
    <3>1. UNCHANGED <<row, stored>> /\ inHand' = {} /\ stops' = stops + 1
      BY <2>7 DEF Crash, Stop, tables
    <3>2. Balance(u, inHand') = 0 /\ Slack + Largest <= Slack'
      BY <3>1, PartsEmpty, SlackGrows
    <3>3. -Largest <= Balance(u, inHand) /\ Balance(u, inHand) <= Largest
      <4>1. CASE inHand = {}
        BY <2>1, <4>1, PartsEmpty
      <4>2. ASSUME NEW e \in relay, inHand = {e}
            PROVE  -Largest <= Balance(u, inHand) /\ Balance(u, inHand) <= Largest
        <5>1. e.tokens \in Int
          BY EventSets
        <5>2. Balance(u, inHand) = Share(u, e)
          BY <4>2, <5>1, PartsOfOne
        <5>3. QED
          BY <5>2, ShareBounded
      <4>3. QED
        BY <4>1, <4>2 DEF TypeInv, RelayInv
    <3>4. Apart(u)' = row[u].tokens + 0 - Balance(u, stored)
      BY <3>1, <3>2 DEF Apart
    <3>5. QED
      BY <1>3, <2>1, <2>2, <2>3, <3>1, <3>2, <3>3, <3>4 DEF Apart
  <2>8. QED
    BY <1>2, <1>3, <2>4, <2>5, <2>6, <2>7, LedgerWriters
<1>4. QED
  BY <1>1, <1>2, <1>3 DEF BalanceInv

\* Up to the first login, the balance of every user and the stored events it
\* came from are apart by one event for each stop and each failed write, and
\* the event in hand.
THEOREM LedgersStayClose == Spec => []LedgersAgree
<1>1. Init => BalanceInv
  <2> SUFFICES ASSUME Init PROVE BalanceInv
    OBVIOUS
  <2>1. /\ logins = 0 /\ \A u \in Users : login[u] = NoRow
        /\ stops + errors = 0 /\ inHand = {} /\ stored = {}
    BY DEF Init
  <2>2. Slack = 0
    BY <2>1, Limits DEF Slack
  <2>3. ASSUME NEW u \in Users, row[u] # NoRow
        PROVE  Apart(u) = 0
    <3>1. row[u].tokens = 0
      BY <2>3 DEF Init, NewRow
    <3>2. QED
      BY <2>1, <3>1, PartsEmpty DEF Apart
  <2>4. QED
    BY <2>1, <2>2, <2>3 DEF BalanceInv
<1>2. TypeInv /\ EventsInv /\ BalanceInv => LedgersAgree
  <2> SUFFICES ASSUME TypeInv, EventsInv, BalanceInv,
                      NEW u \in Users, row[u] # NoRow, logins = 0
               PROVE  LET apart == row[u].tokens - TokensOf({e \in stored : e.user = u})
                          slack == Largest * (stops + errors + Cardinality(inHand))
                      IN  -slack <= apart /\ apart <= slack
    BY DEF LedgersAgree
  <2>1. row[u].tokens \in Int /\ -Slack <= Apart(u) /\ Apart(u) <= Slack
    BY DEF BalanceInv, TypeInv, RowsInv, Rows
  <2>2. /\ Balance(u, stored) \in Int /\ Largest \in Nat /\ stops \in Nat /\ errors \in Nat
        /\ TokensOf({e \in stored : e.user = u}) = Balance(u, stored)
    BY EventSets, PartsTypes, Limits DEF TypeInv, AsksInv, Balance, Theirs
  <2>3. CASE inHand = {}
    <3>1. Cardinality(inHand) = 0 /\ Balance(u, inHand) = 0
      BY <2>3, FS_EmptySet, PartsEmpty
    <3>2. Slack \in Int /\ Slack = Largest * (stops + errors + 0)
      BY <2>2 DEF Slack
    <3>3. QED
      BY <2>1, <2>2, <3>1, <3>2 DEF Apart
  <2>4. ASSUME NEW e \in relay, inHand = {e}
        PROVE  LET apart == row[u].tokens - TokensOf({x \in stored : x.user = u})
                   slack == Largest * (stops + errors + Cardinality(inHand))
               IN  -slack <= apart /\ apart <= slack
    <3>1. Cardinality(inHand) = 1
      BY <2>4, FS_Singleton
    <3>2. /\ Balance(u, inHand) = Share(u, e)
          /\ Share(u, e) \in Int /\ -Largest <= Share(u, e) /\ Share(u, e) <= Largest
      BY <2>4, EventSets, PartsOfOne, ShareBounded
    <3>3. Slack \in Int /\ Largest * (stops + errors + 1) = Slack + Largest
      BY <2>2 DEF Slack
    <3>4. QED
      BY <2>1, <2>2, <3>1, <3>2, <3>3 DEF Apart
  <2>5. QED
    BY <2>3, <2>4 DEF TypeInv, RelayInv
<1>3. QED
  BY <1>1, <1>2, BalanceStep, EventsHold, TypesHold, PTL DEF Spec
-----------------------------------------------------------------------------
(***************************************************************************)
(* Purchases.  The event in hand is stored, or one failed write made room  *)
(* for it; and it is never in hand again once it is stored.  What a row    *)
(* shows stays covered by the stored purchases whatever happens after it   *)
(* has been read, so a login may write an old row back.                    *)
(***************************************************************************)

Covered(u, worth) == worth + Gained(u, inHand) <= Gained(u, stored) + Price * errors

PurchaseInv ==
    \A u \in Users :
        /\ Covered(u, 0)
        /\ row[u] # NoRow => Covered(u, Worth(row[u]))
        /\ login[u] # NoRow => Covered(u, Worth(login[u]))

LEMMA GainedTypes ==
    ASSUME TypeInv, EventsInv, NEW u
    PROVE  /\ Gained(u, inHand) \in Nat /\ Gained(u, stored) \in Nat
           /\ Price * errors \in Nat /\ Price * (errors + 1) = Price * errors + Price
<1>1. Gained(u, inHand) \in Nat /\ Gained(u, stored) \in Nat
  BY EventSets, PartsTypes
<1>2. Price \in Nat /\ errors \in Nat
  BY Limits DEF TypeInv, AsksInv
<1>3. QED
  BY <1>1, <1>2

LEMMA WorthTypes ==
    ASSUME TypeInv, NEW u \in Users
    PROVE  /\ row[u] # NoRow => Worth(row[u]) \in Int
           /\ login[u] # NoRow => Worth(login[u]) \in Int
BY DEF TypeInv, RowsInv, Rows, Worth

\* What has been covered stays so.
LEMMA CoveredStays ==
    ASSUME TypeInv, EventsInv, [Next]_backendVars, NEW u \in Users, NEW worth \in Int,
           Covered(u, worth)
    PROVE  Covered(u, worth)'
<1>1. /\ Gained(u, inHand) \in Nat /\ Gained(u, stored) \in Nat
      /\ Price * errors \in Nat /\ Price * (errors + 1) = Price * errors + Price
      /\ worth + Gained(u, inHand) <= Gained(u, stored) + Price * errors
      /\ Price \in Nat
  BY GainedTypes, Limits DEF Covered
<1>2. Price * errors' = Price * errors \/ Price * errors' = Price * errors + Price
  <2>1. errors' = errors \/ errors' = errors + 1
    BY BudgetStep DEF TypeInv
  <2>2. QED
    BY <1>1, <2>1
<1>3. CASE UNCHANGED <<stored, inHand>>
  BY <1>1, <1>2, <1>3 DEF Covered
<1>4. CASE SaveEvent
  <2>1. PICK e \in relay :
            /\ e \notin stored
            /\ inHand = {} /\ inHand' = {e}
            /\ \/ stored' = stored \cup {e}
               \/ UNCHANGED stored /\ errors' = errors + 1
    BY <1>4, Saves
  <2>2. Events(stored) /\ e.tokens \in Int
    BY EventSets
  <2>3. Gained(u, inHand) = 0 /\ Gained(u, inHand') = Gain(u, e)
    BY <2>1, <2>2, PartsEmpty, PartsOfOne
  <2>4. Gain(u, e) = 0 \/ Gain(u, e) = Price
    BY ShareBounded
  <2>5. CASE stored' = stored \cup {e}
    <3>1. Gained(u, stored') = Gained(u, stored) + Gain(u, e)
      BY <2>1, <2>2, <2>5, PartsAdded
    <3>2. QED
      BY <1>1, <1>2, <2>3, <2>4, <3>1 DEF Covered
  <2>6. CASE UNCHANGED stored /\ errors' = errors + 1
    BY <1>1, <2>3, <2>4, <2>6 DEF Covered
  <2>7. QED
    BY <2>1, <2>5, <2>6
<1>5. CASE CreditEvent \/ Crash
  <2>1. UNCHANGED stored /\ inHand' = {}
    BY <1>5 DEF CreditEvent, Crash, tables
  <2>2. Gained(u, inHand') = 0
    BY <2>1, PartsEmpty
  <2>3. QED
    BY <1>1, <1>2, <2>1, <2>2 DEF Covered
<1>6. QED
  BY <1>3, <1>4, <1>5, LedgerWriters DEF LoginReads, LoginSaves, tables, subscription

LEMMA PurchaseStep ==
    TypeInv /\ EventsInv /\ PurchaseInv /\ [Next]_backendVars => PurchaseInv'
<1> SUFFICES ASSUME TypeInv, EventsInv, PurchaseInv, [Next]_backendVars, NEW u \in Users
             PROVE  /\ Covered(u, 0)'
                    /\ row'[u] # NoRow => Covered(u, Worth(row[u]))'
                    /\ login'[u] # NoRow => Covered(u, Worth(login[u]))'
  BY DEF PurchaseInv
<1>1. Covered(u, 0)'
  BY CoveredStays DEF PurchaseInv
<1>2. ASSUME NEW worth \in Int, worth = 0 \/ (row[u] # NoRow /\ worth = Worth(row[u]))
                                          \/ (login[u] # NoRow /\ worth = Worth(login[u]))
      PROVE  Covered(u, worth)'
  BY <1>2, CoveredStays DEF PurchaseInv
<1>3. row[u] # NoRow =>
          \E worth \in Int : worth = Worth(row[u]) /\ Covered(u, worth)'
  BY <1>2, WorthTypes
<1>4. login[u] # NoRow =>
          \E worth \in Int : worth = Worth(login[u]) /\ Covered(u, worth)'
  BY <1>2, WorthTypes
<1>5. ASSUME row'[u] # NoRow, row[u] # NoRow, row'[u] = row[u]
      PROVE  Covered(u, Worth(row[u]))'
  BY <1>3, <1>5 DEF Covered
<1>6. ASSUME login'[u] # NoRow, login[u] # NoRow, login'[u] = login[u]
      PROVE  Covered(u, Worth(login[u]))'
  BY <1>4, <1>6 DEF Covered
<1>7. row \in [Users -> Rows \cup {NoRow}] /\ login \in [Users -> Rows \cup {NoRow}]
  BY DEF TypeInv, RowsInv
<1>8. ASSUME row'[u] # NoRow
      PROVE  Covered(u, Worth(row[u]))'
  <2>1. CASE row'[u] = row[u]
    BY <1>5, <1>8, <2>1
  <2>2. CASE CreditEvent
    <3>1. PICK e \in relay :
              /\ inHand = {e} /\ inHand' = {}
              /\ UNCHANGED stored
              /\ \/ UNCHANGED row
                 \/ /\ UNCHANGED errors
                    /\ UpdateUserTokens(e.user, e.tokens,
                                        IF e.tokens >= 0 THEN 0 ELSE -e.tokens)
      BY <2>2, Credits
    <3>2. CASE UNCHANGED row
      BY <1>5, <1>8, <3>2
    <3>3. CASE /\ UNCHANGED errors
               /\ UpdateUserTokens(e.user, e.tokens, IF e.tokens >= 0 THEN 0 ELSE -e.tokens)
      <4>1. e.tokens \in Int /\ e.user \in Users
        BY EventSets
      <4>2. row[u] # NoRow /\ Worth(row'[u]) = Worth(row[u]) + Gain(u, e)
        BY <1>8, <3>3, <4>1, CreditRow DEF TypeInv
      <4>3. Gained(u, inHand) = Gain(u, e) /\ Gained(u, inHand') = 0
        BY <3>1, <4>1, PartsEmpty, PartsOfOne
      <4>4. Worth(row[u]) + Gain(u, e) <= Gained(u, stored) + Price * errors
        BY <4>2, <4>3 DEF PurchaseInv, Covered
      <4>5. Worth(row[u]) \in Int /\ Gain(u, e) \in Int
        BY <4>1, <4>2, WorthTypes DEF Gain
      <4>6. Worth(row'[u]) + 0 <= Gained(u, stored') + Price * errors'
        BY <3>1, <3>3, <4>2, <4>4, <4>5
      <4>7. QED
        BY <4>3, <4>6 DEF Covered, Worth
    <3>4. QED
      BY <3>1, <3>2, <3>3
  <2>3. ASSUME NEW v \in Users, LoginReads(v), row'[u] # row[u]
        PROVE  Covered(u, Worth(row[u]))'
    <3>1. row' = [row EXCEPT ![v] = NewRow]
      BY <2>3 DEF LoginReads
    <3>2. row'[u] = NewRow
      BY <1>7, <2>3, <3>1
    <3>3. Worth(row'[u]) = 0
      BY <3>2 DEF Worth, NewRow
    <3>4. QED
      BY <1>1, <3>3 DEF Covered, Worth
  <2>4. ASSUME NEW v \in Users, LoginSaves(v), row'[u] # row[u]
        PROVE  Covered(u, Worth(row[u]))'
    <3>1. row' = [row EXCEPT ![v] = login[v]] /\ login[v] # NoRow
      BY <2>4 DEF LoginSaves, WorksOrFails
    <3>2. u = v /\ row'[u] = login[u]
      BY <1>7, <2>4, <3>1
    <3>3. PICK worth \in Int : worth = Worth(login[u]) /\ Covered(u, worth)'
      BY <1>4, <3>1, <3>2
    <3>4. QED
      BY <3>2, <3>3 DEF Covered, Worth
  <2>5. QED
    BY <2>1, <2>2, <2>3, <2>4, Writers
<1>9. ASSUME login'[u] # NoRow
      PROVE  Covered(u, Worth(login[u]))'
  <2>1. CASE login'[u] = login[u]
    BY <1>6, <1>9, <2>1
  <2>2. CASE Crash
    BY <1>9, <2>2 DEF Crash
  <2>3. ASSUME NEW v \in Users, LoginReads(v), login'[u] # login[u]
        PROVE  Covered(u, Worth(login[u]))'
    <3>1. login' = [login EXCEPT ![v] = row'[v]]
      BY <2>3 DEF LoginReads
    <3>2. login'[u] = row'[u]
      BY <1>7, <2>3, <3>1
    <3>3. QED
      BY <1>8, <1>9, <3>2 DEF Covered, Worth
  <2>4. ASSUME NEW v \in Users, LoginSaves(v), login'[u] # login[u]
        PROVE  FALSE
    BY <1>7, <1>9, <2>4 DEF LoginSaves
  <2>5. QED
    BY <2>1, <2>2, <2>3, <2>4, Writers
<1>10. QED
  BY <1>1, <1>8, <1>9

\* Over stops, subscriptions that start again, failed writes and logins that
\* write an old row back: a user never gets more tokens than those bought, but
\* for one purchase for each failed write.
THEOREM NoPurchaseTwice == Spec => []NeverOverCredited
<1>1. Init => PurchaseInv
  <2> SUFFICES ASSUME Init, NEW u \in Users
               PROVE  /\ Covered(u, 0)
                      /\ row[u] # NoRow => Covered(u, Worth(row[u]))
                      /\ login[u] # NoRow => Covered(u, Worth(login[u]))
    BY DEF PurchaseInv
  <2>1. inHand = {} /\ stored = {} /\ errors = 0 /\ login[u] = NoRow
    BY DEF Init
  <2>2. row[u] # NoRow => Worth(row[u]) = 0
    BY DEF Init, NewRow, Worth
  <2>3. Gained(u, inHand) = 0 /\ Gained(u, stored) = 0 /\ Price * errors = 0
    BY <2>1, PartsEmpty, Limits
  <2>4. QED
    BY <2>1, <2>2, <2>3 DEF Covered
<1>2. TypeInv /\ EventsInv /\ PurchaseInv => NeverOverCredited
  <2> SUFFICES ASSUME TypeInv, EventsInv, PurchaseInv, NEW u \in Users, row[u] # NoRow
               PROVE  row[u].tokens + row[u].consumed <= Bought(u) + Price * errors
    BY DEF NeverOverCredited
  <2>1. /\ Worth(row[u]) + Gained(u, inHand) <= Gained(u, stored) + Price * errors
        /\ Worth(row[u]) \in Int /\ Worth(row[u]) = row[u].tokens + row[u].consumed
    BY WorthTypes DEF PurchaseInv, Covered, Worth
  <2>2. /\ Gained(u, inHand) \in Nat /\ Gained(u, stored) \in Nat /\ Price * errors \in Nat
    BY GainedTypes
  <2>3. Events(relay) /\ stored \subseteq relay
    BY EventSets
  <2>4. Bought(u) = Gained(u, relay) /\ Gained(u, relay) \in Nat
    BY <2>3, PartsTypes DEF Bought, Gained, Purchases
  <2>5. Gained(u, stored) <= Gained(u, relay)
    <3>1. Purchases(u, stored) \in SUBSET Purchases(u, relay)
      BY <2>3 DEF Purchases
    <3>2. IsFiniteSet(Purchases(u, relay))
      BY <2>3, PartsTypes
    <3>3. \A e \in Purchases(u, relay) : e.tokens \in Nat
      BY <2>3 DEF Purchases, Events
    <3>4. QED
      BY <3>1, <3>2, <3>3, TokensGrow DEF Gained
  <2>6. QED
    BY <2>1, <2>2, <2>4, <2>5
<1>3. QED
  BY <1>1, <1>2, PurchaseStep, EventsHold, TypesHold, PTL DEF Spec
-----------------------------------------------------------------------------
(***************************************************************************)
(* Charges.  Between storing an answer and publishing its charge a request *)
(* holds the usage; nothing that it charges has not been stored before.    *)
(***************************************************************************)

HeldIn(u, s) == IF asks[s].step = "charge" /\ Owner[AsksFor(s)] = u THEN asks[s].usage ELSE 0
Held(u) == SumOver([s \in Slots |-> HeldIn(u, s)], Slots)
TheirConversations(u) == {c \in Conversations : Owner[c] = u}
UsedBy(u) == SumOver(used, TheirConversations(u))

ChargeInv ==
    /\ used \in [Conversations -> Nat]
    /\ \A u \in Users : Spent(u, relay) + Held(u) <= UsedBy(u)

LEMMA HeldTypes ==
    ASSUME AsksInv, NEW u
    PROVE  (\A s \in Slots : HeldIn(u, s) \in Nat) /\ Held(u) \in Nat
<1> DEFINE f == [s \in Slots |-> HeldIn(u, s)]
<1>1. \A s \in Slots : HeldIn(u, s) \in Nat
  BY AskTypes DEF HeldIn, Writing, Writes
<1>2. \A s \in Slots : f[s] \in Nat
  BY <1>1
<1>3. Held(u) = SumOver(f, Slots)
  BY DEF Held
<1> HIDE DEF f
<1>4. SumOver(f, Slots) \in Nat
  BY <1>2, LimitsAssumption, SumNat
<1>5. QED
  BY <1>1, <1>3, <1>4

\* A step of the request in one slot changes what is held in that slot.
LEMMA HeldMoves ==
    ASSUME AsksInv, AsksInv', NEW u, NEW s \in Slots, asks' = [asks EXCEPT ![s] = asks'[s]]
    PROVE  Held(u)' = Held(u) + (HeldIn(u, s)' - HeldIn(u, s))
<1> DEFINE f == [t \in Slots |-> HeldIn(u, t)]
           g == [t \in Slots |-> HeldIn(u, t)']
<1>1. \A t \in Slots : t # s => asks'[t] = asks[t]
  BY DEF AsksInv
<1>2. \A t \in Slots : t # s => HeldIn(u, t)' = HeldIn(u, t)
  BY <1>1 DEF HeldIn, AsksFor
<1>3. \A t \in Slots : HeldIn(u, t) \in Int
  <2>1. \A t \in Slots : HeldIn(u, t) \in Nat
    BY HeldTypes
  <2>2. QED
    BY <2>1
<1>4. HeldIn(u, s)' \in Int
  <2>1. asks'[s] \in AskStates
    BY DEF AsksInv
  <2>2. asks'[s].step = "charge" => asks'[s].usage \in Nat
    BY <2>1 DEF AskStates, Idle, Checking, Streaming, Writing
  <2>3. QED
    BY <2>2 DEF HeldIn
<1>5. /\ \A t \in Slots : t # s => g[t] = f[t]
      /\ f[s] = HeldIn(u, s) /\ g[s] = HeldIn(u, s)'
      /\ \A t \in Slots : f[t] \in Int /\ g[t] \in Int
  BY <1>2, <1>3, <1>4
<1>6. Held(u) = SumOver(f, Slots) /\ Held(u)' = SumOver(g, Slots)
  BY DEF Held
<1> HIDE DEF f, g
<1>7. SumOver(g, Slots) = SumOver(f, Slots) + (g[s] - f[s])
  BY <1>5, LimitsAssumption, SumChanges
<1>8. QED
  BY <1>5, <1>6, <1>7

\* Storing an answer counts for the conversation's owner.
LEMMA UsedMoves ==
    ASSUME used \in [Conversations -> Nat], NEW c \in Conversations, NEW n \in Nat,
           used' = [used EXCEPT ![c] = @ + n], NEW u
    PROVE  UsedBy(u)' = UsedBy(u) + (IF Owner[c] = u THEN n ELSE 0)
<1> DEFINE S == TheirConversations(u)
           g == [used EXCEPT ![c] = @ + n]
<1>1. IsFiniteSet(S)
  <2>1. S \subseteq Conversations
    BY DEF TheirConversations
  <2> HIDE DEF S
  <2>2. QED
    BY <2>1, RowsAssumption, FS_Subset
<1>2. /\ \A d \in S : used[d] \in Int /\ g[d] \in Int
      /\ \A d \in S : d # c => g[d] = used[d]
      /\ g[c] = used[c] + n /\ used[c] \in Int
  BY DEF TheirConversations
<1>3. UsedBy(u) = SumOver(used, S) /\ UsedBy(u)' = SumOver(g, S)
  BY DEF UsedBy, TheirConversations
<1>4. c \in S <=> Owner[c] = u
  BY DEF TheirConversations
<1> HIDE DEF S, g
<1>5. SumOver(used, S) \in Int
  BY <1>1, <1>2, SumType
<1>6. CASE c \in S
  <2>1. SumOver(g, S) = SumOver(used, S) + (g[c] - used[c])
    BY <1>1, <1>2, <1>6, SumChanges
  <2>2. QED
    BY <1>2, <1>3, <1>4, <1>5, <1>6, <2>1
<1>7. CASE c \notin S
  <2>1. \A d \in S : used[d] = g[d]
    BY <1>2, <1>7
  <2>2. SumOver(used, S) = SumOver(g, S)
    BY <1>1, <2>1, SumSame
  <2>3. QED
    BY <1>3, <1>4, <1>5, <1>7, <2>2
<1>8. QED
  BY <1>6, <1>7

\* Publishing an event adds no more than the event itself charges: it may be
\* one of the relay's already.
LEMMA SpentMoves ==
    ASSUME Events(relay), NEW u, NEW v, NEW tokens \in Int, Publish(v, tokens)
    PROVE  /\ Spent(u, relay) \in Int /\ Spent(u, relay') \in Int
           /\ Spent(u, relay') <= Spent(u, relay)
                                  + (IF v = u /\ tokens < 0 THEN -tokens ELSE 0)
<1>1. PICK e : e.user = v /\ e.tokens = tokens /\ relay' = relay \cup {e}
  BY PublishedEvent
<1>2. Spent(u, relay) \in Int
  BY PartsTypes
<1>3. Charge(u, e) = IF v = u /\ tokens < 0 THEN -tokens ELSE 0
  BY <1>1 DEF Charge
<1>4. Charge(u, e) \in Nat
  BY <1>3
<1>5. CASE e \in relay
  <2>1. relay' = relay
    BY <1>1, <1>5
  <2>2. QED
    BY <1>2, <1>3, <1>4, <2>1
<1>6. CASE e \notin relay
  <2>1. Spent(u, relay') = Spent(u, relay) + Charge(u, e)
    BY <1>1, <1>6, PartsAdded
  <2>2. QED
    BY <1>2, <1>3, <1>4, <2>1
<1>7. QED
  BY <1>5, <1>6

LEMMA ChargeStep ==
    TypeInv /\ ContextInv /\ EventsInv /\ ChargeInv /\ [Next]_backendVars => ChargeInv'
<1> SUFFICES ASSUME TypeInv, ContextInv, EventsInv, ChargeInv, [Next]_backendVars
             PROVE  ChargeInv'
  OBVIOUS
<1>1. /\ AsksInv /\ AsksInv' /\ Events(relay) /\ used \in [Conversations -> Nat]
      /\ asks \in [Slots -> AskStates]
  BY AsksStep, EventSets DEF TypeInv, ChargeInv, AsksInv
<1>2. ASSUME NEW u \in Users
      PROVE  /\ Spent(u, relay) \in Int /\ Held(u) \in Nat /\ UsedBy(u) \in Int
             /\ Spent(u, relay) + Held(u) <= UsedBy(u)
  <2>1. Spent(u, relay) \in Int
    BY <1>1, PartsTypes
  <2>2. UsedBy(u) \in Int
    <3>1. TheirConversations(u) \subseteq Conversations
      BY DEF TheirConversations
    <3>2. /\ IsFiniteSet(TheirConversations(u))
          /\ \A c \in TheirConversations(u) : used[c] \in Int
      BY <1>1, <3>1, RowsAssumption, FS_Subset
    <3>3. QED
      BY <3>2, SumType DEF UsedBy
  <2>3. QED
    BY <1>1, <2>1, <2>2, HeldTypes DEF ChargeInv
<1>3. ASSUME UNCHANGED <<relay, used, asks>>
      PROVE  ChargeInv'
  <2>1. \A u \in Users : Held(u)' = Held(u) /\ UsedBy(u)' = UsedBy(u)
    BY <1>3 DEF Held, HeldIn, AsksFor, UsedBy
  <2>2. QED
    BY <1>3, <2>1 DEF ChargeInv
<1>4. CASE Crash
  <2>1. UNCHANGED <<relay, used>> /\ asks' = [s \in Slots |-> Idle]
    BY <1>4 DEF Crash
  <2>2. ASSUME NEW u \in Users
        PROVE  Spent(u, relay') + Held(u)' <= UsedBy(u)'
    <3>1. Held(u)' = 0
      <4> DEFINE g == [s \in Slots |-> HeldIn(u, s)']
      <4>1. \A s \in Slots : g[s] = 0
        BY <2>1 DEF HeldIn, Idle
      <4>2. Held(u)' = SumOver(g, Slots)
        BY DEF Held
      <4> HIDE DEF g
      <4>3. SumOver(g, Slots) = 0 * Cardinality(Slots)
        BY <4>1, LimitsAssumption, SumConstant
      <4>4. QED
        BY <4>2, <4>3, LimitsAssumption, FS_CardinalityType
    <3>2. UsedBy(u)' = UsedBy(u)
      BY <2>1 DEF UsedBy
    <3>3. QED
      BY <1>2, <2>1, <3>1, <3>2
  <2>3. QED
    BY <1>1, <2>1, <2>2 DEF ChargeInv
<1>5. ASSUME NEW v \in Users, Buy(v)
      PROVE  ChargeInv'
  <2>1. UNCHANGED <<used, asks>> /\ Publish(v, Price)
    BY <1>5 DEF Buy
  <2>2. ASSUME NEW u \in Users
        PROVE  Spent(u, relay') + Held(u)' <= UsedBy(u)'
    <3>1. Held(u)' = Held(u) /\ UsedBy(u)' = UsedBy(u)
      BY <2>1 DEF Held, HeldIn, AsksFor, UsedBy
    <3>2. Spent(u, relay') \in Int /\ Spent(u, relay') <= Spent(u, relay)
      <4>1. Price \in Int /\ ~(Price < 0)
        BY Limits
      <4>2. QED
        BY <1>1, <1>2, <2>1, <4>1, SpentMoves
    <3>3. QED
      BY <1>2, <3>1, <3>2
  <2>3. QED
    BY <1>1, <2>1, <2>2 DEF ChargeInv
<1>6. ASSUME NEW s \in Slots, Ask(s)
      PROVE  ChargeInv'
  <2>1. Advance(s) /\ asks' = [asks EXCEPT ![s] = asks'[s]]
    BY <1>6, AskAdvances
  <2>2. \A u \in Users : Held(u)' = Held(u) + (HeldIn(u, s)' - HeldIn(u, s))
    BY <1>1, <2>1, HeldMoves
  <2>3. CASE SaveAnswer(s)
    <3>1. asks[s].step = "answer" /\ asks[s] \in Writing
      BY <1>1, <2>3, AskTypes DEF SaveAnswer, Asks, Writes
    <3>2. UNCHANGED relay /\ \A u : HeldIn(u, s) = 0
      BY <2>3, <3>1 DEF SaveAnswer, HeldIn
    <3>3. CASE Ends(s) /\ UNCHANGED used
      <4>1. asks'[s] = Idle
        BY <1>1, <3>3 DEF Ends
      <4>2. \A u : HeldIn(u, s)' = 0
        BY <4>1 DEF HeldIn, Idle
      <4>3. \A u \in Users : UsedBy(u)' = UsedBy(u)
        BY <3>3 DEF UsedBy
      <4>4. \A u \in Users : Spent(u, relay') + Held(u)' <= UsedBy(u)'
        BY <1>2, <2>2, <3>2, <4>2, <4>3
      <4>5. QED
        BY <1>1, <3>3, <4>4 DEF ChargeInv
    <3>4. CASE /\ used' = [used EXCEPT ![AsksFor(s)] = @ + asks[s].usage]
               /\ Goes(s, "charge")
      <4>1. PICK c \in Conversations, n \in Nat : c = AsksFor(s) /\ n = asks[s].usage
        BY <3>1 DEF Writing, AsksFor
      <4>2. asks'[s] = [asks[s] EXCEPT !.step = "charge"]
        BY <1>1, <3>4 DEF Goes
      <4>3. /\ asks'[s].step = "charge" /\ asks'[s].usage = n /\ asks'[s].conversation = c
        BY <3>1, <4>1, <4>2 DEF Writing, AsksFor
      <4>4. \A u : HeldIn(u, s)' = IF Owner[c] = u THEN n ELSE 0
        BY <4>3 DEF HeldIn, AsksFor
      <4>5. used' = [used EXCEPT ![c] = @ + n]
        BY <3>4, <4>1
      <4>6. \A u \in Users : UsedBy(u)' = UsedBy(u) + (IF Owner[c] = u THEN n ELSE 0)
        BY <1>1, <4>5, UsedMoves
      <4>7. ASSUME NEW u \in Users
            PROVE  Spent(u, relay') + Held(u)' <= UsedBy(u)'
        <5>1. /\ Held(u)' = Held(u) + (IF Owner[c] = u THEN n ELSE 0)
              /\ UsedBy(u)' = UsedBy(u) + (IF Owner[c] = u THEN n ELSE 0)
          BY <1>2, <2>2, <3>2, <4>4, <4>6
        <5>2. QED
          BY <1>2, <3>2, <5>1
      <4>8. used' \in [Conversations -> Nat]
        BY <1>1, <4>5
      <4>9. QED
        BY <4>7, <4>8 DEF ChargeInv
    <3>5. QED
      BY <2>3, <3>3, <3>4 DEF SaveAnswer, WorksOrFails
  <2>4. CASE PublishCharge(s)
    <3>1. /\ asks[s] \in Writing /\ UNCHANGED used /\ asks[s].step = "charge"
          /\ asks[s].usage \in Nat /\ -asks[s].usage \in Int
          /\ \/ UNCHANGED relay
             \/ Publish(Owner[AsksFor(s)], -asks[s].usage)
      BY <2>4, ChargedEvent DEF PublishCharge, Asks, Writing
    <3>2. asks'[s] = [asks[s] EXCEPT !.step = "total"]
      BY <1>1, <2>4 DEF PublishCharge, Goes
    <3>3. asks'[s].step = "total"
      BY <3>1, <3>2 DEF Writing
    <3>4. ASSUME NEW u \in Users
          PROVE  Spent(u, relay') + Held(u)' <= UsedBy(u)'
      <4>1. HeldIn(u, s) = IF Owner[AsksFor(s)] = u THEN asks[s].usage ELSE 0
        BY <3>1 DEF HeldIn
      <4>2. HeldIn(u, s)' = 0
        BY <3>3 DEF HeldIn
      <4>3. HeldIn(u, s) \in Nat /\ Held(u)' = Held(u) - HeldIn(u, s)
        BY <1>1, <1>2, <2>2, <4>2, HeldTypes
      <4>4. Spent(u, relay') \in Int /\ Spent(u, relay') <= Spent(u, relay) + HeldIn(u, s)
        <5>1. CASE UNCHANGED relay
          BY <1>2, <4>3, <5>1
        <5>2. CASE Publish(Owner[AsksFor(s)], -asks[s].usage)
          <6>1. PICK v \in {Owner[AsksFor(s)]}, n \in Nat : n = asks[s].usage
            BY <3>1
          <6>2. -n \in Int /\ Publish(v, -n)
            BY <5>2, <6>1
          <6>3. /\ Spent(u, relay') \in Int
                /\ Spent(u, relay') <= Spent(u, relay) + (IF v = u /\ -n < 0 THEN -(-n) ELSE 0)
            BY <1>1, <6>2, SpentMoves
          <6>4. (IF v = u /\ -n < 0 THEN -(-n) ELSE 0) = HeldIn(u, s)
            BY <4>1, <6>1
          <6>5. QED
            BY <6>3, <6>4
        <5>3. QED
          BY <3>1, <5>1, <5>2
      <4>5. UsedBy(u)' = UsedBy(u)
        BY <3>1 DEF UsedBy
      <4>6. QED
        BY <1>2, <4>3, <4>4, <4>5
    <3>5. QED
      BY <1>1, <3>1, <3>4 DEF ChargeInv
  <2>5. CASE ~SaveAnswer(s) /\ ~PublishCharge(s)
    <3>1. UNCHANGED <<relay, used>> /\ asks[s].step \notin {"answer", "charge"}
      BY <1>6, <2>5 DEF Ask, Asks, ReadConversation, CheckBalance, StreamEnds, StreamFails,
         SaveAsk, WriteTotal
    <3>2. asks[s].step \in Writes => asks[s] \in Writing
      BY <1>1, AskTypes
    <3>3. asks'[s].step # "charge"
      BY <2>1, <3>1, <3>2 DEF Advance, Checking, Streaming, Writing, Writes, Idle
    <3>4. \A u : HeldIn(u, s) = 0 /\ HeldIn(u, s)' = 0
      BY <3>1, <3>3 DEF HeldIn
    <3>5. \A u \in Users : UsedBy(u)' = UsedBy(u)
      BY <3>1 DEF UsedBy
    <3>6. \A u \in Users : Spent(u, relay') + Held(u)' <= UsedBy(u)'
      BY <1>2, <2>2, <3>1, <3>4, <3>5
    <3>7. QED
      BY <1>1, <3>1, <3>6 DEF ChargeInv
  <2>6. QED
    BY <2>3, <2>4, <2>5
<1>7. QED
  BY <1>3, <1>4, <1>5, <1>6
  DEF Next, Listen, backendVars, Subscribe, SaveEvent, CreditEvent, ListenerEnds,
      LoginReads, LoginSaves, Tick, Restart

\* However many requests run at once, stop half way or publish the same charge
\* in the same second: users are charged for answers that are stored.
THEOREM ChargesAreForAnswers == Spec => []ChargesHaveAnswers
<1>1. Init => ChargeInv
  <2> SUFFICES ASSUME Init PROVE ChargeInv
    OBVIOUS
  <2>1. relay = {} /\ used = [c \in Conversations |-> 0] /\ \A s \in Slots : asks[s] = Idle
    BY DEF Init
  <2>2. ASSUME NEW u \in Users
        PROVE  Spent(u, relay) + Held(u) <= UsedBy(u)
    <3>1. Spent(u, relay) = 0
      BY <2>1, PartsEmpty
    <3>2. Held(u) = 0
      <4> DEFINE f == [s \in Slots |-> HeldIn(u, s)]
      <4>1. \A s \in Slots : f[s] = 0
        BY <2>1 DEF HeldIn, Idle
      <4>2. Held(u) = SumOver(f, Slots)
        BY DEF Held
      <4> HIDE DEF f
      <4>3. SumOver(f, Slots) = 0 * Cardinality(Slots)
        BY <4>1, LimitsAssumption, SumConstant
      <4>4. QED
        BY <4>2, <4>3, LimitsAssumption, FS_CardinalityType
    <3>3. UsedBy(u) \in Nat
      <4>1. TheirConversations(u) \subseteq Conversations
        BY DEF TheirConversations
      <4>2. /\ IsFiniteSet(TheirConversations(u))
            /\ \A c \in TheirConversations(u) : used[c] \in Nat
        BY <2>1, <4>1, RowsAssumption, FS_Subset
      <4>3. QED
        BY <4>2, SumNat DEF UsedBy
    <3>4. QED
      BY <3>1, <3>2, <3>3
  <2>3. QED
    BY <2>1, <2>2 DEF ChargeInv
<1>2. TypeInv /\ EventsInv /\ ChargeInv => ChargesHaveAnswers
  <2> SUFFICES ASSUME TypeInv, EventsInv, ChargeInv, NEW u \in Users
               PROVE  -TokensOf({e \in relay : e.user = u /\ e.tokens < 0})
                        <= SumOver(used, {c \in Conversations : Owner[c] = u})
    BY DEF ChargesHaveAnswers
  <2>1. /\ Spent(u, relay) \in Int /\ Held(u) \in Nat
        /\ Spent(u, relay) + Held(u) <= UsedBy(u)
    BY EventSets, PartsTypes, HeldTypes DEF TypeInv, ChargeInv
  <2>2. UsedBy(u) \in Int
    <3>1. TheirConversations(u) \subseteq Conversations
      BY DEF TheirConversations
    <3>2. /\ IsFiniteSet(TheirConversations(u))
          /\ \A c \in TheirConversations(u) : used[c] \in Int
      BY <3>1, RowsAssumption, FS_Subset DEF ChargeInv
    <3>3. QED
      BY <3>2, SumType DEF UsedBy
  <2>3. Spent(u, relay) <= UsedBy(u)
    BY <2>1, <2>2
  <2>4. QED
    BY <2>3 DEF Spent, Charges, UsedBy, TheirConversations
<1>3. Spec => []ContextInv
  BY ContextInit, ContextStep, TypesHold, PTL DEF Spec
<1>4. QED
  BY <1>1, <1>2, <1>3, ChargeStep, EventsHold, TypesHold, PTL DEF Spec
=============================================================================
