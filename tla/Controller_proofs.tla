------------------------- MODULE Controller_proofs -------------------------
(***************************************************************************)
(* Theorems about Controller for any number of users, machines, requests   *)
(* and faults.                                                             *)
(***************************************************************************)
EXTENDS Controller, Sums_proofs, TLAPS

-----------------------------------------------------------------------------
(***************************************************************************)
(* Types.  The inductive invariant says in addition to ControllerTypeOK    *)
(* what the messages of the log are, and that a process that is down has   *)
(* lost its memory.                                                        *)
(***************************************************************************)

RequestMessages ==
    [kind : {"Request"}, admin : BOOLEAN, machine : Machines, to_status : Statuses,
     reason : Reasons, initial_request : Nat, user : Users, nonce : Nonces,
     created_at : Nat]
StatusMessages ==
    [kind : {"Status"}, machine : Machines, status : Statuses, reason : Reasons,
     initial_request : Nat, created_at : Nat]
TransactionMessages ==
    [kind : {"Transaction"}, machine : Machines, user : Users, tokens : Nat,
     created_at : Nat]
Messages == RequestMessages \cup StatusMessages \cup TransactionMessages

LogInv ==
    /\ log \in Seq(Messages)
    /\ \A i \in Events("Status") : log[i].initial_request \in Events("Request")

\* Events arrive in the order of their seconds, none of which is yet to come.
ClockInv ==
    /\ now \in Nat /\ now >= 1
    /\ \A i \in DOMAIN log : log[i].created_at \in 1..now
    /\ \A i, j \in DOMAIN log : i <= j => log[i].created_at <= log[j].created_at

Awaits == {"pay", "status", "transaction"}

ProcessInv ==
    /\ up \in BOOLEAN
    /\ cursor \in 0..Len(log)
    /\ keyed \in 0..Len(log)
    /\ machine \in [Machines -> [status : Statuses,
                                 initial_request : Events("Request") \cup {NoRequest}]]
    /\ handling \in [request : Events("Request"), step : Awaits] \cup {Idle}
    /\ \A t \in timers : t.request \in Events("Request") /\ t.since \in 1..now
    /\ ~up => handling = Idle /\ machine = [m \in Machines |-> Fresh]

OutsideInv ==
    /\ late \subseteq Events("Request")
    /\ faults \in 0..MaxFaults
    /\ next \in [Users -> Nonces]
    /\ merged \in [Users -> Nat]

TypeInv == LogInv /\ ClockInv /\ ProcessInv /\ OutsideInv

\* What is published is new to the relay, or it is there.
Adds(event) == log' = Append(log, event)

LEMMA PublishAdds ==
    ASSUME NEW event
    PROVE  /\ Publish(event) => Adds(event) \/ UNCHANGED log
           /\ Publish(event) /\ ~Sent(event) => Adds(event)
           /\ Publish(event) /\ Sent(event) => UNCHANGED log
           /\ PublishRequest(event) => Adds(event) \/ UNCHANGED log
BY DEF Publish, PublishRequest, Adds

\* A message that is appended joins the events of its kind and moves no other.
LEMMA Grows ==
    ASSUME log \in Seq(Messages), NEW event \in Messages, Adds(event)
    PROVE  /\ log' \in Seq(Messages)
           /\ Len(log) \in Nat /\ Len(log') = Len(log) + 1
           /\ DOMAIN log = 1..Len(log)
           /\ \A i \in DOMAIN log : i \in DOMAIN log' /\ log'[i] = log[i]
           /\ log'[Len(log) + 1] = event
           /\ \A kind : Events(kind)' = Events(kind) \cup
                            (IF event.kind = kind THEN {Len(log) + 1} ELSE {})
<1>1. /\ log' \in Seq(Messages)
      /\ Len(log) \in Nat /\ Len(log') = Len(log) + 1
      /\ DOMAIN log = 1..Len(log) /\ DOMAIN log' = 1..(Len(log) + 1)
      /\ \A i \in 1..Len(log) : log'[i] = log[i]
      /\ log'[Len(log) + 1] = event
  BY DEF Adds
<1>2. \A i \in DOMAIN log : i \in DOMAIN log' /\ log'[i] = log[i]
  BY <1>1
<1>3. DOMAIN log' = DOMAIN log \cup {Len(log) + 1}
  BY <1>1
<1>4. ASSUME NEW kind
      PROVE  Events(kind)' = Events(kind) \cup
                 (IF event.kind = kind THEN {Len(log) + 1} ELSE {})
  BY <1>1, <1>2, <1>3 DEF Events
<1>5. QED
  BY <1>1, <1>2, <1>4

\* What can be said of an event from its kind.
LEMMA EventTypes ==
    ASSUME log \in Seq(Messages)
    PROVE  /\ DOMAIN log = 1..Len(log) /\ Len(log) \in Nat
           /\ \A i \in DOMAIN log : log[i] \in Messages
           /\ \A i \in Events("Request") : i \in 1..Len(log) /\ log[i] \in RequestMessages
           /\ \A i \in Events("Status") : i \in 1..Len(log) /\ log[i] \in StatusMessages
           /\ \A i \in Events("Transaction") : i \in 1..Len(log) /\ log[i] \in TransactionMessages
<1>1. DOMAIN log = 1..Len(log) /\ Len(log) \in Nat /\ \A i \in DOMAIN log : log[i] \in Messages
  OBVIOUS
<1>2. QED
  BY <1>1 DEF Events, Messages, RequestMessages, StatusMessages, TransactionMessages

\* A message that is well formed leaves the log well formed.
LEMMA LogGrown ==
    ASSUME LogInv, NEW event \in Messages, Adds(event),
           event.kind = "Status" => event.initial_request \in Events("Request")
    PROVE  LogInv' /\ Events("Request") \subseteq Events("Request")' /\ Len(log') = Len(log) + 1
<1>1. log \in Seq(Messages)
  BY DEF LogInv
<1>2. ASSUME NEW i \in Events("Status")'
      PROVE  log'[i].initial_request \in Events("Request")
  <2>1. CASE i \in Events("Status")
    BY <1>1, <2>1, EventTypes, Grows DEF LogInv
  <2>2. CASE i \notin Events("Status")
    BY <1>1, <1>2, <2>2, Grows
  <2>3. QED
    BY <2>1, <2>2
<1>3. QED
  BY <1>1, <1>2, Grows DEF LogInv

LEMMA LogKept ==
    ASSUME UNCHANGED log
    PROVE  /\ \A kind : Events(kind)' = Events(kind)
           /\ LogInv => LogInv'
           /\ Len(log') = Len(log)
BY DEF Events, LogInv

\* What is made in this second is no earlier than what is there.
LEMMA ClockGrown ==
    ASSUME LogInv, ClockInv, NEW event \in Messages, Adds(event), event.created_at = now,
           UNCHANGED now
    PROVE  ClockInv'
<1>1. log \in Seq(Messages)
  BY DEF LogInv
<1>2. /\ DOMAIN log = 1..Len(log) /\ Len(log) \in Nat
      /\ DOMAIN log' = 1..(Len(log) + 1)
      /\ \A i \in 1..Len(log) : log'[i] = log[i]
      /\ log'[Len(log) + 1] = event
  BY <1>1 DEF Adds
<1>3. \A i \in DOMAIN log' : log'[i].created_at \in 1..now
  BY <1>2 DEF ClockInv
<1>4. ASSUME NEW i \in DOMAIN log', NEW j \in DOMAIN log', i <= j
      PROVE  log'[i].created_at <= log'[j].created_at
  <2>1. CASE j = Len(log) + 1
    BY <1>2, <1>3, <2>1 DEF ClockInv
  <2>2. CASE j \in 1..Len(log)
    BY <1>2, <1>4, <2>2 DEF ClockInv
  <2>3. QED
    BY <1>2, <2>1, <2>2
<1>5. QED
  BY <1>3, <1>4 DEF ClockInv

LEMMA ClockKept ==
    ASSUME ClockInv, UNCHANGED log, now' \in {now, now + 1}
    PROVE  ClockInv'
<1>1. now' \in Nat /\ now' >= 1 /\ 1..now \subseteq 1..now'
  BY DEF ClockInv
<1>2. QED
  BY <1>1 DEF ClockInv

\* The request being handled is one that was published.
LEMMA HandledTypes ==
    ASSUME LogInv, ProcessInv, handling # Idle
    PROVE  /\ handling.request \in Events("Request")
           /\ handling.step \in Awaits
           /\ Handled \in RequestMessages
<1>1. log \in Seq(Messages)
  BY DEF LogInv
<1>2. handling.request \in Events("Request") /\ handling.step \in Awaits
  BY DEF ProcessInv
<1>3. QED
  BY <1>1, <1>2, EventTypes DEF Handled

LEMMA AtNotIdle == ASSUME NEW step \in Awaits, At(step) PROVE up /\ handling # Idle
BY DEF At, Idle, Awaits

\* The messages the constructors build.
LEMMA MessageTypes ==
    ASSUME ClockInv
    PROVE
    /\ \A admin \in BOOLEAN, m \in Machines, to \in Statuses, reason \in Reasons,
          initial \in Nat, u \in Users, n \in Nonces :
              Request(admin, m, to, reason, initial, u, n) \in RequestMessages
    /\ \A m \in Machines, status \in Statuses, reason \in Reasons, initial \in Nat :
              Status(m, status, reason, initial) \in StatusMessages
    /\ \A m \in Machines, u \in Users :
              Transaction(m, u, PayAmount) \in TransactionMessages
BY ControllerAssumption
   DEF ClockInv, Request, Status, Transaction, RequestMessages, StatusMessages, TransactionMessages

\* A machine's status after a restart comes from a status that was published.
LEMMA RecoveredTypes ==
    ASSUME LogInv, NEW m \in Machines
    PROVE  Recovered(m) \subseteq [status : Statuses,
                                   initial_request : Events("Request") \cup {NoRequest}]
<1>1. log \in Seq(Messages)
  BY DEF LogInv
<1>2. Fresh \in [status : Statuses, initial_request : Events("Request") \cup {NoRequest}]
  BY DEF Fresh, Statuses
<1>3. ASSUME NEW i \in Newest(m)
      PROVE  RecoveredFrom(i) \in [status : Statuses,
                                   initial_request : Events("Request") \cup {NoRequest}]
  <2>1. CASE log[i].kind = "Status"
    <3>1. i \in Events("Status")
      BY <1>3, <2>1 DEF Newest, Own, Events
    <3>2. log[i].status \in Statuses /\ log[i].initial_request \in Events("Request")
      BY <1>1, <3>1, EventTypes DEF StatusMessages, LogInv
    <3>3. QED
      BY <2>1, <3>2 DEF RecoveredFrom
  <2>2. CASE log[i].kind # "Status"
    BY <1>2, <2>2 DEF RecoveredFrom
  <2>3. QED
    BY <2>1, <2>2
<1>4. QED
  BY <1>2, <1>3 DEF Recovered

\* The messages the process sends are well formed, and of this second.
LEMMA Sends ==
    ASSUME TypeInv
    PROVE  /\ SendStatus => \E event \in StatusMessages :
                  /\ Publish(event) /\ event.created_at = now /\ UNCHANGED now
                  /\ event.initial_request \in Events("Request")
           /\ SendTransaction => \E event \in TransactionMessages :
                  Publish(event) /\ event.created_at = now /\ UNCHANGED now
           /\ \A t \in timers : TimerFires(t) => \E event \in StatusMessages :
                  /\ Publish(event) /\ event.created_at = now /\ UNCHANGED now
                  /\ event.initial_request \in Events("Request")
                  /\ event.reason = "UserBehaviour"
<1> USE DEF TypeInv
<1>1. ASSUME SendStatus
      PROVE  \E event \in StatusMessages :
                 /\ Publish(event) /\ event.created_at = now /\ UNCHANGED now
                 /\ event.initial_request \in Events("Request")
  <2>1. handling # Idle
    BY <1>1, AtNotIdle DEF SendStatus, Awaits
  <2>2. handling.request \in Events("Request") /\ Handled \in RequestMessages
    BY <2>1, HandledTypes
  <2>3. handling.request \in Nat
    BY <2>2, EventTypes DEF LogInv
  <2>4. Status(Handled.machine, Handled.to_status, Handled.reason, handling.request)
            \in StatusMessages
    BY <2>2, <2>3, MessageTypes DEF RequestMessages
  <2>5. QED
    BY <1>1, <2>2, <2>4 DEF SendStatus, Status
<1>2. ASSUME SendTransaction
      PROVE  \E event \in TransactionMessages :
                 Publish(event) /\ event.created_at = now /\ UNCHANGED now
  <2>1. handling # Idle
    BY <1>2, AtNotIdle DEF SendTransaction, Awaits
  <2>2. Handled \in RequestMessages
    BY <2>1, HandledTypes
  <2>3. Transaction(Handled.machine, Handled.user, PayAmount) \in TransactionMessages
    BY <2>2, MessageTypes DEF RequestMessages
  <2>4. QED
    BY <1>2, <2>3 DEF SendTransaction, SendTokens, Transaction
<1>3. ASSUME NEW t \in timers, TimerFires(t)
      PROVE  \E event \in StatusMessages :
                 /\ Publish(event) /\ event.created_at = now /\ UNCHANGED now
                 /\ event.initial_request \in Events("Request")
                 /\ event.reason = "UserBehaviour"
  <2>1. t.request \in Events("Request")
    BY DEF ProcessInv
  <2>2. log[t.request].machine \in Machines /\ t.request \in Nat
    BY <2>1, EventTypes DEF LogInv, RequestMessages
  <2>3. Status(log[t.request].machine, "Available", "UserBehaviour", t.request) \in StatusMessages
    BY <2>2, MessageTypes DEF Statuses, Reasons
  <2>4. QED
    BY <1>3, <2>1, <2>3 DEF TimerFires, Status
<1>4. QED
  BY <1>1, <1>2, <1>3

\* So are the requests.
LEMMA AskPublishes ==
    ASSUME TypeInv, Requests
    PROVE  /\ \E event \in RequestMessages : PublishRequest(event) /\ event.created_at = now
           /\ UNCHANGED now
<1> USE DEF TypeInv
<1>1. ASSUME NEW u \in Users, NEW m \in Machines, NEW reason \in UserReasons, Ask(u, m, reason)
      PROVE  \E event \in RequestMessages : PublishRequest(event) /\ event.created_at = now
  <2>1. Request(FALSE, m, "Working", reason, NoRequest, u, next[u]) \in RequestMessages
    BY <1>1, MessageTypes, ReasonAssumption DEF OutsideInv, Statuses, NoRequest
  <2>2. QED
    BY <1>1, <2>1 DEF Ask, Request
<1>2. ASSUME NEW u \in Users, NEW m \in Machines, NEW initial \in Events("Request"),
             AdminStop(u, m, initial)
      PROVE  \E event \in RequestMessages : PublishRequest(event) /\ event.created_at = now
  <2>1. initial \in Nat
    BY EventTypes DEF LogInv
  <2>2. Request(TRUE, m, "Available", "AdminRequest", initial, u, next[u]) \in RequestMessages
    BY <1>2, <2>1, MessageTypes DEF OutsideInv, Statuses, Reasons
  <2>3. QED
    BY <1>2, <2>2 DEF AdminStop, Request
<1>3. UNCHANGED now
  BY DEF Requests, Ask, AdminStop
<1>4. QED
  BY <1>1, <1>2, <1>3 DEF Requests

\* What a step of the controller, of a user or of the clock adds to the log, if
\* anything.
LEMMA Publishes ==
    ASSUME TypeInv, [Next]_cvars
    PROVE  \/ UNCHANGED log /\ now' \in {now, now + 1}
           \/ \E event \in Messages :
                  /\ Adds(event) /\ event.created_at = now /\ UNCHANGED now
                  /\ event.kind = "Status" =>
                         /\ event.initial_request \in Events("Request")
                         /\ SendStatus \/ event.reason = "UserBehaviour"
                  /\ event.kind = "Transaction" => SendTransaction
<1>1. /\ \A event \in RequestMessages : event \in Messages /\ event.kind = "Request"
      /\ \A event \in StatusMessages : event \in Messages /\ event.kind = "Status"
      /\ \A event \in TransactionMessages : event \in Messages /\ event.kind = "Transaction"
  BY DEF Messages, RequestMessages, StatusMessages, TransactionMessages
<1>2. CASE Requests
  <2>1. PICK event \in RequestMessages : PublishRequest(event) /\ event.created_at = now
    BY <1>2, AskPublishes
  <2>2. UNCHANGED now /\ event \in Messages /\ event.kind = "Request"
    BY <1>1, <1>2, AskPublishes
  <2>3. QED
    BY <2>1, <2>2, PublishAdds
<1>3. CASE SendStatus
  <2>1. PICK event \in StatusMessages :
            /\ Publish(event) /\ event.created_at = now /\ UNCHANGED now
            /\ event.initial_request \in Events("Request")
    BY <1>3, Sends
  <2>2. event \in Messages /\ event.kind = "Status"
    BY <1>1
  <2>3. QED
    BY <1>3, <2>1, <2>2, PublishAdds
<1>4. CASE SendTransaction
  <2>1. PICK event \in TransactionMessages :
            Publish(event) /\ event.created_at = now /\ UNCHANGED now
    BY <1>4, Sends
  <2>2. event \in Messages /\ event.kind = "Transaction"
    BY <1>1
  <2>3. QED
    BY <1>4, <2>1, <2>2, PublishAdds
<1>5. ASSUME NEW t \in timers, TimerFires(t)
      PROVE  \/ UNCHANGED log /\ now' \in {now, now + 1}
             \/ \E event \in Messages :
                    /\ Adds(event) /\ event.created_at = now /\ UNCHANGED now
                    /\ event.kind = "Status" =>
                           /\ event.initial_request \in Events("Request")
                           /\ SendStatus \/ event.reason = "UserBehaviour"
                    /\ event.kind = "Transaction" => SendTransaction
  <2>1. PICK event \in StatusMessages :
            /\ Publish(event) /\ event.created_at = now /\ UNCHANGED now
            /\ event.initial_request \in Events("Request")
            /\ event.reason = "UserBehaviour"
    BY <1>5, Sends
  <2>2. event \in Messages /\ event.kind = "Status"
    BY <1>1
  <2>3. QED
    BY <2>1, <2>2, PublishAdds
<1>6. \/ UNCHANGED log /\ now' \in {now, now + 1}
      \/ Requests \/ SendStatus \/ SendTransaction
      \/ \E t \in timers : TimerFires(t)
  BY DEF Next, ControllerStep, Receive, Pay, Send, cvars, Tick,
         SkipRequest, AcceptRequest, PaySucceeds, PayFails, PayTimesOut, HandleStatus,
         HandleTransaction, TimerFails, Crash, Restart, RestartRekeyed, LateLanding
<1>7. QED
  BY <1>2, <1>3, <1>4, <1>5, <1>6

\* The log only grows, and what it holds stays.
LEMMA LogStep ==
    ASSUME TypeInv, [Next]_cvars
    PROVE  /\ LogInv' /\ ClockInv' /\ now' >= now
           /\ Events("Request") \subseteq Events("Request")'
           /\ Len(log) \in Nat /\ Len(log') \in Nat /\ Len(log) <= Len(log')
           /\ \A i \in DOMAIN log : i \in DOMAIN log' /\ log'[i] = log[i]
<1>1. LogInv /\ log \in Seq(Messages) /\ Len(log) \in Nat
  BY DEF TypeInv, LogInv
<1>2. CASE UNCHANGED log /\ now' \in {now, now + 1}
  <2>1. ClockInv' /\ now' >= now
    BY <1>2, ClockKept DEF TypeInv, ClockInv
  <2>2. QED
    BY <1>1, <1>2, <2>1, LogKept
<1>3. ASSUME NEW event \in Messages, Adds(event), event.created_at = now, UNCHANGED now,
             event.kind = "Status" => event.initial_request \in Events("Request")
      PROVE  /\ LogInv' /\ ClockInv' /\ now' >= now
             /\ Events("Request") \subseteq Events("Request")'
             /\ Len(log') \in Nat /\ Len(log) <= Len(log')
             /\ \A i \in DOMAIN log : i \in DOMAIN log' /\ log'[i] = log[i]
  <2>1. ClockInv' /\ now' >= now
    BY <1>1, <1>3, ClockGrown DEF TypeInv, ClockInv
  <2>2. QED
    BY <1>1, <1>3, <2>1, LogGrown, Grows
<1>4. QED
  BY <1>1, <1>2, <1>3, Publishes

\* The process.  Whatever it holds refers to requests that were published.
LEMMA ProcessStep ==
    ASSUME TypeInv, [Next]_cvars
    PROVE  ProcessInv'
<1> DEFINE R == Events("Request")
           Memory == [status : Statuses, initial_request : R \cup {NoRequest}]
<1>1. /\ R \subseteq R'
      /\ Len(log) \in Nat /\ Len(log') \in Nat /\ Len(log) <= Len(log')
      /\ LogInv /\ log \in Seq(Messages) /\ ProcessInv
      /\ now \in Nat /\ now >= 1 /\ now' \in Nat /\ now' >= now
  BY LogStep DEF TypeInv, LogInv, ClockInv
<1>2. ASSUME UNCHANGED controllerVars
      PROVE  ProcessInv'
  BY <1>1, <1>2 DEF ProcessInv, controllerVars
<1>3. ASSUME UNCHANGED <<up, keyed, machine>>, cursor' \in 0..Len(log'),
             \A t \in timers' : t.request \in R /\ t.since \in 1..now,
             handling' \in [request : R, step : Awaits] \cup {Idle}, up
      PROVE  ProcessInv'
  BY <1>1, <1>3 DEF ProcessInv
<1>4. ASSUME NEW kind, Receives(kind)
      PROVE  up /\ handling = Idle /\ cursor + 1 \in 0..Len(log) /\ cursor + 1 \in Events(kind)
  BY <1>1, <1>4 DEF Receives, Events, ProcessInv
<1>5. CASE SkipRequest \/ HandleTransaction
  BY <1>1, <1>3, <1>4, <1>5 DEF SkipRequest, HandleTransaction, ProcessInv
<1>6. CASE AcceptRequest
  BY <1>1, <1>3, <1>4, <1>6 DEF AcceptRequest, ProcessInv, Awaits
<1>7. CASE HandleStatus
  <2>1. up /\ cursor + 1 \in 0..Len(log) /\ cursor + 1 \in Events("Status")
    BY <1>4, <1>7 DEF HandleStatus
  <2>2. Incoming \in StatusMessages /\ Incoming.initial_request \in R
    BY <1>1, <2>1, EventTypes DEF Incoming, LogInv
  <2>3. [status |-> Incoming.status, initial_request |-> Incoming.initial_request] \in Memory
    BY <2>2 DEF StatusMessages
  <2>4. machine' \in [Machines -> Memory]
    BY <1>1, <1>7, <2>3 DEF HandleStatus, ProcessInv
  <2>5. UNCHANGED <<log, up, keyed, handling, timers>> /\ cursor' = cursor + 1
    BY <1>7 DEF HandleStatus
  <2>6. R' = R
    BY <2>5, LogKept
  <2>7. QED
    BY <1>1, <2>1, <2>4, <2>5, <2>6 DEF ProcessInv
<1>8. ASSUME NEW step \in Awaits, At(step), UNCHANGED <<up, keyed, machine, cursor>>,
             \/ handling' = Idle
             \/ \E s \in Awaits : handling' = [handling EXCEPT !.step = s],
             timers' \subseteq timers \cup {Timer(handling.request)}
      PROVE  ProcessInv'
  <2>1. up /\ handling \in [request : R, step : Awaits]
    BY <1>1, <1>8, AtNotIdle DEF ProcessInv
  <2>2. handling' \in [request : R, step : Awaits] \cup {Idle}
    BY <1>8, <2>1
  <2>3. \A t \in timers' : t.request \in R /\ t.since \in 1..now
    BY <1>1, <1>8, <2>1 DEF ProcessInv, Timer
  <2>4. cursor' \in 0..Len(log')
    BY <1>1, <1>8 DEF ProcessInv
  <2>5. QED
    BY <1>3, <1>8, <2>1, <2>2, <2>3, <2>4
<1>9. CASE PaySucceeds \/ PayFails \/ PayTimesOut
  BY <1>8, <1>9 DEF PaySucceeds, PayFails, PayTimesOut, Awaits
<1>10. CASE SendStatus \/ SendTransaction
  BY <1>8, <1>10 DEF SendStatus, SendTransaction, Awaits
<1>11. ASSUME NEW t \in timers, TimerFires(t) \/ TimerFails(t)
       PROVE  ProcessInv'
  <2>1. /\ up /\ timers' \subseteq timers
        /\ UNCHANGED <<up, keyed, machine, cursor, handling>>
    BY <1>11 DEF TimerFires, TimerFails
  <2>2. QED
    BY <1>1, <1>3, <2>1 DEF ProcessInv
<1>12. CASE Crash
  <2>1. /\ ~up' /\ handling' = Idle /\ timers' = {} /\ cursor' = 0
        /\ machine' = [m \in Machines |-> Fresh] /\ UNCHANGED <<log, keyed>>
    BY <1>12 DEF Crash
  <2>2. Fresh \in Memory
    BY DEF Fresh, Statuses
  <2>3. up' \in BOOLEAN /\ R' = R
    BY <1>12, <2>1, LogKept DEF Crash
  <2>4. machine' \in [Machines -> Memory']
    BY <2>1, <2>2, <2>3
  <2>5. QED
    BY <1>1, <2>1, <2>3, <2>4 DEF ProcessInv
<1>13. ASSUME Subscribes
       PROVE  cursor' \in 0..Len(log)
  <2> DEFINE Earlier == {i \in DOMAIN log : log[i].created_at < now}
  <2>1. Earlier \subseteq 1..Len(log)
    BY <1>1, EventTypes
  <2> HIDE DEF Earlier, R, Memory
  <2>2. IsFiniteSet(1..Len(log)) /\ Cardinality(1..Len(log)) = Len(log)
    <3>1. ASSUME NEW n \in Nat
          PROVE  IsFiniteSet(1..n) /\ Cardinality(1..n) = n
      BY FS_Interval
    <3>2. QED
      BY <1>1, <3>1
  <2>3. Cardinality(Earlier) \in Nat /\ Cardinality(Earlier) <= Len(log)
    BY <2>1, <2>2, FS_Subset, FS_CardinalityType
  <2>4. cursor' = Cardinality(Earlier)
    BY <1>13 DEF Subscribes, Earlier
  <2>5. QED
    BY <1>1, <2>3, <2>4
<1>14. CASE Restart
  <2>1. cursor' \in 0..Len(log) /\ up' = TRUE /\ UNCHANGED <<log, keyed, handling, timers>>
    BY <1>13, <1>14 DEF Restart
  <2>2. machine' \in [Machines -> Memory]
    BY <1>1, <1>14, RecoveredTypes DEF Restart
  <2>3. R' = R
    BY <2>1, LogKept
  <2>4. QED
    BY <1>1, <2>1, <2>2, <2>3 DEF ProcessInv
<1>15. CASE RestartRekeyed
  <2>1. /\ cursor' \in 0..Len(log) /\ up' = TRUE /\ keyed' = Len(log)
        /\ UNCHANGED <<log, machine, handling, timers>>
    BY <1>13, <1>15 DEF RestartRekeyed
  <2>2. R' = R
    BY <2>1, LogKept
  <2>3. QED
    BY <1>1, <2>1, <2>2 DEF ProcessInv
<1>16. QED
  BY <1>2, <1>5, <1>6, <1>7, <1>9, <1>10, <1>11, <1>12, <1>14, <1>15
  DEF Next, Tick, Requests, ControllerStep, Receive, Pay, Send, Ask, AdminStop, LateLanding,
      cvars, controllerVars

\* Only a payment that goes through moves a nonce, and by one: at once, or
\* after the controller has given it up.
LEMMA NonceMoves ==
    ASSUME TypeInv, [Next]_cvars
    PROVE  \/ UNCHANGED next
           \/ \E u \in Users : /\ next[u] + 1 \in Nonces
                               /\ next' = [next EXCEPT ![u] = @ + 1]
                               /\ \/ PaySucceeds /\ u = Handled.user /\ Handled.nonce = next[u]
                                  \/ \E r \in late : LateLanding(r)
<1>1. CASE PaySucceeds
  <2>1. Handled.user \in Users
    BY <1>1, AtNotIdle, HandledTypes DEF PaySucceeds, Awaits, TypeInv, RequestMessages
  <2>2. QED
    BY <1>1, <2>1 DEF PaySucceeds, Pays, Charge, UseNext
<1>2. ASSUME NEW r \in late, LateLanding(r)
      PROVE  \E u \in Users : next[u] + 1 \in Nonces /\ next' = [next EXCEPT ![u] = @ + 1]
  <2>1. log[r].user \in Users
    BY EventTypes DEF TypeInv, LogInv, OutsideInv, RequestMessages
  <2>2. QED
    BY <1>2, <2>1 DEF LateLanding, Pays, Charge, UseNext
<1>3. CASE ~PaySucceeds /\ ~\E r \in late : LateLanding(r)
  BY <1>3 DEF Next, Tick, Requests, ControllerStep, Receive, Pay, Send, cvars, escrowVars,
     Ask, AdminStop, Grant, SkipRequest, AcceptRequest, PayFails, PayTimesOut, SendStatus,
     SendTransaction, HandleStatus, HandleTransaction, TimerFires, TimerFails, Crash,
     Restart, RestartRekeyed
<1>4. CASE \E r \in late : LateLanding(r)
  BY <1>2, <1>4
<1>5. QED
  BY <1>1, <1>3, <1>4

\* Only a Transaction that is there already is merged with an earlier one.
LEMMA MergedMoves ==
    ASSUME TypeInv, [Next]_cvars
    PROVE  \/ UNCHANGED merged
           \/ /\ SendTransaction /\ Handled.user \in Users /\ UNCHANGED log
              /\ merged' = [merged EXCEPT ![Handled.user] = @ + 1]
<1>1. CASE SendTransaction
  <2>1. Handled.user \in Users
    BY <1>1, AtNotIdle, HandledTypes DEF SendTransaction, Awaits, TypeInv, RequestMessages
  <2>2. QED
    BY <1>1, <2>1, PublishAdds DEF SendTransaction, SendTokens
<1>2. CASE ~SendTransaction
  BY <1>2 DEF Next, Tick, Requests, ControllerStep, Receive, Pay, Send, cvars,
     Ask, AdminStop, SkipRequest, AcceptRequest, PaySucceeds, PayFails, PayTimesOut, SendStatus,
     HandleStatus, HandleTransaction, TimerFires, TimerFails, Crash, Restart, RestartRekeyed,
     LateLanding
<1>3. QED
  BY <1>1, <1>2

\* What is outside the process.
LEMMA OutsideStep ==
    ASSUME TypeInv, [Next]_cvars
    PROVE  OutsideInv'
<1>1. Events("Request") \subseteq Events("Request")'
  BY LogStep
<1>2. next' \in [Users -> Nonces]
  BY NonceMoves DEF TypeInv, OutsideInv
<1>3. handling.step = "pay" => handling.request \in Events("Request")
  BY DEF TypeInv, ProcessInv, Idle
<1>4. late' \subseteq Events("Request")
  <2>1. CASE PayTimesOut \/ Crash
    BY <1>3, <2>1 DEF PayTimesOut, Crash, At, TypeInv, OutsideInv
  <2>2. CASE ~PayTimesOut /\ ~Crash
    <3>1. late' = late \/ \E r \in late : LateLanding(r)
      BY <2>2 DEF Next, Tick, Requests, ControllerStep, Receive, Pay, Send, cvars,
         Ask, AdminStop, SkipRequest, AcceptRequest, PaySucceeds, PayFails,
         SendStatus, SendTransaction, HandleStatus, HandleTransaction, TimerFires,
         TimerFails, Restart, RestartRekeyed
    <3>2. QED
      BY <3>1 DEF LateLanding, TypeInv, OutsideInv
  <2>3. QED
    BY <2>1, <2>2
<1>5. faults' \in {faults} \/ Fault
  BY DEF Next, Tick, Requests, ControllerStep, Receive, Pay, Send, cvars,
     Ask, AdminStop, SkipRequest, AcceptRequest, PaySucceeds, PayFails, PayTimesOut,
     SendStatus, SendTransaction, HandleStatus, HandleTransaction, TimerFires, TimerFails,
     Crash, Restart, RestartRekeyed, LateLanding
<1>6. faults' \in 0..MaxFaults
  BY <1>5, ControllerAssumption DEF TypeInv, OutsideInv, Fault
<1>7. merged' \in [Users -> Nat]
  BY MergedMoves DEF TypeInv, OutsideInv
<1>8. QED
  BY <1>1, <1>2, <1>4, <1>6, <1>7 DEF OutsideInv

LEMMA TypeInit == Init => TypeInv
<1> SUFFICES ASSUME Init PROVE TypeInv
  OBVIOUS
<1>1. log \in Seq(Messages) /\ Len(log) = 0 /\ \A kind : Events(kind) = {}
  BY DEF Init, Events
<1>2. Fresh \in [status : Statuses, initial_request : {} \cup {NoRequest}]
  BY DEF Fresh, Statuses
<1>3. ProcessInv
  BY <1>1, <1>2 DEF Init, ProcessInv
<1>4. OutsideInv
  BY EscrowAssumption, ControllerAssumption DEF Init, OutsideInv
<1>5. ClockInv
  BY DEF Init, ClockInv
<1>6. QED
  BY <1>1, <1>3, <1>4, <1>5 DEF TypeInv, LogInv

LEMMA TypeStep == TypeInv /\ [Next]_cvars => TypeInv'
BY LogStep, ProcessStep, OutsideStep DEF TypeInv

LEMMA TypesHold == Spec => []TypeInv
BY TypeInit, TypeStep, PTL DEF Spec

\* Whatever the controller holds in memory, waits for or has given up belongs
\* to a request that was published, and so does every status it publishes.
THEOREM ControllerTypes == Spec => []ControllerTypeOK
<1>1. TypeInv => ControllerTypeOK
  <2> SUFFICES ASSUME TypeInv PROVE ControllerTypeOK
    OBVIOUS
  <2>1. /\ Events("Request") \subseteq Ids
        /\ \A i \in Events("Request") : log[i] \in RequestMessages
        /\ \A i \in Events("Status") : log[i] \in StatusMessages
    BY EventTypes DEF TypeInv, LogInv, Ids
  <2>2. machine \in [Machines -> [status : Statuses, initial_request : Ids \cup {NoRequest}]]
    BY <2>1 DEF TypeInv, ProcessInv
  <2>3. QED
    BY <2>1, <2>2, EventTypes
    DEF TypeInv, LogInv, ClockInv, ProcessInv, OutsideInv, ControllerTypeOK,
        Ids, RequestMessages, StatusMessages, Awaits
<1>2. QED
  BY <1>1, TypesHold, PTL
-----------------------------------------------------------------------------
(***************************************************************************)
(* One signature buys one session.  The chain takes a signature at the     *)
(* account's current nonce only, so the signature of every session that    *)
(* has been announced, or has been paid and is about to be, lies below     *)
(* that nonce, and the next payment takes another one.                     *)
(***************************************************************************)

BelowNonce(r) == log[r].nonce < next[log[r].user]

SignatureInv ==
    /\ \A i \in Changes : BelowNonce(log[i].initial_request)
    /\ handling.step = "status" =>
           /\ BelowNonce(handling.request)
           /\ \A i \in Changes :
                  Signature(log[i].initial_request) # Signature(handling.request)
    /\ OneSessionPerSignature

\* A published request stays what it is, and a nonce that has been passed has
\* been passed for good.
LEMMA RequestsStay ==
    ASSUME TypeInv, [Next]_cvars, NEW r \in Events("Request")
    PROVE  /\ log'[r] = log[r] /\ Signature(r)' = Signature(r)
           /\ BelowNonce(r) => BelowNonce(r)'
<1>1. r \in DOMAIN log /\ log[r].user \in Users /\ log[r].nonce \in Nat
  BY EventTypes, EscrowAssumption DEF TypeInv, LogInv, RequestMessages
<1>2. log'[r] = log[r]
  BY <1>1, LogStep
<1>3. next[log[r].user] \in Nat /\ next' \in [Users -> Nat]
  BY <1>1, OutsideStep, EscrowAssumption DEF TypeInv, OutsideInv
<1>4. next'[log[r].user] >= next[log[r].user]
  BY <1>1, <1>3, NonceMoves DEF TypeInv, OutsideInv
<1>5. QED
  BY <1>1, <1>2, <1>3, <1>4 DEF Signature, BelowNonce

\* Requests name the request a change answers, and SendStatus alone makes one.
LEMMA ChangeTypes ==
    ASSUME TypeInv
    PROVE  \A i \in Changes : i \in DOMAIN log /\ log[i].initial_request \in Events("Request")
BY EventTypes DEF TypeInv, LogInv, Changes

LEMMA ChangeWriters ==
    ASSUME TypeInv, [Next]_cvars, ~SendStatus
    PROVE  Changes' = Changes
<1>1. log \in Seq(Messages)
  BY DEF TypeInv, LogInv
<1>2. CASE UNCHANGED log
  BY <1>2 DEF Changes, Events
<1>3. ASSUME NEW event \in Messages, Adds(event),
             event.kind = "Status" => event.reason = "UserBehaviour"
      PROVE  Changes' = Changes
  <2>1. \A i \in Changes : i \in Changes'
    BY <1>1, <1>3, Grows, EventTypes DEF Changes
  <2>2. \A i \in Changes' : i \in Changes
    BY <1>1, <1>3, Grows, EventTypes DEF Changes
  <2>3. QED
    BY <2>1, <2>2
<1>4. QED
  BY <1>2, <1>3, Publishes

\* handle_message gets to the status only through a payment.
LEMMA StatusAfterPayment ==
    ASSUME TypeInv, [Next]_cvars, handling'.step = "status"
    PROVE  PaySucceeds \/ UNCHANGED handling
<1>1. ~SendStatus
  BY DEF SendStatus, TypeInv, ProcessInv, Idle
<1>2. Idle.step # "status"
  BY DEF Idle
<1>3. \/ PaySucceeds \/ UNCHANGED handling \/ handling' = Idle
      \/ handling' = [request |-> cursor + 1, step |-> "pay"]
  BY <1>1 DEF Next, Tick, Requests, ControllerStep, Receive, Pay, Send, cvars, controllerVars,
     Ask, AdminStop, SkipRequest, AcceptRequest, PayFails, PayTimesOut,
     SendTransaction, HandleStatus, HandleTransaction, TimerFires, TimerFails, Crash,
     Restart, RestartRekeyed, LateLanding
<1>4. QED
  BY <1>2, <1>3

LEMMA SignatureStep == TypeInv /\ SignatureInv /\ [Next]_cvars => SignatureInv'
<1> SUFFICES ASSUME TypeInv, SignatureInv, [Next]_cvars PROVE SignatureInv'
  OBVIOUS
<1>1. \A r \in Events("Request") :
          /\ log'[r] = log[r] /\ Signature(r)' = Signature(r)
          /\ BelowNonce(r) => BelowNonce(r)'
  BY RequestsStay
<1>2. \A i \in Changes : /\ log'[i] = log[i]
                         /\ log[i].initial_request \in Events("Request")
                         /\ BelowNonce(log[i].initial_request)
  BY ChangeTypes, LogStep DEF SignatureInv
<1>3. CASE SendStatus
  <2>1. handling.step = "status" /\ handling' = [handling EXCEPT !.step = "transaction"]
    BY <1>3 DEF SendStatus, At
  <2>2. handling.request \in Events("Request")
    BY <1>3, AtNotIdle, HandledTypes DEF SendStatus, Awaits, TypeInv
  <2>3. \/ Changes' = Changes
        \/ /\ Changes' \subseteq Changes \cup {Len(log) + 1}
           /\ log'[Len(log) + 1].initial_request = handling.request
    <3> DEFINE event == Status(Handled.machine, Handled.to_status, Handled.reason, handling.request)
    <3>1. CASE UNCHANGED log
      BY <3>1 DEF Changes, Events
    <3>2. CASE Adds(event)
      <4>1. log'[Len(log) + 1].initial_request = handling.request
        BY <3>2 DEF Adds, Status, TypeInv, LogInv
      <4>2. Changes' \subseteq Changes \cup {Len(log) + 1}
        BY <3>2 DEF Changes, Events, Adds, TypeInv, LogInv
      <4>3. QED
        BY <4>1, <4>2
    <3>3. QED
      BY <1>3, <3>1, <3>2, PublishAdds DEF SendStatus
  <2>5. handling'.step # "status"
    BY <2>1 DEF TypeInv, ProcessInv, Idle, Awaits
  <2>6. \A i \in Changes' : BelowNonce(log[i].initial_request)'
    BY <1>1, <1>2, <2>1, <2>2, <2>3 DEF SignatureInv, BelowNonce
  <2>7. OneSessionPerSignature'
    BY <1>1, <1>2, <2>1, <2>2, <2>3 DEF SignatureInv, OneSessionPerSignature
  <2>8. QED
    BY <2>5, <2>6, <2>7 DEF SignatureInv
<1>4. CASE ~SendStatus
  <2>1. Changes' = Changes
    BY <1>4, ChangeWriters
  <2>2. \A i \in Changes' : BelowNonce(log[i].initial_request)'
    BY <1>1, <1>2, <2>1 DEF BelowNonce
  <2>3. OneSessionPerSignature'
    BY <1>1, <1>2, <2>1 DEF SignatureInv, OneSessionPerSignature
  <2>4. CASE PaySucceeds
    <3>1. handling.request \in Events("Request") /\ handling'.request = handling.request
      BY <2>4, AtNotIdle, HandledTypes DEF PaySucceeds, Awaits, TypeInv, ProcessInv
    <3>2. Handled.nonce = next[Handled.user] /\ next' = [next EXCEPT ![Handled.user] = @ + 1]
      BY <2>4 DEF PaySucceeds, Pays, Charge, UseNext
    <3>3. Handled.nonce \in Nat /\ Handled.user \in Users /\ next \in [Users -> Nat]
      BY <3>1, EventTypes, EscrowAssumption
      DEF Handled, TypeInv, LogInv, OutsideInv, RequestMessages
    <3>4. BelowNonce(handling.request)'
      BY <1>1, <3>1, <3>2, <3>3 DEF BelowNonce, Handled
    <3>5. ASSUME NEW i \in Changes
          PROVE  Signature(log[i].initial_request) # Signature(handling.request)
      <4>1. log[i].initial_request \in Events("Request") /\ BelowNonce(log[i].initial_request)
        BY <1>2
      <4>2. log[log[i].initial_request].nonce \in Nat
        BY <4>1, EventTypes, EscrowAssumption DEF TypeInv, LogInv, RequestMessages
      <4>3. QED
        BY <3>2, <3>3, <4>1, <4>2 DEF Signature, BelowNonce, Handled
    <3>6. \A i \in Changes' :
              Signature(log[i].initial_request)' # Signature(handling.request)'
      BY <1>1, <1>2, <2>1, <3>1, <3>5 DEF Signature
    <3>7. QED
      BY <2>2, <2>3, <3>4, <3>6 DEF SignatureInv
  <2>5. CASE UNCHANGED handling /\ handling.step = "status"
    <3>1. handling.request \in Events("Request")
      BY <2>5 DEF TypeInv, ProcessInv, Idle
    <3>2. BelowNonce(handling.request)'
      BY <1>1, <2>5, <3>1 DEF SignatureInv, BelowNonce
    <3>3. \A i \in Changes' :
              Signature(log[i].initial_request)' # Signature(handling.request)'
      BY <1>1, <1>2, <2>1, <2>5, <3>1 DEF SignatureInv, Signature
    <3>4. QED
      BY <2>2, <2>3, <3>2, <3>3 DEF SignatureInv
  <2>6. CASE handling'.step # "status"
    BY <2>2, <2>3, <2>6 DEF SignatureInv
  <2>7. QED
    BY <2>4, <2>5, <2>6, StatusAfterPayment
<1>5. QED
  BY <1>3, <1>4

LEMMA SignatureInit == Init => SignatureInv
BY DEF Init, SignatureInv, Changes, Events, OneSessionPerSignature, Idle

\* No two sessions of the same user and nonce: whatever is published or
\* delivered twice, whatever a restart handles again, whatever lands late.
THEOREM OneSession == Spec => []OneSessionPerSignature
<1>1. SignatureInv => OneSessionPerSignature
  BY DEF SignatureInv
<1>2. QED
  BY <1>1, SignatureInit, SignatureStep, TypesHold, PTL DEF Spec
-----------------------------------------------------------------------------
(***************************************************************************)
(* Credits are paid.  A payment is ahead of its credit from the await in   *)
(* which it goes through to the one in which the tokens are announced; in  *)
(* between the handler owes the user one credit.                           *)
(***************************************************************************)

CreditEvents(u) == {i \in Events("Transaction") : log[i].user = u}

Paid == handling.step \in {"status", "transaction"}
Owed(u) == IF Paid /\ Handled.user = u THEN 1 ELSE 0

CreditInv == \A u \in Users : Credits(u) + Owed(u) <= next[u]

LEMMA CreditsFinite ==
    ASSUME TypeInv, NEW u
    PROVE  IsFiniteSet(CreditEvents(u)) /\ Credits(u) \in Nat
<1>1. CreditEvents(u) \subseteq 1..Len(log) /\ Len(log) \in Nat
  BY EventTypes DEF TypeInv, LogInv, CreditEvents
<1>2. IsFiniteSet(1..Len(log))
  BY <1>1, FS_Interval
<1>3. IsFiniteSet(CreditEvents(u))
  BY <1>1, <1>2, FS_Subset
<1>4. QED
  BY <1>3, FS_CardinalityType DEF Credits, CreditEvents

\* Only SendTransaction credits, one user at a time, and only with an event
\* that is new.
LEMMA CreditWriters ==
    ASSUME TypeInv, [Next]_cvars, NEW u
    PROVE  /\ SendTransaction /\ Handled.user = u /\ log' # log => Credits(u)' = Credits(u) + 1
           /\ ~(SendTransaction /\ Handled.user = u) => Credits(u)' = Credits(u)
           /\ UNCHANGED log => Credits(u)' = Credits(u)
<1>1. log \in Seq(Messages)
  BY DEF TypeInv, LogInv
<1>2. ASSUME UNCHANGED log
      PROVE  Credits(u)' = Credits(u)
  BY <1>2 DEF Credits, Events
<1>3. ASSUME NEW event \in Messages, Adds(event), event.kind # "Transaction"
      PROVE  Credits(u)' = Credits(u)
  <2>1. Events("Transaction")' = Events("Transaction")
    BY <1>1, <1>3, Grows
  <2>2. \A i \in Events("Transaction") : log'[i] = log[i]
    BY <1>1, <1>3, Grows, EventTypes
  <2>3. {i \in Events("Transaction")' : log'[i].user = u}
            = {i \in Events("Transaction") : log[i].user = u}
    BY <2>1, <2>2
  <2>4. QED
    BY <2>3 DEF Credits
<1>4. CASE SendTransaction /\ log' # log
  <2> DEFINE event == Transaction(Handled.machine, Handled.user, PayAmount)
  <2>1. handling # Idle
    BY <1>4, AtNotIdle DEF SendTransaction, Awaits
  <2>2. Handled \in RequestMessages
    BY <2>1, HandledTypes DEF TypeInv
  <2>3. event \in Messages /\ event.kind = "Transaction" /\ event.user = Handled.user
    BY <2>2, MessageTypes DEF TypeInv, RequestMessages, Messages, Transaction
  <2>4. Adds(event)
    BY <1>4, PublishAdds DEF SendTransaction, SendTokens
  <2> HIDE DEF event
  <2>5. /\ Events("Transaction")' = Events("Transaction") \cup {Len(log) + 1}
        /\ log'[Len(log) + 1] = event
        /\ Len(log) + 1 \notin Events("Transaction")
        /\ \A i \in Events("Transaction") : log'[i] = log[i]
    BY <1>1, <2>3, <2>4, Grows, EventTypes
  <2>6. CreditEvents(u)' = CreditEvents(u) \cup (IF Handled.user = u THEN {Len(log) + 1} ELSE {})
    BY <2>3, <2>5 DEF CreditEvents
  <2>7. Len(log) + 1 \notin CreditEvents(u) /\ IsFiniteSet(CreditEvents(u))
    BY <2>5, CreditsFinite DEF CreditEvents
  <2>8. CASE Handled.user = u
    <3>1. CreditEvents(u)' = CreditEvents(u) \cup {Len(log) + 1}
      BY <2>6, <2>8
    <3>2. Cardinality(CreditEvents(u)') = Cardinality(CreditEvents(u)) + 1
      BY <2>7, <3>1, FS_AddElement
    <3>3. QED
      BY <1>4, <2>8, <3>2 DEF Credits, CreditEvents
  <2>9. CASE Handled.user # u
    BY <2>6, <2>9 DEF Credits, CreditEvents
  <2>10. QED
    BY <2>8, <2>9
<1>5. CASE ~SendTransaction
  BY <1>2, <1>3, <1>5, Publishes
<1>6. QED
  BY <1>2, <1>4, <1>5

\* Once it is paid for, a request stays the one that is handled until it is
\* credited or the process forgets it.
LEMMA PaidSteps ==
    ASSUME TypeInv, [Next]_cvars, Paid'
    PROVE  /\ ~SendTransaction
           /\ handling'.request = handling.request
           /\ Handled' = Handled
           /\ PaySucceeds \/ Paid
<1>1. Idle.step \notin {"status", "transaction"}
  BY DEF Idle
<1>2. ~SendTransaction
  BY <1>1 DEF SendTransaction, Paid
<1>3. handling'.request = handling.request /\ (PaySucceeds \/ Paid)
  <2>1. \/ PaySucceeds \/ SendStatus \/ UNCHANGED handling \/ handling' = Idle
        \/ handling' = [request |-> cursor + 1, step |-> "pay"]
    BY <1>2 DEF Next, Tick, Requests, ControllerStep, Receive, Pay, Send, cvars, controllerVars,
       Ask, AdminStop, SkipRequest, AcceptRequest, PayFails, PayTimesOut,
       HandleStatus, HandleTransaction, TimerFires, TimerFails, Crash,
       Restart, RestartRekeyed, LateLanding
  <2>2. CASE PaySucceeds
    <3>1. handling' = [handling EXCEPT !.step = "status"]
      BY <2>2 DEF PaySucceeds
    <3>2. QED
      BY <2>2, <3>1 DEF TypeInv, ProcessInv, Idle
  <2>3. CASE SendStatus
    <3>1. handling' = [handling EXCEPT !.step = "transaction"] /\ handling.step = "status"
      BY <2>3 DEF SendStatus, At
    <3>2. QED
      BY <3>1 DEF TypeInv, ProcessInv, Idle, Paid
  <2>4. QED
    BY <1>1, <2>1, <2>2, <2>3 DEF Paid
<1>4. handling.request \in Events("Request")
  <2>1. handling # Idle
    BY <1>1, <1>3, AtNotIdle DEF Paid, PaySucceeds, Awaits
  <2>2. QED
    BY <2>1, HandledTypes DEF TypeInv
<1>5. QED
  BY <1>2, <1>3, <1>4, RequestsStay DEF Handled

LEMMA CreditStep == TypeInv /\ CreditInv /\ [Next]_cvars => CreditInv'
<1> SUFFICES ASSUME TypeInv, CreditInv, [Next]_cvars, NEW u \in Users
             PROVE  (Credits(u) + Owed(u) <= next[u])'
  BY DEF CreditInv
<1>1. /\ Credits(u) \in Nat /\ Owed(u) \in {0, 1} /\ Owed(u)' \in {0, 1}
      /\ Credits(u) + Owed(u) <= next[u]
  BY CreditsFinite DEF CreditInv, Owed
<1>2. /\ next[u] \in Nat /\ next'[u] \in Nat /\ next'[u] >= next[u]
      /\ PaySucceeds /\ Handled.user = u => next'[u] = next[u] + 1
  <2>1. next \in [Users -> Nat] /\ next' \in [Users -> Nat]
    BY OutsideStep, EscrowAssumption DEF TypeInv, OutsideInv
  <2>2. next'[u] >= next[u]
    BY <2>1, NonceMoves
  <2>3. PaySucceeds => next' = [next EXCEPT ![Handled.user] = @ + 1]
    BY DEF PaySucceeds, Pays, Charge, UseNext
  <2>4. QED
    BY <2>1, <2>2, <2>3
<1>3. CASE SendTransaction
  <2>1. ~Paid'
    BY <1>3, PaidSteps
  <2>2. Owed(u)' = 0
    BY <2>1 DEF Owed
  <2>3. Handled.user = u => Owed(u) = 1
    BY <1>3 DEF SendTransaction, At, Paid, Owed
  <2>4. Credits(u)' = Credits(u) \/ (Handled.user = u /\ Credits(u)' = Credits(u) + 1)
    BY CreditWriters
  <2>5. QED
    BY <1>1, <1>2, <2>2, <2>3, <2>4
<1>4. CASE ~SendTransaction
  <2>1. Credits(u)' = Credits(u)
    BY <1>4, CreditWriters
  <2>2. Owed(u)' = 1 => Owed(u) = 1 \/ (PaySucceeds /\ Handled.user = u)
    <3> SUFFICES ASSUME Paid', Handled'.user = u
                 PROVE  Owed(u) = 1 \/ (PaySucceeds /\ Handled.user = u)
      BY DEF Owed
    <3>1. Handled.user = u /\ (PaySucceeds \/ Paid)
      BY PaidSteps
    <3>2. QED
      BY <3>1 DEF Owed
  <2>3. QED
    BY <1>1, <1>2, <2>1, <2>2
<1>5. QED
  BY <1>3, <1>4

LEMMA CreditInit == Init => CreditInv
<1> SUFFICES ASSUME Init, NEW u \in Users PROVE Credits(u) + Owed(u) <= next[u]
  BY DEF CreditInv
<1>1. Events("Transaction") = {} /\ next[u] = 0 /\ ~Paid
  BY DEF Init, Events, Paid, Idle
<1>2. {i \in Events("Transaction") : log[i].user = u} = {}
  BY <1>1
<1>3. Credits(u) = 0
  BY <1>2, FS_EmptySet DEF Credits
<1>4. QED
  BY <1>1, <1>3 DEF Owed

LEMMA CreditSafe == TypeInv /\ CreditInv => CreditsArePaid
<1> SUFFICES ASSUME TypeInv, CreditInv, NEW u \in Users PROVE Credits(u) <= next[u]
  BY DEF CreditsArePaid, Payments
<1>1. Credits(u) \in Nat /\ Owed(u) \in {0, 1} /\ Credits(u) + Owed(u) <= next[u]
  BY CreditsFinite DEF CreditInv, Owed
<1>2. next[u] \in Nat
  BY EscrowAssumption DEF TypeInv, OutsideInv
<1>3. QED
  BY <1>1, <1>2

\* Over crashes, restarts, lost keys and late payments: never more tokens are
\* announced than the chain has been paid for.
THEOREM PaidCredits == Spec => []CreditsArePaid
BY CreditInit, CreditStep, CreditSafe, TypesHold, PTL DEF Spec
-----------------------------------------------------------------------------
(***************************************************************************)
(* What is lost.  Payments exceed credits by the one being handled, by     *)
(* those whose Transaction was there already and by those that faults have *)
(* cost.  A payment given up on costs nothing until it lands, and none     *)
(* lands twice, so the fault is entered when the payment is given up:      *)
(* payments that may still land count as lost.                             *)
(***************************************************************************)

PaymentsMade == SumOver(next, Users)
CreditsMade == SumOver([u \in Users |-> Credits(u)], Users)
MergedMade == SumOver(merged, Users)
Carried == IF Paid THEN 1 ELSE 0

LossInv == PaymentsMade + Cardinality(late) <= CreditsMade + MergedMade + faults + Carried

LEMMA LossTypes ==
    ASSUME TypeInv
    PROVE  /\ PaymentsMade \in Nat /\ CreditsMade \in Nat /\ MergedMade \in Nat
           /\ IsFiniteSet(late) /\ Cardinality(late) \in Nat
           /\ faults \in Nat /\ Carried \in {0, 1}
<1>1. PaymentsMade \in Nat
  <2>1. \A u \in Users : next[u] \in Nat
    BY EscrowAssumption DEF TypeInv, OutsideInv
  <2>2. QED
    BY <2>1, UsersAssumption, SumNat DEF PaymentsMade
<1>2. CreditsMade \in Nat
  <2> DEFINE credits == [u \in Users |-> Credits(u)]
  <2>1. \A u \in Users : credits[u] \in Nat
    BY CreditsFinite
  <2> HIDE DEF credits
  <2>2. SumOver(credits, Users) \in Nat
    BY <2>1, UsersAssumption, SumNat
  <2>3. QED
    BY <2>2 DEF CreditsMade, credits
<1>3. IsFiniteSet(late)
  <2>1. late \subseteq 1..Len(log) /\ Len(log) \in Nat
    BY EventTypes DEF TypeInv, LogInv, OutsideInv
  <2>2. IsFiniteSet(1..Len(log))
    BY <2>1, FS_Interval
  <2>3. QED
    BY <2>1, <2>2, FS_Subset
<1>4. MergedMade \in Nat
  <2>1. \A u \in Users : merged[u] \in Nat
    BY DEF TypeInv, OutsideInv
  <2>2. QED
    BY <2>1, UsersAssumption, SumNat DEF MergedMade
<1>5. QED
  BY <1>1, <1>2, <1>3, <1>4, FS_CardinalityType, ControllerAssumption
  DEF TypeInv, OutsideInv, Carried

\* A payment that goes through is one more.
LEMMA PaymentMade ==
    ASSUME TypeInv, NEW u \in Users, next' = [next EXCEPT ![u] = @ + 1]
    PROVE  PaymentsMade' = PaymentsMade + 1
<1> DEFINE g == [next EXCEPT ![u] = @ + 1]
<1>1. next \in [Users -> Nat]
  BY EscrowAssumption DEF TypeInv, OutsideInv
<1>2. /\ \A v \in Users : next[v] \in Int /\ g[v] \in Int
      /\ \A v \in Users : v # u => g[v] = next[v]
      /\ g[u] = next[u] + 1
  BY <1>1
<1>3. next' = g
  OBVIOUS
<1> HIDE DEF g
<1>4. SumOver(g, Users) = SumOver(next, Users) + (g[u] - next[u])
  BY <1>2, UsersAssumption, SumChanges
<1>5. g[u] - next[u] = 1
  BY <1>1, <1>2
<1>6. QED
  BY <1>3, <1>4, <1>5 DEF PaymentsMade

\* A payment merged with an earlier one is one more of those.
LEMMA OneMerged ==
    ASSUME TypeInv, NEW u \in Users, merged' = [merged EXCEPT ![u] = @ + 1]
    PROVE  MergedMade' = MergedMade + 1
<1> DEFINE g == [merged EXCEPT ![u] = @ + 1]
<1>1. merged \in [Users -> Nat]
  BY DEF TypeInv, OutsideInv
<1>2. /\ \A v \in Users : merged[v] \in Int /\ g[v] \in Int
      /\ \A v \in Users : v # u => g[v] = merged[v]
      /\ g[u] = merged[u] + 1
  BY <1>1
<1>3. merged' = g
  OBVIOUS
<1> HIDE DEF g
<1>4. SumOver(g, Users) = SumOver(merged, Users) + (g[u] - merged[u])
  BY <1>2, UsersAssumption, SumChanges
<1>5. g[u] - merged[u] = 1
  BY <1>1, <1>2
<1>6. QED
  BY <1>3, <1>4, <1>5 DEF MergedMade

\* Only SendTransaction announces tokens, for one payment.
LEMMA CreditMade ==
    ASSUME TypeInv, [Next]_cvars
    PROVE  /\ ~SendTransaction => CreditsMade' = CreditsMade
           /\ UNCHANGED log => CreditsMade' = CreditsMade
           /\ SendTransaction /\ log' # log => CreditsMade' = CreditsMade + 1
<1> DEFINE before == [v \in Users |-> Credits(v)]
           after == [v \in Users |-> Credits(v)']
<1>1. CreditsMade = SumOver(before, Users) /\ CreditsMade' = SumOver(after, Users)
  BY DEF CreditsMade
<1>2. ASSUME ~SendTransaction \/ UNCHANGED log
      PROVE  CreditsMade' = CreditsMade
  <2>1. \A v \in Users : Credits(v)' = Credits(v)
    BY <1>2, CreditWriters
  <2>2. after = before
    BY <2>1
  <2>3. QED
    BY <1>1, <2>2
<1>3. ASSUME SendTransaction, log' # log
      PROVE  CreditsMade' = CreditsMade + 1
  <2>1. Handled.user \in Users
    BY <1>3, AtNotIdle, HandledTypes DEF SendTransaction, Awaits, TypeInv, RequestMessages
  <2>2. PICK u \in Users : u = Handled.user
    BY <2>1
  <2>3. \A v \in Users : Credits(v) \in Nat
    BY CreditsFinite
  <2>4. \A v \in Users : v # u => Credits(v)' = Credits(v)
    BY <2>2, CreditWriters
  <2>5. Credits(u)' = Credits(u) + 1
    BY <1>3, <2>2, CreditWriters
  <2>6. /\ \A v \in Users : v # u => after[v] = before[v]
        /\ after[u] = before[u] + 1
    BY <2>4, <2>5
  <2>7. \A v \in Users : before[v] \in Int
    BY <2>3
  <2> HIDE DEF before, after
  <2>8. after[u] - before[u] = 1 /\ \A v \in Users : after[v] \in Int
    BY <2>6, <2>7
  <2>9. SumOver(after, Users) = SumOver(before, Users) + (after[u] - before[u])
    BY <2>6, <2>7, <2>8, UsersAssumption, SumChanges
  <2>10. QED
    BY <1>1, <2>8, <2>9
<1>4. QED
  BY <1>2, <1>3

\* Giving one payment up adds one at most to those that may still land.
LEMMA OneGivenUp ==
    ASSUME TypeInv, NEW r, NEW S \in SUBSET {r}, late' = late \cup S
    PROVE  Cardinality(late') \in Nat /\ Cardinality(late') <= Cardinality(late) + 1
<1>1. IsFiniteSet(late) /\ Cardinality(late) \in Nat
  BY LossTypes
<1>2. late' = late \/ late' = late \cup {r}
  OBVIOUS
<1>3. CASE late' = late
  BY <1>1, <1>3
<1>4. CASE late' = late \cup {r}
  BY <1>1, <1>4, FS_AddElement
<1>5. QED
  BY <1>2, <1>3, <1>4

LEMMA LossStep == TypeInv /\ LossInv /\ [Next]_cvars => LossInv'
<1> SUFFICES ASSUME TypeInv, LossInv, [Next]_cvars PROVE LossInv'
  OBVIOUS
<1>1. /\ PaymentsMade \in Nat /\ CreditsMade \in Nat /\ MergedMade \in Nat
      /\ Cardinality(late) \in Nat
      /\ faults \in Nat /\ Carried \in {0, 1} /\ Carried' \in {0, 1}
      /\ PaymentsMade + Cardinality(late) <= CreditsMade + MergedMade + faults + Carried
      /\ ~SendTransaction => MergedMade' = MergedMade
  BY LossTypes, MergedMoves DEF LossInv, Carried, MergedMade
<1>2. /\ UNCHANGED next => PaymentsMade' = PaymentsMade
      /\ UNCHANGED late => Cardinality(late') = Cardinality(late)
      /\ UNCHANGED handling => Carried' = Carried
      /\ handling' = Idle => Carried' = 0
      /\ handling.step = "pay" => Carried = 0
  BY DEF PaymentsMade, Carried, Paid, Idle
<1>3. CASE PaySucceeds
  <2>1. /\ CreditsMade' = CreditsMade /\ MergedMade' = MergedMade
        /\ UNCHANGED <<late, faults>> /\ Carried = 0
    BY <1>1, <1>2, <1>3, CreditMade DEF PaySucceeds, SendTransaction, At
  <2>2. PaymentsMade' = PaymentsMade + 1
    <3>1. Handled.user \in Users
      BY <1>3, AtNotIdle, HandledTypes DEF PaySucceeds, Awaits, TypeInv, RequestMessages
    <3>2. next' = [next EXCEPT ![Handled.user] = @ + 1]
      BY <1>3 DEF PaySucceeds, Pays, Charge, UseNext
    <3>3. QED
      BY <3>1, <3>2, PaymentMade
  <2>3. Carried' = 1
    <3>1. handling # Idle /\ handling' = [handling EXCEPT !.step = "status"]
      BY <1>3, AtNotIdle DEF PaySucceeds, Awaits
    <3>2. handling'.step = "status"
      BY <3>1 DEF TypeInv, ProcessInv
    <3>3. QED
      BY <3>2 DEF Carried, Paid
  <2>4. QED
    BY <1>1, <1>2, <2>1, <2>2, <2>3 DEF LossInv
<1>4. CASE SendTransaction
  <2>1. UNCHANGED <<late, faults, next>> /\ handling' = Idle
    BY <1>4 DEF SendTransaction, escrowVars
  <2>2. \/ CreditsMade' = CreditsMade /\ MergedMade' = MergedMade + 1
        \/ CreditsMade' = CreditsMade + 1 /\ MergedMade' = MergedMade
    <3> DEFINE tokens == Transaction(Handled.machine, Handled.user, PayAmount)
    <3>1. PICK u \in Users : u = Handled.user
      BY <1>4, AtNotIdle, HandledTypes DEF SendTransaction, Awaits, TypeInv, RequestMessages
    <3>2. CASE Sent(tokens)
      <4>1. UNCHANGED log /\ merged' = [merged EXCEPT ![u] = @ + 1]
        BY <1>4, <3>1, <3>2, PublishAdds DEF SendTransaction, SendTokens
      <4>2. QED
        BY <4>1, CreditMade, OneMerged
    <3>3. CASE ~Sent(tokens)
      <4>1. log' = Append(log, tokens) /\ UNCHANGED merged
        BY <1>4, <3>3, PublishAdds DEF SendTransaction, SendTokens, Adds
      <4>2. log' # log
        BY <4>1 DEF TypeInv, LogInv
      <4>3. QED
        BY <1>4, <4>1, <4>2, CreditMade DEF MergedMade
    <3>4. QED
      BY <3>2, <3>3
  <2>3. Carried = 1
    BY <1>4 DEF SendTransaction, At, Carried, Paid
  <2>4. QED
    BY <1>1, <1>2, <2>1, <2>2, <2>3 DEF LossInv
<1>5. CASE PayTimesOut
  <2>1. /\ UNCHANGED next /\ faults' = faults + 1 /\ handling' = Idle /\ Carried = 0
        /\ CreditsMade' = CreditsMade /\ MergedMade' = MergedMade
    BY <1>1, <1>2, <1>5, CreditMade DEF PayTimesOut, Fault, escrowVars, SendTransaction, At
  <2>2. Cardinality(late') \in Nat /\ Cardinality(late') <= Cardinality(late) + 1
    BY <1>5, OneGivenUp DEF PayTimesOut
  <2>3. QED
    BY <1>1, <1>2, <2>1, <2>2 DEF LossInv
<1>6. CASE Crash
  <2>1. /\ UNCHANGED <<next, log, merged>> /\ faults' = faults + 1 /\ handling' = Idle
        /\ late' = late \cup {r \in {handling.request} : handling.step = "pay"}
    BY <1>6 DEF Crash, Fault, escrowVars
  <2>2. CreditsMade' = CreditsMade /\ MergedMade' = MergedMade
    BY <2>1 DEF CreditsMade, Credits, Events, MergedMade
  <2>3. CASE handling.step = "pay"
    <3>1. Cardinality(late') \in Nat /\ Cardinality(late') <= Cardinality(late) + 1
      BY <2>1, OneGivenUp
    <3>2. QED
      BY <1>1, <1>2, <2>1, <2>2, <2>3, <3>1 DEF LossInv
  <2>4. CASE handling.step # "pay"
    <3>1. UNCHANGED late
      BY <2>1, <2>4
    <3>2. QED
      BY <1>1, <1>2, <2>1, <2>2, <3>1 DEF LossInv
  <2>5. QED
    BY <2>3, <2>4
<1>7. ASSUME NEW r \in late, LateLanding(r)
      PROVE  LossInv'
  <2>1. UNCHANGED <<log, faults, handling, merged>> /\ late' = late \ {r}
    BY <1>7 DEF LateLanding, controllerVars
  <2>2. CreditsMade' = CreditsMade /\ MergedMade' = MergedMade
    BY <2>1 DEF CreditsMade, Credits, Events, MergedMade
  <2>3. PaymentsMade' = PaymentsMade + 1
    <3>1. log[r].user \in Users
      BY EventTypes DEF TypeInv, LogInv, OutsideInv, RequestMessages
    <3>2. next' = [next EXCEPT ![log[r].user] = @ + 1]
      BY <1>7 DEF LateLanding, Pays, Charge, UseNext
    <3>3. QED
      BY <3>1, <3>2, PaymentMade
  <2>4. Cardinality(late') = Cardinality(late) - 1
    BY <2>1, LossTypes, FS_RemoveElement
  <2>5. QED
    BY <1>1, <1>2, <2>1, <2>2, <2>3, <2>4 DEF LossInv
<1>8. ASSUME ~SendTransaction, UNCHANGED <<late, next>>, faults' \in {faults, faults + 1},
             Carried' = Carried \/ Carried = 0
      PROVE  LossInv'
  <2>1. CreditsMade' = CreditsMade
    BY <1>8, CreditMade
  <2>2. QED
    BY <1>1, <1>2, <1>8, <2>1 DEF LossInv
<1>9. CASE /\ ~SendTransaction /\ UNCHANGED <<handling, late, next>>
           /\ UNCHANGED faults \/ Fault
  BY <1>2, <1>8, <1>9 DEF Fault
<1>10. CASE AcceptRequest \/ PayFails
  <2>1. Carried = 0
    BY <1>2, <1>10 DEF AcceptRequest, PayFails, Receives, At, Carried, Paid, Idle
  <2>2. ~SendTransaction /\ UNCHANGED <<late, next, faults>>
    BY <1>10 DEF AcceptRequest, PayFails, Receives, At, SendTransaction, Idle, escrowVars
  <2>3. QED
    BY <1>8, <2>1, <2>2
<1>11. CASE SendStatus
  <2>1. handling.step = "status" /\ handling' = [handling EXCEPT !.step = "transaction"]
    BY <1>11 DEF SendStatus, At
  <2>2. handling'.step = "transaction"
    BY <2>1 DEF TypeInv, ProcessInv, Idle
  <2>3. Carried' = Carried
    BY <2>1, <2>2 DEF Carried, Paid
  <2>4. ~SendTransaction /\ UNCHANGED <<late, next, faults>>
    BY <1>11, <2>1 DEF SendStatus, SendTransaction, At, escrowVars
  <2>5. QED
    BY <1>8, <2>3, <2>4
<1>12. CASE \/ PaySucceeds \/ SendTransaction \/ PayTimesOut \/ Crash \/ AcceptRequest
            \/ PayFails \/ SendStatus \/ \E r \in late : LateLanding(r)
  BY <1>3, <1>4, <1>5, <1>6, <1>7, <1>10, <1>11, <1>12
<1>13. CASE ~(\/ PaySucceeds \/ SendTransaction \/ PayTimesOut \/ Crash \/ AcceptRequest
              \/ PayFails \/ SendStatus \/ \E r \in late : LateLanding(r))
  <2>1. UNCHANGED <<handling, late, next>> /\ (UNCHANGED faults \/ Fault)
    BY <1>13 DEF Next, Tick, Requests, ControllerStep, Receive, Pay, Send, cvars, controllerVars,
       escrowVars, Ask, AdminStop, Grant, SkipRequest, HandleStatus, HandleTransaction,
       TimerFires, TimerFails, Restart, RestartRekeyed
  <2>2. QED
    BY <1>9, <1>13, <2>1
<1>14. QED
  BY <1>12, <1>13

LEMMA LossInit == Init => LossInv
<1> SUFFICES ASSUME Init PROVE LossInv
  OBVIOUS
<1>1. PaymentsMade = 0
  <2>1. \A u \in Users : next[u] = 0
    BY DEF Init
  <2>2. SumOver(next, Users) = 0 * Cardinality(Users)
    BY <2>1, UsersAssumption, SumConstant
  <2>3. QED
    BY <2>2, UsersAssumption, FS_CardinalityType DEF PaymentsMade
<1>2. Cardinality(late) = 0 /\ faults = 0 /\ Carried \in {0, 1}
  BY FS_EmptySet DEF Init, Carried
<1>3. CreditsMade \in Nat /\ MergedMade \in Nat
  BY TypeInit, LossTypes
<1>4. QED
  BY <1>1, <1>2, <1>3 DEF LossInv

LEMMA LossSafe == TypeInv /\ LossInv => LossesAreFaults
<1> SUFFICES ASSUME TypeInv, LossInv PROVE LossesAreFaults
  OBVIOUS
<1>1. Cardinality({s \in {handling.step} : s \in {"status", "transaction"}}) = Carried
  <2>1. CASE Paid
    <3>1. {s \in {handling.step} : s \in {"status", "transaction"}} = {handling.step}
      BY <2>1 DEF Paid
    <3>2. QED
      BY <2>1, <3>1, FS_Singleton DEF Carried
  <2>2. CASE ~Paid
    <3>1. {s \in {handling.step} : s \in {"status", "transaction"}} = {}
      BY <2>2 DEF Paid
    <3>2. QED
      BY <2>2, <3>1, FS_EmptySet DEF Carried
  <2>3. QED
    BY <2>1, <2>2
<1>2. PaymentsMade - CreditsMade <= faults + MergedMade + Carried
  BY LossTypes DEF LossInv
<1>3. QED
  BY <1>1, <1>2 DEF LossesAreFaults, PaymentsMade, CreditsMade, MergedMade

\* However often the process crashes, loses its key or misses an answer, users
\* together lose no more payments than there were faults, and those whose
\* Transaction is that of an equal payment in the same second.
THEOREM LossesBounded == Spec => []LossesAreFaults
BY LossInit, LossStep, LossSafe, TypesHold, PTL DEF Spec
-----------------------------------------------------------------------------
(***************************************************************************)
(* A machine that is known to work.  While the process runs, its knowledge *)
(* of a machine that works is a status of the log, and the statuses of     *)
(* later seconds are those the subscription has yet to deliver.  Recovery  *)
(* reads a status of the newest second, so none of a later one is missed;  *)
(* one that came before the start may be delivered again, but what is      *)
(* after it follows.                                                       *)
(***************************************************************************)

Known(m, i) ==
    /\ log[i].status = "Working"
    /\ \A j \in StatusEvents(m) : log[j].created_at > log[i].created_at => j > cursor

WorkingInv ==
    \A m \in Machines :
        up /\ machine[m].status = "Working" => \E i \in StatusEvents(m) : Known(m, i)

\* Publishing takes nothing from what is known.
LEMMA KnownKept ==
    ASSUME TypeInv, [Next]_cvars, UNCHANGED cursor, NEW m, NEW i \in StatusEvents(m), Known(m, i)
    PROVE  i \in StatusEvents(m)' /\ Known(m, i)'
<1>1. log \in Seq(Messages) /\ cursor \in 0..Len(log) /\ Len(log) \in Nat
  BY EventTypes DEF TypeInv, LogInv, ProcessInv
<1>2. CASE UNCHANGED log
  BY <1>2 DEF StatusEvents, Events, Known
<1>3. ASSUME NEW event \in Messages, Adds(event)
      PROVE  i \in StatusEvents(m)' /\ Known(m, i)'
  <2>1. /\ DOMAIN log = 1..Len(log)
        /\ \A j \in DOMAIN log : log'[j] = log[j]
        /\ Events("Status") \subseteq Events("Status")'
        /\ Events("Status")' \subseteq Events("Status") \cup {Len(log) + 1}
    BY <1>1, <1>3, Grows
  <2>2. \A j \in Events("Status") : log'[j] = log[j]
    BY <2>1 DEF Events
  <2>3. i \in StatusEvents(m)' /\ log'[i].status = "Working"
    BY <2>1, <2>2 DEF StatusEvents, Known
  <2>4. ASSUME NEW j \in StatusEvents(m)', log'[j].created_at > log'[i].created_at
        PROVE  j > cursor'
    <3>1. CASE j \in Events("Status")
      <4>1. i \in Events("Status")
        BY DEF StatusEvents
      <4>2. QED
        BY <2>2, <2>4, <3>1, <4>1 DEF StatusEvents, Known
    <3>2. CASE j = Len(log) + 1
      BY <1>1, <3>2
    <3>3. QED
      BY <2>1, <3>1, <3>2 DEF StatusEvents
  <2>5. QED
    BY <2>3, <2>4 DEF Known
<1>4. QED
  BY <1>2, <1>3, Publishes

\* A machine that recovery finds working is working by a status of the newest
\* second: what is under the present key comes after all that is not.
LEMMA RecoveredWorking ==
    ASSUME TypeInv, NEW m, NEW state \in Recovered(m), state.status = "Working"
    PROVE  \E i \in StatusEvents(m) :
               /\ log[i].status = "Working"
               /\ \A j \in StatusEvents(m) : ~(log[j].created_at > log[i].created_at)
<1>1. state # Fresh
  BY DEF Fresh
<1>2. PICK i \in Newest(m) : state = RecoveredFrom(i)
  BY <1>1 DEF Recovered
<1>3. log[i].kind = "Status" /\ log[i].status = "Working"
  BY <1>1, <1>2 DEF RecoveredFrom
<1>4. i \in Own(m) /\ \A j \in Own(m) : log[j].created_at <= log[i].created_at
  BY <1>2 DEF Newest
<1>5. i \in StatusEvents(m) /\ i > keyed
  BY <1>3, <1>4 DEF Own, StatusEvents, Events
<1>6. ASSUME NEW j \in StatusEvents(m), log[j].created_at > log[i].created_at
      PROVE  FALSE
  <2>1. /\ i \in DOMAIN log /\ j \in DOMAIN log /\ i \in Nat /\ j \in Nat /\ keyed \in Nat
        /\ log[i].created_at \in Nat /\ log[j].created_at \in Nat
    BY <1>5, EventTypes DEF TypeInv, LogInv, ClockInv, ProcessInv, StatusEvents, Events
  <2>2. CASE j > keyed
    <3>1. j \in Own(m)
      BY <2>2 DEF Own, StatusEvents
    <3>2. QED
      BY <1>4, <1>6, <2>1, <3>1
  <2>3. CASE ~(j > keyed)
    <3>1. j <= i
      BY <1>5, <2>1, <2>3
    <3>2. QED
      BY <1>6, <2>1, <3>1 DEF TypeInv, ClockInv
  <2>4. QED
    BY <2>2, <2>3
<1>7. QED
  BY <1>3, <1>5, <1>6

LEMMA WorkingStep == TypeInv /\ WorkingInv /\ [Next]_cvars => WorkingInv'
<1> SUFFICES ASSUME TypeInv, WorkingInv, [Next]_cvars,
                    NEW m \in Machines, up', machine'[m].status = "Working"
             PROVE  (\E i \in StatusEvents(m) : Known(m, i))'
  BY DEF WorkingInv
<1>1. /\ cursor \in Nat
      /\ \A j \in StatusEvents(m) : j \in Nat /\ log[j].kind = "Status"
  BY EventTypes DEF TypeInv, LogInv, ProcessInv, StatusEvents, Events
<1>2. CASE UNCHANGED <<up, machine, cursor>>
  BY <1>2, KnownKept DEF WorkingInv
<1>3. ASSUME UNCHANGED <<log, up>>, machine'[m] = machine[m], cursor' = cursor + 1,
             cursor + 1 \notin StatusEvents(m)
      PROVE  (\E i \in StatusEvents(m) : Known(m, i))'
  <2>1. PICK i \in StatusEvents(m) : Known(m, i)
    BY <1>3 DEF WorkingInv
  <2>2. \A j \in StatusEvents(m) :
            log[j].created_at > log[i].created_at => j > cursor + 1
    BY <1>1, <1>3, <2>1 DEF Known
  <2>3. QED
    BY <1>3, <2>1, <2>2 DEF Known, StatusEvents, Events
<1>4. CASE SkipRequest \/ AcceptRequest \/ HandleTransaction
  <2>1. log[cursor + 1].kind # "Status"
    BY <1>4 DEF SkipRequest, AcceptRequest, HandleTransaction, Receives
  <2>2. cursor + 1 \notin StatusEvents(m)
    BY <1>1, <2>1
  <2>3. QED
    BY <1>3, <1>4, <2>2 DEF SkipRequest, AcceptRequest, HandleTransaction
<1>5. CASE HandleStatus
  <2>1. /\ UNCHANGED <<log, up>> /\ cursor' = cursor + 1
        /\ cursor + 1 \in 1..Len(log) /\ Incoming.kind = "Status"
        /\ machine' = [machine EXCEPT ![Incoming.machine] =
               [status |-> Incoming.status, initial_request |-> Incoming.initial_request]]
    BY <1>1, <1>5, EventTypes DEF HandleStatus, Receives, Incoming, TypeInv, LogInv
  <2>2. CASE Incoming.machine = m
    <3>1. Incoming.status = "Working"
      BY <2>1, <2>2 DEF TypeInv, ProcessInv
    <3>2. cursor + 1 \in StatusEvents(m)
      BY <2>1, <2>2, EventTypes DEF Incoming, StatusEvents, Events, TypeInv, LogInv
    <3>3. ASSUME NEW j \in StatusEvents(m), log[j].created_at > log[cursor + 1].created_at
          PROVE  j > cursor + 1
      <4>1. /\ j \in DOMAIN log /\ cursor + 1 \in DOMAIN log /\ j \in Nat
            /\ log[j].created_at \in Nat /\ log[cursor + 1].created_at \in Nat
        BY <1>1, <3>2 DEF StatusEvents, Events, TypeInv, ClockInv
      <4>2. ~(j <= cursor + 1)
        BY <3>3, <4>1 DEF TypeInv, ClockInv
      <4>3. QED
        BY <1>1, <4>1, <4>2
    <3>4. PICK i \in StatusEvents(m) : i = cursor + 1
      BY <3>2
    <3>5. log[i].status = "Working" /\ i \in StatusEvents(m)' /\ log' = log
      BY <2>1, <3>1, <3>4 DEF Incoming, StatusEvents, Events
    <3>6. \A j \in StatusEvents(m)' : log'[j].created_at > log'[i].created_at => j > cursor'
      BY <2>1, <3>3, <3>4 DEF StatusEvents, Events
    <3>7. QED
      BY <3>5, <3>6 DEF Known
  <2>3. CASE Incoming.machine # m
    <3>1. machine'[m] = machine[m]
      BY <2>1, <2>3 DEF TypeInv, ProcessInv
    <3>2. cursor + 1 \notin StatusEvents(m)
      BY <2>3 DEF Incoming, StatusEvents
    <3>3. QED
      BY <1>3, <2>1, <3>1, <3>2
  <2>4. QED
    BY <2>2, <2>3
<1>6. CASE Restart
  <2>1. machine'[m] \in Recovered(m) /\ UNCHANGED log
    BY <1>6 DEF Restart
  <2>2. QED
    BY <2>1, RecoveredWorking DEF Known, StatusEvents, Events
<1>7. CASE RestartRekeyed
  BY <1>7 DEF RestartRekeyed, TypeInv, ProcessInv, Fresh
<1>8. CASE Crash
  BY <1>8 DEF Crash
<1>9. QED
  BY <1>2, <1>4, <1>5, <1>6, <1>7, <1>8
  DEF Next, Tick, Requests, ControllerStep, Receive, Pay, Send, cvars, controllerVars,
      Ask, AdminStop, PaySucceeds, PayFails, PayTimesOut, SendStatus, SendTransaction,
      TimerFires, TimerFails, LateLanding

LEMMA WorkingInit == Init => WorkingInv
BY DEF Init, WorkingInv, Fresh

LEMMA WorkingSafe == TypeInv /\ WorkingInv => NeverWorkingAfterStop
<1> SUFFICES ASSUME TypeInv, WorkingInv, NEW m \in Machines,
                    up, cursor = Len(log), machine[m].status = "Working"
             PROVE  \E i \in StatusEvents(m) :
                        /\ log[i].status = "Working"
                        /\ \A j \in StatusEvents(m) : log[j].created_at <= log[i].created_at
  BY DEF NeverWorkingAfterStop
<1>1. PICK i \in StatusEvents(m) : Known(m, i)
  BY DEF WorkingInv
<1>2. \A j \in StatusEvents(m) : j \in 1..Len(log) /\ log[j].created_at \in Nat
  BY EventTypes DEF TypeInv, LogInv, ClockInv, StatusEvents, Events
<1>3. Len(log) \in Nat
  BY EventTypes DEF TypeInv, LogInv
<1>4. \A j \in StatusEvents(m) : log[j].created_at <= log[i].created_at
  BY <1>1, <1>2, <1>3 DEF Known
<1>5. QED
  BY <1>1, <1>4 DEF Known

\* A controller that has caught up with the relay does not take a machine for
\* working when a later second has a status that says it is available, whatever
\* it missed while it was down and under whatever key it comes back.
THEOREM WorkingIsLast == Spec => []NeverWorkingAfterStop
BY WorkingInit, WorkingStep, WorkingSafe, TypesHold, PTL DEF Spec

-----------------------------------------------------------------------------
(***************************************************************************)
(* The chain.  Escrow is what BalancePayment implements, so this is where  *)
(* the controller and the program meet.                                    *)
(***************************************************************************)

\* A user signs, or one request is paid.
ChainStep == \E u \in Users : Grant(u) \/ Charge(u, PayAmount)

LEMMA ChainStepEscrow == ChainStep => EscrowNext
BY ControllerAssumption DEF ChainStep, EscrowNext

LEMMA RequestUsers ==
    ASSUME TypeInv, NEW r \in Events("Request")
    PROVE  log[r].user \in Users
BY EventTypes DEF TypeInv, LogInv, RequestMessages

LEMMA ControllerMoves ==
    ASSUME TypeInv, ControllerStep
    PROVE  ChainStep \/ UNCHANGED escrowVars
<1>1. CASE PaySucceeds
  <2>1. handling.request \in Events("Request")
    BY <1>1 DEF PaySucceeds, At, Idle, TypeInv, ProcessInv
  <2>2. Handled.user \in Users
    BY <2>1, RequestUsers DEF Handled
  <2>3. QED
    BY <1>1, <2>2 DEF PaySucceeds, Pays, ChainStep
<1>2. ASSUME NEW r \in late, LateLanding(r) PROVE ChainStep
  <2>1. log[r].user \in Users
    BY RequestUsers DEF TypeInv, OutsideInv
  <2>2. QED
    BY <1>2, <2>1 DEF LateLanding, Pays, ChainStep
<1>3. QED
  BY <1>1, <1>2
  DEF ControllerStep, Receive, Pay, Send, SkipRequest, AcceptRequest, HandleStatus,
      HandleTransaction, PayFails, PayTimesOut, SendStatus, SendTransaction, TimerFires,
      TimerFails, Crash, Restart, RestartRekeyed

\* Over crashes, restarts and payments that land late, nothing happens on chain
\* but what an escrow allows: users grant authorisations, and the controller
\* takes its price against one of them.  It never locks or settles.
THEOREM ChargesInEscrow == Spec => [][ChainStep]_escrowVars /\ [][EscrowNext]_escrowVars
<1>1. TypeInv /\ [Next]_cvars => [ChainStep]_escrowVars
  BY ControllerMoves DEF Next, Tick, Requests, Ask, AdminStop, ChainStep, cvars
<1>2. [ChainStep]_escrowVars => [EscrowNext]_escrowVars
  BY ChainStepEscrow
<1>3. QED
  BY <1>1, <1>2, TypesHold, PTL DEF Spec
=============================================================================
